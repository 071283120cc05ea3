---------------------------- MODULE ImportProofs ----------------------------
(***************************************************************************)
(* That importing a file again adds nothing, that an entry the shell dated *)
(* is in the history once, that the undated keep their order and, between  *)
(* their dated neighbours, their date, and that no secret is stored: for   *)
(* any texts, rules, clock and number of entries.                          *)
(***************************************************************************)
EXTENDS ImportProperties, FiniteSetTheorems, SequenceTheorems, TLAPS

\* The id an entry of the file f has.
IdIn(f, e) == [shell |-> Sniff(f), at |-> e.at, text |-> Apply(e.text)]

Read(f, m) == Kept(Parse(f, m), Len(Parse(f, m)))

\* What a whole import read is in the store, whatever the shell has done to the
\* file since: events are not taken out.
ReadInv ==
  imported = << >> \/ \E f, m : imported = <<f, m>> /\ \A e \in Read(f, m) : IdIn(f, e) \in store

\* Every step keeps what was read in the store.
LEMMA NextRead ==
  ASSUME ReadInv, [Next]_vars
  PROVE  ReadInv'
<1>1. ASSUME UNCHANGED imported, store \subseteq store' PROVE ReadInv'
  BY <1>1 DEF ReadInv
<1>2. CASE Import
  <2>1. PICK k : /\ store' = store \cup {Id(e) : e \in Kept(Entries, k)}
                /\ imported' = IF k = Len(Entries) THEN <<file, mtime>> ELSE imported
    BY <1>2 DEF Import
  <2>2. CASE k = Len(Entries)
    <3>1. Kept(Entries, k) = Read(file, mtime)
      BY <2>2 DEF Read, Entries
    <3>2. \A e \in Read(file, mtime) : IdIn(file, e) \in store'
      BY <2>1, <3>1 DEF Id, IdIn
    <3> QED BY <2>1, <2>2, <3>2 DEF ReadInv
  <2> QED BY <1>1, <2>1, <2>2
<1> QED BY <1>1, <1>2 DEF Next, Write, Trim, SwitchOn, SwitchOff, Tick, vars, events

\* Importing a file that is what it was when it was last imported whole adds
\* nothing (histimport.go: ids come from the content), whatever was written
\* and trimmed in between.
THEOREM ReimportAddsNothing == Spec => []SecondAddsNothing
<1>1. Init => ReadInv
  BY DEF Init, ReadInv
<1>2. ASSUME ReadInv PROVE SecondAddsNothing
  <2> SUFFICES ASSUME imported = <<file, mtime>> PROVE WouldAdd = {}
    BY DEF SecondAddsNothing
  <2>1. \A e \in Read(file, mtime) : IdIn(file, e) \in store
    BY <1>2 DEF ReadInv
  <2>2. \A i \in 1..Len(Entries) : ~Skipped(Entries[i]) => Entries[i] \in Read(file, mtime)
    BY DEF Read, Kept, Entries
  <2> QED BY <2>1, <2>2 DEF WouldAdd, Id, IdIn
<1> QED BY <1>1, <1>2, NextRead, PTL DEF Spec

----------------------------------------------------------------------------
(* Numbers.                                                                *)

\* Every non-empty set of naturals has a least element.
LEMMA LeastNat ==
  ASSUME NEW T \in SUBSET Nat, T # {}
  PROVE  \E n \in T : \A m \in T : n <= m
<1>1. PICK x \in T : \A y \in T : ~(<<y, x>> \in OpToRel(<, Nat))
  BY NatLessThanWellFounded, WFMin, Zenon
<1>2. \A y \in T : ~(y < x)
  BY <1>1 DEF OpToRel
<1> QED BY <1>2

\* Min and Max are what they are called.
LEMMA LeastOf ==
  ASSUME NEW T \in SUBSET Nat, T # {}
  PROVE  Min(T) \in T /\ \A m \in T : Min(T) <= m
<1>1. \E n \in T : \A m \in T : n <= m
  BY LeastNat
<1> QED BY <1>1 DEF Min

\* A non-empty set of naturals with a bound has a greatest element.
LEMMA GreatestOf ==
  ASSUME NEW b \in Nat, NEW T \in SUBSET (0..b), T # {}
  PROVE  Max(T) \in T /\ \A m \in T : m <= Max(T)
<1> DEFINE D == {b - m : m \in T}
<1>1. D \in SUBSET Nat /\ D # {}
  <2>1. \A m \in T : b - m \in Nat
    OBVIOUS
  <2> QED BY <2>1
<1>2. PICK d \in D : \A e \in D : d <= e
  <2> HIDE DEF D
  <2> QED BY <1>1, LeastNat
<1>3. PICK n \in T : d = b - n
  BY <1>2
<1>4. \A m \in T : n >= m
  <2> TAKE m \in T
  <2>1. b - m \in D
    OBVIOUS
  <2>2. d <= b - m
    BY <1>2, <2>1
  <2> QED BY <1>3, <2>2
<1>5. \E k \in T : \A m \in T : k >= m
  BY <1>4
<1>6. Max(T) \in T /\ \A m \in T : Max(T) >= m
  BY <1>5 DEF Max
<1> QED BY <1>6

\* Division with a remainder, and what a factor does to an order and to a sum.
LEMMA Division ==
  ASSUME NEW a \in Int, NEW b \in Nat, b > 0
  PROVE  a \div b \in Int /\ (a \div b) * b <= a /\ a < (a \div b) * b + b
  OBVIOUS

\* A factor keeps an order.
LEMMA Times ==
  ASSUME NEW a \in Int, NEW b \in Int, NEW c \in Nat, a <= b
  PROVE  a * c \in Int /\ b * c \in Int /\ a * c <= b * c
  OBVIOUS

\* A factor of a sum and of a difference.
LEMMA Distributes ==
  ASSUME NEW a \in Int, NEW b \in Int, NEW c \in Int
  PROVE  (a + b) * c = a * c + b * c /\ (a - b) * c = a * c - b * c /\ a * c = c * a /\ a * c \in Int
  OBVIOUS

\* A millisecond has nanoseconds.
LEMMA NanosTyped == Nanos \in Nat \ {0}
BY SMT DEF Nanos

\* Shares of a gap of d milliseconds among p parts: in nanoseconds each has
\* at least a million, so rounded to milliseconds they still grow, and none but
\* the last reaches the end.
LEMMA Shares ==
  ASSUME NEW d \in Int, NEW p \in Nat \ {0}, d >= p,
         NEW k \in 1..(p - 1)
  PROVE  LET s == (d * Nanos) \div p
         IN  /\ (k * s) \div Nanos \in 1..(d - 1)
             /\ \A l \in (k + 1)..(p - 1) : (k * s) \div Nanos < (l * s) \div Nanos
<1> DEFINE N == Nanos
           s == (d * N) \div p
<1>0. N \in Nat /\ N > 0
  BY NanosTyped
<1> HIDE DEF N
<1>1. s \in Int /\ s * p <= d * N /\ d * N < s * p + p
  <2>1. d * N \in Int
    BY <1>0
  <2> QED BY <2>1, Division
<1> HIDE DEF N, s
<1>2. s >= N
  <2> SUFFICES ASSUME s < N PROVE FALSE
    BY <1>0, <1>1
  <2>1. (s + 1) * p <= N * p
    BY <1>0, <1>1, Times
  <2>2. (s + 1) * p = s * p + p
    BY <1>1, Distributes
  <2>3. p * N <= d * N
    BY <1>0, Times
  <2>4. p * N = N * p
    BY <1>0, Distributes
  <2> QED BY <1>0, <1>1, <2>1, <2>2, <2>3, <2>4
<1>3. ASSUME NEW m \in 1..(p - 1)
      PROVE  /\ m * s \in Int /\ m * s >= N /\ m * s <= d * N - N /\ m * s \in Nat
  <2>1. m * s \in Int /\ s * 1 <= s * m /\ s * m = m * s
    <3>1. 1 * s <= m * s
      BY <1>0, <1>1, <1>2, Times
    <3> QED BY <1>1, <3>1, Distributes
  <2>2. m * s <= (p - 1) * s
    BY <1>0, <1>1, <1>2, Times
  <2>3. (p - 1) * s = s * p - s
    BY <1>1, Distributes
  <2> QED BY <1>0, <1>1, <1>2, <2>1, <2>2, <2>3
<1>4. ASSUME NEW m \in 1..(p - 1) PROVE (m * s) \div N \in 1..(d - 1)
  <2>1. /\ (m * s) \div N \in Int
        /\ ((m * s) \div N) * N <= m * s /\ m * s < ((m * s) \div N) * N + N
    BY <1>0, <1>3, Division
  <2> DEFINE q == (m * s) \div N
  <2> HIDE DEF q
  <2>2. q \in Int /\ q * N < d * N /\ q * N > 0
    BY <1>0, <1>3, <2>1 DEF q
  <2>3. q < d /\ q >= 1
    <3>1. q >= d => d * N <= q * N
      BY <1>0, <2>2, Times
    <3>2. q <= 0 => q * N <= 0 * N
      BY <1>0, <2>2, Times
    <3> QED BY <1>0, <2>2, <3>1, <3>2
  <2> QED BY <2>2, <2>3 DEF q
<1>5. ASSUME NEW l \in (k + 1)..(p - 1) PROVE (k * s) \div N < (l * s) \div N
  <2>1. k * s + N <= l * s
    <3>1. (k + 1) * s <= l * s
      BY <1>0, <1>1, <1>2, Times
    <3>2. (k + 1) * s = k * s + s
      BY <1>1, Distributes
    <3> QED BY <1>0, <1>1, <1>2, <1>3, <3>1, <3>2
  <2>2. /\ (k * s) \div N \in Int
        /\ ((k * s) \div N) * N <= k * s
    BY <1>0, <1>3, Division
  <2>3. /\ (l * s) \div N \in Int
        /\ l * s < ((l * s) \div N) * N + N
    <3>1. l \in 1..(p - 1) /\ l * s \in Int
      BY <1>3
    <3> QED BY <1>0, <3>1, Division
  <2> DEFINE q == (k * s) \div N
             r == (l * s) \div N
  <2> HIDE DEF q, r
  <2>4. q \in Int /\ r \in Int /\ q * N < r * N
    BY <1>0, <1>3, <2>1, <2>2, <2>3 DEF q, r
  <2>5. q < r
    <3>1. r <= q => r * N <= q * N
      BY <1>0, <2>4, Times
    <3> QED BY <1>0, <2>4, <3>1
  <2> QED BY <2>5 DEF q, r
<1> QED BY <1>4, <1>5 DEF s, N

----------------------------------------------------------------------------
(* The scan of a parser: what a recursive function on positions computes.  *)

\* Induction, on a set of numbers rather than on a predicate.
LEMMA CountUp ==
  ASSUME NEW T \in SUBSET Nat, 0 \in T, \A n \in T : n + 1 \in T
  PROVE  T = Nat
<1> SUFFICES ASSUME T # Nat PROVE FALSE
  OBVIOUS
<1> DEFINE U == Nat \ T
<1>1. U \in SUBSET Nat /\ U # {}
  OBVIOUS
<1>2. PICK n \in U : \A m \in U : n <= m
  <2> HIDE DEF U
  <2> QED BY <1>1, LeastNat
<1>3. n - 1 \in Nat /\ n - 1 \in T
  <2>1. n # 0 /\ n \in Nat
    BY <1>2
  <2>2. n - 1 \notin U
    <3> SUFFICES ASSUME n - 1 \in U PROVE FALSE
      OBVIOUS
    <3>1. n <= n - 1
      BY <1>2
    <3> QED BY <2>1, <3>1
  <2> QED BY <2>1, <2>2
<1>4. n - 1 + 1 \in T
  BY <1>3
<1> QED BY <1>2, <1>3, <1>4

\* From the positions D a scan finds nothing but V and goes on within D.
Finds(g, D, V) ==
  \A i \in D :
    \/ g[i] = << >>
    \/ \E j \in D : j > i /\ (g[i] = g[j] \/ \E v \in V : g[i] = <<v>> \o g[j])

\* What a scan finds is made of what it finds at each position.
LEMMA ScanStays ==
  ASSUME NEW N \in Nat, NEW V, NEW D \in SUBSET (1..(N + 1)), NEW g, Finds(g, D, V)
  PROVE  \A i \in D : g[i] \in Seq(V)
<1> SUFFICES ASSUME NEW i0 \in D, g[i0] \notin Seq(V) PROVE FALSE
  OBVIOUS
<1> DEFINE Bad == {i \in D : g[i] \notin Seq(V)}
<1>1. Bad \in SUBSET (0..(N + 1)) /\ Bad # {}
  <2>1. i0 \in Bad
    OBVIOUS
  <2>2. D \subseteq 0..(N + 1)
    OBVIOUS
  <2> QED BY <2>1, <2>2
<1>2. PICK i \in Bad : \A m \in Bad : m <= i
  <2>1. N + 1 \in Nat
    OBVIOUS
  <2> HIDE DEF Bad
  <2> QED BY <1>1, <2>1, GreatestOf
<1>3. i \in D /\ g[i] \notin Seq(V) /\ i \in Nat
  BY <1>2
<1>4. g[i] # << >>
  <2>1. << >> \in Seq(V)
    OBVIOUS
  <2> QED BY <1>3, <2>1, Zenon
<1>5. PICK j \in D : j > i /\ (g[i] = g[j] \/ \E v \in V : g[i] = <<v>> \o g[j])
  BY <1>3, <1>4 DEF Finds
<1>6. j \notin Bad
  <2> SUFFICES ASSUME j \in Bad PROVE FALSE
    OBVIOUS
  <2>1. j <= i /\ j \in Nat
    BY <1>2
  <2> QED BY <1>3, <1>5, <2>1
<1>7. g[j] \in Seq(V)
  BY <1>6
<1>8. ASSUME NEW v \in V PROVE <<v>> \o g[j] \in Seq(V)
  BY <1>7
<1> QED BY <1>3, <1>5, <1>7, <1>8, Zenon

\* A scan that reads head[i] at i, or skips i, and goes on at next[i].
IsScan(g, N, head, skip, next) ==
  \A i \in 1..(N + 1) :
    g[i] = IF i > N THEN << >>
           ELSE IF i \in skip THEN g[next[i]]
           ELSE <<head[i]>> \o g[next[i]]

\* There is a scan, whatever is read: it goes on further down.
LEMMA ScanExists ==
  ASSUME NEW N \in Nat, NEW V, NEW head \in [1..N -> V], NEW skip,
         NEW next \in [1..N -> Nat], \A i \in 1..N : next[i] \in (i + 1)..(N + 1)
  PROVE  \E g \in [1..(N + 1) -> Seq(V)] : IsScan(g, N, head, skip, next)
<1> DEFINE Value(g, i) == IF i > N THEN << >>
                          ELSE IF i \in skip THEN g[next[i]]
                          ELSE <<head[i]>> \o g[next[i]]
           Good(m, g) == \A i \in (N + 1 - m)..(N + 1) : i >= 1 => g[i] = Value(g, i) /\ g[i] \in Seq(V)
           T == {m \in Nat : \E g : Good(m, g)}
<1>1. 0 \in T
  <2> DEFINE g == [i \in 1..(N + 1) |-> << >>]
  <2>1. Good(0, g)
    <3> SUFFICES ASSUME NEW i \in (N + 1 - 0)..(N + 1)
                 PROVE  g[i] = Value(g, i) /\ g[i] \in Seq(V)
      OBVIOUS
    <3>1. i = N + 1 /\ i \in 1..(N + 1) /\ i > N
      OBVIOUS
    <3>2. g[i] = << >> /\ << >> \in Seq(V)
      BY <3>1
    <3>3. Value(g, i) = << >>
      BY <3>1
    <3> QED BY <3>2, <3>3
  <2> QED BY <2>1
<1>2. ASSUME NEW m \in T PROVE m + 1 \in T
  <2>1. PICK g : Good(m, g)
    BY <1>2
  <2> DEFINE p == N + 1 - (m + 1)
             h == [i \in p..(N + 1) |-> IF i = p THEN Value(g, p) ELSE g[i]]
  <2>2. m \in Nat /\ p \in Int /\ p + 1 = N + 1 - m
    BY <1>2
  <2>3. ASSUME NEW i \in p..(N + 1), i # p PROVE h[i] = g[i] /\ i \in (N + 1 - m)..(N + 1)
    BY <2>2, <2>3
  <2>4. ASSUME NEW i \in p..(N + 1), i >= 1 PROVE h[i] = Value(h, i) /\ h[i] \in Seq(V)
    <3>1. Value(h, i) = Value(g, i)
      <4>1. CASE i > N
        BY <4>1
      <4>2. CASE i <= N
        <5>1. i \in 1..N /\ next[i] \in (i + 1)..(N + 1)
          BY <2>2, <2>4, <4>2
        <5>2. next[i] \in p..(N + 1) /\ next[i] # p
          BY <2>2, <5>1
        <5>3. h[next[i]] = g[next[i]]
          BY <2>3, <5>2
        <5> QED BY <5>3
      <4> QED BY <2>2, <2>4, <4>1, <4>2
    <3>2. h[i] = Value(g, i)
      <4>1. CASE i = p
        BY <4>1
      <4>2. CASE i # p
        <5>1. h[i] = g[i] /\ i \in (N + 1 - m)..(N + 1)
          BY <2>3, <4>2
        <5> QED BY <2>1, <2>4, <5>1
      <4> QED BY <4>1, <4>2
    <3>3. Value(g, i) \in Seq(V)
      <4>1. CASE i > N
        BY <4>1
      <4>2. CASE i <= N
        <5>1. i \in 1..N /\ next[i] \in (i + 1)..(N + 1)
          BY <2>2, <2>4, <4>2
        <5>2. next[i] \in (N + 1 - m)..(N + 1) /\ next[i] >= 1
          BY <2>2, <5>1
        <5>3. g[next[i]] \in Seq(V)
          BY <2>1, <5>2
        <5>5. head[i] \in V /\ ~(i > N)
          BY <5>1
        <5>4. <<head[i]>> \o g[next[i]] \in Seq(V)
          BY <5>3, <5>5
        <5> QED BY <5>3, <5>4, <5>5
      <4> QED BY <2>2, <2>4, <4>1, <4>2
    <3> QED BY <3>1, <3>2, <3>3
  <2>5. Good(m + 1, h)
    BY <2>4
  <2>6. m + 1 \in Nat
    BY <2>2
  <2> HIDE DEF Good, h
  <2> QED BY <2>5, <2>6
<1>3. T = Nat
  <2>1. T \in SUBSET Nat
    OBVIOUS
  <2> HIDE DEF T
  <2> QED BY <1>1, <1>2, <2>1, CountUp
<1>4. PICK g : Good(N, g)
  <2>1. N \in T
    BY <1>3
  <2> QED BY <2>1
<1> DEFINE h == [i \in 1..(N + 1) |-> g[i]]
<1>5. ASSUME NEW i \in 1..(N + 1) PROVE g[i] = Value(g, i) /\ g[i] \in Seq(V)
  BY <1>4
<1>6. h \in [1..(N + 1) -> Seq(V)]
  BY <1>5
<1>7. ASSUME NEW i \in 1..(N + 1) PROVE h[i] = Value(h, i)
  <2>1. h[i] = Value(g, i)
    BY <1>5
  <2>2. i <= N => next[i] \in 1..(N + 1)
    OBVIOUS
  <2>3. i <= N => h[next[i]] = g[next[i]]
    BY <2>2
  <2> QED BY <2>1, <2>3
<1> QED BY <1>6, <1>7 DEF IsScan

----------------------------------------------------------------------------
(* The kinds of what is read.                                              *)

Forms == {"stamp", "header", "cmd", "when", "plain"}

LineType  == [form : Forms, at : Nat, text : Text \cup {""}, more : BOOLEAN, n : Nat]
PieceType == [form : Forms, at : Nat, text : Text \cup {""}, more : BOOLEAN]
EntryType == [text : Seq(PieceType), at : Nat, approximate : {FALSE}, n : Nat]

\* What a line, a piece of a text and an entry are.
LEMMA LineTyped ==
  ASSUME NEW f \in Seq(LineType), NEW i \in 1..Len(f)
  PROVE  /\ f[i] \in LineType
         /\ f[i].form \in Forms /\ f[i].at \in Nat /\ f[i].text \in Text \cup {""}
         /\ f[i].more \in BOOLEAN /\ f[i].n \in Nat
<1>1. f[i] \in LineType
  OBVIOUS
<1> QED BY <1>1 DEF LineType

\* So is a piece of a text.
LEMMA PieceTyped ==
  ASSUME NEW l \in LineType, NEW bare \in BOOLEAN
  PROVE  Piece(l, bare) \in PieceType
BY DEF Piece, PieceType, LineType, Forms

\* An entry ends in the file, and every line before its last goes on.
LEMMA LastLineIn ==
  ASSUME NEW f \in Seq(LineType), NEW i \in 1..Len(f)
  PROVE  /\ LastLine(f, i) \in i..Len(f)
         /\ f[LastLine(f, i)].more => LastLine(f, i) = Len(f)
         /\ \A j \in i..Len(f) : j < LastLine(f, i) => f[j].more
<1> DEFINE T == {j \in i..Len(f) : ~f[j].more \/ j = Len(f)}
<1>1. Len(f) \in T /\ T \in SUBSET Nat
  OBVIOUS
<1>2. Min(T) \in T /\ \A m \in T : Min(T) <= m
  <2> HIDE DEF T
  <2> QED BY <1>1, LeastOf
<1>3. Min(T) = LastLine(f, i)
  BY DEF LastLine
<1>4. LastLine(f, i) \in T /\ \A m \in T : LastLine(f, i) <= m
  BY <1>2, <1>3
<1> DEFINE last == LastLine(f, i)
<1>5. last \in i..Len(f) /\ (~f[last].more \/ last = Len(f))
  BY <1>4
<1>6. ASSUME NEW j \in i..Len(f), j < last PROVE f[j].more
  <2>1. j \notin T
    <3> SUFFICES ASSUME j \in T PROVE FALSE
      OBVIOUS
    <3>1. last <= j
      BY <1>4
    <3> QED BY <1>5, <1>6, <3>1
  <2> QED BY <2>1
<1> QED BY <1>5, <1>6

\* An entry that begins in the file is one.
LEMMA EntryTyped ==
  ASSUME NEW f \in Seq(LineType), NEW i \in 1..Len(f), NEW bare \in BOOLEAN, NEW at \in Nat
  PROVE  Entry(f, i, bare, at) \in EntryType
<1> DEFINE last == LastLine(f, i)
           text == [k \in 1..(last - i + 1) |-> Piece(f[i + k - 1], bare /\ k = 1)]
<1>1. last \in i..Len(f)
  BY LastLineIn
<1>2. ASSUME NEW k \in 1..(last - i + 1) PROVE Piece(f[i + k - 1], bare /\ k = 1) \in PieceType
  <2>1. i + k - 1 \in 1..Len(f)
    BY <1>1
  <2> QED BY <2>1, LineTyped, PieceTyped
<1>3. text \in Seq(PieceType)
  <2>1. last - i + 1 \in Nat
    BY <1>1
  <2> QED BY <1>2, <2>1, SMTT(30)
<1>4. at * Second \in Nat
  BY ImportConstants
<1>5. f[i].n \in Nat
  BY LineTyped
<1> QED BY <1>3, <1>4, <1>5 DEF Entry, EntryType

\* The entry each reader takes from line i.
BashEntry(f, i) == Entry(f, i, FALSE, Pending(f, i))

ZshEntry(f, i) ==
  IF f[i].form = "header" THEN Entry(f, i, TRUE, f[i].at) ELSE Entry(f, i, FALSE, 0)

FishEntry(f, i) ==
  [text  |-> <<Piece(f[i], TRUE)>>,
   at    |-> IF Dates(f, i) = {} THEN 0 ELSE f[Max(Dates(f, i))].at * Second,
   approximate |-> FALSE,
   n     |-> f[i].n]

BashScan(f) ==
  CHOOSE g : g = [i \in 1..(Len(f) + 1) |->
    IF i > Len(f) THEN << >>
    ELSE IF f[i].form = "stamp" THEN g[i + 1]
    ELSE <<BashEntry(f, i)>> \o g[LastLine(f, i) + 1]]

ZshScan(f) ==
  CHOOSE g : g = [i \in 1..(Len(f) + 1) |->
    IF i > Len(f) THEN << >>
    ELSE <<ZshEntry(f, i)>> \o g[LastLine(f, i) + 1]]

FishScan(f) ==
  CHOOSE g : g = [i \in 1..(Len(f) + 1) |->
    IF i > Len(f) THEN << >>
    ELSE IF f[i].form # "cmd" THEN g[i + 1]
    ELSE <<FishEntry(f, i)>> \o g[i + 1]]

\* The parsers are these scans.
LEMMA ReadersScan ==
  ASSUME NEW f
  PROVE  /\ ParseBash(f) = BashScan(f)[1]
         /\ ParseZsh(f) = ZshScan(f)[1]
         /\ ParseFish(f) = FishScan(f)[1]
<1>1. ParseBash(f) = BashScan(f)[1]
  BY Zenon DEF ParseBash, BashScan, BashEntry
<1>2. ParseZsh(f) = ZshScan(f)[1]
  BY Zenon DEF ParseZsh, ZshScan, ZshEntry
<1>3. ParseFish(f) = FishScan(f)[1]
  BY Zenon DEF ParseFish, FishScan, FishEntry
<1> QED BY <1>1, <1>2, <1>3

\* A stamp, and what every reader takes from a line, are of their kind.
LEMMA PendingTyped ==
  ASSUME NEW f \in Seq(LineType), NEW i \in 1..Len(f)
  PROVE  Pending(f, i) \in Nat
<1>1. CASE i > 1
  <2>1. f[i - 1] \in LineType
    BY <1>1
  <2> QED BY <2>1 DEF Pending, LineType
<1>2. CASE i <= 1
  BY <1>2 DEF Pending
<1> QED BY <1>1, <1>2

\* And what fish's reader takes.
LEMMA FishEntryTyped ==
  ASSUME NEW f \in Seq(LineType), NEW i \in 1..Len(f)
  PROVE  FishEntry(f, i) \in EntryType
<1>1. <<Piece(f[i], TRUE)>> \in Seq(PieceType)
  <2>1. f[i] \in LineType
    BY LineTyped
  <2>2. Piece(f[i], TRUE) \in PieceType
    BY <2>1, PieceTyped
  <2>3. ASSUME NEW p \in PieceType PROVE <<p>> \in Seq(PieceType)
    OBVIOUS
  <2> QED BY <2>2, <2>3, Zenon
<1>2. ASSUME Dates(f, i) # {} PROVE f[Max(Dates(f, i))].at * Second \in Nat
  <2>1. Dates(f, i) \subseteq 1..Len(f)
    BY DEF Dates
  <2>4. Len(f) \in Nat /\ Dates(f, i) \in SUBSET (0..Len(f))
    BY <2>1
  <2>5. Max(Dates(f, i)) \in Dates(f, i)
    BY <1>2, <2>4, GreatestOf
  <2>2. Max(Dates(f, i)) \in 1..Len(f)
    BY <2>1, <2>5
  <2>3. f[Max(Dates(f, i))].at \in Nat
    BY <2>2, LineTyped
  <2> QED BY <2>3, ImportConstants
<1>3. f[i].n \in Nat
  BY LineTyped
<1> QED BY <1>1, <1>2, <1>3 DEF FishEntry, EntryType

\* What each reader takes from a line is an entry.
LEMMA EntriesTyped ==
  ASSUME NEW f \in Seq(LineType), NEW i \in 1..Len(f)
  PROVE  /\ BashEntry(f, i) \in EntryType
         /\ ZshEntry(f, i) \in EntryType
         /\ FishEntry(f, i) \in EntryType
<1>1. BashEntry(f, i) \in EntryType
  BY PendingTyped, EntryTyped DEF BashEntry
<1>2. ZshEntry(f, i) \in EntryType
  <2>1. f[i].at \in Nat
    BY LineTyped
  <2> QED BY <2>1, EntryTyped DEF ZshEntry
<1> QED BY <1>1, <1>2, FishEntryTyped

\* The recursive definitions have a solution, so each parser is what its equation
\* says.
LEMMA BashEquation ==
  ASSUME NEW f \in Seq(LineType)
  PROVE  BashScan(f) = [i \in 1..(Len(f) + 1) |->
    IF i > Len(f) THEN << >>
    ELSE IF f[i].form = "stamp" THEN BashScan(f)[i + 1]
    ELSE <<BashEntry(f, i)>> \o BashScan(f)[LastLine(f, i) + 1]]
<1> DEFINE N == Len(f)
           head == [i \in 1..N |-> BashEntry(f, i)]
           skip == {i \in 1..N : f[i].form = "stamp"}
           next == [i \in 1..N |-> IF i \in skip THEN i + 1 ELSE LastLine(f, i) + 1]
<1>1. N \in Nat /\ head \in [1..N -> EntryType]
  BY EntriesTyped
<1>2. next \in [1..N -> Nat] /\ \A i \in 1..N : next[i] \in (i + 1)..(N + 1)
  <2>1. ASSUME NEW i \in 1..N PROVE LastLine(f, i) \in i..N
    BY LastLineIn
  <2> QED BY <2>1
<1>3. PICK g \in [1..(N + 1) -> Seq(EntryType)] : IsScan(g, N, head, skip, next)
  <2> HIDE DEF head, skip, next, N
  <2> QED BY <1>1, <1>2, ScanExists
<1> DEFINE Value(i) == IF i > N THEN << >>
    ELSE IF f[i].form = "stamp" THEN g[i + 1]
    ELSE <<BashEntry(f, i)>> \o g[LastLine(f, i) + 1]
<1>4. ASSUME NEW i \in 1..(N + 1) PROVE g[i] = Value(i)
  <2>1. CASE i > N
    BY <1>3, <2>1 DEF IsScan
  <2>2. CASE i <= N
    <3>1. i \in 1..N /\ ~(i > N)
      BY <2>2
    <3>2. g[i] = IF i \in skip THEN g[next[i]] ELSE <<head[i]>> \o g[next[i]]
      <4> HIDE DEF head, next, skip
      <4> QED BY <1>3, <3>1 DEF IsScan
    <3>3. CASE i \in skip
      <4>1. g[i] = g[next[i]]
        <5> HIDE DEF head, next, skip
        <5> QED BY <3>2, <3>3
      <4> QED BY <3>1, <3>3, <4>1
    <3>4. CASE i \notin skip
      <4>1. g[i] = <<head[i]>> \o g[next[i]]
        <5> HIDE DEF head, next, skip
        <5> QED BY <3>2, <3>4
      <4> QED BY <3>1, <3>4, <4>1
    <3> QED BY <3>3, <3>4
  <2> QED BY <2>1, <2>2
<1>5. g = [i \in 1..(N + 1) |-> Value(i)]
  <2>1. g = [i \in 1..(N + 1) |-> g[i]]
    BY <1>3
  <2> QED BY <1>4, <2>1
<1>6. \E h : h = [i \in 1..(Len(f) + 1) |->
    IF i > Len(f) THEN << >>
    ELSE IF f[i].form = "stamp" THEN h[i + 1]
    ELSE <<BashEntry(f, i)>> \o h[LastLine(f, i) + 1]]
  BY <1>5, Zenon
<1> QED BY <1>6, Zenon DEF BashScan

\* The same for zsh.
LEMMA ZshEquation ==
  ASSUME NEW f \in Seq(LineType)
  PROVE  ZshScan(f) = [i \in 1..(Len(f) + 1) |->
    IF i > Len(f) THEN << >>
    ELSE <<ZshEntry(f, i)>> \o ZshScan(f)[LastLine(f, i) + 1]]
<1> DEFINE N == Len(f)
           head == [i \in 1..N |-> ZshEntry(f, i)]
           skip == {i \in 1..N : FALSE}
           next == [i \in 1..N |-> LastLine(f, i) + 1]
<1>1. N \in Nat /\ head \in [1..N -> EntryType]
  BY EntriesTyped
<1>2. next \in [1..N -> Nat] /\ \A i \in 1..N : next[i] \in (i + 1)..(N + 1)
  <2>1. ASSUME NEW i \in 1..N PROVE LastLine(f, i) \in i..N
    BY LastLineIn
  <2> QED BY <2>1
<1>3. PICK g \in [1..(N + 1) -> Seq(EntryType)] : IsScan(g, N, head, skip, next)
  <2> HIDE DEF head, skip, next, N
  <2> QED BY <1>1, <1>2, ScanExists
<1> DEFINE Value(i) == IF i > N THEN << >>
    ELSE <<ZshEntry(f, i)>> \o g[LastLine(f, i) + 1]
<1>4. ASSUME NEW i \in 1..(N + 1) PROVE g[i] = Value(i)
  <2>1. CASE i > N
    BY <1>3, <2>1 DEF IsScan
  <2>2. CASE i <= N
    <3>1. i \in 1..N /\ ~(i > N)
      BY <2>2
    <3>2. g[i] = IF i \in skip THEN g[next[i]] ELSE <<head[i]>> \o g[next[i]]
      <4> HIDE DEF head, next, skip
      <4> QED BY <1>3, <3>1 DEF IsScan
    <3>3. CASE i \in skip
      <4>1. g[i] = g[next[i]]
        <5> HIDE DEF head, next, skip
        <5> QED BY <3>2, <3>3
      <4> QED BY <3>1, <3>3, <4>1
    <3>4. CASE i \notin skip
      <4>1. g[i] = <<head[i]>> \o g[next[i]]
        <5> HIDE DEF head, next, skip
        <5> QED BY <3>2, <3>4
      <4> QED BY <3>1, <3>4, <4>1
    <3> QED BY <3>3, <3>4
  <2> QED BY <2>1, <2>2
<1>5. g = [i \in 1..(N + 1) |-> Value(i)]
  <2>1. g = [i \in 1..(N + 1) |-> g[i]]
    BY <1>3
  <2> QED BY <1>4, <2>1
<1>6. \E h : h = [i \in 1..(Len(f) + 1) |->
    IF i > Len(f) THEN << >>
    ELSE <<ZshEntry(f, i)>> \o h[LastLine(f, i) + 1]]
  BY <1>5, Zenon
<1> QED BY <1>6, Zenon DEF ZshScan

\* The same for fish.
LEMMA FishEquation ==
  ASSUME NEW f \in Seq(LineType)
  PROVE  FishScan(f) = [i \in 1..(Len(f) + 1) |->
    IF i > Len(f) THEN << >>
    ELSE IF f[i].form # "cmd" THEN FishScan(f)[i + 1]
    ELSE <<FishEntry(f, i)>> \o FishScan(f)[i + 1]]
<1> DEFINE N == Len(f)
           head == [i \in 1..N |-> FishEntry(f, i)]
           skip == {i \in 1..N : f[i].form # "cmd"}
           next == [i \in 1..N |-> i + 1]
<1>1. N \in Nat /\ head \in [1..N -> EntryType]
  BY EntriesTyped
<1>2. next \in [1..N -> Nat] /\ \A i \in 1..N : next[i] \in (i + 1)..(N + 1)
  <2>1. ASSUME NEW i \in 1..N PROVE LastLine(f, i) \in i..N
    BY LastLineIn
  <2> QED BY <2>1
<1>3. PICK g \in [1..(N + 1) -> Seq(EntryType)] : IsScan(g, N, head, skip, next)
  <2> HIDE DEF head, skip, next, N
  <2> QED BY <1>1, <1>2, ScanExists
<1> DEFINE Value(i) == IF i > N THEN << >>
    ELSE IF f[i].form # "cmd" THEN g[i + 1]
    ELSE <<FishEntry(f, i)>> \o g[i + 1]
<1>4. ASSUME NEW i \in 1..(N + 1) PROVE g[i] = Value(i)
  <2>1. CASE i > N
    BY <1>3, <2>1 DEF IsScan
  <2>2. CASE i <= N
    <3>1. i \in 1..N /\ ~(i > N)
      BY <2>2
    <3>2. g[i] = IF i \in skip THEN g[next[i]] ELSE <<head[i]>> \o g[next[i]]
      <4> HIDE DEF head, next, skip
      <4> QED BY <1>3, <3>1 DEF IsScan
    <3>3. CASE i \in skip
      <4>1. g[i] = g[next[i]]
        <5> HIDE DEF head, next, skip
        <5> QED BY <3>2, <3>3
      <4> QED BY <3>1, <3>3, <4>1
    <3>4. CASE i \notin skip
      <4>1. g[i] = <<head[i]>> \o g[next[i]]
        <5> HIDE DEF head, next, skip
        <5> QED BY <3>2, <3>4
      <4> QED BY <3>1, <3>4, <4>1
    <3> QED BY <3>3, <3>4
  <2> QED BY <2>1, <2>2
<1>5. g = [i \in 1..(N + 1) |-> Value(i)]
  <2>1. g = [i \in 1..(N + 1) |-> g[i]]
    BY <1>3
  <2> QED BY <1>4, <2>1
<1>6. \E h : h = [i \in 1..(Len(f) + 1) |->
    IF i > Len(f) THEN << >>
    ELSE IF f[i].form # "cmd" THEN h[i + 1]
    ELSE <<FishEntry(f, i)>> \o h[i + 1]]
  BY <1>5, Zenon
<1> QED BY <1>6, Zenon DEF FishScan

\* If the positions of D are closed under a reader's scan, and what it reads at
\* them is in V, it returns a sequence of V.
LEMMA BashReads ==
  ASSUME NEW f \in Seq(LineType), NEW D \in SUBSET (1..(Len(f) + 1)), NEW V, 1 \in D,
         \A i \in D : i <= Len(f) =>
           IF f[i].form = "stamp" THEN i + 1 \in D
           ELSE LastLine(f, i) + 1 \in D /\ BashEntry(f, i) \in V
  PROVE  ParseBash(f) \in Seq(V)
<1> DEFINE g == BashScan(f)
<1>1. ASSUME NEW i \in D
      PROVE  \/ g[i] = << >>
             \/ \E j \in D : j > i /\ (g[i] = g[j] \/ \E v \in V : g[i] = <<v>> \o g[j])
  <2>1. i \in 1..(Len(f) + 1)
    OBVIOUS
  <2>2. g[i] = IF i > Len(f) THEN << >>
               ELSE IF f[i].form = "stamp" THEN g[i + 1]
               ELSE <<BashEntry(f, i)>> \o g[LastLine(f, i) + 1]
    BY <2>1, BashEquation
  <2> HIDE DEF g
  <2>3. CASE i > Len(f)
    BY <2>2, <2>3
  <2>4. CASE i <= Len(f)
    <3>1. i \in 1..Len(f) /\ ~(i > Len(f)) /\ i + 1 > i
      BY <2>1, <2>4
    <3>2. CASE f[i].form = "stamp"
      <4>1. g[i] = g[i + 1] /\ i + 1 \in D
        BY <2>2, <2>4, <3>1, <3>2
      <4> QED BY <3>1, <4>1
    <3>3. CASE f[i].form # "stamp"
      <4>1. LastLine(f, i) \in i..Len(f)
        BY <3>1, LastLineIn
      <4>2. LastLine(f, i) + 1 > i
        BY <3>1, <4>1
      <4>3. /\ g[i] = <<BashEntry(f, i)>> \o g[LastLine(f, i) + 1]
            /\ LastLine(f, i) + 1 \in D /\ BashEntry(f, i) \in V
        BY <2>2, <2>4, <3>1, <3>3
      <4> QED BY <4>2, <4>3
    <3> QED BY <3>2, <3>3
  <2>5. i > Len(f) \/ i <= Len(f)
    BY <2>1
  <2> QED BY <2>3, <2>4, <2>5, Zenon
<1>2. Len(f) \in Nat
  OBVIOUS
<1>3. \A i \in D : g[i] \in Seq(V)
  <2> HIDE DEF g
  <2>1. Finds(g, D, V)
    BY <1>1, Zenon DEF Finds
  <2> QED BY <1>2, <2>1, ScanStays
<1> QED BY <1>3, ReadersScan

\* The same for zsh.
LEMMA ZshReads ==
  ASSUME NEW f \in Seq(LineType), NEW D \in SUBSET (1..(Len(f) + 1)), NEW V, 1 \in D,
         \A i \in D : i <= Len(f) => LastLine(f, i) + 1 \in D /\ ZshEntry(f, i) \in V
  PROVE  ParseZsh(f) \in Seq(V)
<1> DEFINE g == ZshScan(f)
<1>1. ASSUME NEW i \in D
      PROVE  \/ g[i] = << >>
             \/ \E j \in D : j > i /\ (g[i] = g[j] \/ \E v \in V : g[i] = <<v>> \o g[j])
  <2>1. i \in 1..(Len(f) + 1)
    OBVIOUS
  <2>2. g[i] = IF i > Len(f) THEN << >> ELSE <<ZshEntry(f, i)>> \o g[LastLine(f, i) + 1]
    BY <2>1, ZshEquation
  <2> HIDE DEF g
  <2>3. CASE i > Len(f)
    BY <2>2, <2>3
  <2>4. CASE i <= Len(f)
    <3>1. i \in 1..Len(f) /\ ~(i > Len(f))
      BY <2>1, <2>4
    <3>2. LastLine(f, i) \in i..Len(f)
      BY <3>1, LastLineIn
    <3>3. LastLine(f, i) + 1 > i
      BY <3>1, <3>2
    <3>4. /\ g[i] = <<ZshEntry(f, i)>> \o g[LastLine(f, i) + 1]
          /\ LastLine(f, i) + 1 \in D /\ ZshEntry(f, i) \in V
      BY <2>2, <2>4, <3>1
    <3> QED BY <3>3, <3>4
  <2>5. i > Len(f) \/ i <= Len(f)
    BY <2>1
  <2> QED BY <2>3, <2>4, <2>5, Zenon
<1>2. Len(f) \in Nat
  OBVIOUS
<1>3. \A i \in D : g[i] \in Seq(V)
  <2> HIDE DEF g
  <2>1. Finds(g, D, V)
    BY <1>1, Zenon DEF Finds
  <2> QED BY <1>2, <2>1, ScanStays
<1> QED BY <1>3, ReadersScan

\* The same for fish, whose reader goes line by line.
LEMMA FishReads ==
  ASSUME NEW f \in Seq(LineType), NEW V,
         \A i \in 1..Len(f) : f[i].form = "cmd" => FishEntry(f, i) \in V
  PROVE  ParseFish(f) \in Seq(V)
<1> DEFINE g == FishScan(f)
           D == 1..(Len(f) + 1)
<1>1. ASSUME NEW i \in D
      PROVE  \/ g[i] = << >>
             \/ \E j \in D : j > i /\ (g[i] = g[j] \/ \E v \in V : g[i] = <<v>> \o g[j])
  <2>2. g[i] = IF i > Len(f) THEN << >>
               ELSE IF f[i].form # "cmd" THEN g[i + 1]
               ELSE <<FishEntry(f, i)>> \o g[i + 1]
    BY <1>1, FishEquation
  <2> HIDE DEF g
  <2>3. CASE i > Len(f)
    BY <2>2, <2>3
  <2>4. CASE i <= Len(f)
    <3>1. i \in 1..Len(f) /\ ~(i > Len(f)) /\ i + 1 > i /\ i + 1 \in D
      BY <2>4
    <3>2. CASE f[i].form # "cmd"
      <4>1. g[i] = g[i + 1]
        BY <2>2, <3>1, <3>2
      <4> QED BY <3>1, <4>1
    <3>3. CASE f[i].form = "cmd"
      <4>1. g[i] = <<FishEntry(f, i)>> \o g[i + 1] /\ FishEntry(f, i) \in V
        BY <2>2, <3>1, <3>3
      <4> QED BY <3>1, <4>1
    <3> QED BY <3>2, <3>3
  <2>5. i > Len(f) \/ i <= Len(f)
    BY <1>1
  <2> QED BY <2>3, <2>4, <2>5, Zenon
<1>2. Len(f) \in Nat /\ D \in SUBSET (1..(Len(f) + 1)) /\ 1 \in D
  OBVIOUS
<1>3. \A i \in D : g[i] \in Seq(V)
  <2> HIDE DEF g, D
  <2>1. Finds(g, D, V)
    BY <1>1, Zenon DEF Finds
  <2> QED BY <1>2, <2>1, ScanStays
<1>4. g[1] \in Seq(V)
  BY <1>2, <1>3
<1> QED BY <1>4, ReadersScan

\* Every reader returns entries.
LEMMA ParsedEntries ==
  ASSUME NEW f \in Seq(LineType)
  PROVE  /\ ParseBash(f) \in Seq(EntryType)
         /\ ParseZsh(f) \in Seq(EntryType)
         /\ ParseFish(f) \in Seq(EntryType)
<1> DEFINE D == 1..(Len(f) + 1)
<1>1. D \in SUBSET (1..(Len(f) + 1)) /\ 1 \in D
  OBVIOUS
<1>2. ASSUME NEW i \in D, i <= Len(f)
      PROVE  /\ i \in 1..Len(f) /\ i + 1 \in D
             /\ LastLine(f, i) + 1 \in D
  <2>1. i \in 1..Len(f)
    BY <1>2
  <2>2. LastLine(f, i) \in i..Len(f)
    BY <2>1, LastLineIn
  <2> QED BY <2>1, <2>2
<1> HIDE DEF D
<1>3. ParseBash(f) \in Seq(EntryType)
  BY <1>1, <1>2, EntriesTyped, BashReads
<1>4. ParseZsh(f) \in Seq(EntryType)
  BY <1>1, <1>2, EntriesTyped, ZshReads
<1>5. ParseFish(f) \in Seq(EntryType)
  BY EntriesTyped, FishReads
<1> QED BY <1>3, <1>4, <1>5

----------------------------------------------------------------------------
(* Dates for the undated.                                                  *)

\* What an entry of a sequence of them is.
LEMMA EntryIsTyped ==
  ASSUME NEW es \in Seq(EntryType), NEW i \in 1..Len(es)
  PROVE  es[i] \in EntryType /\ es[i].at \in Nat /\ es[i].approximate = FALSE
<1>1. es[i] \in EntryType
  OBVIOUS
<1> QED BY <1>1 DEF EntryType

\* The run around an undated entry: what is above and below it.
LEMMA RunAround ==
  ASSUME NEW es \in Seq(EntryType), NEW i \in 1..Len(es), Undated(es, i)
  PROVE  /\ Above(es, i) \in 0..(i - 1)
         /\ Above(es, i) > 0 => ~Undated(es, Above(es, i))
         /\ \A k \in 1..i : k > Above(es, i) => Undated(es, k)
         /\ Below(es, i) \in (i + 1)..(Len(es) + 1)
         /\ Below(es, i) <= Len(es) => ~Undated(es, Below(es, i))
         /\ \A k \in i..Len(es) : k < Below(es, i) => Undated(es, k)
<1> DEFINE A == {0} \cup {j \in 1..i : ~Undated(es, j)}
           B == {Len(es) + 1} \cup {j \in i..Len(es) : ~Undated(es, j)}
           a == Above(es, i)
           b == Below(es, i)
<1>1. a \in A /\ \A m \in A : m <= a
  <2>1. i \in Nat /\ A # {} /\ A \in SUBSET (0..i)
    OBVIOUS
  <2>2. a = Max(A)
    BY DEF Above
  <2> HIDE DEF A, a
  <2> QED BY <2>1, <2>2, GreatestOf
<1>2. b \in B /\ \A m \in B : b <= m
  <2>1. B # {} /\ B \in SUBSET Nat
    OBVIOUS
  <2>2. b = Min(B)
    BY DEF Below
  <2> HIDE DEF B, b
  <2> QED BY <2>1, <2>2, LeastOf
<1> HIDE DEF a, b
<1>3. a \in 0..(i - 1) /\ (a > 0 => ~Undated(es, a))
  BY <1>1
<1>4. ASSUME NEW k \in 1..i, k > a PROVE Undated(es, k)
  <2> SUFFICES ASSUME ~Undated(es, k) PROVE FALSE
    OBVIOUS
  <2>1. k \in A
    OBVIOUS
  <2> HIDE DEF A
  <2>2. k <= a
    BY <1>1, <2>1
  <2> QED BY <1>3, <1>4, <2>2
<1>5. b \in (i + 1)..(Len(es) + 1) /\ (b <= Len(es) => ~Undated(es, b))
  BY <1>2
<1>6. ASSUME NEW k \in i..Len(es), k < b PROVE Undated(es, k)
  <2> SUFFICES ASSUME ~Undated(es, k) PROVE FALSE
    OBVIOUS
  <2>1. k \in B
    OBVIOUS
  <2> HIDE DEF B
  <2>2. b <= k
    BY <1>2, <2>1
  <2> QED BY <1>5, <1>6, <2>2
<1> QED BY <1>3, <1>4, <1>5, <1>6 DEF a, b

\* What is between two dated entries is one run.
LEMMA RunIsWhole ==
  ASSUME NEW es \in Seq(EntryType), NEW i \in 1..Len(es), NEW a \in 0..(i - 1),
         NEW b \in (i + 1)..(Len(es) + 1),
         \A k \in (a + 1)..(b - 1) : Undated(es, k),
         a > 0 => ~Undated(es, a), b <= Len(es) => ~Undated(es, b)
  PROVE  Undated(es, i) /\ Above(es, i) = a /\ Below(es, i) = b
<1>1. Undated(es, i)
  OBVIOUS
<1> DEFINE c == Above(es, i)
           d == Below(es, i)
<1>2. /\ c \in 0..(i - 1) /\ (c > 0 => ~Undated(es, c))
      /\ \A k \in 1..i : k > c => Undated(es, k)
      /\ d \in (i + 1)..(Len(es) + 1) /\ (d <= Len(es) => ~Undated(es, d))
      /\ \A k \in i..Len(es) : k < d => Undated(es, k)
  BY <1>1, RunAround
<1> HIDE DEF c, d
<1>3. ~(c < a)
  <2> SUFFICES ASSUME c < a PROVE FALSE
    OBVIOUS
  <2>1. a \in 1..i /\ a > c /\ a > 0
    BY <1>2
  <2> QED BY <1>2, <2>1
<1>4. ~(c > a)
  <2> SUFFICES ASSUME c > a PROVE FALSE
    OBVIOUS
  <2>1. c \in (a + 1)..(b - 1) /\ c > 0
    BY <1>2
  <2> QED BY <1>2, <2>1
<1>5. ~(d > b)
  <2> SUFFICES ASSUME d > b PROVE FALSE
    OBVIOUS
  <2>1. b \in i..Len(es) /\ b < d /\ b <= Len(es)
    BY <1>2
  <2> QED BY <1>2, <2>1
<1>6. ~(d < b)
  <2> SUFFICES ASSUME d < b PROVE FALSE
    OBVIOUS
  <2>1. d \in (a + 1)..(b - 1) /\ d <= Len(es)
    BY <1>2
  <2> QED BY <1>2, <2>1
<1>7. c = a /\ d = b
  BY <1>2, <1>3, <1>4, <1>5, <1>6
<1> QED BY <1>1, <1>7 DEF c, d

\* The date of the i-th entry, in a run from above to below.
TimeIn(es, end, above, below, i) ==
  LET parts == below - above
      upper == IF below > Len(es) THEN end ELSE es[below].at
      roomy == upper - parts * Second
      lower == IF above > 0 THEN Max({es[above].at, roomy}) ELSE roomy
      start == IF upper - lower < parts THEN roomy ELSE lower
      step  == ((upper - start) * Nanos) \div parts
  IN  start + ((i - above) * step) \div Nanos

\* What ApproximateUndated returns, without its local names.
LEMMA Approximated ==
  ASSUME NEW es \in Seq(EntryType), NEW end
  PROVE  ApproximateUndated(es, end) =
           [i \in 1..Len(es) |->
             IF Undated(es, i)
             THEN [es[i] EXCEPT !.at = TimeIn(es, end, Above(es, i), Below(es, i), i),
                                !.approximate = TRUE]
             ELSE es[i]]
<1>1. DOMAIN es = 1..Len(es)
  OBVIOUS
<1> QED BY <1>1, Zenon DEF ApproximateUndated, TimeIn

\* Max of two numbers.
LEMMA GreaterOfTwo ==
  ASSUME NEW x \in Int, NEW y \in Int
  PROVE  Max({x, y}) = IF x >= y THEN x ELSE y
<1>1. CASE x >= y
  <2>1. \A m \in {x, y} : x >= m
    BY <1>1
  <2>2. \A n \in {x, y} : (\A m \in {x, y} : n >= m) => n = x
    BY <1>1
  <2> QED BY <1>1, <2>1, <2>2 DEF Max
<1>2. CASE ~(x >= y)
  <2>1. \A m \in {x, y} : y >= m
    BY <1>2
  <2>2. \A n \in {x, y} : (\A m \in {x, y} : n >= m) => n = y
    BY <1>2
  <2> QED BY <1>2, <2>1, <2>2 DEF Max
<1> QED BY <1>1, <1>2

\* Within a run the dates grow, and all are before what is below it; they are
\* after what is above it if the gap has a millisecond for each.
LEMMA RunGrows ==
  ASSUME NEW es \in Seq(EntryType), NEW end \in Nat, NEW a \in 0..Len(es),
         NEW b \in (a + 2)..(Len(es) + 1), NEW i \in (a + 1)..(b - 1)
  PROVE  /\ TimeIn(es, end, a, b, i) \in Int
         /\ \A j \in (i + 1)..(b - 1) : TimeIn(es, end, a, b, i) < TimeIn(es, end, a, b, j)
         /\ b <= Len(es) => TimeIn(es, end, a, b, i) < es[b].at
         /\ (a > 0 /\ b <= Len(es) /\ es[b].at - es[a].at >= b - a) =>
              es[a].at < TimeIn(es, end, a, b, i)
<1> DEFINE p == b - a
           upper == IF b > Len(es) THEN end ELSE es[b].at
           roomy == upper - p * Second
           lower == IF a > 0 THEN Max({es[a].at, roomy}) ELSE roomy
           start == IF upper - lower < p THEN roomy ELSE lower
           step  == ((upper - start) * Nanos) \div p
<1>1. p \in Nat \ {0} /\ i - a \in 1..(p - 1)
  OBVIOUS
<1>2. upper \in Int
  <2>1. b <= Len(es) => es[b].at \in Nat
    <3>1. b <= Len(es) => b \in 1..Len(es)
      OBVIOUS
    <3> QED BY <3>1, EntryIsTyped
  <2> QED BY <2>1
<1>3. roomy \in Int /\ upper - roomy >= p
  <2>1. 1 * p <= Second * p /\ Second * p = p * Second /\ p * Second \in Int
    BY <1>1, Times, Distributes, ImportConstants
  <2> HIDE DEF p, upper
  <2> QED BY <1>1, <1>2, <2>1
<1>4. a > 0 => es[a].at \in Nat
  <2>1. a > 0 => a \in 1..Len(es)
    OBVIOUS
  <2> QED BY <2>1, EntryIsTyped
<1>5. lower \in Int /\ (a > 0 => lower >= es[a].at)
      /\ (a > 0 => lower = es[a].at \/ lower = roomy)
  <2> HIDE DEF roomy
  <2> QED BY <1>3, <1>4, GreaterOfTwo
<1>6. start \in Int /\ upper - start >= p
  <2> HIDE DEF upper, roomy, lower, p
  <2> QED BY <1>1, <1>2, <1>3, <1>5
<1>7. a > 0 /\ upper - es[a].at >= p => start >= es[a].at
  <2> SUFFICES ASSUME a > 0, upper - es[a].at >= p PROVE start >= es[a].at
    OBVIOUS
  <2>1. ~(upper - lower < p)
    <3> HIDE DEF upper, roomy, lower, p
    <3> QED BY <1>1, <1>2, <1>3, <1>4, <1>5, SMTT(30)
  <2> HIDE DEF upper, lower, p
  <2> QED BY <2>1, <1>5
<1> DEFINE d == upper - start
<1>8. ASSUME NEW j \in (a + 1)..(b - 1)
      PROVE  TimeIn(es, end, a, b, j) = start + ((j - a) * step) \div Nanos
  BY Zenon DEF TimeIn
<1> HIDE DEF start, upper, p
<1>9. /\ ((i - a) * step) \div Nanos \in 1..(d - 1)
      /\ \A l \in (i - a + 1)..(p - 1) : ((i - a) * step) \div Nanos < (l * step) \div Nanos
  <2>1. d \in Int /\ d >= p
    BY <1>1, <1>2, <1>6
  <2> HIDE DEF d
  <2>2. step = (d * Nanos) \div p
    BY DEF d
  <2> HIDE DEF step
  <2> QED BY <1>1, <2>1, <2>2, Shares
<1>10. ASSUME NEW j \in (a + 1)..(b - 1)
       PROVE  ((j - a) * step) \div Nanos \in 1..(d - 1)
  <2>1. d \in Int /\ d >= p
    BY <1>1, <1>2, <1>6
  <2>3. j - a \in 1..(p - 1)
    BY DEF p
  <2> HIDE DEF d
  <2>2. step = (d * Nanos) \div p
    BY DEF d
  <2> HIDE DEF step
  <2> QED BY <1>1, <2>1, <2>2, <2>3, Shares
<1> HIDE DEF step
<1>11. /\ TimeIn(es, end, a, b, i) \in Int
       /\ TimeIn(es, end, a, b, i) < upper /\ TimeIn(es, end, a, b, i) > start
  <2> DEFINE q == ((i - a) * step) \div Nanos
  <2>1. TimeIn(es, end, a, b, i) = start + q
    BY <1>8
  <2>2. q \in 1..(d - 1)
    BY <1>10
  <2> HIDE DEF q
  <2> QED BY <1>2, <1>6, <2>1, <2>2
<1>12. ASSUME NEW j \in (i + 1)..(b - 1)
       PROVE  TimeIn(es, end, a, b, i) < TimeIn(es, end, a, b, j)
  <2>1. j \in (a + 1)..(b - 1) /\ j - a \in (i - a + 1)..(p - 1)
    BY DEF p
  <2>2. ((i - a) * step) \div Nanos < ((j - a) * step) \div Nanos
    BY <1>9, <2>1
  <2>3. TimeIn(es, end, a, b, j) = start + ((j - a) * step) \div Nanos
    BY <1>8, <2>1
  <2>4. TimeIn(es, end, a, b, i) = start + ((i - a) * step) \div Nanos
    BY <1>8
  <2>5. /\ ((j - a) * step) \div Nanos \in Int
        /\ ((i - a) * step) \div Nanos \in Int
    BY <1>10, <2>1
  <2> QED BY <1>6, <2>2, <2>3, <2>4, <2>5
<1>13. b <= Len(es) => TimeIn(es, end, a, b, i) < es[b].at
  BY <1>11 DEF upper
<1>14. (a > 0 /\ b <= Len(es) /\ es[b].at - es[a].at >= b - a) =>
         es[a].at < TimeIn(es, end, a, b, i)
  <2> SUFFICES ASSUME a > 0, b <= Len(es), es[b].at - es[a].at >= b - a
               PROVE  es[a].at < TimeIn(es, end, a, b, i)
    OBVIOUS
  <2>1. start >= es[a].at
    BY <1>7 DEF upper, p
  <2> QED BY <1>4, <1>6, <1>11, <2>1
<1> QED BY <1>11, <1>12, <1>13, <1>14, Zenon

DatedIn(es, a, b) == {k \in a..b : ~es[k].approximate}

InOrder(es) ==
  /\ \A i, j \in DOMAIN es :
       /\ i < j /\ es[i].approximate
       /\ DatedIn(es, i, j) \subseteq {j}
       => es[i].at < es[j].at
  /\ \A i, j, b \in DOMAIN es :
       /\ i < j /\ j < b /\ es[j].approximate
       /\ DatedIn(es, i, b) = {i, b}
       /\ es[b].at - es[i].at >= b - i
       => es[i].at < es[j].at

\* OrderIsKept is about the entries only.
LEMMA OrderIsInOrder == OrderIsKept <=> InOrder(Entries)
BY Zenon DEF OrderIsKept, InOrder, DatedIn

\* Nothing of fish is undated.
LEMMA MeasuredInOrder ==
  ASSUME NEW es \in Seq(EntryType)
  PROVE  InOrder(es)
<1>1. ASSUME NEW i \in DOMAIN es PROVE ~es[i].approximate
  <2>1. i \in 1..Len(es)
    OBVIOUS
  <2> QED BY <2>1, EntryIsTyped
<1> QED BY <1>1, Zenon DEF InOrder

\* Only the undated are given a date.
LEMMA ApproximatedFields ==
  ASSUME NEW es \in Seq(EntryType), NEW end, NEW i \in 1..Len(es)
  PROVE  LET e == ApproximateUndated(es, end)[i]
         IN  /\ e.approximate = Undated(es, i)
             /\ e.at = IF Undated(es, i) THEN TimeIn(es, end, Above(es, i), Below(es, i), i)
                       ELSE es[i].at
             /\ e.text = es[i].text /\ e.n = es[i].n
<1> DEFINE e == ApproximateUndated(es, end)[i]
           time == TimeIn(es, end, Above(es, i), Below(es, i), i)
<1>1. es[i] \in EntryType
  BY EntryIsTyped
<1>4. e = IF Undated(es, i) THEN [es[i] EXCEPT !.at = time, !.approximate = TRUE] ELSE es[i]
  <2> DEFINE new(k) == IF Undated(es, k)
                       THEN [es[k] EXCEPT !.at = TimeIn(es, end, Above(es, k), Below(es, k), k),
                                          !.approximate = TRUE]
                       ELSE es[k]
  <2>1. ApproximateUndated(es, end) = [k \in 1..Len(es) |-> new(k)]
    BY Approximated
  <2>2. e = new(i)
    <3> HIDE DEF new
    <3> QED BY <2>1
  <2> HIDE DEF e
  <2> QED BY <2>2
<1>2. CASE Undated(es, i)
  <2>1. e = [es[i] EXCEPT !.at = time, !.approximate = TRUE]
    BY <1>2, <1>4, Zenon
  <2> HIDE DEF time, e
  <2>2. /\ e.approximate = TRUE /\ e.at = time
        /\ e.text = es[i].text /\ e.n = es[i].n
    BY <1>1, <2>1 DEF EntryType
  <2>3. Undated(es, i) = TRUE
    BY <1>2 DEF Undated
  <2> QED BY <2>2, <2>3, Zenon DEF time, e
<1>3. CASE ~Undated(es, i)
  <2>1. e = es[i]
    BY <1>3, <1>4, Zenon
  <2>2. e.approximate = FALSE
    BY <2>1, EntryIsTyped
  <2>3. Undated(es, i) = FALSE
    BY <1>3 DEF Undated
  <2> QED BY <2>1, <2>2, <2>3, Zenon
<1> QED BY <1>2, <1>3, Zenon

\* ApproximateUndated keeps the order.
LEMMA ApproximatedInOrder ==
  ASSUME NEW es \in Seq(EntryType), NEW end \in Nat
  PROVE  InOrder(ApproximateUndated(es, end))
<1> DEFINE fs == ApproximateUndated(es, end)
<1>1. DOMAIN fs = 1..Len(es)
  BY Approximated
<1>2. ASSUME NEW i \in 1..Len(es)
      PROVE  /\ fs[i].approximate = Undated(es, i)
             /\ Undated(es, i) => fs[i].at = TimeIn(es, end, Above(es, i), Below(es, i), i)
             /\ ~Undated(es, i) => fs[i].at = es[i].at
  BY ApproximatedFields
<1> HIDE DEF fs
<1>3. ASSUME NEW i \in DOMAIN fs, NEW j \in DOMAIN fs,
             i < j, fs[i].approximate, DatedIn(fs, i, j) \subseteq {j}
      PROVE  fs[i].at < fs[j].at
  <2>1. i \in 1..Len(es) /\ j \in 1..Len(es)
    BY <1>1, <1>3
  <2>2. ASSUME NEW k \in i..j, k # j PROVE Undated(es, k)
    <3>1. k \in 1..Len(es)
      BY <2>1
    <3>2. fs[k].approximate
      BY <1>3, <2>2, Zenon DEF DatedIn
    <3> QED BY <1>2, <3>1, <3>2
  <2> DEFINE a == Above(es, i)
             b == Below(es, i)
  <2>3. Undated(es, i)
    BY <1>2, <1>3, <2>1
  <2>4. /\ a \in 0..(i - 1) /\ (a > 0 => ~Undated(es, a))
        /\ \A k \in 1..i : k > a => Undated(es, k)
        /\ b \in (i + 1)..(Len(es) + 1) /\ (b <= Len(es) => ~Undated(es, b))
        /\ \A k \in i..Len(es) : k < b => Undated(es, k)
    BY <2>1, <2>3, RunAround
  <2> HIDE DEF a, b
  <2>5. /\ a \in 0..Len(es) /\ b \in (a + 2)..(Len(es) + 1) /\ i \in (a + 1)..(b - 1)
    BY <2>1, <2>4
  <2>6. fs[i].at = TimeIn(es, end, a, b, i)
    BY <1>2, <2>1, <2>3 DEF a, b
  <2>7. b >= j
    <3> SUFFICES ASSUME b < j PROVE FALSE
      BY <2>1, <2>4
    <3>1. b \in i..j /\ b # j /\ b <= Len(es)
      BY <2>1, <2>4
    <3> QED BY <2>2, <2>4, <3>1
  <2>8. CASE Undated(es, j)
    <3>1. b > j
      <4> SUFFICES ASSUME b = j PROVE FALSE
        BY <2>1, <2>4, <2>7
      <4> QED BY <2>1, <2>4, <2>8
    <3>2. \A k \in (a + 1)..(b - 1) : Undated(es, k)
      <4> TAKE k \in (a + 1)..(b - 1)
      <4>1. k \in 1..i \/ k \in i..Len(es)
        BY <2>1, <2>4
      <4> QED BY <2>4, <4>1
    <3>3. a \in 0..(j - 1) /\ b \in (j + 1)..(Len(es) + 1)
      BY <1>3, <2>1, <2>4, <3>1
    <3>4. Above(es, j) = a /\ Below(es, j) = b
      BY <2>1, <2>4, <3>2, <3>3, RunIsWhole
    <3>5. fs[j].at = TimeIn(es, end, a, b, j)
      BY <1>2, <2>1, <2>8, <3>4
    <3>6. j \in (i + 1)..(b - 1)
      BY <1>3, <2>1, <2>4, <3>1
    <3> QED BY <2>5, <2>6, <3>5, <3>6, RunGrows
  <2>9. CASE ~Undated(es, j)
    <3>1. b = j
      <4> SUFFICES ASSUME b > j PROVE FALSE
        BY <2>1, <2>4, <2>7
      <4>1. j \in i..Len(es) /\ j < b
        BY <1>3, <2>1
      <4> QED BY <2>4, <2>9, <4>1
    <3>2. fs[j].at = es[j].at /\ b <= Len(es)
      BY <1>2, <2>1, <2>9, <3>1
    <3> QED BY <2>5, <2>6, <3>1, <3>2, RunGrows
  <2> QED BY <2>8, <2>9
<1>4. ASSUME NEW i \in DOMAIN fs, NEW j \in DOMAIN fs, NEW b \in DOMAIN fs,
             i < j, j < b, fs[j].approximate, DatedIn(fs, i, b) = {i, b},
             fs[b].at - fs[i].at >= b - i
      PROVE  fs[i].at < fs[j].at
  <2>1. i \in 1..Len(es) /\ j \in 1..Len(es) /\ b \in 1..Len(es)
    BY <1>1, <1>4
  <2>2. ASSUME NEW k \in (i + 1)..(b - 1) PROVE Undated(es, k)
    <3>1. k \in 1..Len(es) /\ k \in i..b /\ k # i /\ k # b
      BY <2>1
    <3>2. fs[k].approximate
      BY <1>4, <3>1, Zenon DEF DatedIn
    <3> QED BY <1>2, <3>1, <3>2
  <2>3. ~Undated(es, i) /\ ~Undated(es, b)
    <3>1. ~fs[i].approximate /\ ~fs[b].approximate
      <4>1. i \in DatedIn(fs, i, b) /\ b \in DatedIn(fs, i, b)
        BY <1>4, Zenon
      <4> QED BY <4>1 DEF DatedIn
    <3> QED BY <1>2, <2>1, <3>1
  <2>4. /\ i \in 0..(j - 1) /\ b \in (j + 1)..(Len(es) + 1) /\ i > 0 /\ b <= Len(es)
        /\ i \in 0..Len(es) /\ b \in (i + 2)..(Len(es) + 1) /\ j \in (i + 1)..(b - 1)
    BY <1>4, <2>1
  <2>5. Undated(es, j) /\ Above(es, j) = i /\ Below(es, j) = b
    BY <2>1, <2>2, <2>3, <2>4, RunIsWhole
  <2>6. fs[j].at = TimeIn(es, end, i, b, j) /\ fs[i].at = es[i].at /\ fs[b].at = es[b].at
    BY <1>2, <2>1, <2>3, <2>5
  <2> QED BY <1>4, <2>4, <2>6, RunGrows
<1>5. InOrder(fs)
  BY <1>3, <1>4, Zenon DEF InOrder
<1> QED BY <1>5 DEF fs

\* What Parse returns is in order, for any lines whatever.
LEMMA ParsedInOrder ==
  ASSUME NEW f \in Seq(LineType), NEW m \in Nat
  PROVE  InOrder(Parse(f, m))
<1>1. Sniff(f) \in {"bash", "zsh", "fish"}
  BY DEF Sniff
<1>2. InOrder(ParseFish(f)) /\ InOrder(ApproximateUndated(ParseZsh(f), m))
      /\ InOrder(ApproximateUndated(ParseBash(f), m))
  BY ParsedEntries, MeasuredInOrder, ApproximatedInOrder
<1>3. CASE Sniff(f) = "bash"
  BY <1>2, <1>3 DEF Parse
<1>4. CASE Sniff(f) = "zsh"
  BY <1>2, <1>4 DEF Parse
<1>5. CASE Sniff(f) = "fish"
  BY <1>2, <1>5 DEF Parse
<1> QED BY <1>1, <1>3, <1>4, <1>5

----------------------------------------------------------------------------
(* What is read, written and stored.                                       *)

RedactedIsClean == Redacted \notin Secret \cup Unstored

\* What becomes of the entries a reader found: the dated ones stay as they are.
ReadAs(fs, es) ==
  /\ fs \in Seq({fs[i] : i \in 1..Len(es)}) /\ Len(fs) = Len(es)
  /\ \A i \in 1..Len(es) :
       /\ fs[i].text = es[i].text /\ fs[i].n = es[i].n
       /\ es[i].at # 0 => fs[i].at = es[i].at

\* Parse returns what the reader for the file's shell found, the undated with a
\* date.
LEMMA Readings ==
  ASSUME NEW f \in Seq(LineType), NEW m
  PROVE  \E es \in Seq(EntryType) :
           /\ \/ Sniff(f) = "bash" /\ es = ParseBash(f)
              \/ Sniff(f) = "zsh" /\ es = ParseZsh(f)
              \/ Sniff(f) = "fish" /\ es = ParseFish(f)
           /\ ReadAs(Parse(f, m), es)
<1>1. Sniff(f) \in {"bash", "zsh", "fish"}
  BY DEF Sniff
<1>2. ASSUME NEW es \in Seq(EntryType)
      PROVE  ReadAs(ApproximateUndated(es, m), es)
  <2> DEFINE fs == ApproximateUndated(es, m)
  <2>1. DOMAIN fs = 1..Len(es) /\ fs = [i \in 1..Len(es) |-> fs[i]]
    BY Approximated
  <2>2. ASSUME NEW i \in 1..Len(es)
        PROVE  fs[i].text = es[i].text /\ fs[i].n = es[i].n /\ (es[i].at # 0 => fs[i].at = es[i].at)
    BY ApproximatedFields DEF Undated
  <2> HIDE DEF fs
  <2>3. fs \in Seq({fs[i] : i \in 1..Len(es)}) /\ Len(fs) = Len(es)
    <3>1. Len(es) \in Nat
      OBVIOUS
    <3> QED BY <2>1, <3>1
  <2> QED BY <2>2, <2>3, Zenon DEF fs, ReadAs
<1>3. ASSUME NEW es \in Seq(EntryType)
      PROVE  ReadAs(es, es)
  BY DEF ReadAs
<1>4. CASE Sniff(f) = "bash"
  <2>1. Parse(f, m) = ApproximateUndated(ParseBash(f), m) /\ ParseBash(f) \in Seq(EntryType)
    BY <1>4, ParsedEntries DEF Parse
  <2> QED BY <1>2, <1>4, <2>1
<1>5. CASE Sniff(f) = "zsh"
  <2>1. Parse(f, m) = ApproximateUndated(ParseZsh(f), m) /\ ParseZsh(f) \in Seq(EntryType)
    BY <1>5, ParsedEntries DEF Parse
  <2> QED BY <1>2, <1>5, <2>1
<1>6. CASE Sniff(f) = "fish"
  <2>1. Parse(f, m) = ParseFish(f) /\ ParseFish(f) \in Seq(EntryType)
    BY <1>6, ParsedEntries DEF Parse
  <2> QED BY <1>3, <1>6, <2>1
<1> QED BY <1>1, <1>4, <1>5, <1>6

\* A text that no rule skips has no secret after Apply.
LEMMA AppliedIsClean ==
  ASSUME RedactedIsClean, NEW text \in Seq(PieceType), NEW k \in DOMAIN text,
         text[k].text \notin Unstored
  PROVE  DOMAIN Apply(text) = DOMAIN text /\ Apply(text)[k].text \notin Secret \cup Unstored
<1>1. text[k] \in PieceType
  OBVIOUS
<1>2. Apply(text)[k] = IF text[k].text \in Secret THEN [text[k] EXCEPT !.text = Redacted]
                       ELSE text[k]
  BY DEF Apply
<1>3. DOMAIN Apply(text) = DOMAIN text
  BY DEF Apply
<1> HIDE DEF Apply
<1>4. CASE text[k].text \in Secret
  <2>1. Apply(text)[k] = [text[k] EXCEPT !.text = Redacted]
    BY <1>2, <1>4
  <2>2. [text[k] EXCEPT !.text = Redacted].text = Redacted
    BY <1>1 DEF PieceType
  <2> QED BY <1>3, <2>1, <2>2 DEF RedactedIsClean
<1>5. CASE text[k].text \notin Secret
  BY <1>2, <1>3, <1>5
<1> QED BY <1>4, <1>5

\* What the history and the store are made of.
Typed ==
  /\ shell \in {"bash", "zsh", "fish"} /\ stamping \in BOOLEAN
  /\ file \in Seq(LineType)
  /\ \A i \in 1..Len(file) : file[i].n \in 1..written
  /\ now \in FirstTime..LastTime /\ mtime \in FirstTime * Second..now * Second
  /\ written \in Nat

\* Sequences of one and two.
LEMMA OneOf ==
  ASSUME NEW T, NEW x \in T
  PROVE  <<x>> \in Seq(T) /\ Len(<<x>>) = 1
OBVIOUS

\* A sequence of one at most.
LEMMA AtMostOne ==
  ASSUME NEW T, NEW s, NEW x \in T, s = << >> \/ s = <<x>>
  PROVE  s \in Seq(T) /\ Len(s) \in 0..1
<1>1. << >> \in Seq(T) /\ Len(<< >>) = 0
  OBVIOUS
<1>2. <<x>> \in Seq(T) /\ Len(<<x>>) = 1
  OBVIOUS
<1>3. CASE s = << >>
  <2>1. Len(s) = 0
    BY <1>1, <1>3, Zenon
  <2> QED BY <1>1, <1>3, <2>1
<1>4. CASE s = <<x>>
  <2>1. Len(s) = 1
    BY <1>2, <1>4, Zenon
  <2> QED BY <1>2, <1>4, <2>1
<1> QED BY <1>3, <1>4

\* A sequence of two.
LEMMA TwoOf ==
  ASSUME NEW T, NEW x \in T, NEW y \in T
  PROVE  <<x, y>> \in Seq(T) /\ Len(<<x, y>>) = 2
OBVIOUS

\* What a shell writes for an entry: lines, one to three, of that entry.
LEMMA LinesTyped ==
  ASSUME Typed, NEW t \in Text
  PROVE  /\ Lines(t) \in Seq(LineType)
         /\ Len(Lines(t)) \in 1..3
         /\ \A i \in 1..Len(Lines(t)) : Lines(t)[i].n = written + 1
<1> DEFINE n == written + 1
           long == t \in Long
           more == IF long THEN <<Line("plain", 0, t, FALSE, n)>> ELSE << >>
           T == {l \in LineType : l.n = n}
<1>0. /\ "plain" \in Forms /\ "header" \in Forms /\ long \in BOOLEAN
      /\ t \in Text \cup {""} /\ 0 \in Nat
  <2>1. long \in BOOLEAN
    OBVIOUS
  <2> HIDE DEF long
  <2> QED BY <2>1 DEF Forms
<1>1. now \in Nat /\ n \in Nat
  BY ImportConstants DEF Typed
<1>2. ASSUME NEW form \in Forms, NEW at \in Nat, NEW text \in Text \cup {""}, NEW goesOn \in BOOLEAN
      PROVE  Line(form, at, text, goesOn, n) \in T
  BY <1>1, <1>2 DEF Line, LineType
<1>3. more \in Seq(T) /\ Len(more) \in 0..1
  <2>1. Line("plain", 0, t, FALSE, n) \in T
    BY <1>2 DEF Forms
  <2>2. more = << >> \/ more = <<Line("plain", 0, t, FALSE, n)>>
    BY Zenon
  <2> HIDE DEF T, more
  <2> QED BY <2>1, <2>2, AtMostOne
<1>4. CASE shell = "bash"
  <2> DEFINE first == IF stamping THEN <<Line("stamp", now, "", FALSE, n)>> ELSE << >>
  <2>1. Lines(t) = first \o <<Line("plain", 0, t, long, n)>> \o more
    BY <1>4 DEF Lines
  <2>2. first \in Seq(T) /\ Len(first) \in 0..1
    <3>1. Line("stamp", now, "", FALSE, n) \in T
      BY <1>1, <1>2 DEF Forms
    <3>2. first = << >> \/ first = <<Line("stamp", now, "", FALSE, n)>>
      BY Zenon
    <3> HIDE DEF T, first
    <3> QED BY <3>1, <3>2, AtMostOne
  <2>3. Line("plain", 0, t, long, n) \in T
    BY <1>0, <1>2, Zenon
  <2>4. Lines(t) \in Seq(T) /\ Len(Lines(t)) \in 1..3
    <3> HIDE DEF T, first, more
    <3> QED BY <1>3, <2>1, <2>2, <2>3, SMTT(30)
  <2> QED BY <2>4
<1>5. CASE shell = "zsh"
  <2> DEFINE first == IF stamping THEN Line("header", now, t, long, n)
                      ELSE Line("plain", 0, t, long, n)
  <2>1. Lines(t) = <<first>> \o more
    BY <1>5 DEF Lines
  <2>2. first \in T
    <3>1. Line("header", now, t, long, n) \in T
      BY <1>0, <1>1, <1>2, Zenon
    <3>2. Line("plain", 0, t, long, n) \in T
      BY <1>0, <1>2, Zenon
    <3> QED BY <3>1, <3>2
  <2>3. Lines(t) \in Seq(T) /\ Len(Lines(t)) \in 1..3
    <3> HIDE DEF T, first, more
    <3> QED BY <1>3, <2>1, <2>2
  <2> QED BY <2>3
<1>6. CASE shell = "fish"
  <2>1. Lines(t) = <<Line("cmd", 0, t, FALSE, n), Line("when", now, "", FALSE, n)>>
    BY <1>6 DEF Lines
  <2>2. Line("cmd", 0, t, FALSE, n) \in T /\ Line("when", now, "", FALSE, n) \in T
    BY <1>1, <1>2 DEF Forms
  <2>3. Lines(t) \in Seq(T) /\ Len(Lines(t)) = 2
    <3> HIDE DEF T
    <3> QED BY <2>1, <2>2, TwoOf
  <2>4. Len(Lines(t)) \in 1..3
    BY <2>3
  <2>5. Lines(t) \in Seq(T)
    BY <2>3
  <2> QED BY <2>4, <2>5
<1> QED BY <1>4, <1>5, <1>6 DEF Typed

\* Every step keeps the kinds.
LEMMA NextTyped ==
  ASSUME Typed, [Next]_vars
  PROVE  Typed'
<1> USE DEF Typed
<1>1. ASSUME NEW t \in Text, Write(t) PROVE Typed'
  <2> DEFINE whole == Lines(t)
  <2>1. PICK k \in DOMAIN whole \cup {Len(whole)} : file' = file \o SubSeq(whole, 1, k)
    <3>1. \E k \in (IF "torn" \in setting THEN DOMAIN whole ELSE {Len(whole)}) :
             file' = file \o SubSeq(whole, 1, k)
      BY <1>1 DEF Write
    <3> HIDE DEF whole, Typed
    <3> QED BY <3>1
  <2>2. /\ whole \in Seq(LineType) /\ Len(whole) \in 1..3
        /\ \A i \in 1..Len(whole) : whole[i].n = written + 1
    BY LinesTyped
  <2>3. written' = written + 1 /\ UNCHANGED <<shell, stamping, now>>
        /\ mtime' = now * Second
    BY <1>1 DEF Write
  <2> HIDE DEF whole
  <2>4. k \in 1..Len(whole)
    <3>1. DOMAIN whole = 1..Len(whole)
      BY <2>2
    <3> QED BY <2>1, <2>2, <3>1
  <2> DEFINE part == SubSeq(whole, 1, k)
  <2>5. part \in Seq(LineType) /\ Len(part) = k /\ \A i \in 1..k : part[i] = whole[i]
    BY <2>2, <2>4
  <2> HIDE DEF part
  <2>6. file' \in Seq(LineType)
    BY <2>1, <2>5 DEF part
  <2>7. ASSUME NEW i \in 1..Len(file') PROVE file'[i].n \in 1..written'
    <3>1. Len(file') = Len(file) + k
      BY <2>1, <2>4, <2>5 DEF part
    <3>2. CASE i <= Len(file)
      <4>1. file'[i] = file[i] /\ i \in 1..Len(file)
        BY <2>1, <2>4, <2>5, <3>1, <3>2 DEF part
      <4> QED BY <2>3, <4>1
    <3>3. CASE i > Len(file)
      <4>1. i - Len(file) \in 1..k
        BY <2>4, <2>7, <3>1, <3>3
      <4>2. file'[i] = part[i - Len(file)]
        BY <2>1, <2>5, <3>1, <3>3, <4>1 DEF part
      <4>3. i - Len(file) \in 1..Len(whole) /\ part[i - Len(file)] = whole[i - Len(file)]
        BY <2>4, <2>5, <4>1
      <4> QED BY <2>2, <2>3, <4>2, <4>3, ImportConstants
    <3> QED BY <3>1, <3>2, <3>3
  <2>8. mtime' \in FirstTime * Second..now' * Second
    <3>1. FirstTime * Second \in Int /\ now * Second \in Int /\ FirstTime * Second <= now * Second
      BY Times, ImportConstants
    <3> QED BY <2>3, <3>1
  <2> QED BY <2>3, <2>6, <2>7, <2>8, ImportConstants
<1>2. CASE Trim
  <2>1. PICK a \in Int : file' = SubSeq(file, a, Len(file)) /\ a >= 1
    <3> DEFINE oldest == {i \in DOMAIN file : file[i].n = file[1].n}
    <3>1. file' = SubSeq(file, Max(oldest) + 1, Len(file)) /\ file # << >>
      BY <1>2 DEF Trim
    <3>2. 1 \in oldest /\ oldest \in SUBSET (0..Len(file)) /\ Len(file) \in Nat
      BY <3>1
    <3> HIDE DEF oldest
    <3>3. Max(oldest) \in 0..Len(file)
      BY <3>2, GreatestOf
    <3>4. Max(oldest) + 1 \in Int /\ Max(oldest) + 1 >= 1
      BY <3>3
    <3> QED BY <3>1, <3>4
  <2>2. file' \in Seq(LineType) /\ \A i \in 1..Len(file') : file'[i] = file[a + i - 1] /\ a + i - 1 \in 1..Len(file)
    BY <2>1
  <2>3. UNCHANGED <<shell, stamping, now, written>> /\ mtime' = now * Second
    BY <1>2 DEF Trim
  <2>4. mtime' \in FirstTime * Second..now' * Second
    <3>1. FirstTime * Second \in Int /\ now * Second \in Int /\ FirstTime * Second <= now * Second
      BY Times, ImportConstants
    <3> QED BY <2>3, <3>1
  <2>5. \A i \in 1..Len(file') : file'[i].n \in 1..written'
    BY <2>2, <2>3
  <2> QED BY <2>2, <2>3, <2>4, <2>5
<1>3. CASE SwitchOn \/ SwitchOff
  BY <1>3 DEF SwitchOn, SwitchOff
<1>4. CASE Tick
  <2>1. now * Second \in Int /\ (now + 1) * Second \in Int /\ now * Second <= (now + 1) * Second
        /\ FirstTime * Second \in Int
    BY Times, ImportConstants
  <2>2. now' = now + 1 /\ now < LastTime /\ UNCHANGED history
    BY <1>4 DEF Tick
  <2>3. mtime' \in FirstTime * Second..now' * Second
    BY <2>1, <2>2 DEF history
  <2>4. now' \in FirstTime..LastTime
    BY <2>2, ImportConstants
  <2> QED BY <2>2, <2>3, <2>4 DEF history
<1>5. CASE Import
  BY <1>5 DEF Import, history
<1>6. CASE UNCHANGED vars
  BY <1>6 DEF vars, history
<1> QED BY <1>1, <1>2, <1>3, <1>4, <1>5, <1>6 DEF Next

\* The kinds hold at the start, and so always.
LEMMA InitTyped == Init => Typed
<1> SUFFICES ASSUME Init PROVE Typed
  OBVIOUS
<1>1. file = << >> /\ << >> \in Seq(LineType) /\ Len(<< >>) = 0
  BY DEF Init
<1>2. FirstTime * Second \in Int
  BY ImportConstants, Distributes
<1>3. mtime \in FirstTime * Second..now * Second
  BY <1>2 DEF Init
<1>4. shell \in {"bash", "zsh", "fish"} /\ stamping \in BOOLEAN
  BY ImportConstants DEF Init
<1>5. now \in FirstTime..LastTime /\ written \in Nat
  BY ImportConstants DEF Init
<1>6. \A i \in 1..Len(file) : file[i].n \in 1..written
  BY <1>1
<1> QED BY <1>1, <1>3, <1>4, <1>5, <1>6 DEF Typed

\* The kinds hold always.
LEMMA TypedAlways == Spec => []Typed
BY InitTyped, NextTyped, PTL DEF Spec

\* Undated entries keep their order and their place, for files of any lines, also
\* torn ones (histfile.go, approximateUndated): what OrderIsKept says.
THEOREM UndatedInOrder == Spec => []OrderIsKept
<1>1. ASSUME Typed PROVE OrderIsKept
  <2>1. FirstTime * Second \in Nat
    BY ImportConstants
  <2>2. file \in Seq(LineType) /\ mtime \in Nat
    <3>1. now * Second \in Int
      BY <1>1, ImportConstants, Distributes DEF Typed
    <3> QED BY <1>1, <2>1, <3>1 DEF Typed
  <2>3. InOrder(Entries)
    BY <2>2, ParsedInOrder DEF Entries
  <2> QED BY <2>3, OrderIsInOrder
<1> QED BY <1>1, TypedAlways, PTL

Stored ==
  /\ {o.id : o \in origin} = store
  /\ \A id \in store : \A k \in DOMAIN id.text : id.text[k].text \notin Secret \cup Unstored
  /\ shell \in Shell /\ setting \in Settings

Bounded == written <= MaxEntries[setting]

\* What an import puts in the store has no secret.
LEMMA KeptIsClean ==
  ASSUME RedactedIsClean, Typed, NEW k \in 0..Len(Entries), NEW e \in Kept(Entries, k)
  PROVE  \A j \in DOMAIN Id(e).text : Id(e).text[j].text \notin Secret \cup Unstored
<1>1. file \in Seq(LineType)
  BY DEF Typed
<1>2. PICK i \in 1..k : e = Entries[i] /\ ~Skipped(e)
  BY DEF Kept
<1>3. PICK es \in Seq(EntryType) : ReadAs(Entries, es)
  BY <1>1, Readings DEF Entries
<1>4. i \in 1..Len(es) /\ e.text = es[i].text
  BY <1>2, <1>3 DEF ReadAs
<1>5. e.text \in Seq(PieceType)
  <2>1. es[i] \in EntryType
    BY <1>4
  <2> QED BY <1>4, <2>1 DEF EntryType
<1>6. Id(e).text = Apply(e.text)
  BY DEF Id
<1>7. \A j \in DOMAIN e.text : e.text[j].text \notin Unstored
  BY <1>2 DEF Skipped, Texts
<1>8. ASSUME NEW j \in DOMAIN Apply(e.text)
      PROVE  Apply(e.text)[j].text \notin Secret \cup Unstored
  <2>1. j \in DOMAIN e.text
    BY DEF Apply
  <2> QED BY <1>5, <1>7, <2>1, AppliedIsClean
<1> QED BY <1>6, <1>8

\* Every step keeps the store clean.
LEMMA NextStored ==
  ASSUME RedactedIsClean, Typed, Stored, [Next]_vars
  PROVE  Stored'
<1>1. ASSUME UNCHANGED <<shell, setting, origin, store>> PROVE Stored'
  BY <1>1 DEF Stored
<1>2. CASE Import
  <2>1. PICK k \in 0..Len(Entries) :
          /\ store' = store \cup {Id(e) : e \in Kept(Entries, k)}
          /\ origin' = origin \cup {[id |-> Id(e), n |-> e.n] : e \in Kept(Entries, k)}
    <3>1. Len(Entries) \in Nat
      <4>1. PICK es \in Seq(EntryType) : ReadAs(Entries, es)
        BY Readings DEF Entries, Typed
      <4> QED BY <4>1 DEF ReadAs
    <3>2. \E k \in (IF "failure" \in setting THEN 0..Len(Entries) ELSE {Len(Entries)}) :
            /\ store' = store \cup {Id(e) : e \in Kept(Entries, k)}
            /\ origin' = origin \cup {[id |-> Id(e), n |-> e.n] : e \in Kept(Entries, k)}
      BY <1>2, Zenon DEF Import
    <3>3. (IF "failure" \in setting THEN 0..Len(Entries) ELSE {Len(Entries)}) \subseteq 0..Len(Entries)
      BY <3>1
    <3> QED BY <3>2, <3>3, Zenon
  <2> DEFINE kept == Kept(Entries, k)
  <2>2. {o.id : o \in origin'} = {o.id : o \in origin} \cup {Id(e) : e \in kept}
    <3>1. ASSUME NEW e \in kept
          PROVE  [id |-> Id(e), n |-> e.n] \in origin' /\ [id |-> Id(e), n |-> e.n].id = Id(e)
      BY <2>1, Zenon
    <3>2. ASSUME NEW o \in origin' PROVE o \in origin \/ \E e \in kept : o.id = Id(e)
      <4>1. o \in origin \/ \E e \in kept : o = [id |-> Id(e), n |-> e.n]
        BY <2>1, Zenon
      <4>2. \A e : [id |-> Id(e), n |-> e.n].id = Id(e)
        BY Zenon
      <4> QED BY <4>1, <4>2, Zenon
    <3>3. origin \subseteq origin'
      BY <2>1
    <3> HIDE DEF kept
    <3>4. {o.id : o \in origin'} \subseteq {o.id : o \in origin} \cup {Id(e) : e \in kept}
      BY <3>2, Zenon
    <3>5. {o.id : o \in origin} \cup {Id(e) : e \in kept} \subseteq {o.id : o \in origin'}
      BY <3>1, <3>3, Zenon
    <3> QED BY <3>4, <3>5
  <2>3. \A id \in store' : \A j \in DOMAIN id.text : id.text[j].text \notin Secret \cup Unstored
    <3> SUFFICES ASSUME NEW id \in store'
                 PROVE  \A j \in DOMAIN id.text : id.text[j].text \notin Secret \cup Unstored
      OBVIOUS
    <3>1. CASE id \in store
      BY <3>1, Zenon DEF Stored
    <3>2. CASE id \notin store
      <4>1. PICK e \in kept : id = Id(e)
        BY <2>1, <3>2, Zenon
      <4> QED BY <4>1, KeptIsClean, Zenon
    <3> QED BY <3>1, <3>2
  <2>4. UNCHANGED <<shell, setting>>
    BY <1>2 DEF Import, history
  <2> QED BY <2>1, <2>2, <2>3, <2>4, Zenon DEF Stored
<1> QED BY <1>1, <1>2 DEF Next, Write, Trim, SwitchOn, SwitchOff, Tick, vars, events, history

\* Every variable keeps to its kind, and no secret and nothing a rule skips is in
\* the store (redact.go, Apply), if what replaces a secret is itself neither.
THEOREM ImportTyped == ASSUME RedactedIsClean PROVE Spec => []TypeOK
<1>1. Init => Stored
  BY DEF Init, Stored
<1>2. ASSUME Typed, Stored, Bounded PROVE TypeOK
  <2>1. DOMAIN file = 1..Len(file) /\ \A i \in 1..Len(file) : file[i].text \in Text \cup {""}
    <3>1. file \in Seq(LineType)
      BY <1>2 DEF Typed
    <3>2. \A i \in 1..Len(file) : file[i].text \in Text \cup {""}
      BY <3>1, LineTyped
    <3>3. DOMAIN file = 1..Len(file)
      BY <3>1
    <3> QED BY <3>2, <3>3, Zenon
  <2>2. written \in 0..MaxEntries[setting]
    BY <1>2, ImportConstants DEF Typed, Bounded, Stored
  <2> QED BY <1>2, <2>1, <2>2 DEF Typed, Stored, TypeOK
<1>3. ASSUME Typed, Stored, [Next]_vars PROVE Stored'
  BY <1>3, NextStored
<1>4. Init => Bounded
  BY ImportConstants DEF Init, Bounded
<1>5. ASSUME Typed, Stored, Bounded, [Next]_vars PROVE Bounded'
  <2>1. setting' = setting /\ MaxEntries[setting] \in Nat /\ written \in Nat
    BY <1>5, ImportConstants DEF Typed, Stored, Next, Write, Trim, SwitchOn, SwitchOff, Tick, Import, vars, events
  <2>2. CASE UNCHANGED written
    BY <1>5, <2>1, <2>2 DEF Bounded
  <2>3. ASSUME NEW t \in Text, Write(t) PROVE Bounded'
    <3>1. written' = written + 1 /\ written < MaxEntries[setting]
      BY <2>3 DEF Write
    <3> QED BY <2>1, <3>1 DEF Bounded
  <2> QED BY <1>5, <2>2, <2>3 DEF Next, Trim, SwitchOn, SwitchOff, Tick, Import, vars, history
<1> QED BY <1>1, <1>2, <1>3, <1>4, <1>5, TypedAlways, PTL DEF Spec

----------------------------------------------------------------------------
(* How whole entries lie in a file.                                        *)

Joined(f, i) == i < Len(f) /\ f[i + 1].n = f[i].n
Opens(f, i) == i = 1 \/ f[i - 1].n # f[i].n

\* How whole entries lie in a file: which lines belong together, and how.
LaidAt(f, i) ==
  /\ Joined(f, i) <=> (f[i].more \/ f[i].form \in {"stamp", "cmd"})
  /\ f[i].form \in {"stamp", "cmd", "when"} => ~f[i].more
  /\ Joined(f, i) => /\ f[i + 1].form = (IF f[i].form = "cmd" THEN "when" ELSE "plain")
                     /\ f[i].more => ~f[i + 1].more
  /\ Opens(f, i) => f[i].form # "when"
  /\ f[i].form \in {"stamp", "header", "when"} => f[i].at >= 1

WellLaid(f) == \A i \in 1..Len(f) : LaidAt(f, i)

Ordered(f) == \A i, j \in 1..Len(f) : i <= j => f[i].n <= f[j].n

FormsOf(s) ==
  CASE s = "bash" -> {"stamp", "plain"}
    [] s = "zsh"  -> {"header", "plain"}
    [] s = "fish" -> {"cmd", "when"}

Headers(f) == {i \in 1..Len(f) : f[i].form = "header"}

\* Entries are numbered as they were written, and none is left out.
Numbered(f) == \A i \in 1..(Len(f) - 1) : f[i + 1].n \in {f[i].n, f[i].n + 1}

Lay ==
  /\ WellLaid(file) /\ Ordered(file) /\ Numbered(file)
  /\ Len(file) >= 1 => file[Len(file)].n = written
  /\ \A i \in 1..Len(file) : file[i].form \in FormsOf(shell)

\* sniff looks far enough: a zsh that writes dates wrote the first of them
\* where it does.
Sniffed ==
  /\ \A i \in Headers(file), j \in 1..Len(file) :
       i < j /\ Opens(file, j) => file[j].form = "header"
  /\ IF Headers(file) # {} THEN stamping /\ \E i \in Headers(file) : i <= SniffLines
     ELSE shell = "zsh" /\ stamping => Len(file) < SniffLines

Laid == Lay /\ Sniffed

TextAt(f, i, bare) ==
  IF f[i].more THEN <<Piece(f[i], bare), Piece(f[i + 1], FALSE)>> ELSE <<Piece(f[i], bare)>>

IdAt(f, i) ==
  CASE f[i].form = "stamp" ->
         [shell |-> "bash", at |-> f[i].at * Second, text |-> Apply(TextAt(f, i + 1, FALSE))]
    [] f[i].form = "header" ->
         [shell |-> "zsh", at |-> f[i].at * Second, text |-> Apply(TextAt(f, i, TRUE))]
    [] f[i].form = "when" ->
         [shell |-> "fish", at |-> f[i].at * Second, text |-> Apply(<<Piece(f[i - 1], TRUE)>>)]

Stamps == {"stamp", "header", "when"}


\* Whole entries below whole entries, and what is left below one, lie well.
LEMMA LaidAppend ==
  ASSUME NEW f \in Seq(LineType), NEW g \in Seq(LineType), NEW w \in Nat,
         WellLaid(f), WellLaid(g), Len(g) >= 1,
         \A i \in 1..Len(f) : f[i].n <= w, \A i \in 1..Len(g) : g[i].n = w + 1
  PROVE  WellLaid(f \o g)
<1> DEFINE h == f \o g
<1>1. /\ h \in Seq(LineType) /\ Len(h) = Len(f) + Len(g)
      /\ \A i \in 1..Len(f) : h[i] = f[i]
      /\ \A i \in 1..Len(g) : h[Len(f) + i] = g[i]
  OBVIOUS
<1> HIDE DEF h
<1>2. ASSUME NEW i \in 1..Len(f) PROVE LaidAt(h, i)
  <2>1. h[i] = f[i] /\ LaidAt(f, i)
    BY <1>1 DEF WellLaid
  <2>2. Opens(h, i) <=> Opens(f, i)
    <3>1. i # 1 => h[i - 1] = f[i - 1]
      BY <1>1
    <3> QED BY <2>1, <3>1 DEF Opens
  <2>3. CASE i < Len(f)
    <3>1. i + 1 \in 1..Len(f) /\ i < Len(h)
      BY <1>1, <2>3
    <3>2. h[i + 1] = f[i + 1]
      BY <1>1, <3>1
    <3>3. Joined(h, i) <=> Joined(f, i)
      BY <2>1, <2>3, <3>1, <3>2 DEF Joined
    <3> QED BY <2>1, <2>2, <3>2, <3>3 DEF LaidAt
  <2>4. CASE i = Len(f)
    <3>1. ~Joined(f, i)
      BY <2>4 DEF Joined
    <3>2. ~Joined(h, i)
      <4>1. h[i + 1] = g[1] /\ g[1].n = w + 1 /\ f[i].n <= w
        BY <1>1, <2>4
      <4>2. f[i].n \in Nat
        BY LineTyped
      <4> QED BY <2>1, <4>1, <4>2 DEF Joined
    <3> QED BY <2>1, <2>2, <3>1, <3>2 DEF LaidAt
  <2> QED BY <2>3, <2>4
<1>3. ASSUME NEW j \in 1..Len(g) PROVE LaidAt(h, Len(f) + j)
  <2> DEFINE i == Len(f) + j
  <2>1. h[i] = g[j] /\ LaidAt(g, j) /\ (j < Len(g) => h[i + 1] = g[j + 1])
    <3>1. j < Len(g) => h[Len(f) + (j + 1)] = g[j + 1]
      BY <1>1
    <3>2. Len(f) + (j + 1) = i + 1
      OBVIOUS
    <3> QED BY <1>1, <3>1, <3>2 DEF WellLaid
  <2>2. Joined(h, i) <=> Joined(g, j)
    BY <1>1, <2>1 DEF Joined
  <2>3. Opens(h, i) => Opens(g, j)
    <3> SUFFICES ASSUME j # 1, g[j - 1].n = g[j].n PROVE ~Opens(h, i)
      BY DEF Opens
    <3>2. j - 1 \in 1..Len(g)
      OBVIOUS
    <3>1. h[Len(f) + (j - 1)] = g[j - 1] /\ i - 1 = Len(f) + (j - 1) /\ i # 1
      BY <1>1, <3>2
    <3> QED BY <2>1, <3>1 DEF Opens
  <2> HIDE DEF i
  <2>4. Joined(g, j) => h[i + 1] = g[j + 1]
    BY <2>1 DEF Joined
  <2>5. LaidAt(h, i)
    BY <2>1, <2>2, <2>3, <2>4 DEF LaidAt
  <2> QED BY <2>5 DEF i
<1>4. ASSUME NEW i \in 1..Len(h) PROVE LaidAt(h, i)
  <2>1. CASE i <= Len(f)
    BY <1>2, <2>1
  <2>2. CASE i > Len(f)
    <3>1. i - Len(f) \in 1..Len(g) /\ i = Len(f) + (i - Len(f))
      BY <1>1, <2>2
    <3>2. LaidAt(h, Len(f) + (i - Len(f)))
      BY <1>3, <3>1
    <3> QED BY <3>1, <3>2
  <2> QED BY <2>1, <2>2
<1> QED BY <1>4 DEF WellLaid, h

\* So does what is left of them.
LEMMA LaidTail ==
  ASSUME NEW f \in Seq(LineType), NEW m \in 1..Len(f), WellLaid(f),
         m = Len(f) \/ f[m + 1].n # f[m].n
  PROVE  WellLaid(SubSeq(f, m + 1, Len(f)))
<1> DEFINE h == SubSeq(f, m + 1, Len(f))
<1>1. Len(h) = Len(f) - m /\ \A i \in 1..Len(h) : h[i] = f[m + i]
  OBVIOUS
<1> HIDE DEF h
<1>2. ASSUME NEW i \in 1..Len(h) PROVE LaidAt(h, i)
  <2> DEFINE j == m + i
  <2>1. h[i] = f[j] /\ LaidAt(f, j) /\ j \in 1..Len(f) /\ (j < Len(f) => h[i + 1] = f[j + 1])
    <3>1. j < Len(f) => h[i + 1] = f[m + (i + 1)]
      BY <1>1
    <3>2. m + (i + 1) = j + 1
      OBVIOUS
    <3>3. j \in 1..Len(f)
      BY <1>1
    <3>4. LaidAt(f, j)
      BY <3>3 DEF WellLaid
    <3> QED BY <1>1, <3>1, <3>2, <3>3, <3>4
  <2>2. Joined(h, i) <=> Joined(f, j)
    BY <1>1, <2>1 DEF Joined
  <2>3. Opens(h, i) => Opens(f, j)
    <3>1. CASE i = 1
      <4>1. j = m + 1 /\ j - 1 = m /\ m # Len(f)
        BY <2>1, <3>1
      <4>2. f[m + 1].n # f[m].n
        BY <4>1
      <4>3. f[j - 1].n # f[j].n
        BY <4>1, <4>2
      <4> QED BY <4>3 DEF Opens
    <3>2. CASE i # 1
      <4>1. h[i - 1] = f[m + (i - 1)] /\ j - 1 = m + (i - 1)
        BY <1>1, <3>2
      <4> QED BY <2>1, <3>2, <4>1 DEF Opens
    <3> QED BY <3>1, <3>2
  <2> HIDE DEF j
  <2>4. Joined(f, j) => h[i + 1] = f[j + 1]
    BY <2>1 DEF Joined
  <2> QED BY <2>1, <2>2, <2>3, <2>4 DEF LaidAt
<1> QED BY <1>2 DEF WellLaid, h

\* An entry of one, two and three lines lies well.
LEMMA LaidOne ==
  ASSUME NEW x \in LineType, ~x.more, x.form = "plain" \/ (x.form = "header" /\ x.at >= 1)
  PROVE  WellLaid(<<x>>)
<1> DEFINE f == <<x>>
<1>1. Len(f) = 1 /\ f[1] = x
  OBVIOUS
<1> HIDE DEF f
<1>2. LaidAt(f, 1)
  BY <1>1 DEF LaidAt, Joined, Opens
<1> QED BY <1>1, <1>2 DEF WellLaid, f

\* Of two lines.
LEMMA LaidTwo ==
  ASSUME NEW x \in LineType, NEW y \in LineType, x.n = y.n, ~y.more,
         \/ x.form = "stamp" /\ ~x.more /\ x.at >= 1 /\ y.form = "plain"
         \/ x.form = "plain" /\ x.more /\ y.form = "plain"
         \/ x.form = "header" /\ x.more /\ x.at >= 1 /\ y.form = "plain"
         \/ x.form = "cmd" /\ ~x.more /\ y.form = "when" /\ y.at >= 1
  PROVE  WellLaid(<<x, y>>)
<1> DEFINE f == <<x, y>>
<1>1. Len(f) = 2 /\ f[1] = x /\ f[2] = y
  OBVIOUS
<1> HIDE DEF f
<1>2. LaidAt(f, 1)
  BY <1>1 DEF LaidAt, Joined, Opens
<1>3. LaidAt(f, 2)
  BY <1>1 DEF LaidAt, Joined, Opens
<1>4. \A i \in 1..2 : i = 1 \/ i = 2
  OBVIOUS
<1> QED BY <1>1, <1>2, <1>3, <1>4 DEF WellLaid, f

\* Of three.
LEMMA LaidThree ==
  ASSUME NEW x \in LineType, NEW y \in LineType, NEW z \in LineType, x.n = y.n, y.n = z.n,
         x.form = "stamp" /\ ~x.more /\ x.at >= 1,
         y.form = "plain" /\ y.more, z.form = "plain" /\ ~z.more
  PROVE  WellLaid(<<x, y, z>>)
<1> DEFINE f == <<x, y, z>>
<1>1. Len(f) = 3 /\ f[1] = x /\ f[2] = y /\ f[3] = z
  OBVIOUS
<1> HIDE DEF f
<1>2. LaidAt(f, 1)
  BY <1>1 DEF LaidAt, Joined, Opens
<1>3. LaidAt(f, 2)
  BY <1>1 DEF LaidAt, Joined, Opens
<1>4. LaidAt(f, 3)
  BY <1>1 DEF LaidAt, Joined, Opens
<1>5. \A i \in 1..3 : i = 1 \/ i = 2 \/ i = 3
  OBVIOUS
<1> QED BY <1>1, <1>2, <1>3, <1>4, <1>5 DEF WellLaid, f

WrittenAs(s, on, ls) ==
  /\ WellLaid(ls)
  /\ \A i \in 1..Len(ls) : /\ ls[i].form \in FormsOf(s)
                           /\ ls[i].form = "header" => s = "zsh" /\ on
  /\ s = "zsh" /\ on => ls[1].form = "header"

\* Concatenations of single lines.
LEMMA TwoLines ==
  ASSUME NEW x, NEW y
  PROVE  <<x>> \o <<y>> = <<x, y>>
<1> DEFINE S == {x, y}
           u == <<x>> \o <<y>>
           v == <<x, y>>
<1>1. u \in Seq(S) /\ Len(u) = 2 /\ u[1] = x /\ u[2] = y
  OBVIOUS
<1>2. v \in Seq(S) /\ Len(v) = 2 /\ v[1] = x /\ v[2] = y
  OBVIOUS
<1> HIDE DEF u, v
<1>3. \A i \in 1..2 : i = 1 \/ i = 2
  OBVIOUS
<1>4. \A i \in 1..Len(u) : u[i] = v[i]
  BY <1>1, <1>2, <1>3
<1>5. u = v
  BY <1>1, <1>2, <1>4, SeqEqual
<1> QED BY <1>5 DEF u, v

\* Three of them.
LEMMA ThreeLines ==
  ASSUME NEW x, NEW y, NEW z
  PROVE  <<x>> \o <<y>> \o <<z>> = <<x, y, z>>
<1> DEFINE S == {x, y, z}
           u == <<x, y>> \o <<z>>
           v == <<x, y, z>>
<1>1. u \in Seq(S) /\ Len(u) = 3 /\ u[1] = x /\ u[2] = y /\ u[3] = z
  <2>1. <<x, y>> \in Seq(S) /\ <<z>> \in Seq(S)
    OBVIOUS
  <2> QED BY <2>1
<1>2. v \in Seq(S) /\ Len(v) = 3 /\ v[1] = x /\ v[2] = y /\ v[3] = z
  OBVIOUS
<1> HIDE DEF u, v
<1>3. \A i \in 1..3 : i = 1 \/ i = 2 \/ i = 3
  OBVIOUS
<1>4. \A i \in 1..Len(u) : u[i] = v[i]
  BY <1>1, <1>2, <1>3
<1>5. u = v
  BY <1>1, <1>2, <1>4, SeqEqual
<1> QED BY <1>5, TwoLines, Zenon DEF u, v

\* And one with none.
LEMMA NoLines ==
  ASSUME NEW x
  PROVE  << >> \o <<x>> = <<x>> /\ <<x>> \o << >> = <<x>>
<1>1. <<x>> \in Seq({x})
  OBVIOUS
<1> QED BY <1>1, ConcatEmptySeq

\* What a shell writes lies well, and zsh's is dated when it writes dates.
LEMMA LinesLaid ==
  ASSUME Typed, NEW t \in Text
  PROVE  WrittenAs(shell, stamping, Lines(t))
<1> DEFINE n == written + 1
           s == Line("stamp", now, "", FALSE, n)
           b == Line("plain", 0, t, FALSE, n)
           B == Line("plain", 0, t, TRUE, n)
           h == Line("header", now, t, FALSE, n)
           H == Line("header", now, t, TRUE, n)
           c == Line("cmd", 0, t, FALSE, n)
           w == Line("when", now, "", FALSE, n)
<1>1. /\ now \in Nat /\ now >= 1 /\ n \in Nat
      /\ {s, b, B, h, H, c, w} \subseteq LineType
  <2>1. now \in Nat /\ now >= 1 /\ n \in Nat
    BY ImportConstants DEF Typed
  <2>2. ASSUME NEW form \in Forms, NEW at \in Nat, NEW text \in Text \cup {""}, NEW goesOn \in BOOLEAN
        PROVE  Line(form, at, text, goesOn, n) \in LineType
    BY <2>1, <2>2 DEF Line, LineType
  <2>3. /\ {"stamp", "header", "cmd", "when", "plain"} \subseteq Forms
        /\ 0 \in Nat /\ t \in Text \cup {""} /\ "" \in Text \cup {""}
        /\ TRUE \in BOOLEAN /\ FALSE \in BOOLEAN
    BY DEF Forms
  <2> HIDE DEF n
  <2>4. s \in LineType /\ b \in LineType /\ B \in LineType /\ h \in LineType /\ H \in LineType
    BY <2>1, <2>2, <2>3
  <2>5. c \in LineType /\ w \in LineType
    BY <2>1, <2>2, <2>3
  <2> HIDE DEF s, b, B, h, H, c, w
  <2> QED BY <2>1, <2>4, <2>5
<1>2. /\ s.form = "stamp" /\ s.at = now /\ s.more = FALSE /\ s.n = n
      /\ b.form = "plain" /\ b.more = FALSE /\ b.n = n
      /\ B.form = "plain" /\ B.more = TRUE /\ B.n = n
      /\ h.form = "header" /\ h.at = now /\ h.more = FALSE /\ h.n = n
      /\ H.form = "header" /\ H.at = now /\ H.more = TRUE /\ H.n = n
      /\ c.form = "cmd" /\ c.more = FALSE /\ c.n = n
      /\ w.form = "when" /\ w.at = now /\ w.more = FALSE /\ w.n = n
  BY DEF Line
<1>3. \/ /\ shell = "bash" /\ stamping = TRUE
         /\ Lines(t) = <<s, B, b>> \/ Lines(t) = <<s, b>>
      \/ /\ shell = "bash" /\ stamping = FALSE
         /\ Lines(t) = <<B, b>> \/ Lines(t) = <<b>>
      \/ /\ shell = "zsh" /\ stamping = TRUE
         /\ Lines(t) = <<H, b>> \/ Lines(t) = <<h>>
      \/ /\ shell = "zsh" /\ stamping = FALSE
         /\ Lines(t) = <<B, b>> \/ Lines(t) = <<b>>
      \/ shell = "fish" /\ Lines(t) = <<c, w>>
  <2> DEFINE long == t \in Long
             more == IF long THEN <<b>> ELSE << >>
  <2>1. (long = TRUE /\ more = <<b>>) \/ (long = FALSE /\ more = << >>)
    <3>1. CASE t \in Long
      BY <3>1
    <3>2. CASE t \notin Long
      <4>1. (t \in Long) = FALSE
        BY <3>2
      <4> HIDE DEF b
      <4> QED BY <4>1
    <3> QED BY <3>1, <3>2
  <2>2. shell = "bash" =>
          Lines(t) = (IF stamping THEN <<s>> ELSE << >>) \o <<Line("plain", 0, t, long, n)>> \o more
    BY Zenon DEF Lines
  <2>3. shell = "zsh" =>
          Lines(t) = <<IF stamping THEN Line("header", now, t, long, n)
                       ELSE Line("plain", 0, t, long, n)>> \o more
    BY Zenon DEF Lines
  <2>4. shell = "fish" => Lines(t) = <<c, w>>
    BY Zenon DEF Lines
  <2>5. ASSUME NEW x, NEW y
        PROVE  <<x>> \o <<y>> \o << >> = <<x, y>>
    <3>1. <<x>> \o <<y>> = <<x, y>>
      BY TwoLines
    <3>2. <<x, y>> \o << >> = <<x, y>>
      <4>1. <<x, y>> \in Seq({x, y})
        OBVIOUS
      <4> QED BY <4>1, ConcatEmptySeq
    <3> QED BY <3>1, <3>2
  <2>6. shell \in {"bash", "zsh", "fish"} /\ (stamping = TRUE \/ stamping = FALSE)
    BY DEF Typed
  <2> HIDE DEF s, b, B, h, H, c, w, n, long, more
  <2>7. CASE long = TRUE /\ more = <<b>>
    <3>1. Line("plain", 0, t, long, n) = B /\ Line("header", now, t, long, n) = H
      BY <2>7 DEF B, H
    <3>2. CASE shell = "bash"
      <4>1. CASE stamping = TRUE
        <5>1. Lines(t) = <<s>> \o <<B>> \o <<b>>
          BY <2>2, <2>7, <3>1, <3>2, <4>1
        <5>2. Lines(t) = <<s, B, b>>
          BY <5>1, ThreeLines
        <5> QED BY <3>2, <4>1, <5>2
      <4>2. CASE stamping = FALSE
        <5>1. Lines(t) = << >> \o <<B>> \o <<b>>
          BY <2>2, <2>7, <3>1, <3>2, <4>2
        <5>2. Lines(t) = <<B, b>>
          BY <5>1, NoLines, TwoLines
        <5> QED BY <3>2, <4>2, <5>2
      <4> QED BY <2>6, <4>1, <4>2
    <3>3. CASE shell = "zsh"
      <4>1. CASE stamping = TRUE
        <5>1. Lines(t) = <<H>> \o <<b>>
          BY <2>3, <2>7, <3>1, <3>3, <4>1
        <5>2. Lines(t) = <<H, b>>
          BY <5>1, TwoLines
        <5> QED BY <3>3, <4>1, <5>2
      <4>2. CASE stamping = FALSE
        <5>1. Lines(t) = <<B>> \o <<b>>
          BY <2>3, <2>7, <3>1, <3>3, <4>2
        <5>2. Lines(t) = <<B, b>>
          BY <5>1, TwoLines
        <5> QED BY <3>3, <4>2, <5>2
      <4> QED BY <2>6, <4>1, <4>2
    <3> QED BY <2>4, <2>6, <3>2, <3>3
  <2>8. CASE long = FALSE /\ more = << >>
    <3>1. Line("plain", 0, t, long, n) = b /\ Line("header", now, t, long, n) = h
      BY <2>8 DEF b, h
    <3>2. CASE shell = "bash"
      <4>1. CASE stamping = TRUE
        <5>1. Lines(t) = <<s>> \o <<b>> \o << >>
          BY <2>2, <2>8, <3>1, <3>2, <4>1
        <5>2. Lines(t) = <<s, b>>
          BY <5>1, <2>5
        <5> QED BY <3>2, <4>1, <5>2
      <4>2. CASE stamping = FALSE
        <5>1. Lines(t) = << >> \o <<b>> \o << >>
          BY <2>2, <2>8, <3>1, <3>2, <4>2
        <5>2. Lines(t) = <<b>>
          BY <5>1, NoLines
        <5> QED BY <3>2, <4>2, <5>2
      <4> QED BY <2>6, <4>1, <4>2
    <3>3. CASE shell = "zsh"
      <4>1. CASE stamping = TRUE
        <5>1. Lines(t) = <<h>> \o << >>
          BY <2>3, <2>8, <3>1, <3>3, <4>1
        <5>2. Lines(t) = <<h>>
          BY <5>1, NoLines
        <5> QED BY <3>3, <4>1, <5>2
      <4>2. CASE stamping = FALSE
        <5>1. Lines(t) = <<b>> \o << >>
          BY <2>3, <2>8, <3>1, <3>3, <4>2
        <5>2. Lines(t) = <<b>>
          BY <5>1, NoLines
        <5> QED BY <3>3, <4>2, <5>2
      <4> QED BY <2>6, <4>1, <4>2
    <3> QED BY <2>4, <2>6, <3>2, <3>3
  <2> QED BY <2>1, <2>7, <2>8
<1>4. /\ FormsOf("bash") = {"stamp", "plain"} /\ FormsOf("zsh") = {"header", "plain"}
      /\ FormsOf("fish") = {"cmd", "when"}
  BY DEF FormsOf
<1> HIDE DEF s, b, B, h, H, c, w, n
<1>5. /\ WellLaid(<<s, B, b>>) /\ WellLaid(<<s, b>>) /\ WellLaid(<<B, b>>) /\ WellLaid(<<b>>)
      /\ WellLaid(<<H, b>>) /\ WellLaid(<<h>>) /\ WellLaid(<<c, w>>)
  <2>1. s.n = B.n /\ B.n = b.n /\ s.n = b.n /\ H.n = b.n /\ c.n = w.n
    BY <1>2
  <2>2. /\ s \in LineType /\ b \in LineType /\ B \in LineType /\ h \in LineType
        /\ H \in LineType /\ c \in LineType /\ w \in LineType
    BY <1>1
  <2>3. WellLaid(<<s, B, b>>)
    BY <1>1, <1>2, <2>1, <2>2, LaidThree
  <2>4. WellLaid(<<s, b>>)
    BY <1>1, <1>2, <2>1, <2>2, LaidTwo
  <2>5. WellLaid(<<B, b>>)
    BY <1>1, <1>2, <2>1, <2>2, LaidTwo
  <2>6. WellLaid(<<H, b>>)
    BY <1>1, <1>2, <2>1, <2>2, LaidTwo
  <2>7. WellLaid(<<c, w>>)
    BY <1>1, <1>2, <2>1, <2>2, LaidTwo
  <2>8. WellLaid(<<b>>)
    <3>1. ~b.more
      BY <1>2, Zenon
    <3>2. b.form = "plain"
      BY <1>2, Zenon
    <3> QED BY <2>2, <3>1, <3>2, LaidOne
  <2>9. WellLaid(<<h>>)
    BY <1>1, <1>2, <2>2, LaidOne
  <2> QED BY <2>3, <2>4, <2>5, <2>6, <2>7, <2>8, <2>9
<1>6. ASSUME NEW x, NEW y, NEW z
      PROVE  /\ \A i \in 1..Len(<<x, y, z>>) : <<x, y, z>>[i] \in {x, y, z}
             /\ \A i \in 1..Len(<<x, y>>) : <<x, y>>[i] \in {x, y}
             /\ \A i \in 1..Len(<<x>>) : <<x>>[i] \in {x}
             /\ <<x, y>>[1] = x /\ <<x>>[1] = x
  OBVIOUS
<1>7. \A i \in 1..Len(Lines(t)) : Lines(t)[i].form \in FormsOf(shell)
                                  /\ (Lines(t)[i].form = "header" => shell = "zsh" /\ stamping)
  <2> TAKE i \in 1..Len(Lines(t))
  <2>1. CASE shell = "bash"
    <3>1. Lines(t)[i] \in {s, B, b}
      BY <1>3, <1>6, <2>1
    <3> QED BY <1>2, <1>4, <2>1, <3>1
  <2>2. CASE shell = "zsh"
    <3>1. CASE stamping = TRUE
      <4>1. Lines(t)[i] \in {H, h, b}
        BY <1>3, <1>6, <2>2, <3>1
      <4> QED BY <1>2, <1>4, <2>2, <3>1, <4>1
    <3>2. CASE stamping = FALSE
      <4>1. Lines(t)[i] \in {B, b}
        BY <1>3, <1>6, <2>2, <3>2
      <4> QED BY <1>2, <1>4, <2>2, <4>1
    <3> QED BY <3>1, <3>2 DEF Typed
  <2>3. CASE shell = "fish"
    <3>1. Lines(t)[i] \in {c, w}
      BY <1>3, <1>6, <2>3
    <3> QED BY <1>2, <1>4, <2>3, <3>1
  <2> QED BY <2>1, <2>2, <2>3 DEF Typed
<1>8. shell = "zsh" /\ stamping => Lines(t)[1].form = "header"
  BY <1>2, <1>3, <1>6
<1>9. WellLaid(Lines(t))
  BY <1>3, <1>5
<1> QED BY <1>7, <1>8, <1>9 DEF WrittenAs

Untorn == "torn" \notin setting

Whole == setting \cap {"late", "torn"} = {}

\* What a shell that is not torn writes, and what it trims.
LEMMA WholeEntry ==
  ASSUME Typed, Untorn, NEW t \in Text, Write(t)
  PROVE  file' = file \o Lines(t)
<1>1. \E k \in (IF "torn" \in setting THEN DOMAIN Lines(t) ELSE {Len(Lines(t))}) :
        file' = file \o SubSeq(Lines(t), 1, k)
  BY DEF Write
<1>2. "torn" \notin setting
  BY DEF Untorn
<1>3. file' = file \o SubSeq(Lines(t), 1, Len(Lines(t)))
  BY <1>1, <1>2
<1>4. SubSeq(Lines(t), 1, Len(Lines(t))) = Lines(t)
  <2>1. Lines(t) \in Seq(LineType)
    BY LinesTyped
  <2> HIDE DEF Lines
  <2> DEFINE ls == Lines(t)
             u == SubSeq(ls, 1, Len(ls))
  <2>2. u \in Seq(LineType) /\ Len(u) = Len(ls) /\ \A i \in 1..Len(u) : u[i] = ls[i]
    BY <2>1
  <2> HIDE DEF u, ls
  <2>3. ls \in Seq(LineType)
    BY <2>1 DEF ls
  <2>4. u = ls
    BY <2>2, <2>3, SeqEqual
  <2> QED BY <2>4 DEF u, ls
<1> QED BY <1>3, <1>4

\* What is trimmed is all of the oldest entry, and no more.
LEMMA OldestGoes ==
  ASSUME Typed, Ordered(file), Trim
  PROVE  \E m \in 1..Len(file) :
           /\ file' = SubSeq(file, m + 1, Len(file))
           /\ file[m].n = file[1].n
           /\ m = Len(file) \/ file[m + 1].n # file[m].n
<1> DEFINE oldest == {i \in DOMAIN file : file[i].n = file[1].n}
           m == Max(oldest)
<1>1. file' = SubSeq(file, m + 1, Len(file)) /\ file # << >> /\ file \in Seq(LineType)
  BY DEF Trim, Typed
<1>2. 1 \in oldest /\ oldest \in SUBSET (0..Len(file)) /\ Len(file) \in Nat
  BY <1>1
<1>3. m \in oldest /\ \A i \in oldest : i <= m
  <2> HIDE DEF oldest
  <2> QED BY <1>2, GreatestOf
<1> HIDE DEF m
<1>4. m \in 1..Len(file) /\ file[m].n = file[1].n
  BY <1>1, <1>3
<1>5. ASSUME m # Len(file) PROVE file[m + 1].n # file[m].n
  <2>1. m + 1 \in 1..Len(file) /\ ~(m + 1 <= m)
    BY <1>1, <1>4, <1>5
  <2>2. m + 1 \notin oldest
    BY <1>3, <2>1
  <2> QED BY <1>1, <1>4, <2>1, <2>2
<1> QED BY <1>1, <1>4, <1>5 DEF m

\* An empty file is laid.
LEMMA InitLaid == Init => Laid
<1> SUFFICES ASSUME Init PROVE Laid
  OBVIOUS
<1>1. file = << >> /\ Len(file) = 0
  BY DEF Init
<1>2. Headers(file) = {}
  BY <1>1 DEF Headers
<1>3. Len(file) < SniffLines
  BY <1>1, ImportConstants
<1> QED BY <1>1, <1>2, <1>3 DEF Laid, Lay, Sniffed, WellLaid, Ordered, Numbered

\* What is written is below what was there.
LEMMA WrittenBelow ==
  ASSUME Typed, Untorn, NEW t \in Text, Write(t)
  PROVE  /\ file \in Seq(LineType) /\ written \in Nat /\ written' = written + 1
         /\ \A i \in 1..Len(file) : file[i].n <= written /\ file[i].n \in Nat
         /\ Lines(t) \in Seq(LineType) /\ Len(Lines(t)) \in 1..3
         /\ \A i \in 1..Len(Lines(t)) : Lines(t)[i].n = written + 1
         /\ WrittenAs(shell, stamping, Lines(t))
         /\ Len(file') = Len(file) + Len(Lines(t))
         /\ \A i \in 1..Len(file) : file'[i] = file[i]
         /\ \A i \in 1..Len(Lines(t)) : file'[Len(file) + i] = Lines(t)[i]
         /\ \A i \in 1..Len(file') :
              \/ i \in 1..Len(file) /\ file'[i] = file[i] /\ file'[i].n <= written
              \/ /\ i \in (Len(file) + 1)..Len(file') /\ i - Len(file) \in 1..Len(Lines(t))
                 /\ file'[i] = Lines(t)[i - Len(file)] /\ file'[i].n = written + 1
<1> DEFINE ls == Lines(t)
<1>1. /\ ls \in Seq(LineType) /\ Len(ls) \in 1..3 /\ \A i \in 1..Len(ls) : ls[i].n = written + 1
      /\ WrittenAs(shell, stamping, ls)
  BY LinesTyped, LinesLaid
<1>2. file' = file \o ls
  BY WholeEntry
<1>3. written' = written + 1
  BY DEF Write
<1>4. /\ file \in Seq(LineType) /\ written \in Nat
      /\ \A i \in 1..Len(file) : file[i].n <= written /\ file[i].n \in Nat
  BY DEF Typed
<1> HIDE DEF ls
<1>5. /\ Len(file') = Len(file) + Len(ls)
      /\ \A i \in 1..Len(file) : file'[i] = file[i]
      /\ \A i \in 1..Len(ls) : file'[Len(file) + i] = ls[i]
  BY <1>1, <1>2, <1>4
<1>6. ASSUME NEW i \in 1..Len(file')
      PROVE  \/ i \in 1..Len(file) /\ file'[i] = file[i] /\ file'[i].n <= written
             \/ /\ i \in (Len(file) + 1)..Len(file') /\ i - Len(file) \in 1..Len(ls)
                /\ file'[i] = ls[i - Len(file)] /\ file'[i].n = written + 1
  <2>1. CASE i <= Len(file)
    BY <1>4, <1>5, <2>1
  <2>2. CASE i > Len(file)
    <3>1. i - Len(file) \in 1..Len(ls) /\ Len(file) + (i - Len(file)) = i
      BY <1>1, <1>4, <1>5, <2>2
    <3>2. file'[Len(file) + (i - Len(file))] = ls[i - Len(file)]
      BY <1>5, <3>1
    <3> QED BY <1>1, <1>4, <2>2, <3>1, <3>2
  <2> QED BY <1>1, <1>4, <1>5, <2>1, <2>2
<1> QED BY <1>1, <1>3, <1>4, <1>5, <1>6 DEF ls

\* A whole entry below a laid file leaves it laid.
LEMMA WriteLay ==
  ASSUME Typed, Untorn, Lay, NEW t \in Text, Write(t)
  PROVE  Lay'
<1> DEFINE ls == Lines(t)
<1>1. /\ ls \in Seq(LineType) /\ Len(ls) \in 1..3 /\ \A i \in 1..Len(ls) : ls[i].n = written + 1
      /\ WrittenAs(shell, stamping, ls)
  BY WrittenBelow
<1>2. file' = file \o ls
  BY WholeEntry
<1>3. UNCHANGED <<shell, stamping>> /\ written' = written + 1
  BY DEF Write
<1>4. /\ file \in Seq(LineType) /\ written \in Nat
      /\ \A i \in 1..Len(file) : file[i].n <= written /\ file[i].n \in Nat
  BY WrittenBelow
<1>5. /\ Len(file') = Len(file) + Len(ls)
      /\ \A i \in 1..Len(file) : file'[i] = file[i]
      /\ \A i \in 1..Len(ls) : file'[Len(file) + i] = ls[i]
  BY WrittenBelow
<1>6. \A i \in 1..Len(file') :
        \/ i \in 1..Len(file) /\ file'[i] = file[i] /\ file'[i].n <= written
        \/ /\ i \in (Len(file) + 1)..Len(file') /\ i - Len(file) \in 1..Len(ls)
           /\ file'[i] = ls[i - Len(file)] /\ file'[i].n = written + 1
  BY WrittenBelow
<1> HIDE DEF ls
<1>7. WellLaid(file')
  <2>1. WellLaid(file) /\ WellLaid(ls)
    BY <1>1 DEF Lay, WrittenAs
  <2>2. \A i \in 1..Len(file) : file[i].n <= written
    BY <1>4
  <2>3. Len(ls) >= 1 /\ \A i \in 1..Len(ls) : ls[i].n = written + 1
    BY <1>1
  <2>4. WellLaid(file \o ls)
    BY <1>1, <1>4, <2>1, <2>2, <2>3, LaidAppend
  <2> QED BY <1>2, <2>4
<1>8. ASSUME NEW i \in 1..Len(file'), NEW j \in 1..Len(file'), i <= j
      PROVE  file'[i].n <= file'[j].n
  <2>1. CASE j \in 1..Len(file)
    <3>1. i \in 1..Len(file)
      BY <1>8, <2>1
    <3> QED BY <1>5, <1>8, <2>1, <3>1 DEF Lay, Ordered
  <2>2. CASE file'[j].n = written + 1
    <3>1. file'[i].n <= written \/ file'[i].n = written + 1
      BY <1>6
    <3>2. file'[i].n \in Int
      <4>1. CASE i \in 1..Len(file)
        BY <1>4, <1>5, <4>1
      <4>2. CASE i \notin 1..Len(file)
        BY <1>4, <1>6, <4>2
      <4> QED BY <4>1, <4>2
    <3> QED BY <1>4, <2>2, <3>1, <3>2
  <2> QED BY <1>6, <2>1, <2>2
<1>9. ASSUME NEW i \in 1..Len(file') PROVE file'[i].form \in FormsOf(shell')
  <2>1. CASE i \in 1..Len(file) /\ file'[i] = file[i]
    BY <1>3, <2>1 DEF Lay
  <2>2. CASE i - Len(file) \in 1..Len(ls) /\ file'[i] = ls[i - Len(file)]
    BY <1>1, <1>3, <2>2 DEF WrittenAs
  <2> QED BY <1>6, <2>1, <2>2
<1>10. ASSUME NEW i \in 1..(Len(file') - 1)
       PROVE  file'[i + 1].n \in {file'[i].n, file'[i].n + 1}
  <2>1. i \in 1..Len(file') /\ i + 1 \in 1..Len(file')
    BY <1>1, <1>4, <1>5
  <2>2. CASE i + 1 <= Len(file)
    <3>1. i \in 1..(Len(file) - 1) /\ i \in 1..Len(file) /\ i + 1 \in 1..Len(file)
      BY <1>4, <2>1, <2>2
    <3> QED BY <1>5, <3>1 DEF Lay, Numbered
  <2>3. CASE i = Len(file)
    <3>1. file'[i].n = written
      BY <1>5, <2>1, <2>3 DEF Lay
    <3>2. file'[i + 1].n = written + 1
      BY <1>6, <2>1, <2>3
    <3> QED BY <3>1, <3>2
  <2>4. CASE i > Len(file)
    <3>1. file'[i].n = written + 1 /\ file'[i + 1].n = written + 1
      BY <1>6, <2>1, <2>4
    <3> QED BY <3>1
  <2> QED BY <1>4, <2>1, <2>2, <2>3, <2>4
<1>11. file'[Len(file')].n = written'
  <2>0. Len(file) \in Nat /\ Len(ls) \in 1..3 /\ Len(file') = Len(file) + Len(ls)
    BY <1>1, <1>4, <1>5
  <2>1. Len(file') \in 1..Len(file') /\ Len(file') \notin 1..Len(file)
    BY <2>0
  <2> QED BY <1>3, <1>6, <2>1
<1> QED BY <1>7, <1>8, <1>9, <1>10, <1>11 DEF Lay, Ordered, Numbered

\* A shell that writes dates still writes the first where sniff looks.
LEMMA WriteSniffed ==
  ASSUME Typed, Whole, Laid, NEW t \in Text, Write(t)
  PROVE  Sniffed'
<1>0. Untorn
  BY DEF Whole, Untorn
<1> DEFINE ls == Lines(t)
<1>1. /\ ls \in Seq(LineType) /\ Len(ls) \in 1..3 /\ \A i \in 1..Len(ls) : ls[i].n = written + 1
      /\ WrittenAs(shell, stamping, ls)
  BY <1>0, WrittenBelow
<1>2. file' = file \o ls
  BY <1>0, WholeEntry
<1>3. UNCHANGED <<shell, stamping>> /\ written' = written + 1
  BY DEF Write
<1>4. /\ file \in Seq(LineType) /\ written \in Nat
      /\ \A i \in 1..Len(file) : file[i].n <= written /\ file[i].n \in Nat
  BY <1>0, WrittenBelow
<1>5. /\ Len(file') = Len(file) + Len(ls)
      /\ \A i \in 1..Len(file) : file'[i] = file[i]
      /\ \A i \in 1..Len(ls) : file'[Len(file) + i] = ls[i]
  BY <1>0, WrittenBelow
<1>6. \A i \in 1..Len(file') :
        \/ i \in 1..Len(file) /\ file'[i] = file[i] /\ file'[i].n <= written
        \/ /\ i \in (Len(file) + 1)..Len(file') /\ i - Len(file) \in 1..Len(ls)
           /\ file'[i] = ls[i - Len(file)] /\ file'[i].n = written + 1
  BY <1>0, WrittenBelow
<1> HIDE DEF ls
<1>10. ASSUME NEW i \in Headers(file'), NEW j \in 1..Len(file'), i < j, Opens(file', j)
       PROVE  file'[j].form = "header"
  <2>1. i \in 1..Len(file') /\ file'[i].form = "header"
    BY DEF Headers
  <2>2. CASE j \in 1..Len(file)
    <3>1. i \in Headers(file) /\ i < j
      BY <1>5, <1>10, <2>1, <2>2 DEF Headers
    <3>2. Opens(file, j)
      <4>1. j # 1 /\ j - 1 \in 1..Len(file)
        BY <1>10, <2>1, <2>2
      <4> QED BY <1>5, <1>10, <2>2, <4>1 DEF Opens
    <3> QED BY <1>5, <2>2, <3>1, <3>2 DEF Laid, Lay, Sniffed
  <2>3. CASE j \in (Len(file) + 1)..Len(file') /\ file'[j].n = written + 1
    <3>1. j = Len(file) + 1
      <4> SUFFICES ASSUME j # Len(file) + 1 PROVE FALSE
        OBVIOUS
      <4>1. j - 1 \in 1..Len(file') /\ j - 1 \notin 1..Len(file) /\ j # 1
        BY <1>4, <2>3
      <4>2. file'[j - 1].n = written + 1
        BY <1>6, <4>1
      <4> QED BY <1>10, <2>3, <4>1, <4>2 DEF Opens
    <3>2. i \in Headers(file)
      BY <1>5, <1>10, <1>4, <2>1, <3>1 DEF Headers
    <3>3. stamping /\ shell = "zsh"
      <4>1. file[i].form = "header" /\ file[i].form \in FormsOf(shell) /\ shell \in {"bash", "zsh", "fish"}
        BY <3>2 DEF Laid, Lay, Sniffed, Headers, Typed
      <4>2. shell = "zsh"
        BY <4>1 DEF FormsOf
      <4> QED BY <3>2, <4>2 DEF Laid, Lay, Sniffed
    <3>4. ls[1].form = "header"
      BY <1>1, <3>3 DEF WrittenAs
    <3> QED BY <1>1, <1>5, <3>1, <3>4
  <2> QED BY <1>6, <2>2, <2>3
<1>11. IF Headers(file') # {} THEN stamping' /\ \E i \in Headers(file') : i <= SniffLines
       ELSE shell' = "zsh" /\ stamping' => Len(file') < SniffLines
  <2>1. CASE Headers(file) # {}
    <3>1. PICK i \in Headers(file) : i <= SniffLines /\ stamping
      BY <2>1 DEF Laid, Lay, Sniffed
    <3>2. i \in Headers(file')
      BY <1>1, <1>4, <1>5, <3>1 DEF Headers
    <3> QED BY <1>3, <3>1, <3>2
  <2>2. CASE Headers(file) = {} /\ shell = "zsh" /\ stamping
    <3>1. Len(file) + 1 <= SniffLines
      BY <1>4, <2>2, ImportConstants DEF Laid, Lay, Sniffed
    <3>2. Len(file) + 1 \in 1..Len(file') /\ file'[Len(file) + 1] = ls[1] /\ ls[1].form = "header"
      BY <1>1, <1>4, <1>5, <2>2 DEF WrittenAs
    <3>3. Len(file) + 1 \in Headers(file')
      BY <3>2 DEF Headers
    <3> QED BY <1>3, <2>2, <3>1, <3>3
  <2>3. CASE Headers(file) = {} /\ ~(shell = "zsh" /\ stamping)
    <3>1. ASSUME NEW i \in 1..Len(file'), file'[i].form = "header" PROVE FALSE
      <4>1. CASE i \in 1..Len(file) /\ file'[i] = file[i]
        <5>1. i \in Headers(file)
          BY <3>1, <4>1 DEF Headers
        <5> QED BY <2>3, <5>1
      <4>2. CASE i - Len(file) \in 1..Len(ls) /\ file'[i] = ls[i - Len(file)]
        BY <1>1, <2>3, <3>1, <4>2 DEF WrittenAs
      <4> QED BY <1>6, <4>1, <4>2
    <3>2. Headers(file') = {}
      BY <3>1 DEF Headers
    <3> QED BY <1>3, <2>3, <3>2
  <2> QED BY <2>1, <2>2, <2>3
<1> QED BY <1>10, <1>11 DEF Sniffed

\* The oldest leaving a laid file leaves it laid.
LEMMA TrimLay ==
  ASSUME Typed, Lay, Trim
  PROVE  Lay'
<1>1. PICK m \in 1..Len(file) : /\ file' = SubSeq(file, m + 1, Len(file))
                                /\ m = Len(file) \/ file[m + 1].n # file[m].n
  BY OldestGoes DEF Lay
<1>2. UNCHANGED <<shell, stamping, written>>
  BY DEF Trim
<1>3. file \in Seq(LineType) /\ Len(file) \in Nat
  BY DEF Typed
<1>4. /\ Len(file') = Len(file) - m
      /\ \A i \in 1..Len(file') : file'[i] = file[m + i] /\ m + i \in 1..Len(file)
  BY <1>1, <1>3
<1>5. WellLaid(file')
  BY <1>1, <1>3, LaidTail DEF Lay
<1>6. ASSUME NEW i \in 1..Len(file'), NEW j \in 1..Len(file'), i <= j
      PROVE  file'[i].n <= file'[j].n
  <2>1. /\ m + i \in 1..Len(file) /\ m + j \in 1..Len(file) /\ m + i <= m + j
        /\ file'[i] = file[m + i] /\ file'[j] = file[m + j]
    BY <1>4, <1>6
  <2> QED BY <2>1 DEF Lay, Ordered
<1>7. ASSUME NEW i \in 1..Len(file') PROVE file'[i].form \in FormsOf(shell')
  BY <1>2, <1>4 DEF Lay
<1>8. ASSUME NEW i \in 1..(Len(file') - 1)
      PROVE  file'[i + 1].n \in {file'[i].n, file'[i].n + 1}
  <2>1. i \in 1..Len(file') /\ i + 1 \in 1..Len(file') /\ m + i \in 1..(Len(file) - 1)
        /\ m + (i + 1) = (m + i) + 1
    BY <1>3, <1>4
  <2>2. file'[i] = file[m + i] /\ file'[i + 1] = file[m + (i + 1)]
    BY <1>4, <2>1
  <2>3. file[(m + i) + 1].n \in {file[m + i].n, file[m + i].n + 1}
    BY <2>1 DEF Lay, Numbered
  <2> QED BY <2>1, <2>2, <2>3
<1>9. ASSUME Len(file') >= 1 PROVE file'[Len(file')].n = written'
  <2>1. Len(file') \in 1..Len(file') /\ m + Len(file') = Len(file) /\ Len(file) >= 1
    BY <1>3, <1>4, <1>9
  <2>2. file'[Len(file')] = file[Len(file)]
    BY <1>4, <2>1
  <2> QED BY <1>2, <2>1, <2>2 DEF Lay
<1> QED BY <1>5, <1>6, <1>7, <1>8, <1>9 DEF Lay, Ordered, Numbered

\* What is left of a dated entry's file begins with a dated one.
LEMMA TrimSniffed ==
  ASSUME Typed, Laid, Trim
  PROVE  Sniffed'
<1>1. PICK m \in 1..Len(file) : /\ file' = SubSeq(file, m + 1, Len(file))
                                /\ m = Len(file) \/ file[m + 1].n # file[m].n
  BY OldestGoes DEF Laid, Lay
<1>2. UNCHANGED <<shell, stamping, written>>
  BY DEF Trim
<1>3. file \in Seq(LineType) /\ Len(file) \in Nat
  BY DEF Typed
<1>4. /\ Len(file') = Len(file) - m
      /\ \A i \in 1..Len(file') : file'[i] = file[m + i] /\ m + i \in 1..Len(file)
  BY <1>1, <1>3
<1>8. ASSUME NEW j \in 1..Len(file'), Opens(file', j)
      PROVE  Opens(file, m + j)
  <2>1. CASE j = 1
    <3>1. m # Len(file) /\ m + j - 1 = m /\ m + j = m + 1
      BY <1>3, <1>4, <2>1
    <3> QED BY <1>1, <3>1 DEF Opens
  <2>2. CASE j # 1
    <3>1. j - 1 \in 1..Len(file') /\ m + (j - 1) = m + j - 1 /\ m + j # 1
      BY <2>2
    <3>2. file'[j - 1] = file[m + (j - 1)]
      BY <1>4, <3>1
    <3>3. file'[j - 1].n # file'[j].n
      BY <1>8, <2>2 DEF Opens
    <3>4. file[m + j - 1].n # file[m + j].n
      BY <1>4, <3>1, <3>2, <3>3
    <3> QED BY <3>4 DEF Opens
  <2> QED BY <2>1, <2>2
<1>9. ASSUME NEW i \in Headers(file'), NEW j \in 1..Len(file'), i < j, Opens(file', j)
      PROVE  file'[j].form = "header"
  <2>1. m + i \in Headers(file) /\ m + i < m + j /\ m + j \in 1..Len(file)
    BY <1>4, <1>9 DEF Headers
  <2>2. Opens(file, m + j)
    BY <1>8, <1>9
  <2> QED BY <1>4, <2>1, <2>2 DEF Laid, Lay, Sniffed
\* The line that opens the file now is dated if a dated one was trimmed.
<1>10. ASSUME NEW h \in Headers(file), h <= m, Len(file') >= 1
       PROVE  1 \in Headers(file')
  <2>1. 1 \in 1..Len(file') /\ Opens(file', 1)
    BY <1>4, <1>10 DEF Opens
  <2>2. Opens(file, m + 1) /\ m + 1 \in 1..Len(file) /\ file'[1] = file[m + 1] /\ h < m + 1
    BY <1>4, <1>8, <1>10, <2>1 DEF Headers
  <2> QED BY <2>1, <2>2 DEF Laid, Lay, Sniffed, Headers
<1>11. IF Headers(file') # {} THEN stamping' /\ \E i \in Headers(file') : i <= SniffLines
       ELSE shell' = "zsh" /\ stamping' => Len(file') < SniffLines
  <2>1. CASE Headers(file) = {}
    <3>1. ASSUME NEW i \in Headers(file') PROVE FALSE
      <4>1. m + i \in Headers(file)
        BY <1>4 DEF Headers
      <4> QED BY <2>1, <4>1
    <3>2. Headers(file') = {}
      BY <3>1
    <3>3. shell' = "zsh" /\ stamping' => Len(file) < SniffLines
      BY <1>2, <2>1 DEF Laid, Lay, Sniffed
    <3> QED BY <1>3, <1>4, <3>2, <3>3, ImportConstants
  <2>2. CASE Headers(file) # {}
    <3>1. PICK h \in Headers(file) : h <= SniffLines /\ stamping
      BY <2>2 DEF Laid, Lay, Sniffed
    <3>2. h \in 1..Len(file) /\ file[h].form = "header"
      BY DEF Headers
    <3>3. CASE h > m
      <4>1. h - m \in 1..Len(file') /\ m + (h - m) = h /\ h - m <= SniffLines
        BY <1>3, <1>4, <3>1, <3>2, <3>3, ImportConstants
      <4>2. h - m \in Headers(file')
        BY <1>4, <3>2, <4>1 DEF Headers
      <4> QED BY <1>2, <3>1, <4>1, <4>2
    <3>4. CASE h <= m /\ Len(file') >= 1
      <4>1. 1 \in Headers(file') /\ 1 <= SniffLines
        BY <1>10, <3>4, ImportConstants
      <4> QED BY <1>2, <3>1, <4>1
    <3>5. CASE Len(file') = 0
      <4>1. Headers(file') = {} /\ Len(file') < SniffLines
        BY <3>5, ImportConstants DEF Headers
      <4> QED BY <4>1
    <3> QED BY <1>3, <1>4, <3>2, <3>3, <3>4, <3>5
  <2> QED BY <2>1, <2>2
<1> QED BY <1>9, <1>11 DEF Sniffed

\* Every step leaves a file of whole entries laid.
LEMMA NextLay ==
  ASSUME Typed, Untorn => Lay, [Next]_vars
  PROVE  (Untorn => Lay)'
<1>1. setting' = setting
  BY DEF Next, Write, Trim, SwitchOn, SwitchOff, Tick, Import, vars, events
<1> SUFFICES ASSUME Untorn PROVE Lay'
  BY <1>1 DEF Untorn
<1>2. Lay
  OBVIOUS
<1>3. ASSUME NEW t \in Text, Write(t) PROVE Lay'
  BY <1>2, <1>3, WriteLay
<1>4. CASE Trim
  BY <1>2, <1>4, TrimLay
<1>5. CASE UNCHANGED <<file, shell, written>>
  BY <1>2, <1>5 DEF Lay
<1> QED BY <1>3, <1>4, <1>5 DEF Next, SwitchOn, SwitchOff, Tick, Import, vars, history

\* Every step leaves sniff what it needs, SwitchOn because it still looks at the
\* end of the file.
LEMMA NextSniffed ==
  ASSUME Typed, Whole => Laid, [Next]_vars
  PROVE  (Whole => Sniffed)'
<1>1. setting' = setting
  BY DEF Next, Write, Trim, SwitchOn, SwitchOff, Tick, Import, vars, events
<1> SUFFICES ASSUME Whole PROVE Sniffed'
  BY <1>1 DEF Whole
<1>2. Laid
  OBVIOUS
<1>3. ASSUME NEW t \in Text, Write(t) PROVE Sniffed'
  BY <1>2, <1>3, WriteSniffed
<1>4. CASE Trim
  BY <1>2, <1>4, TrimSniffed
<1>5. CASE SwitchOn
  <2>1. /\ UNCHANGED <<file, shell>> /\ stamping' = TRUE /\ stamping = FALSE
        /\ shell = "bash" \/ Len(file) < SniffLines
    BY <1>5 DEF SwitchOn, Whole, Typed
  <2>2. Headers(file) = {}
    BY <1>2, <2>1 DEF Laid, Sniffed
  <2> QED BY <1>2, <2>1, <2>2 DEF Laid, Sniffed
<1>6. CASE UNCHANGED <<file, shell, stamping>>
  BY <1>2, <1>6 DEF Laid, Sniffed
<1>7. CASE SwitchOff
  <2>1. UNCHANGED <<file, shell>> /\ shell = "bash"
    BY <1>7 DEF SwitchOff
  <2>2. \A i \in 1..Len(file) : file[i].form # "header"
    BY <1>2, <2>1 DEF Laid, Lay, FormsOf
  <2>3. Headers(file) = {} /\ Headers(file') = {}
    BY <2>1, <2>2 DEF Headers
  <2> QED BY <2>1, <2>3 DEF Sniffed
<1> QED BY <1>3, <1>4, <1>5, <1>6, <1>7 DEF Next, Tick, Import, vars, history

\* The files of shells that write whole entries are always laid.
LEMMA LayAlways == Spec => [](Untorn => Lay)
<1>1. Init => (Untorn => Lay)
  BY InitLaid DEF Laid
<1> QED BY <1>1, NextLay, TypedAlways, PTL DEF Spec

\* And where dates come early enough, sniff finds them.
LEMMA LaidAlways == Spec => [](Whole => Laid)
<1>1. Init => (Whole => Sniffed)
  BY InitLaid DEF Laid
<1>2. (Untorn => Lay) /\ (Whole => Sniffed) => (Whole => Laid)
  BY DEF Untorn, Whole, Laid
<1> QED BY <1>1, <1>2, NextSniffed, TypedAlways, LayAlways, PTL DEF Spec

----------------------------------------------------------------------------
(* What is read of a file that is laid.                                    *)

\* Two lines of one entry.
LEMMA Follows ==
  ASSUME NEW f \in Seq(LineType), WellLaid(f), Ordered(f),
         NEW i \in 1..Len(f), NEW j \in 1..Len(f), i < j, f[i].n = f[j].n
  PROVE  /\ f[j].form \in {"when", "plain"}
         /\ f[i].more \/ f[i].form \in {"stamp", "cmd"}
         /\ f[i + 1].form = IF f[i].form = "cmd" THEN "when" ELSE "plain"
         /\ j = i + 1 \/ (f[i].form = "stamp" /\ f[i + 1].more /\ j = i + 2)
<1>1. ASSUME NEW k \in i..(j - 1) PROVE k \in 1..Len(f) /\ Joined(f, k) /\ LaidAt(f, k)
  <2>1. k \in 1..Len(f) /\ k + 1 \in 1..Len(f) /\ i <= k /\ k <= k + 1 /\ k + 1 <= j /\ k < Len(f)
    BY <1>1
  <2>2. f[i].n <= f[k].n /\ f[k].n <= f[k + 1].n /\ f[k + 1].n <= f[j].n
    BY <2>1 DEF Ordered
  <2>3. f[i].n \in Nat /\ f[k].n \in Nat /\ f[k + 1].n \in Nat /\ f[j].n \in Nat
    BY <2>1, LineTyped
  <2>4. LaidAt(f, k)
    BY <2>1 DEF WellLaid
  <2> QED BY <2>1, <2>2, <2>3, <2>4 DEF Joined
<1>2. f[j].form \in {"when", "plain"}
  <2>1. j - 1 \in i..(j - 1) /\ (j - 1) + 1 = j
    OBVIOUS
  <2>2. Joined(f, j - 1) /\ LaidAt(f, j - 1)
    BY <1>1, <2>1
  <2>3. f[(j - 1) + 1].form = (IF f[j - 1].form = "cmd" THEN "when" ELSE "plain")
    BY <2>2 DEF LaidAt
  <2> QED BY <2>1, <2>3
<1>3. Joined(f, i) /\ LaidAt(f, i)
  <2>1. i \in i..(j - 1)
    OBVIOUS
  <2> QED BY <1>1, <2>1
<1>4. /\ f[i].more \/ f[i].form \in {"stamp", "cmd"}
      /\ f[i + 1].form = IF f[i].form = "cmd" THEN "when" ELSE "plain"
      /\ f[i].more => ~f[i + 1].more
  BY <1>3 DEF LaidAt
<1>5. ASSUME j # i + 1 PROVE f[i].form = "stamp" /\ f[i + 1].more /\ f[i + 1].form = "plain"
  <2>1. i + 1 \in i..(j - 1)
    BY <1>5
  <2>2. Joined(f, i + 1) /\ LaidAt(f, i + 1)
    BY <1>1, <2>1
  <2>3. f[i + 1].more \/ f[i + 1].form \in {"stamp", "cmd"}
    BY <2>2 DEF LaidAt
  <2>4. f[i + 1].more
    BY <1>4, <2>3
  <2>5. f[i + 1].form # "when"
    BY <2>2, <2>4 DEF LaidAt
  <2> QED BY <1>4, <2>4, <2>5
<1>6. ASSUME j # i + 1, j # i + 2 PROVE FALSE
  <2>1. i + 1 \in i..(j - 1) /\ i + 2 \in i..(j - 1) /\ (i + 1) + 1 = i + 2
    BY <1>6
  <2>2. Joined(f, i + 1) /\ LaidAt(f, i + 1) /\ Joined(f, i + 2) /\ LaidAt(f, i + 2)
    BY <1>1, <2>1
  <2>3. f[i + 1].more /\ f[i + 1].form = "plain"
    BY <1>5, <1>6
  <2>4. ~f[(i + 1) + 1].more /\ f[(i + 1) + 1].form = "plain"
    BY <2>2, <2>3 DEF LaidAt
  <2>5. ~f[i + 2].more /\ f[i + 2].form = "plain"
    BY <2>1, <2>4
  <2> QED BY <2>2, <2>5 DEF LaidAt
<1> QED BY <1>2, <1>4, <1>5, <1>6

\* Where a reader may take an entry from.
Starts(f) == {i \in 1..(Len(f) + 1) : i = 1 \/ ~f[i - 1].more}

\* A reader goes on from a start to a start.
LEMMA EntryEnds ==
  ASSUME NEW f \in Seq(LineType), WellLaid(f), NEW i \in 1..Len(f)
  PROVE  /\ LastLine(f, i) \in i..Len(f) /\ ~f[LastLine(f, i)].more
         /\ LastLine(f, i) + 1 \in Starts(f)
         /\ f[i].form = "stamp" => i + 1 \in Starts(f)
<1>1. /\ LastLine(f, i) \in i..Len(f)
      /\ f[LastLine(f, i)].more => LastLine(f, i) = Len(f)
  BY LastLineIn
<1>2. ~f[LastLine(f, i)].more
  <2>1. LaidAt(f, LastLine(f, i))
    BY <1>1 DEF WellLaid
  <2> QED BY <1>1, <2>1 DEF LaidAt, Joined
<1>3. ASSUME NEW j \in 1..Len(f), ~f[j].more PROVE j + 1 \in Starts(f)
  <2>1. (j + 1) - 1 = j /\ j + 1 \in 1..(Len(f) + 1)
    OBVIOUS
  <2> QED BY <1>3, <2>1 DEF Starts
<1>4. f[i].form = "stamp" => ~f[i].more
  BY DEF WellLaid, LaidAt
<1> QED BY <1>1, <1>2, <1>3, <1>4

\* An entry's text is its own lines.
LEMMA EntryText ==
  ASSUME NEW f \in Seq(LineType), WellLaid(f), NEW i \in 1..Len(f), f[i].form \notin {"cmd"},
         NEW bare \in BOOLEAN, NEW at \in Nat
  PROVE  Entry(f, i, bare, at).text = TextAt(f, i, bare)
<1> DEFINE last == LastLine(f, i)
           text == [k \in 1..(last - i + 1) |-> Piece(f[i + k - 1], bare /\ k = 1)]
<1>1. Entry(f, i, bare, at).text = text
  BY Zenon DEF Entry
<1>2. last \in i..Len(f) /\ ~f[last].more /\ \A j \in i..Len(f) : j < last => f[j].more
  BY EntryEnds, LastLineIn
<1>3. LaidAt(f, i)
  BY DEF WellLaid
<1> HIDE DEF last
<1>4. CASE f[i].more
  <2>1. Joined(f, i) /\ i < Len(f) /\ ~f[i + 1].more
    BY <1>3, <1>4 DEF LaidAt, Joined
  <2>2. last = i + 1
    <3>1. last # i
      BY <1>2, <1>4
    <3>2. ~(i + 1 < last)
      <4> SUFFICES ASSUME i + 1 < last PROVE FALSE
        OBVIOUS
      <4>1. i + 1 \in i..Len(f)
        BY <2>1
      <4> QED BY <1>2, <2>1, <4>1
    <3> QED BY <1>2, <3>1, <3>2
  <2> DEFINE a == Piece(f[i], bare)
             b == Piece(f[i + 1], FALSE)
  <2>3. DOMAIN text = 1..2 /\ text[1] = a /\ text[2] = b
    <3>1. last - i + 1 = 2 /\ i + 1 - 1 = i /\ i + 2 - 1 = i + 1
      BY <2>2
    <3>2. DOMAIN text = 1..2
      BY <3>1
    <3>3. text[1] = Piece(f[i], bare /\ 1 = 1)
      BY <3>1
    <3>4. text[2] = Piece(f[i + 1], bare /\ 2 = 1)
      BY <3>1
    <3>5. (bare /\ 1 = 1) = bare /\ (bare /\ 2 = 1) = FALSE
      OBVIOUS
    <3> QED BY <3>2, <3>3, <3>4, <3>5
  <2>4. TextAt(f, i, bare) = <<a, b>>
    BY <1>4 DEF TextAt
  <2>5. text \in Seq({a, b}) /\ Len(text) = 2 /\ <<a, b>> \in Seq({a, b}) /\ Len(<<a, b>>) = 2
        /\ <<a, b>>[1] = a /\ <<a, b>>[2] = b
    <3>1. \A k \in 1..2 : k = 1 \/ k = 2
      OBVIOUS
    <3>2. text = [k \in 1..2 |-> text[k]]
      <4>1. text = [k \in DOMAIN text |-> text[k]]
        OBVIOUS
      <4> HIDE DEF text
      <4> QED BY <2>3, <4>1
    <3> HIDE DEF text, a, b
    <3> QED BY <2>3, <3>1, <3>2
  <2>6. \A k \in 1..2 : text[k] = <<a, b>>[k]
    <3>1. \A k \in 1..2 : k = 1 \/ k = 2
      OBVIOUS
    <3> HIDE DEF text, a, b
    <3> QED BY <2>3, <2>5, <3>1
  <2>7. text = <<a, b>>
    <3> HIDE DEF text, a, b
    <3> DEFINE v == <<a, b>>
    <3>1. v \in Seq({a, b}) /\ Len(v) = 2 /\ \A k \in 1..2 : text[k] = v[k]
      BY <2>5, <2>6
    <3> HIDE DEF v
    <3>2. text = v
      BY <2>5, <3>1, SeqEqual
    <3> QED BY <3>2 DEF v
  <2> QED BY <1>1, <2>4, <2>7
<1>5. CASE ~f[i].more
  <2>1. last = i
    <3>1. ~(i < last)
      <4> SUFFICES ASSUME i < last PROVE FALSE
        OBVIOUS
      <4>1. i \in i..Len(f)
        OBVIOUS
      <4> QED BY <1>2, <1>5, <4>1
    <3> QED BY <1>2, <3>1
  <2> DEFINE a == Piece(f[i], bare)
  <2>2. DOMAIN text = 1..1 /\ text[1] = a
    <3>1. last - i + 1 = 1 /\ i + 1 - 1 = i
      BY <2>1
    <3>2. DOMAIN text = 1..1
      BY <3>1
    <3>3. text[1] = Piece(f[i], bare /\ 1 = 1)
      BY <3>1
    <3>4. (bare /\ 1 = 1) = bare
      OBVIOUS
    <3> QED BY <3>2, <3>3, <3>4
  <2>3. TextAt(f, i, bare) = <<a>>
    BY <1>5 DEF TextAt
  <2>4. text = <<a>>
    <3>1. text = [k \in DOMAIN text |-> text[k]]
      OBVIOUS
    <3>2. text \in Seq({a}) /\ Len(text) = 1
      <4> HIDE DEF text, a
      <4>1. \A k \in 1..1 : k = 1
        OBVIOUS
      <4>2. text = [k \in 1..1 |-> text[k]] /\ \A k \in 1..1 : text[k] \in {a}
        BY <2>2, <3>1, <4>1
      <4> QED BY <4>2
    <3> DEFINE v == <<a>>
    <3>3. v \in Seq({a}) /\ Len(v) = 1 /\ v[1] = a
      <4> HIDE DEF a
      <4> QED OBVIOUS
    <3> HIDE DEF v, text, a
    <3>4. \A k \in 1..Len(text) : text[k] = v[k]
      BY <2>2, <3>2, <3>3
    <3>5. text = v
      BY <3>2, <3>3, <3>4, SeqEqual
    <3> QED BY <3>5 DEF v
  <2> QED BY <1>1, <2>3, <2>4
<1>6. f[i].more \in BOOLEAN
  BY LineTyped
<1> QED BY <1>4, <1>5, <1>6

\* What each reader makes of an entry that was dated: the date that stands
\* there, and the entry's own lines.
LEMMA BashDated ==
  ASSUME NEW f \in Seq(LineType), WellLaid(f), Ordered(f),
         NEW j \in Starts(f), j <= Len(f), f[j].form # "stamp",
         NEW i \in 1..Len(f), f[i].form = "stamp", f[i].n = f[j].n
  PROVE  BashEntry(f, j).at = f[i].at * Second /\ BashEntry(f, j).text = TextAt(f, i + 1, FALSE)
<1>1. j \in 1..Len(f) /\ (j = 1 \/ ~f[j - 1].more)
  BY DEF Starts
<1>2. i < j
  <2>1. ~(j < i)
    <3> SUFFICES ASSUME j < i PROVE FALSE
      OBVIOUS
    <3>1. f[i].form \in {"when", "plain"}
      BY <1>1, Follows
    <3> QED BY <3>1
  <2>2. j # i
    OBVIOUS
  <2> QED BY <1>1, <2>1, <2>2
<1>3. f[j].form \in {"when", "plain"} /\ (j = i + 1 \/ (f[i + 1].more /\ j = i + 2))
  BY <1>1, <1>2, Follows
<1>4. j = i + 1
  <2>1. j = i + 2 => j - 1 = i + 1
    OBVIOUS
  <2> QED BY <1>1, <1>3, <2>1
<1>5. Pending(f, j) = f[i].at
  <2>1. j > 1 /\ j - 1 = i /\ j - 2 = i - 1
    BY <1>4
  <2>2. ASSUME j > 2 PROVE ~f[i - 1].more
    <3>1. i - 1 \in 1..Len(f) /\ (i - 1) + 1 = i
      BY <1>4, <2>2
    <3>2. LaidAt(f, i - 1)
      BY <3>1 DEF WellLaid
    <3> QED BY <3>1, <3>2 DEF LaidAt
  <2> QED BY <2>1, <2>2 DEF Pending
<1>6. f[i].at \in Nat
  BY LineTyped
<1>7. BashEntry(f, j).at = Pending(f, j) * Second
  BY Zenon DEF BashEntry, Entry
<1>8. BashEntry(f, j).text = TextAt(f, j, FALSE)
  <2>1. FALSE \in BOOLEAN /\ f[j].form \notin {"cmd"} /\ Pending(f, j) \in Nat
    BY <1>3, <1>5, <1>6
  <2> QED BY <1>1, <2>1, EntryText DEF BashEntry
<1> QED BY <1>4, <1>5, <1>7, <1>8

\* What zsh's reader makes of an entry with a header.
LEMMA ZshDated ==
  ASSUME NEW f \in Seq(LineType), WellLaid(f), Ordered(f),
         NEW j \in Starts(f), j <= Len(f),
         NEW i \in 1..Len(f), f[i].form = "header", f[i].n = f[j].n
  PROVE  ZshEntry(f, j).at = f[i].at * Second /\ ZshEntry(f, j).text = TextAt(f, i, TRUE)
<1>1. j \in 1..Len(f) /\ (j = 1 \/ ~f[j - 1].more)
  BY DEF Starts
<1>2. j = i
  <2>1. ~(j < i)
    <3> SUFFICES ASSUME j < i PROVE FALSE
      OBVIOUS
    <3>1. f[i].form \in {"when", "plain"}
      BY <1>1, Follows
    <3> QED BY <3>1
  <2>2. ~(i < j)
    <3> SUFFICES ASSUME i < j PROVE FALSE
      OBVIOUS
    <3>1. f[i].more /\ j = i + 1
      BY <1>1, Follows
    <3>2. j - 1 = i /\ j # 1
      BY <3>1
    <3> QED BY <1>1, <3>1, <3>2
  <2> QED BY <1>1, <2>1, <2>2
<1>3. f[i].at \in Nat
  BY LineTyped
<1>4. ZshEntry(f, j) = Entry(f, i, TRUE, f[i].at)
  BY <1>2 DEF ZshEntry
<1>5. Entry(f, i, TRUE, f[i].at).at = f[i].at * Second
  BY Zenon DEF Entry
<1>6. Entry(f, i, TRUE, f[i].at).text = TextAt(f, i, TRUE)
  <2>1. TRUE \in BOOLEAN /\ f[i].form \notin {"cmd"}
    OBVIOUS
  <2> QED BY <1>3, <2>1, EntryText
<1> QED BY <1>4, <1>5, <1>6

\* What fish's reader makes of an entry with a date.
LEMMA FishDated ==
  ASSUME NEW f \in Seq(LineType), WellLaid(f), Ordered(f),
         \A k \in 1..Len(f) : f[k].form \in FormsOf("fish"),
         NEW j \in 1..Len(f), f[j].form = "cmd",
         NEW i \in 1..Len(f), f[i].form = "when", f[i].n = f[j].n
  PROVE  FishEntry(f, j).at = f[i].at * Second /\ FishEntry(f, j).text = <<Piece(f[i - 1], TRUE)>>
<1>1. i = j + 1
  <2>1. ~(i < j)
    <3> SUFFICES ASSUME i < j PROVE FALSE
      OBVIOUS
    <3>1. f[j].form \in {"when", "plain"}
      BY Follows
    <3> QED BY <3>1
  <2>2. i # j
    OBVIOUS
  <2> QED BY <2>1, <2>2, Follows
<1>2. ASSUME NEW k \in Dates(f, j) PROVE k = i
  <2>1. k \in (j + 1)..Len(f) /\ f[k].form = "when" /\ \A l \in (j + 1)..k : f[l].form # "cmd"
    BY DEF Dates
  <2> SUFFICES ASSUME k # i PROVE FALSE
    OBVIOUS
  <2>2. j + 2 \in (j + 1)..k /\ j + 2 \in 1..Len(f) /\ (j + 2) - 1 = i /\ i + 1 = j + 2 /\ i < Len(f)
    BY <1>1, <2>1
  <2>3. f[j + 2].form = "when"
    <3>1. f[j + 2].form \in FormsOf("fish") /\ f[j + 2].form # "cmd"
      BY <2>1, <2>2
    <3> QED BY <3>1 DEF FormsOf
  <2>4. LaidAt(f, i) /\ LaidAt(f, j + 2)
    BY <2>2 DEF WellLaid
  <2>5. ~Opens(f, j + 2)
    BY <2>3, <2>4 DEF LaidAt
  <2>6. Joined(f, i)
    BY <2>2, <2>5 DEF Opens, Joined
  <2> QED BY <2>4, <2>6 DEF LaidAt
<1>3. i \in Dates(f, j)
  <2>1. \A l \in (j + 1)..i : l = i
    BY <1>1
  <2>2. i \in (j + 1)..Len(f)
    BY <1>1
  <2> QED BY <2>1, <2>2 DEF Dates
<1>4. Dates(f, j) # {} /\ Max(Dates(f, j)) = i
  <2>1. Dates(f, j) \in SUBSET (0..Len(f)) /\ Len(f) \in Nat
    BY DEF Dates
  <2>2. Max(Dates(f, j)) \in Dates(f, j)
    BY <1>3, <2>1, GreatestOf
  <2> QED BY <1>2, <1>3, <2>2
<1>5. FishEntry(f, j).at = IF Dates(f, j) = {} THEN 0 ELSE f[Max(Dates(f, j))].at * Second
  BY Zenon DEF FishEntry
<1>6. FishEntry(f, j).text = <<Piece(f[j], TRUE)>>
  BY Zenon DEF FishEntry
<1>7. i - 1 = j
  BY <1>1
<1> QED BY <1>4, <1>5, <1>6, <1>7

\* The file of a whole history is taken for what it is, if a line of it is dated.
LEMMA SniffTells ==
  ASSUME Typed, Laid, NEW i \in 1..Len(file)
  PROVE  /\ file[i].form = "stamp" => Sniff(file) = "bash"
         /\ file[i].form = "header" => Sniff(file) = "zsh"
         /\ file[i].form = "when" => Sniff(file) = "fish"
<1> DEFINE telling == {k \in DOMAIN file : k <= SniffLines /\ file[k].form \in {"header", "cmd"}}
<1>1. /\ DOMAIN file = 1..Len(file) /\ telling \in SUBSET Nat /\ Len(file) \in Nat
      /\ file \in Seq(LineType)
  <2>1. file \in Seq(LineType)
    BY DEF Typed
  <2> QED BY <2>1
<1>2. Sniff(file) = IF telling = {} THEN "bash"
                    ELSE IF file[Min(telling)].form = "header" THEN "zsh" ELSE "fish"
  BY DEF Sniff
<1>3. telling # {} => Min(telling) \in telling
  <2> HIDE DEF telling
  <2> QED BY <1>1, LeastOf
<1>4. \A k \in 1..Len(file) : file[k].form \in FormsOf(shell)
  BY DEF Laid, Lay, Sniffed
<1>5. ASSUME file[i].form = "stamp" PROVE Sniff(file) = "bash"
  <2>1. shell = "bash"
    BY <1>4, <1>5 DEF FormsOf, Typed
  <2>2. telling = {}
    BY <1>1, <1>4, <2>1 DEF FormsOf
  <2> QED BY <1>2, <2>2
<1>6. ASSUME file[i].form = "header" PROVE Sniff(file) = "zsh"
  <2>1. shell = "zsh"
    BY <1>4, <1>6 DEF FormsOf, Typed
  <2>2. i \in Headers(file)
    BY <1>6 DEF Headers
  <2>3. PICK h \in Headers(file) : h <= SniffLines
    BY <2>2 DEF Laid, Lay, Sniffed
  <2>4. h \in telling
    BY <1>1, <2>3 DEF Headers
  <2>5. Min(telling) \in telling
    <3> HIDE DEF telling
    <3> QED BY <1>3, <2>4
  <2>6. file[Min(telling)].form \in {"header", "cmd"} /\ Min(telling) \in 1..Len(file)
    BY <1>1, <2>5
  <2>7. file[Min(telling)].form = "header"
    BY <1>4, <2>1, <2>6 DEF FormsOf
  <2> QED BY <1>2, <2>4, <2>7
<1>7. ASSUME file[i].form = "when" PROVE Sniff(file) = "fish"
  <2>1. shell = "fish"
    BY <1>4, <1>7 DEF FormsOf, Typed
  <2>2. 1 \in 1..Len(file) /\ LaidAt(file, 1) /\ Opens(file, 1)
    BY <1>1 DEF Laid, Lay, Sniffed, WellLaid, Opens
  <2>3. file[1].form = "cmd"
    BY <1>4, <2>1, <2>2 DEF FormsOf, LaidAt
  <2>4. 1 \in telling
    BY <1>1, <2>2, <2>3, ImportConstants
  <2>5. Min(telling) \in telling
    <3> HIDE DEF telling
    <3> QED BY <1>3, <2>4
  <2>6. Min(telling) \in 1..Len(file)
    BY <1>1, <2>5
  <2>7. file[Min(telling)].form # "header"
    BY <1>4, <2>1, <2>6 DEF FormsOf
  <2> QED BY <1>2, <2>4, <2>7
<1> QED BY <1>5, <1>6, <1>7

\* Where in the file the reader has an entry from.
FoundIn(f, x) ==
  \/ /\ Sniff(f) = "bash"
     /\ \E j \in Starts(f) : j <= Len(f) /\ f[j].form # "stamp" /\ x = BashEntry(f, j)
  \/ /\ Sniff(f) = "zsh"
     /\ \E j \in Starts(f) : j <= Len(f) /\ x = ZshEntry(f, j)
  \/ /\ Sniff(f) = "fish"
     /\ \E j \in 1..Len(f) : f[j].form = "cmd" /\ x = FishEntry(f, j)

\* What Parse returns comes from a start, the undated with a date.
LEMMA ReadFrom ==
  ASSUME NEW f \in Seq(LineType), WellLaid(f), NEW m
  PROVE  \E es : ReadAs(Parse(f, m), es) /\ \A k \in 1..Len(es) : FoundIn(f, es[k])
<1>1. Starts(f) \in SUBSET (1..(Len(f) + 1)) /\ 1 \in Starts(f)
  BY DEF Starts
<1>2. ASSUME NEW i \in Starts(f), i <= Len(f)
      PROVE  LastLine(f, i) + 1 \in Starts(f) /\ (f[i].form = "stamp" => i + 1 \in Starts(f))
  <2>1. i \in 1..Len(f)
    BY <1>1, <1>2
  <2> QED BY <2>1, EntryEnds
<1>3. PICK es : /\ \/ Sniff(f) = "bash" /\ es = ParseBash(f)
                   \/ Sniff(f) = "zsh" /\ es = ParseZsh(f)
                   \/ Sniff(f) = "fish" /\ es = ParseFish(f)
                /\ ReadAs(Parse(f, m), es)
  BY Readings
<1>4. CASE Sniff(f) = "bash" /\ es = ParseBash(f)
  <2> DEFINE V == {BashEntry(f, j) : j \in {i \in Starts(f) : i <= Len(f) /\ f[i].form # "stamp"}}
  <2>1. ASSUME NEW i \in Starts(f), i <= Len(f)
        PROVE  IF f[i].form = "stamp" THEN i + 1 \in Starts(f)
               ELSE LastLine(f, i) + 1 \in Starts(f) /\ BashEntry(f, i) \in V
    BY <1>2, <2>1
  <2>2. es \in Seq(V)
    <3> HIDE DEF V
    <3> QED BY <1>1, <1>4, <2>1, BashReads
  <2>3. \A k \in 1..Len(es) : es[k] \in V
    <3> HIDE DEF V
    <3> QED BY <2>2
  <2>4. \A x \in V : FoundIn(f, x)
    BY <1>4 DEF FoundIn
  <2> QED BY <1>3, <2>3, <2>4
<1>5. CASE Sniff(f) = "zsh" /\ es = ParseZsh(f)
  <2> DEFINE V == {ZshEntry(f, j) : j \in {i \in Starts(f) : i <= Len(f)}}
  <2>1. ASSUME NEW i \in Starts(f), i <= Len(f)
        PROVE  LastLine(f, i) + 1 \in Starts(f) /\ ZshEntry(f, i) \in V
    BY <1>2, <2>1
  <2>2. es \in Seq(V)
    <3> HIDE DEF V
    <3> QED BY <1>1, <1>5, <2>1, ZshReads
  <2>3. \A k \in 1..Len(es) : es[k] \in V
    <3> HIDE DEF V
    <3> QED BY <2>2
  <2>4. \A x \in V : FoundIn(f, x)
    BY <1>5 DEF FoundIn
  <2> QED BY <1>3, <2>3, <2>4
<1>6. CASE Sniff(f) = "fish" /\ es = ParseFish(f)
  <2> DEFINE V == {FishEntry(f, j) : j \in {i \in 1..Len(f) : f[i].form = "cmd"}}
  <2>1. ASSUME NEW i \in 1..Len(f), f[i].form = "cmd"
        PROVE  FishEntry(f, i) \in V
    BY <2>1
  <2>2. es \in Seq(V)
    <3> HIDE DEF V
    <3> QED BY <1>6, <2>1, FishReads
  <2>3. \A k \in 1..Len(es) : es[k] \in V
    <3> HIDE DEF V
    <3> QED BY <2>2
  <2>4. \A x \in V : FoundIn(f, x)
    BY <1>6 DEF FoundIn
  <2> QED BY <1>3, <2>3, <2>4
<1> QED BY <1>3, <1>4, <1>5, <1>6

\* It is the entry of a line.
LEMMA EntryOf ==
  ASSUME NEW f \in Seq(LineType), NEW x, FoundIn(f, x)
  PROVE  \E j \in 1..Len(f) : x.n = f[j].n
<1>1. ASSUME NEW j \in 1..Len(f)
      PROVE  BashEntry(f, j).n = f[j].n /\ ZshEntry(f, j).n = f[j].n /\ FishEntry(f, j).n = f[j].n
  <2>1. \A bare, at : Entry(f, j, bare, at).n = f[j].n
    BY Zenon DEF Entry
  <2>2. BashEntry(f, j).n = f[j].n
    BY <2>1, Zenon DEF BashEntry
  <2>3. ZshEntry(f, j).n = f[j].n
    BY <2>1, Zenon DEF ZshEntry
  <2>4. FishEntry(f, j).n = f[j].n
    BY Zenon DEF FishEntry
  <2> QED BY <2>2, <2>3, <2>4
<1>2. \A j \in Starts(f) : j <= Len(f) => j \in 1..Len(f)
  BY DEF Starts
<1> QED BY <1>1, <1>2 DEF FoundIn

\* An entry read from a file with the date of the i-th line has the id that line
\* gives.
LEMMA DatedEntry ==
  ASSUME Typed, Laid, NEW k \in 1..Len(Entries)
  PROVE  /\ Entries[k].n \in 1..written
         /\ \A i \in 1..Len(file) :
              file[i].n = Entries[k].n /\ file[i].form \in Stamps => Id(Entries[k]) = IdAt(file, i)
<1>1. file \in Seq(LineType) /\ WellLaid(file) /\ Ordered(file)
      /\ \A i \in 1..Len(file) : file[i].form \in FormsOf(shell)
  BY DEF Typed, Laid, Lay, Sniffed
<1>2. PICK es : ReadAs(Entries, es) /\ \A l \in 1..Len(es) : FoundIn(file, es[l])
  BY <1>1, ReadFrom DEF Entries
<1> DEFINE e == Entries[k]
           x == es[k]
<1>3. /\ k \in 1..Len(es) /\ FoundIn(file, x)
      /\ e.text = x.text /\ e.n = x.n /\ (x.at # 0 => e.at = x.at)
  BY <1>2 DEF ReadAs
<1> HIDE DEF e, x
<1>4. e.n \in 1..written
  BY <1>1, <1>3, EntryOf DEF Typed
<1>5. ASSUME NEW i \in 1..Len(file), file[i].n = e.n, file[i].form \in Stamps
      PROVE  Id(e) = IdAt(file, i)
  <2>1. file[i].at * Second # 0
    <3>1. file[i].at >= 1 /\ file[i].at \in Nat
      BY <1>1, <1>5, LineTyped DEF WellLaid, LaidAt, Stamps
    <3>2. 1 * Second <= file[i].at * Second
      BY <3>1, Times, ImportConstants
    <3> QED BY <3>2, ImportConstants
  <2>2. Id(e) = [shell |-> Sniff(file), at |-> e.at, text |-> Apply(e.text)]
    BY DEF Id
  <2>3. CASE file[i].form = "stamp"
    <3>1. Sniff(file) = "bash"
      BY <2>3, SniffTells
    <3>2. PICK j \in Starts(file) : j <= Len(file) /\ file[j].form # "stamp" /\ x = BashEntry(file, j)
      BY <1>3, <3>1 DEF FoundIn
    <3>3. j \in 1..Len(file) /\ x.n = file[j].n
      <4>1. BashEntry(file, j).n = file[j].n
        BY Zenon DEF BashEntry, Entry
      <4> QED BY <3>2, <4>1 DEF Starts
    <3>4. x.at = file[i].at * Second /\ x.text = TextAt(file, i + 1, FALSE)
      BY <1>1, <1>3, <1>5, <2>3, <3>2, <3>3, BashDated
    <3>5. Id(e) = [shell |-> "bash", at |-> file[i].at * Second, text |-> Apply(TextAt(file, i + 1, FALSE))]
      BY <1>3, <2>1, <2>2, <3>1, <3>4
    <3> QED BY <2>3, <3>5 DEF IdAt
  <2>4. CASE file[i].form = "header"
    <3>1. Sniff(file) = "zsh"
      BY <2>4, SniffTells
    <3>2. PICK j \in Starts(file) : j <= Len(file) /\ x = ZshEntry(file, j)
      BY <1>3, <3>1 DEF FoundIn
    <3>3. j \in 1..Len(file) /\ x.n = file[j].n
      <4>1. \A bare, at : Entry(file, j, bare, at).n = file[j].n
        BY Zenon DEF Entry
      <4>2. ZshEntry(file, j).n = file[j].n
        BY <4>1, Zenon DEF ZshEntry
      <4> QED BY <3>2, <4>2 DEF Starts
    <3>4. x.at = file[i].at * Second /\ x.text = TextAt(file, i, TRUE)
      BY <1>1, <1>3, <1>5, <2>4, <3>2, <3>3, ZshDated
    <3>5. Id(e) = [shell |-> "zsh", at |-> file[i].at * Second, text |-> Apply(TextAt(file, i, TRUE))]
      BY <1>3, <2>1, <2>2, <3>1, <3>4
    <3> QED BY <2>4, <3>5 DEF IdAt
  <2>5. CASE file[i].form = "when"
    <3>1. Sniff(file) = "fish" /\ \A l \in 1..Len(file) : file[l].form \in FormsOf("fish")
      <4>1. shell = "fish"
        BY <1>1, <2>5 DEF FormsOf, Typed
      <4> QED BY <1>1, <2>5, <4>1, SniffTells
    <3>2. PICK j \in 1..Len(file) : file[j].form = "cmd" /\ x = FishEntry(file, j)
      BY <1>3, <3>1 DEF FoundIn
    <3>3. x.n = file[j].n
      <4>1. FishEntry(file, j).n = file[j].n
        BY Zenon DEF FishEntry
      <4> QED BY <3>2, <4>1
    <3>4. x.at = file[i].at * Second /\ x.text = <<Piece(file[i - 1], TRUE)>>
      BY <1>1, <1>3, <1>5, <2>5, <3>1, <3>2, <3>3, FishDated
    <3>5. Id(e) = [shell |-> "fish", at |-> file[i].at * Second, text |-> Apply(<<Piece(file[i - 1], TRUE)>>)]
      BY <1>3, <2>1, <2>2, <3>1, <3>4
    <3> QED BY <2>5, <3>5 DEF IdAt
  <2> QED BY <1>5, <2>3, <2>4, <2>5 DEF Stamps
<1> QED BY <1>4, <1>5 DEF e

----------------------------------------------------------------------------
(* What dated entries are known by.                                        *)

\* What an entry is known by is in its own lines: not in what comes below
\* them, nor in how many are above.
LEMMA IdStays ==
  ASSUME NEW g \in Seq(LineType), WellLaid(g), NEW f, NEW d \in Nat,
         \A k \in 1..Len(g) : g[k] = f[d + k],
         NEW i \in 1..Len(g), g[i].form \in Stamps
  PROVE  IdAt(g, i) = IdAt(f, d + i)
<1>1. g[i] = f[d + i] /\ LaidAt(g, i) /\ Len(g) \in Nat
  BY DEF WellLaid
<1>2. ASSUME NEW k \in 1..Len(g), NEW bare \in BOOLEAN
      PROVE  TextAt(g, k, bare) = TextAt(f, d + k, bare)
  <2>1. g[k] = f[d + k] /\ LaidAt(g, k)
    BY DEF WellLaid
  <2>2. CASE g[k].more
    <3>1. k + 1 \in 1..Len(g) /\ d + (k + 1) = d + k + 1
      BY <2>1, <2>2 DEF LaidAt, Joined
    <3>2. g[k + 1] = f[d + k + 1]
      BY <3>1
    <3> QED BY <2>1, <2>2, <3>2 DEF TextAt
  <2>3. CASE ~g[k].more
    BY <2>1, <2>3 DEF TextAt
  <2> QED BY <2>2, <2>3
<1>3. CASE g[i].form = "stamp"
  <2>1. i + 1 \in 1..Len(g) /\ d + (i + 1) = d + i + 1
    BY <1>1, <1>3 DEF LaidAt, Joined
  <2>2. TextAt(g, i + 1, FALSE) = TextAt(f, d + i + 1, FALSE)
    BY <1>2, <2>1
  <2> QED BY <1>1, <1>3, <2>2 DEF IdAt
<1>4. CASE g[i].form = "header"
  <2>1. TextAt(g, i, TRUE) = TextAt(f, d + i, TRUE)
    BY <1>2
  <2> QED BY <1>1, <1>4, <2>1 DEF IdAt
<1>5. CASE g[i].form = "when"
  <2>1. i - 1 \in 1..Len(g) /\ d + (i - 1) = d + i - 1
    BY <1>1, <1>5 DEF LaidAt, Opens
  <2>2. g[i - 1] = f[d + i - 1]
    BY <2>1
  <2>3. IdAt(g, i) = [shell |-> "fish", at |-> g[i].at * Second, text |-> Apply(<<Piece(g[i - 1], TRUE)>>)]
    BY <1>5 DEF IdAt
  <2>4. f[d + i].form = "when"
    BY <1>1, <1>5
  <2>5. IdAt(f, d + i) = [shell |-> "fish", at |-> f[d + i].at * Second,
                          text |-> Apply(<<Piece(f[d + i - 1], TRUE)>>)]
    <3> DEFINE j == d + i
    <3> HIDE DEF j
    <3>1. f[j].form = "when"
      BY <2>4 DEF j
    <3>2. IdAt(f, j) = [shell |-> "fish", at |-> f[j].at * Second,
                        text |-> Apply(<<Piece(f[j - 1], TRUE)>>)]
      BY <3>1 DEF IdAt
    <3> QED BY <3>2 DEF j
  <2> QED BY <1>1, <2>2, <2>3, <2>5, Zenon
<1> QED BY <1>3, <1>4, <1>5 DEF Stamps

KnownAs(o) ==
  /\ o.n \in 1..written
  /\ \A i \in 1..Len(file) : file[i].n = o.n /\ file[i].form \in Stamps => o.id = IdAt(file, i)

\* Every step keeps what is stored of dated entries equal to what they would be
\* read as.
LEMMA NextKnown ==
  ASSUME Typed, Laid, Laid', Whole, \A o \in origin : KnownAs(o), [Next]_vars
  PROVE  \A o \in origin' : KnownAs(o)'
<1>1. file \in Seq(LineType) /\ written \in Nat
  BY DEF Typed
<1>2. ASSUME NEW t \in Text, Write(t) PROVE \A o \in origin' : KnownAs(o)'
  <2>1. /\ file' = file \o Lines(t) /\ Lines(t) \in Seq(LineType)
        /\ \A i \in 1..Len(Lines(t)) : Lines(t)[i].n = written + 1
    BY <1>2, WholeEntry, LinesTyped DEF Whole, Untorn
  <2>2. written' = written + 1 /\ origin' = origin
    BY <1>2 DEF Write, events
  <2> HIDE DEF Lines
  <2>3. /\ Len(file') = Len(file) + Len(Lines(t))
        /\ \A i \in 1..Len(file) : file[i] = file'[0 + i]
        /\ \A i \in 1..Len(Lines(t)) : file'[Len(file) + i] = Lines(t)[i]
    BY <1>1, <2>1
  <2>4. ASSUME NEW o \in origin, NEW i \in 1..Len(file'),
               file'[i].n = o.n, file'[i].form \in Stamps
        PROVE  o.id = IdAt(file', i)
    <3>1. KnownAs(o)
      OBVIOUS
    <3>2. i \in 1..Len(file)
      <4> SUFFICES ASSUME i \notin 1..Len(file) PROVE FALSE
        OBVIOUS
      <4>1. i - Len(file) \in 1..Len(Lines(t)) /\ Len(file) + (i - Len(file)) = i
        BY <1>1, <2>1, <2>3
      <4>2. file'[Len(file) + (i - Len(file))] = Lines(t)[i - Len(file)]
        BY <2>3, <4>1
      <4>3. file'[i].n = written + 1
        BY <2>1, <4>1, <4>2
      <4> QED BY <1>1, <2>4, <3>1, <4>3 DEF KnownAs
    <3>3. file[i] = file'[0 + i] /\ 0 + i = i
      BY <2>3, <3>2
    <3>4. IdAt(file, i) = IdAt(file', 0 + i)
      <4>1. file[i].form \in Stamps /\ WellLaid(file)
        BY <2>4, <3>3 DEF Laid, Lay, Sniffed
      <4> QED BY <1>1, <2>3, <3>2, <4>1, IdStays
    <3> QED BY <2>4, <3>1, <3>2, <3>3, <3>4 DEF KnownAs
  <2>5. ASSUME NEW o \in origin PROVE o.n \in 1..written'
    BY <1>1, <2>2, <2>5 DEF KnownAs
  <2> QED BY <2>2, <2>4, <2>5 DEF KnownAs
<1>3. CASE Trim
  <2>1. PICK m \in 1..Len(file) : file' = SubSeq(file, m + 1, Len(file))
    BY <1>3, OldestGoes DEF Laid, Lay, Sniffed
  <2>2. written' = written /\ origin' = origin
    BY <1>3 DEF Trim, events
  <2>3. /\ file' \in Seq(LineType) /\ m \in Nat
        /\ \A i \in 1..Len(file') : file'[i] = file[m + i] /\ m + i \in 1..Len(file)
    BY <1>1, <2>1
  <2>4. ASSUME NEW o \in origin, NEW i \in 1..Len(file'),
               file'[i].n = o.n, file'[i].form \in Stamps
        PROVE  o.id = IdAt(file', i)
    <3>1. KnownAs(o)
      OBVIOUS
    <3>2. m + i \in 1..Len(file) /\ file[m + i].n = o.n /\ file[m + i].form \in Stamps
      BY <2>3, <2>4
    <3>3. WellLaid(file')
      BY DEF Laid, Lay, Sniffed
    <3>4. IdAt(file', i) = IdAt(file, m + i)
      BY <2>3, <2>4, <3>3, IdStays
    <3> QED BY <3>1, <3>2, <3>4 DEF KnownAs
  <2> QED BY <2>2, <2>4 DEF KnownAs
<1>4. CASE Import
  <2>1. UNCHANGED <<file, written>>
    BY <1>4 DEF Import, history
  <2>2. PICK k : origin' = origin \cup {[id |-> Id(e), n |-> e.n] : e \in Kept(Entries, k)}
                 /\ k \in 0..Len(Entries)
    <3>1. Len(Entries) \in Nat
      <4>1. PICK es \in Seq(EntryType) : ReadAs(Entries, es)
        BY <1>1, Readings DEF Entries
      <4> QED BY <4>1 DEF ReadAs
    <3>2. \E k \in (IF "failure" \in setting THEN 0..Len(Entries) ELSE {Len(Entries)}) :
            origin' = origin \cup {[id |-> Id(e), n |-> e.n] : e \in Kept(Entries, k)}
      BY <1>4, Zenon DEF Import
    <3>3. (IF "failure" \in setting THEN 0..Len(Entries) ELSE {Len(Entries)}) \subseteq 0..Len(Entries)
      BY <3>1
    <3> QED BY <3>2, <3>3, Zenon
  <2>3. ASSUME NEW e \in Kept(Entries, k) PROVE KnownAs([id |-> Id(e), n |-> e.n])
    <3>1. PICK l \in 1..Len(Entries) : e = Entries[l]
      <4>1. PICK l \in 1..k : e = Entries[l]
        BY DEF Kept
      <4>2. l \in 1..Len(Entries)
        BY <2>2
      <4> QED BY <4>1, <4>2
    <3> DEFINE o == [id |-> Id(e), n |-> e.n]
    <3>2. o.id = Id(e) /\ o.n = e.n
      BY Zenon
    <3>3. /\ e.n \in 1..written
          /\ \A i \in 1..Len(file) : file[i].n = e.n /\ file[i].form \in Stamps => Id(e) = IdAt(file, i)
      BY <3>1, DatedEntry
    <3> HIDE DEF o
    <3> QED BY <3>2, <3>3, Zenon DEF KnownAs, o
  <2>4. \A o : KnownAs(o)' <=> KnownAs(o)
    <3>1. /\ written' = written /\ file' = file
      BY <2>1
    <3>2. \A i : IdAt(file', i) = IdAt(file, i)
      BY <3>1
    <3> QED BY <3>1, <3>2 DEF KnownAs
  <2> HIDE DEF KnownAs
  <2>5. ASSUME NEW o \in origin' PROVE KnownAs(o)
    <3>1. o \in origin \/ \E e \in Kept(Entries, k) : o = [id |-> Id(e), n |-> e.n]
      BY <2>2, Zenon
    <3> QED BY <2>3, <3>1
  <2> QED BY <2>4, <2>5
<1>5. CASE UNCHANGED <<file, written, origin>>
  <2>1. written' = written /\ file' = file /\ origin' = origin
    BY <1>5
  <2> QED BY <2>1 DEF KnownAs
<1> QED BY <1>2, <1>3, <1>4, <1>5 DEF Next, SwitchOn, SwitchOff, Tick, vars, history, events

\* An entry the shell dated is found again under the id it was stored with, and an
\* import of a file that did not change adds nothing (histimport.go, Result.Existing).
THEOREM DatedFoundAgain == Spec => []FoundAgain
<1> DEFINE Inv == Whole => \A o \in origin : KnownAs(o)
<1>1. Init => Inv
  BY DEF Init
<1>2. ASSUME Typed, Whole => Laid, (Whole => Laid)', Inv, [Next]_vars PROVE Inv'
  <2>1. Whole' <=> Whole
    BY <1>2 DEF Next, Write, Trim, SwitchOn, SwitchOff, Tick, Import, vars, events, Whole
  <2> SUFFICES ASSUME Whole PROVE (\A o \in origin : KnownAs(o))'
    BY <2>1
  <2>2. Laid /\ Laid' /\ \A o \in origin : KnownAs(o)
    BY <1>2, <2>1
  <2>3. \A o \in origin' : KnownAs(o)'
    BY <1>2, <2>2, NextKnown
  <2> QED BY <2>3
<1>3. ASSUME Inv, Typed PROVE DatedOnce
  <2> SUFFICES ASSUME Whole, NEW n \in 1..written, NEW id \in Ids(n), NEW i \in DOMAIN file,
                      file[i].n = n, file[i].form \in Stamps
               PROVE  Cardinality(Ids(n)) = 1
    BY DEF DatedOnce, Whole, Stamps
  <2>1. i \in 1..Len(file)
    BY <1>3 DEF Typed
  <2>2. \A o \in origin : KnownAs(o)
    BY <1>3
  <2>3. ASSUME NEW x \in Ids(n) PROVE x = IdAt(file, i)
    <3>1. PICK o \in origin : o.n = n /\ x = o.id
      BY DEF Ids
    <3> QED BY <2>1, <2>2, <3>1 DEF KnownAs
  <2>4. Ids(n) = {IdAt(file, i)}
    BY <2>3
  <2> QED BY <2>4, FS_Singleton
<1>4. Spec => []Inv
  <2> HIDE DEF Inv
  <2> QED BY <1>1, <1>2, TypedAlways, LaidAlways, PTL DEF Spec
<1> HIDE DEF Inv
<1>5. Typed /\ Inv /\ SecondAddsNothing => FoundAgain
  BY <1>3 DEF FoundAgain
<1> QED BY <1>4, <1>5, TypedAlways, ReimportAddsNothing, PTL

----------------------------------------------------------------------------
(* What a date depends on.                                                 *)

\* Division takes a factor away again.
LEMMA Exactly ==
  ASSUME NEW a \in Nat, NEW b \in Nat \ {0}
  PROVE  (a * b) \div b = a
<1> DEFINE q == (a * b) \div b
<1>1. a * b \in Int
  OBVIOUS
<1>2. q \in Int /\ q * b <= a * b /\ a * b < q * b + b
  BY <1>1, Division
<1> HIDE DEF q
<1>3. ~(q > a)
  <2> SUFFICES ASSUME q > a PROVE FALSE
    OBVIOUS
  <2>1. (a + 1) * b <= q * b /\ (a + 1) * b = a * b + 1 * b
    BY <1>2, Times, Distributes
  <2> QED BY <1>1, <1>2, <2>1
<1>4. ~(q < a)
  <2> SUFFICES ASSUME q < a PROVE FALSE
    OBVIOUS
  <2>1. (q + 1) * b <= a * b /\ (q + 1) * b = q * b + 1 * b /\ q * b \in Int
    BY <1>2, Times, Distributes
  <2> QED BY <1>1, <1>2, <2>1
<1>5. q = a
  BY <1>2, <1>3, <1>4
<1> QED BY <1>5 DEF q

\* Above the first dated entry the undated are a second apart.
LEMMA TopRun ==
  ASSUME NEW es \in Seq(EntryType), NEW end, NEW b \in 1..Len(es), NEW i \in 1..b
  PROVE  TimeIn(es, end, 0, b, i) = es[b].at - (b - i) * Second
<1> DEFINE u == es[b].at
           r == u - b * Second
<1>1. u \in Nat /\ Second \in Nat \ {0} /\ b \in Nat \ {0} /\ Nanos \in Nat \ {0} /\ i \in Nat
  <2>1. es[b].at \in Nat
    BY EntryIsTyped
  <2>2. Second \in Nat \ {0}
    BY ImportConstants
  <2>3. b \in Nat \ {0} /\ i \in Nat
    OBVIOUS
  <2> QED BY <2>1, <2>2, <2>3, NanosTyped
<1>2. b * Second \in Nat /\ i * Second \in Nat /\ (b - i) * Second = b * Second - i * Second
  <2>1. b * Second \in Int /\ i * Second \in Int
    BY <1>1, Distributes
  <2>2. 0 * Second <= b * Second /\ 0 * Second <= i * Second
    BY <1>1, Times
  <2>3. (b - i) * Second = b * Second - i * Second
    BY <1>1, Distributes
  <2> QED BY <1>1, <2>1, <2>2, <2>3
<1> DEFINE lower == IF 0 > 0 THEN Max({es[0].at, r}) ELSE r
           start == IF u - lower < b - 0 THEN r ELSE lower
           step  == ((u - start) * Nanos) \div (b - 0)
<1>3. TimeIn(es, end, 0, b, i) = start + ((i - 0) * step) \div Nanos
  <2>1. b - 0 = b /\ ~(b > Len(es))
    OBVIOUS
  <2> QED BY <2>1 DEF TimeIn
<1>4. lower = r /\ start = r
  OBVIOUS
<1>5. u - r = b * Second
  BY <1>1, <1>2
<1>6. step = Second * Nanos
  <2>1. (b * Second) * Nanos = (Second * Nanos) * b /\ Second * Nanos \in Nat
    BY <1>1
  <2>2. ((Second * Nanos) * b) \div b = Second * Nanos
    BY <1>1, <2>1, Exactly
  <2>3. step = ((u - r) * Nanos) \div b
    BY <1>1, <1>4
  <2> QED BY <1>5, <2>1, <2>2, <2>3
<1>7. ((i - 0) * step) \div Nanos = i * Second
  <2>1. i * (Second * Nanos) = (i * Second) * Nanos
    BY <1>1
  <2>2. ((i * Second) * Nanos) \div Nanos = i * Second
    BY <1>1, <1>2, Exactly
  <2>3. (i - 0) * step = i * (Second * Nanos)
    BY <1>1, <1>6
  <2> QED BY <2>1, <2>2, <2>3
<1>8. TimeIn(es, end, 0, b, i) = r + i * Second
  BY <1>3, <1>4, <1>7
<1> QED BY <1>1, <1>2, <1>8, SMTT(30)

\* The dated neighbours of entry i of ps, a above it (or none) and b below, are
\* those of entry i - d of qs, c and b - d.
SameNeighbours(ps, qs, d, i, a, b, c) ==
  /\ b \in 1..Len(ps) /\ b - d <= Len(qs) /\ ps[b].at = qs[b - d].at
  /\ i \in (d + 1)..(b - 1) /\ a \in 0..(i - 1)
  /\ c = IF a = 0 THEN 0 ELSE a - d
  /\ a > 0 => a > d /\ ps[a].at = qs[a - d].at

\* Entry i of ps gets the date of entry i - d of qs.
SameTime(ps, m, qs, end, d, i, a, b, c) ==
  TimeIn(ps, m, a, b, i) = TimeIn(qs, end, c, b - d, i - d)

\* A date depends on the dated neighbours and on the distance to them.
LEMMA TimeShifted ==
  ASSUME NEW ps \in Seq(EntryType), NEW qs \in Seq(EntryType), NEW m, NEW end, NEW d \in Nat,
         NEW i, NEW a, NEW b, NEW c, SameNeighbours(ps, qs, d, i, a, b, c)
  PROVE  SameTime(ps, m, qs, end, d, i, a, b, c)
<1> SUFFICES TimeIn(ps, m, a, b, i) = TimeIn(qs, end, c, b - d, i - d)
  BY DEF SameTime
<1>0. /\ b \in 1..Len(ps) /\ b - d <= Len(qs) /\ ps[b].at = qs[b - d].at
      /\ i \in (d + 1)..(b - 1) /\ a \in 0..(i - 1)
      /\ c = IF a = 0 THEN 0 ELSE a - d
      /\ a > 0 => a > d /\ ps[a].at = qs[a - d].at
  BY DEF SameNeighbours
<1>1. CASE a = 0
  <2>1. TimeIn(ps, m, 0, b, i) = ps[b].at - (b - i) * Second
    <3>1. b \in 1..Len(ps) /\ i \in 1..b
      BY <1>0
    <3> QED BY <3>1, TopRun
  <2>2. TimeIn(qs, end, 0, b - d, i - d) = qs[b - d].at - ((b - d) - (i - d)) * Second
    <3>1. b - d \in 1..Len(qs) /\ i - d \in 1..(b - d)
      BY <1>0
    <3> QED BY <3>1, TopRun
  <2>3. (b - d) - (i - d) = b - i
    BY <1>0
  <2>4. c = 0
    BY <1>0, <1>1
  <2> QED BY <1>0, <1>1, <2>1, <2>2, <2>3, <2>4
<1>2. CASE a > 0
  <2> DEFINE T(parts, place, u, l) ==
        LET roomy == u - parts * Second
            lower == Max({l, roomy})
            start == IF u - lower < parts THEN roomy ELSE lower
            step  == ((u - start) * Nanos) \div parts
        IN  start + (place * step) \div Nanos
  <2>1. TimeIn(ps, m, a, b, i) = T(b - a, i - a, ps[b].at, ps[a].at)
    <3>1. ~(b > Len(ps)) /\ a > 0
      BY <1>0, <1>2
    <3> QED BY <3>1, Zenon DEF TimeIn
  <2>2. TimeIn(qs, end, a - d, b - d, i - d) = T((b - d) - (a - d), (i - d) - (a - d), qs[b - d].at, qs[a - d].at)
    <3>1. ~(b - d > Len(qs)) /\ a - d > 0
      BY <1>0, <1>2
    <3> QED BY <3>1, Zenon DEF TimeIn
  <2>3. (b - d) - (a - d) = b - a /\ (i - d) - (a - d) = i - a /\ c = a - d
    BY <1>0, <1>2
  <2> HIDE DEF T
  <2> QED BY <1>0, <1>2, <2>1, <2>2, <2>3
<1> QED BY <1>0, <1>1, <1>2

\* ps without its first d entries is how qs begins, if only dates are looked at.
ShiftedBy(ps, qs, d) ==
  Len(ps) - d <= Len(qs) /\ \A k \in (d + 1)..Len(ps) : ps[k].at = qs[k - d].at

\* While the neighbours of an undated entry stay, its date does.
LEMMA Shifted ==
  ASSUME NEW ps \in Seq(EntryType), NEW qs \in Seq(EntryType), NEW m, NEW end, NEW d \in Nat,
         ShiftedBy(ps, qs, d), NEW i \in (d + 1)..Len(ps), Undated(ps, i),
         Below(ps, i) <= Len(ps), Above(ps, i) > 0 => Above(ps, i) > d
  PROVE  ApproximateUndated(ps, m)[i].at = ApproximateUndated(qs, end)[i - d].at
<1>0. Len(ps) - d <= Len(qs) /\ \A k \in (d + 1)..Len(ps) : ps[k].at = qs[k - d].at
  BY DEF ShiftedBy
<1> DEFINE a == Above(ps, i)
           b == Below(ps, i)
           c == IF a = 0 THEN 0 ELSE a - d
<1>1. /\ a \in 0..(i - 1) /\ (a > 0 => ~Undated(ps, a))
      /\ \A k \in 1..i : k > a => Undated(ps, k)
      /\ b \in (i + 1)..Len(ps) /\ ~Undated(ps, b)
      /\ \A k \in i..Len(ps) : k < b => Undated(ps, k)
      /\ (a > 0 => a > d)
  BY RunAround
<1> HIDE DEF a, b
<1>2. /\ i - d \in 1..Len(qs) /\ c \in 0..(i - d - 1) /\ b - d \in (i - d + 1)..(Len(qs) + 1)
      /\ b - d <= Len(qs) /\ b \in (d + 1)..Len(ps) /\ i \in 1..Len(ps)
  <2>1. c \in 0..(i - d - 1)
    BY <1>1
  <2>2. b \in (d + 1)..Len(ps) /\ i \in 1..Len(ps) /\ b - d \in Nat /\ i - d \in Nat \ {0}
    BY <1>1
  <2> HIDE DEF c
  <2>3. b - d <= Len(qs) /\ i - d \in 1..Len(qs) /\ b - d >= i - d + 1
    BY <1>0, <1>1, <2>2
  <2> QED BY <2>1, <2>2, <2>3
<1>3. ASSUME NEW k \in (c + 1)..(b - d - 1) PROVE Undated(qs, k)
  <2>1. k + d \in (d + 1)..Len(ps) /\ (k + d) - d = k /\ k + d > a /\ k + d < b
    BY <1>1, <1>2
  <2>2. Undated(ps, k + d)
    BY <1>1, <1>2, <2>1
  <2> QED BY <1>0, <2>1, <2>2 DEF Undated
<1>4. c > 0 => ~Undated(qs, c)
  <2> SUFFICES ASSUME c > 0 PROVE ~Undated(qs, c)
    OBVIOUS
  <2>1. c = a - d /\ a > 0 /\ a \in (d + 1)..Len(ps)
    BY <1>1, <1>2
  <2> QED BY <1>0, <1>1, <2>1 DEF Undated
<1>5. ~Undated(qs, b - d)
  BY <1>0, <1>1, <1>2 DEF Undated
<1> HIDE DEF c
<1>6. Undated(qs, i - d) /\ Above(qs, i - d) = c /\ Below(qs, i - d) = b - d
  <2>1. b - d \in ((i - d) + 1)..(Len(qs) + 1) /\ c \in 0..((i - d) - 1)
    BY <1>2
  <2> QED BY <1>2, <1>3, <1>4, <1>5, <2>1, RunIsWhole
<1>7. ApproximateUndated(ps, m)[i].at = TimeIn(ps, m, a, b, i)
  BY <1>2, ApproximatedFields DEF a, b
<1>8. ApproximateUndated(qs, end)[i - d].at = TimeIn(qs, end, c, b - d, i - d)
  BY <1>2, <1>6, ApproximatedFields
<1>9. TimeIn(ps, m, a, b, i) = TimeIn(qs, end, c, b - d, i - d)
  <2>1. b \in 1..Len(ps) /\ i \in (d + 1)..(b - 1)
    BY <1>1, <1>2
  <2>2. ps[b].at = qs[b - d].at
    BY <1>0, <1>2
  <2>3. a > 0 => a > d /\ ps[a].at = qs[a - d].at
    BY <1>0, <1>1, <1>2
  <2>4. a \in 0..(i - 1) /\ b - d <= Len(qs) /\ c = IF a = 0 THEN 0 ELSE a - d
    BY <1>1, <1>2 DEF c
  <2>5. SameNeighbours(ps, qs, d, i, a, b, c)
    BY <2>1, <2>2, <2>3, <2>4 DEF SameNeighbours
  <2>6. SameTime(ps, m, qs, end, d, i, a, b, c)
    BY <2>5, TimeShifted
  <2> QED BY <2>6 DEF SameTime
<1> QED BY <1>7, <1>8, <1>9

----------------------------------------------------------------------------
(* That no entry is left out.                                              *)

\* A scan that numbers what it finds: c[i] is the number of what it finds next.
Counts(g, N, D, V, c) ==
  \A i \in D :
    \/ i = N + 1 /\ g[i] = << >>
    \/ \E j \in D :
         /\ j > i
         /\ \/ c[j] = c[i] /\ g[i] = g[j]
            \/ c[j] = c[i] + 1 /\ \E v \in V : v.n = c[i] /\ g[i] = <<v>> \o g[j]

NumbersFrom(es, V, c, top) ==
  es \in Seq(V) /\ Len(es) = top - c /\ \A k \in 1..Len(es) : es[k].n = c + k - 1

\* Such a scan finds entries numbered one after the other.
LEMMA ScanCounts ==
  ASSUME NEW N \in Nat, NEW V, NEW D \in SUBSET (1..(N + 1)), NEW g,
         NEW c \in [1..(N + 1) -> Int], Counts(g, N, D, V, c)
  PROVE  \A i \in D : NumbersFrom(g[i], V, c[i], c[N + 1])
<1> DEFINE Good(i) == NumbersFrom(g[i], V, c[i], c[N + 1])
           Bad == {i \in D : ~Good(i)}
<1> SUFFICES ASSUME NEW i0 \in D, ~Good(i0) PROVE FALSE
  OBVIOUS
<1>1. Bad \in SUBSET (0..(N + 1)) /\ Bad # {}
  <2>1. i0 \in Bad
    OBVIOUS
  <2>2. D \subseteq 0..(N + 1)
    OBVIOUS
  <2> QED BY <2>1, <2>2
<1>2. PICK i \in Bad : \A m \in Bad : m <= i
  <2>1. N + 1 \in Nat
    OBVIOUS
  <2> HIDE DEF Bad
  <2> QED BY <1>1, <2>1, GreatestOf
<1>3. i \in D /\ ~Good(i) /\ i \in Nat
  BY <1>2
<1>4. CASE i = N + 1 /\ g[i] = << >>
  <2>1. << >> \in Seq(V) /\ Len(<< >>) = 0 /\ c[N + 1] - c[i] = 0
    BY <1>3, <1>4
  <2>2. g[i] \in Seq(V) /\ Len(g[i]) = 0
    BY <1>4, <2>1
  <2> QED BY <1>3, <2>1, <2>2 DEF NumbersFrom
<1>5. ASSUME NEW j \in D, j > i PROVE Good(j)
  <2>1. j \notin Bad
    <3> SUFFICES ASSUME j \in Bad PROVE FALSE
      OBVIOUS
    <3>1. j <= i /\ j \in Nat
      BY <1>2
    <3> QED BY <1>3, <1>5, <3>1
  <2> QED BY <2>1
<1>6. ASSUME NEW j \in D, j > i, c[j] = c[i], g[i] = g[j] PROVE FALSE
  <2>1. Good(j)
    BY <1>5, <1>6
  <2> QED BY <1>3, <1>6, <2>1
<1>7. ASSUME NEW j \in D, j > i, c[j] = c[i] + 1, NEW v \in V, v.n = c[i], g[i] = <<v>> \o g[j]
      PROVE  FALSE
  <2> DEFINE r == g[j]
             s == <<v>> \o r
  <2>1. r \in Seq(V) /\ Len(r) = c[N + 1] - c[j] /\ \A k \in 1..Len(r) : r[k].n = c[j] + k - 1
    BY <1>5, <1>7 DEF NumbersFrom
  <2> HIDE DEF r
  <2>2. /\ s \in Seq(V) /\ Len(s) = Len(r) + 1 /\ s[1] = v
        /\ \A k \in 2..Len(s) : s[k] = r[k - 1] /\ k - 1 \in 1..Len(r)
    BY <2>1, SMTT(30)
  <2> HIDE DEF s
  <2>3. c[i] \in Int /\ c[j] \in Int /\ c[N + 1] \in Int /\ Len(r) \in Nat
    <3>1. i \in 1..(N + 1) /\ j \in 1..(N + 1) /\ N + 1 \in 1..(N + 1)
      BY <1>3
    <3> QED BY <2>1, <3>1
  <2>4. Len(s) = c[N + 1] - c[i]
    BY <1>7, <2>1, <2>2, <2>3, SMTT(30)
  <2>5. ASSUME NEW k \in 1..Len(s) PROVE s[k].n = c[i] + k - 1
    <3>1. CASE k = 1
      BY <1>7, <2>2, <2>3, <3>1
    <3>2. CASE k # 1
      <4>1. k \in 2..Len(s)
        BY <3>2
      <4>2. s[k].n = c[j] + (k - 1) - 1
        BY <2>1, <2>2, <4>1
      <4>3. \A x, y, z \in Int : y = x + 1 => y + (z - 1) - 1 = x + z - 1
        OBVIOUS
      <4>4. k \in Int
        OBVIOUS
      <4>5. c[j] + (k - 1) - 1 = c[i] + k - 1
        BY <1>7, <2>3, <4>3, <4>4
      <4> QED BY <4>2, <4>5
    <3> QED BY <3>1, <3>2
  <2>6. g[i] = s
    BY <1>7 DEF s, r
  <2> QED BY <1>3, <2>2, <2>4, <2>5, <2>6 DEF NumbersFrom
<1> QED BY <1>3, <1>4, <1>6, <1>7 DEF Counts

\* An entry's lines, and what is below them.
LEMMA LastIs ==
  ASSUME NEW f \in Seq(LineType), WellLaid(f), NEW i \in 1..Len(f)
  PROVE  LastLine(f, i) = IF f[i].more THEN i + 1 ELSE i
<1>1. LastLine(f, i) \in i..Len(f) /\ ~f[LastLine(f, i)].more
      /\ \A j \in i..Len(f) : j < LastLine(f, i) => f[j].more
  BY EntryEnds, LastLineIn
<1> DEFINE last == LastLine(f, i)
<1> HIDE DEF last
<1>2. last \in i..Len(f) /\ ~f[last].more /\ \A j \in i..Len(f) : j < last => f[j].more
  BY <1>1 DEF last
<1>3. CASE f[i].more
  <2>1. i + 1 \in i..Len(f) /\ ~f[i + 1].more
    BY <1>3 DEF WellLaid, LaidAt, Joined
  <2>2. last # i
    BY <1>2, <1>3
  <2>3. ~(i + 1 < last)
    <3> SUFFICES ASSUME i + 1 < last PROVE FALSE
      OBVIOUS
    <3> QED BY <1>2, <2>1
  <2>4. last = i + 1
    BY <1>2, <2>2, <2>3
  <2> QED BY <1>3, <2>4 DEF last
<1>4. CASE ~f[i].more
  <2>1. i \in i..Len(f)
    OBVIOUS
  <2>2. ~(i < last)
    <3> SUFFICES ASSUME i < last PROVE FALSE
      OBVIOUS
    <3> QED BY <1>2, <1>4, <2>1
  <2>3. last = i
    BY <1>2, <2>2
  <2> QED BY <1>4, <2>3 DEF last
<1> QED BY <1>3, <1>4

\* The number of what is read from line i on.
NumberAt(f) == [i \in 1..(Len(f) + 1) |-> IF i > Len(f) THEN f[Len(f)].n + 1 ELSE f[i].n]

\* What is read after an entry is the next entry.
LEMMA NextNumber ==
  ASSUME NEW f \in Seq(LineType), WellLaid(f), Numbered(f), NEW i \in 1..Len(f),
         f[i].form \notin {"cmd", "stamp"}
  PROVE  NumberAt(f)[LastLine(f, i) + 1] = NumberAt(f)[i] + 1
<1> DEFINE last == LastLine(f, i)
<1>1. last \in i..Len(f) /\ last = IF f[i].more THEN i + 1 ELSE i
  BY EntryEnds, LastIs
<1> HIDE DEF last
<1>2. f[last].n = f[i].n /\ ~f[last].more /\ f[last].form \notin {"cmd", "stamp"}
  <2>1. LaidAt(f, i)
    BY DEF WellLaid
  <2>2. CASE f[i].more
    BY <1>1, <2>1, <2>2 DEF LaidAt, Joined
  <2>3. CASE ~f[i].more
    BY <1>1, <2>3
  <2> QED BY <2>2, <2>3
<1>3. last = Len(f) \/ f[last + 1].n = f[i].n + 1
  <2> SUFFICES ASSUME last # Len(f) PROVE f[last + 1].n = f[i].n + 1
    OBVIOUS
  <2>1. last \in 1..Len(f) /\ last \in 1..(Len(f) - 1)
    BY <1>1
  <2>2. ~Joined(f, last)
    <3>1. LaidAt(f, last)
      BY <2>1 DEF WellLaid
    <3> QED BY <1>2, <3>1 DEF LaidAt
  <2>3. f[last + 1].n # f[last].n
    BY <2>1, <2>2 DEF Joined
  <2> QED BY <1>2, <2>1, <2>3 DEF Numbered
<1>4. NumberAt(f)[last + 1] = IF last + 1 > Len(f) THEN f[Len(f)].n + 1 ELSE f[last + 1].n
  <2>1. last + 1 \in 1..(Len(f) + 1)
    BY <1>1
  <2> QED BY <2>1 DEF NumberAt
<1>5. NumberAt(f)[i] = f[i].n
  BY DEF NumberAt
<1>6. NumberAt(f)[last + 1] = f[i].n + 1
  <2>1. CASE last = Len(f)
    BY <1>2, <1>4, <2>1
  <2>2. CASE last # Len(f)
    <3>1. ~(last + 1 > Len(f))
      BY <1>1, <2>2
    <3> QED BY <1>3, <1>4, <2>2, <3>1
  <2> QED BY <2>1, <2>2
<1> QED BY <1>5, <1>6 DEF last

\* The numbers are numbers, from the first line's to the last line's.
LEMMA NumbersTyped ==
  ASSUME NEW f \in Seq(LineType), Len(f) >= 1
  PROVE  /\ NumberAt(f) \in [1..(Len(f) + 1) -> Int]
         /\ NumberAt(f)[1] = f[1].n /\ NumberAt(f)[Len(f) + 1] = f[Len(f)].n + 1
<1>1. \A i \in 1..Len(f) : f[i].n \in Nat
  BY LineTyped
<1>2. Len(f) \in 1..Len(f) /\ 1 \in 1..(Len(f) + 1) /\ Len(f) + 1 \in 1..(Len(f) + 1) /\ Len(f) \in Nat
  OBVIOUS
<1>3. f[Len(f)].n + 1 \in Int
  BY <1>1, <1>2
<1>4. ASSUME NEW i \in 1..(Len(f) + 1)
      PROVE  (IF i > Len(f) THEN f[Len(f)].n + 1 ELSE f[i].n) \in Int
  BY <1>1, <1>3
<1> QED BY <1>2, <1>4 DEF NumberAt

BashValues(f) == {BashEntry(f, j) : j \in {i \in Starts(f) : i <= Len(f) /\ f[i].form # "stamp"}}
ZshValues(f) == {ZshEntry(f, j) : j \in {i \in Starts(f) : i <= Len(f)}}

\* The bash reader finds one entry for each number in the file, in order.
LEMMA BashNumbers ==
  ASSUME NEW f \in Seq(LineType), Len(f) >= 1, WellLaid(f), Numbered(f),
         \A i \in 1..Len(f) : f[i].form # "cmd"
  PROVE  NumbersFrom(ParseBash(f), BashValues(f), f[1].n, f[Len(f)].n + 1)
<1> DEFINE g == BashScan(f)
           D == Starts(f)
           V == BashValues(f)
           c == NumberAt(f)
           N == Len(f)
<1>1. D \in SUBSET (1..(N + 1)) /\ 1 \in D /\ N \in Nat
  BY DEF Starts
<1>2. ASSUME NEW i \in D
      PROVE  \/ i = N + 1 /\ g[i] = << >>
             \/ \E j \in D :
                  /\ j > i
                  /\ \/ c[j] = c[i] /\ g[i] = g[j]
                     \/ c[j] = c[i] + 1 /\ \E v \in V : v.n = c[i] /\ g[i] = <<v>> \o g[j]
  <2>1. i \in 1..(N + 1)
    BY <1>1
  <2>2. g[i] = IF i > N THEN << >>
               ELSE IF f[i].form = "stamp" THEN g[i + 1]
               ELSE <<BashEntry(f, i)>> \o g[LastLine(f, i) + 1]
    BY <2>1, BashEquation
  <2>3. CASE i > N
    <3>1. i = N + 1
      BY <2>1, <2>3
    <3> HIDE DEF g
    <3> QED BY <2>2, <2>3, <3>1
  <2>4. CASE i <= N /\ f[i].form = "stamp"
    <3>1. i \in 1..N /\ i + 1 \in D /\ i + 1 > i
      BY <2>1, <2>4, EntryEnds
    <3>2. f[i + 1].n = f[i].n /\ i < N
      BY <2>4, <3>1 DEF WellLaid, LaidAt, Joined
    <3>3. c[i + 1] = c[i]
      <4>1. i + 1 \in 1..(N + 1) /\ i \in 1..(N + 1) /\ ~(i + 1 > N) /\ ~(i > N)
        BY <3>1, <3>2
      <4> QED BY <3>2, <4>1 DEF NumberAt
    <3>4. g[i] = g[i + 1]
      <4>1. ~(i > N)
        BY <2>1, <2>4
      <4> HIDE DEF g
      <4> QED BY <2>2, <2>4, <4>1
    <3> HIDE DEF g, c, D, V
    <3> QED BY <3>1, <3>3, <3>4
  <2>5. CASE i <= N /\ f[i].form # "stamp"
    <3>1. i \in 1..N /\ ~(i > N)
      BY <2>1, <2>5
    <3>2. LastLine(f, i) \in i..N /\ LastLine(f, i) + 1 \in D
      BY <3>1, EntryEnds
    <3>3. c[LastLine(f, i) + 1] = c[i] + 1
      BY <2>5, <3>1, NextNumber
    <3>4. BashEntry(f, i) \in V /\ BashEntry(f, i).n = c[i]
      <4>1. BashEntry(f, i).n = f[i].n
        BY Zenon DEF BashEntry, Entry
      <4>2. c[i] = f[i].n
        BY <3>1 DEF NumberAt
      <4> QED BY <2>5, <4>1, <4>2 DEF BashValues
    <3>5. g[i] = <<BashEntry(f, i)>> \o g[LastLine(f, i) + 1]
      <4> HIDE DEF g
      <4> QED BY <2>2, <2>5, <3>1
    <3>6. LastLine(f, i) + 1 > i
      BY <3>1, <3>2
    <3> HIDE DEF g, c, D, V
    <3> QED BY <3>2, <3>3, <3>4, <3>5, <3>6
  <2>6. i > N \/ i <= N
    BY <2>1
  <2> HIDE DEF g, c, D, V, N
  <2> QED BY <2>3, <2>4, <2>5, <2>6
<1>3. Counts(g, N, D, V, c)
  <2> HIDE DEF g, c, D, V, N
  <2> QED BY <1>2 DEF Counts
<1>4. c \in [1..(N + 1) -> Int] /\ c[1] = f[1].n /\ c[N + 1] = f[N].n + 1
  BY NumbersTyped
<1>5. NumbersFrom(g[1], V, c[1], c[N + 1])
  <2> HIDE DEF g, c, D, V, N
  <2> QED BY <1>1, <1>3, <1>4, ScanCounts
<1> QED BY <1>4, <1>5, ReadersScan

\* So does the zsh reader.
LEMMA ZshNumbers ==
  ASSUME NEW f \in Seq(LineType), Len(f) >= 1, WellLaid(f), Numbered(f),
         \A i \in 1..Len(f) : f[i].form \notin {"cmd", "stamp"}
  PROVE  NumbersFrom(ParseZsh(f), ZshValues(f), f[1].n, f[Len(f)].n + 1)
<1> DEFINE g == ZshScan(f)
           D == Starts(f)
           V == ZshValues(f)
           c == NumberAt(f)
           N == Len(f)
<1>1. D \in SUBSET (1..(N + 1)) /\ 1 \in D /\ N \in Nat
  BY DEF Starts
<1>2. ASSUME NEW i \in D
      PROVE  \/ i = N + 1 /\ g[i] = << >>
             \/ \E j \in D :
                  /\ j > i
                  /\ \/ c[j] = c[i] /\ g[i] = g[j]
                     \/ c[j] = c[i] + 1 /\ \E v \in V : v.n = c[i] /\ g[i] = <<v>> \o g[j]
  <2>1. i \in 1..(N + 1)
    BY <1>1
  <2>2. g[i] = IF i > N THEN << >> ELSE <<ZshEntry(f, i)>> \o g[LastLine(f, i) + 1]
    BY <2>1, ZshEquation
  <2>3. CASE i > N
    <3>1. i = N + 1
      BY <2>1, <2>3
    <3> HIDE DEF g
    <3> QED BY <2>2, <2>3, <3>1
  <2>4. CASE i <= N
    <3>1. i \in 1..N /\ ~(i > N)
      BY <2>1, <2>4
    <3>2. LastLine(f, i) \in i..N /\ LastLine(f, i) + 1 \in D
      BY <3>1, EntryEnds
    <3>3. c[LastLine(f, i) + 1] = c[i] + 1
      BY <3>1, NextNumber
    <3>4. ZshEntry(f, i) \in V /\ ZshEntry(f, i).n = c[i]
      <4>1. \A bare, at : Entry(f, i, bare, at).n = f[i].n
        BY Zenon DEF Entry
      <4>2. ZshEntry(f, i).n = f[i].n
        BY <4>1, Zenon DEF ZshEntry
      <4>3. c[i] = f[i].n
        BY <3>1 DEF NumberAt
      <4> QED BY <2>4, <4>2, <4>3 DEF ZshValues
    <3>5. g[i] = <<ZshEntry(f, i)>> \o g[LastLine(f, i) + 1]
      <4> HIDE DEF g
      <4> QED BY <2>2, <3>1
    <3>6. LastLine(f, i) + 1 > i
      BY <3>1, <3>2
    <3> HIDE DEF g, c, D, V
    <3> QED BY <3>2, <3>3, <3>4, <3>5, <3>6
  <2>5. i > N \/ i <= N
    BY <2>1
  <2> HIDE DEF g, c, D, V, N
  <2> QED BY <2>3, <2>4, <2>5
<1>3. Counts(g, N, D, V, c)
  <2> HIDE DEF g, c, D, V, N
  <2> QED BY <1>2 DEF Counts
<1>4. c \in [1..(N + 1) -> Int] /\ c[1] = f[1].n /\ c[N + 1] = f[N].n + 1
  BY NumbersTyped
<1>5. NumbersFrom(g[1], V, c[1], c[N + 1])
  <2> HIDE DEF g, c, D, V, N
  <2> QED BY <1>1, <1>3, <1>4, ScanCounts
<1> QED BY <1>4, <1>5, ReadersScan

----------------------------------------------------------------------------
(* What of an entry stays when the file changes.                           *)

\* The lines of an entry.
LinesOf(f, n) == {f[i] : i \in {j \in 1..Len(f) : f[j].n = n}}

\* Without a stamp of its own an entry has no date, for bash.
LEMMA BashUndated ==
  ASSUME NEW f \in Seq(LineType), WellLaid(f),
         NEW j \in Starts(f), j <= Len(f), f[j].form # "stamp",
         \A i \in 1..Len(f) : f[i].n = f[j].n => f[i].form # "stamp"
  PROVE  BashEntry(f, j).at = 0
<1>1. Pending(f, j) = 0
  <2> SUFFICES ASSUME j > 1, f[j - 1].form = "stamp" PROVE FALSE
    BY DEF Pending
  <2>1. j - 1 \in 1..Len(f) /\ (j - 1) + 1 = j
    BY DEF Starts
  <2>2. LaidAt(f, j - 1)
    BY <2>1 DEF WellLaid
  <2>3. f[j].n = f[j - 1].n
    BY <2>1, <2>2 DEF LaidAt, Joined
  <2> QED BY <2>1, <2>3
<1>2. BashEntry(f, j).at = Pending(f, j) * Second
  BY Zenon DEF BashEntry, Entry
<1> QED BY <1>1, <1>2, ImportConstants

\* And without a header none, for zsh.
LEMMA ZshUndated ==
  ASSUME NEW f, NEW j \in Starts(f), j <= Len(f), f[j].form # "header"
  PROVE  ZshEntry(f, j).at = 0
<1>1. ZshEntry(f, j) = Entry(f, j, FALSE, 0)
  BY DEF ZshEntry
<1>2. Entry(f, j, FALSE, 0).at = 0 * Second
  BY Zenon DEF Entry
<1>3. 0 * Second = 0
  BY ImportConstants
<1> QED BY <1>1, <1>2, <1>3, Zenon

\* Two files with the same lines of an entry: the bash reader finds one date.
LEMMA SameBashDate ==
  ASSUME NEW f \in Seq(LineType), WellLaid(f), Ordered(f),
         NEW g \in Seq(LineType), WellLaid(g), Ordered(g),
         NEW i \in Starts(f), i <= Len(f), f[i].form # "stamp",
         NEW j \in Starts(g), j <= Len(g), g[j].form # "stamp",
         f[i].n = g[j].n, LinesOf(f, f[i].n) = LinesOf(g, f[i].n)
  PROVE  BashEntry(f, i).at = BashEntry(g, j).at
<1>1. CASE \E k \in 1..Len(f) : f[k].n = f[i].n /\ f[k].form = "stamp"
  <2>1. PICK k \in 1..Len(f) : f[k].n = f[i].n /\ f[k].form = "stamp"
    BY <1>1
  <2>2. f[k] \in LinesOf(g, f[i].n)
    BY <2>1 DEF LinesOf
  <2>3. PICK l \in 1..Len(g) : g[l].n = f[i].n /\ g[l] = f[k]
    BY <2>2 DEF LinesOf
  <2>4. BashEntry(f, i).at = f[k].at * Second
    BY <2>1, BashDated
  <2>5. BashEntry(g, j).at = g[l].at * Second
    <3>1. g[l].form = "stamp" /\ g[l].n = g[j].n
      BY <2>1, <2>3
    <3> QED BY <3>1, BashDated
  <2> QED BY <2>3, <2>4, <2>5
<1>2. CASE \A k \in 1..Len(f) : f[k].n = f[i].n => f[k].form # "stamp"
  <2>1. ASSUME NEW l \in 1..Len(g), g[l].n = g[j].n PROVE g[l].form # "stamp"
    <3>1. g[l] \in LinesOf(f, f[i].n)
      BY <2>1 DEF LinesOf
    <3> QED BY <1>2, <3>1 DEF LinesOf
  <2>2. BashEntry(f, i).at = 0
    BY <1>2, BashUndated
  <2>3. BashEntry(g, j).at = 0
    BY <2>1, BashUndated
  <2> QED BY <2>2, <2>3
<1> QED BY <1>1, <1>2

\* So does the zsh reader.
LEMMA SameZshDate ==
  ASSUME NEW f \in Seq(LineType), WellLaid(f), Ordered(f),
         NEW g \in Seq(LineType), WellLaid(g), Ordered(g),
         NEW i \in Starts(f), i <= Len(f), NEW j \in Starts(g), j <= Len(g),
         f[i].n = g[j].n, LinesOf(f, f[i].n) = LinesOf(g, f[i].n)
  PROVE  ZshEntry(f, i).at = ZshEntry(g, j).at
<1>0. i \in 1..Len(f) /\ j \in 1..Len(g)
  BY DEF Starts
<1>1. CASE f[i].form = "header"
  <2>2. f[i] \in LinesOf(g, f[i].n)
    BY <1>0 DEF LinesOf
  <2>3. PICK l \in 1..Len(g) : g[l].n = f[i].n /\ g[l] = f[i]
    BY <2>2 DEF LinesOf
  <2>4. ZshEntry(f, i).at = f[i].at * Second
    BY <1>0, <1>1, ZshDated
  <2>5. ZshEntry(g, j).at = g[l].at * Second
    <3>1. g[l].form = "header" /\ g[l].n = g[j].n
      BY <1>1, <2>3
    <3> QED BY <3>1, ZshDated
  <2> QED BY <2>3, <2>4, <2>5
<1>2. CASE g[j].form = "header"
  <2>2. g[j] \in LinesOf(f, f[i].n)
    BY <1>0 DEF LinesOf
  <2>3. PICK l \in 1..Len(f) : f[l].n = f[i].n /\ f[l] = g[j]
    BY <2>2 DEF LinesOf
  <2>4. ZshEntry(g, j).at = g[j].at * Second
    BY <1>0, <1>2, ZshDated
  <2>5. ZshEntry(f, i).at = f[l].at * Second
    <3>1. f[l].form = "header" /\ f[l].n = f[i].n
      BY <1>2, <2>3
    <3> QED BY <3>1, ZshDated
  <2> QED BY <2>3, <2>4, <2>5
<1>3. CASE f[i].form # "header" /\ g[j].form # "header"
  BY <1>3, ZshUndated
<1> QED BY <1>1, <1>2, <1>3

\* What two files have of one entry is read with one date.
LEMMA SameDate ==
  ASSUME NEW f \in Seq(LineType), WellLaid(f), Ordered(f),
         NEW g \in Seq(LineType), WellLaid(g), Ordered(g),
         Sniff(f) = Sniff(g), Sniff(f) # "fish",
         \A i \in 1..Len(f), j \in 1..Len(g) :
           f[i].n = g[j].n => LinesOf(f, f[i].n) = LinesOf(g, f[i].n),
         NEW x, FoundIn(f, x), NEW y, FoundIn(g, y), x.n = y.n
  PROVE  x.at = y.at
<1>1. Sniff(f) \in {"bash", "zsh"}
  BY DEF Sniff
<1>2. CASE Sniff(f) = "bash"
  <2>1. PICK i \in Starts(f) : i <= Len(f) /\ f[i].form # "stamp" /\ x = BashEntry(f, i)
    BY <1>2 DEF FoundIn
  <2>2. PICK j \in Starts(g) : j <= Len(g) /\ g[j].form # "stamp" /\ y = BashEntry(g, j)
    BY <1>2 DEF FoundIn
  <2>3. x.n = f[i].n /\ y.n = g[j].n
    <3>1. BashEntry(f, i).n = f[i].n /\ BashEntry(g, j).n = g[j].n
      BY Zenon DEF BashEntry, Entry
    <3> QED BY <2>1, <2>2, <3>1
  <2>4. i \in 1..Len(f) /\ j \in 1..Len(g)
    BY <2>1, <2>2 DEF Starts
  <2>5. f[i].n = g[j].n /\ LinesOf(f, f[i].n) = LinesOf(g, f[i].n)
    BY <2>3, <2>4
  <2>6. BashEntry(f, i).at = BashEntry(g, j).at
    BY <2>1, <2>2, <2>5, SameBashDate
  <2> QED BY <2>1, <2>2, <2>6
<1>3. CASE Sniff(f) = "zsh"
  <2>1. PICK i \in Starts(f) : i <= Len(f) /\ x = ZshEntry(f, i)
    BY <1>3 DEF FoundIn
  <2>2. PICK j \in Starts(g) : j <= Len(g) /\ y = ZshEntry(g, j)
    BY <1>3 DEF FoundIn
  <2>3. x.n = f[i].n /\ y.n = g[j].n
    <3>1. \A bare, at : Entry(f, i, bare, at).n = f[i].n
      BY Zenon DEF Entry
    <3>2. ZshEntry(f, i).n = f[i].n
      BY <3>1, Zenon DEF ZshEntry
    <3>3. \A bare, at : Entry(g, j, bare, at).n = g[j].n
      BY Zenon DEF Entry
    <3>4. ZshEntry(g, j).n = g[j].n
      BY <3>3, Zenon DEF ZshEntry
    <3> QED BY <2>1, <2>2, <3>2, <3>4
  <2>4. i \in 1..Len(f) /\ j \in 1..Len(g)
    BY <2>1, <2>2 DEF Starts
  <2>5. f[i].n = g[j].n /\ LinesOf(f, f[i].n) = LinesOf(g, f[i].n)
    BY <2>3, <2>4
  <2>6. ZshEntry(f, i).at = ZshEntry(g, j).at
    BY <2>1, <2>2, <2>5, SameZshDate
  <2> QED BY <2>1, <2>2, <2>6
<1> QED BY <1>1, <1>2, <1>3

\* What a reader found in a whole file, before the undated are given a date:
\* the entries, one after the other.
Placed(f, es) ==
  /\ es \in Seq(EntryType)
  /\ \A k \in 1..Len(es) : FoundIn(f, es[k])
  /\ Len(es) >= 1 => Len(f) >= 1 /\ Len(es) = (f[Len(f)].n + 1) - f[1].n
  /\ \A k \in 1..Len(es) : es[k].n = f[1].n + k - 1

\* What sniff says of a file laid by a shell.
LEMMA SniffOf ==
  ASSUME NEW f \in Seq(LineType), WellLaid(f), Len(f) >= 1,
         NEW s \in {"bash", "zsh", "fish"}, \A i \in 1..Len(f) : f[i].form \in FormsOf(s)
  PROVE  /\ s = "fish" <=> Sniff(f) = "fish"
         /\ Sniff(f) = "zsh" => s = "zsh"
<1> DEFINE telling == {k \in DOMAIN f : k <= SniffLines /\ f[k].form \in {"header", "cmd"}}
<1>1. telling \in SUBSET Nat /\ telling \subseteq 1..Len(f)
  OBVIOUS
<1>2. Sniff(f) = IF telling = {} THEN "bash"
                 ELSE IF f[Min(telling)].form = "header" THEN "zsh" ELSE "fish"
  BY DEF Sniff
<1>3. ASSUME telling # {} PROVE Min(telling) \in telling
  <2> HIDE DEF telling
  <2> QED BY <1>1, <1>3, LeastOf
<1>4. ASSUME telling # {}
      PROVE  Min(telling) \in 1..Len(f) /\ f[Min(telling)].form \in {"header", "cmd"} \cap FormsOf(s)
  <2>1. Min(telling) \in telling
    BY <1>3, <1>4
  <2>2. Min(telling) \in 1..Len(f)
    BY <1>1, <2>1
  <2>3. f[Min(telling)].form \in {"header", "cmd"}
    BY <2>1
  <2> QED BY <2>2, <2>3
<1>5. ASSUME s = "fish" PROVE telling # {}
  <2>1. 1 \in 1..Len(f) /\ LaidAt(f, 1) /\ Opens(f, 1)
    BY DEF WellLaid, Opens
  <2>2. f[1].form = "cmd"
    BY <1>5, <2>1 DEF FormsOf, LaidAt
  <2>3. 1 \in telling
    BY <2>1, <2>2, ImportConstants
  <2> QED BY <2>3
<1> HIDE DEF telling
<1> QED BY <1>2, <1>4, <1>5 DEF FormsOf

\* Parse finds the entries in order and gives the undated a date.
LEMMA ReadPlaced ==
  ASSUME NEW f \in Seq(LineType), WellLaid(f), Numbered(f), Sniff(f) # "fish",
         NEW s \in {"bash", "zsh", "fish"}, \A i \in 1..Len(f) : f[i].form \in FormsOf(s),
         NEW m
  PROVE  \E es : Placed(f, es) /\ Parse(f, m) = ApproximateUndated(es, m)
<1>0. Len(f) \in Nat /\ Starts(f) \in SUBSET (1..(Len(f) + 1)) /\ 1 \in Starts(f)
  BY DEF Starts
<1>1. Sniff(f) \in {"bash", "zsh"}
  BY DEF Sniff
<1>2. CASE Len(f) = 0
  <2>1. f = << >>
    BY <1>2
  <2>2. Sniff(f) = "bash"
    BY <2>1 DEF Sniff
  <2>3. ParseBash(f) \in Seq({})
    <3>1. \A i \in Starts(f) : ~(i <= Len(f))
      BY <1>0, <1>2
    <3>2. \A i \in Starts(f) : i <= Len(f) =>
           IF f[i].form = "stamp" THEN i + 1 \in Starts(f)
           ELSE LastLine(f, i) + 1 \in Starts(f) /\ BashEntry(f, i) \in {}
      BY <3>1
    <3> HIDE DEF Starts
    <3> QED BY <1>0, <3>2, BashReads
  <2>4. Len(ParseBash(f)) = 0 /\ ParseBash(f) \in Seq(EntryType)
    BY <2>3, ParsedEntries
  <2>5. Placed(f, ParseBash(f))
    BY <2>4 DEF Placed
  <2>6. Parse(f, m) = ApproximateUndated(ParseBash(f), m)
    BY <2>2 DEF Parse
  <2> QED BY <2>5, <2>6
<1>3. CASE Len(f) >= 1 /\ Sniff(f) = "bash"
  <2> DEFINE es == ParseBash(f)
  <2>1. s # "fish"
    BY <1>3, SniffOf
  <2>2. \A i \in 1..Len(f) : f[i].form # "cmd"
    BY <2>1 DEF FormsOf
  <2>3. NumbersFrom(es, BashValues(f), f[1].n, f[Len(f)].n + 1)
    BY <1>3, <2>2, BashNumbers
  <2>4. es \in Seq(EntryType)
    BY ParsedEntries
  <2> HIDE DEF es
  <2>5. ASSUME NEW k \in 1..Len(es) PROVE FoundIn(f, es[k])
    <3>1. es[k] \in BashValues(f)
      BY <2>3 DEF NumbersFrom
    <3> QED BY <1>3, <3>1 DEF BashValues, FoundIn
  <2>6. Placed(f, es)
    BY <1>3, <2>3, <2>4, <2>5 DEF Placed, NumbersFrom
  <2>7. Parse(f, m) = ApproximateUndated(es, m)
    BY <1>3 DEF Parse, es
  <2> QED BY <2>6, <2>7
<1>4. CASE Len(f) >= 1 /\ Sniff(f) = "zsh"
  <2> DEFINE es == ParseZsh(f)
  <2>1. s = "zsh"
    BY <1>4, SniffOf
  <2>2. \A i \in 1..Len(f) : f[i].form \notin {"cmd", "stamp"}
    BY <2>1 DEF FormsOf
  <2>3. NumbersFrom(es, ZshValues(f), f[1].n, f[Len(f)].n + 1)
    BY <1>4, <2>2, ZshNumbers
  <2>4. es \in Seq(EntryType)
    BY ParsedEntries
  <2> HIDE DEF es
  <2>5. ASSUME NEW k \in 1..Len(es) PROVE FoundIn(f, es[k])
    <3>1. es[k] \in ZshValues(f)
      BY <2>3 DEF NumbersFrom
    <3> QED BY <1>4, <3>1 DEF ZshValues, FoundIn
  <2>6. Placed(f, es)
    BY <1>4, <2>3, <2>4, <2>5 DEF Placed, NumbersFrom
  <2>7. Parse(f, m) = ApproximateUndated(es, m)
    BY <1>4 DEF Parse, es
  <2> QED BY <2>6, <2>7
<1> QED BY <1>0, <1>1, <1>2, <1>3, <1>4

\* What UndatedStay says of the entries before and after.
StayIn(es, fs) ==
  LET dated == {k \in DOMAIN es : ~es[k].approximate}
      left  == {fs[l].n : l \in DOMAIN fs}
  IN  \A i \in DOMAIN es, j \in DOMAIN fs :
        /\ es[i].n = fs[j].n /\ es[i].approximate
        /\ \E k \in dated : k > i
        /\ \A k \in dated : k < i => es[k].n \in left
        => es[i].at = fs[j].at

\* Between two files that share their entries but d at the top, and what was added
\* below, the undated that have their dated neighbours keep their dates.
LEMMA PlacedStay ==
  ASSUME NEW f \in Seq(LineType), WellLaid(f), Ordered(f),
         NEW g \in Seq(LineType), WellLaid(g), Ordered(g),
         Sniff(f) = Sniff(g), Sniff(f) # "fish",
         \A i \in 1..Len(f), j \in 1..Len(g) :
           f[i].n = g[j].n => LinesOf(f, f[i].n) = LinesOf(g, f[i].n),
         NEW d \in Nat,
         Len(f) >= 1 /\ Len(g) >= 1 => g[1].n = f[1].n + d /\ f[Len(f)].n <= g[Len(g)].n,
         NEW ps, Placed(f, ps), NEW qs, Placed(g, qs), NEW m, NEW end
  PROVE  StayIn(ApproximateUndated(ps, m), ApproximateUndated(qs, end))
<1> DEFINE es == ApproximateUndated(ps, m)
           fs == ApproximateUndated(qs, end)
<1>1. ps \in Seq(EntryType) /\ qs \in Seq(EntryType) /\ Len(ps) \in Nat /\ Len(qs) \in Nat
  BY DEF Placed
<1>2. DOMAIN es = 1..Len(ps) /\ DOMAIN fs = 1..Len(qs)
  BY <1>1, Approximated
<1>3. ASSUME NEW k \in 1..Len(ps) PROVE es[k].n = ps[k].n /\ es[k].approximate = Undated(ps, k)
  BY <1>1, ApproximatedFields
<1>4. ASSUME NEW k \in 1..Len(qs) PROVE fs[k].n = qs[k].n
  BY <1>1, ApproximatedFields
<1> DEFINE dated == {k \in DOMAIN es : ~es[k].approximate}
           left  == {fs[l].n : l \in DOMAIN fs}
<1> SUFFICES ASSUME NEW i \in DOMAIN es, NEW j \in DOMAIN fs,
                    es[i].n = fs[j].n /\ es[i].approximate,
                    \E k \in dated : k > i,
                    \A k \in dated : k < i => es[k].n \in left
             PROVE  es[i].at = fs[j].at
  BY DEF StayIn
<1>5. i \in 1..Len(ps) /\ j \in 1..Len(qs) /\ ps[i].n = qs[j].n /\ Undated(ps, i)
  BY <1>2, <1>3, <1>4
<1>6. PICK b \in 1..Len(ps) : b > i /\ ~Undated(ps, b)
  BY <1>2, <1>3
<1>7. ASSUME NEW k \in 1..Len(ps), ~Undated(ps, k), k < i
      PROVE  \E l \in 1..Len(qs) : ps[k].n = qs[l].n
  <2>1. k \in dated
    BY <1>2, <1>3, <1>7
  <2>2. es[k].n \in left
    BY <1>7, <2>1
  <2>3. PICK l \in DOMAIN fs : es[k].n = fs[l].n
    BY <2>2
  <2> QED BY <1>2, <1>3, <1>4, <2>3
<1> HIDE DEF es, fs, dated, left
<1> DEFINE x == f[1].n
           y == f[Len(f)].n
           z == g[Len(g)].n
<1>8. /\ Len(f) >= 1 /\ Len(g) >= 1 /\ x \in Int /\ y \in Int /\ z \in Int
      /\ g[1].n = x + d /\ y <= z
      /\ Len(ps) = (y + 1) - x /\ Len(qs) = (z + 1) - (x + d)
  <2>1. Len(f) >= 1 /\ Len(g) >= 1
    BY <1>5 DEF Placed
  <2>2. 1 \in 1..Len(f) /\ Len(f) \in 1..Len(f) /\ Len(g) \in 1..Len(g)
    BY <2>1
  <2>3. \A k \in 1..Len(f) : f[k].n \in Nat
    BY LineTyped
  <2>9. \A k \in 1..Len(g) : g[k].n \in Nat
    BY LineTyped
  <2>4. x \in Int /\ y \in Int /\ z \in Int
    BY <2>2, <2>3, <2>9
  <2>5. g[1].n = x + d /\ y <= z
    BY <2>1
  <2>6. Len(ps) >= 1 /\ Len(qs) >= 1
    BY <1>1, <1>5
  <2>7. Len(ps) = (y + 1) - x
    BY <2>6 DEF Placed
  <2>8. Len(qs) = (z + 1) - (x + d)
    BY <2>5, <2>6 DEF Placed
  <2> QED BY <2>1, <2>4, <2>5, <2>7, <2>8
<1>9. \A k \in 1..Len(ps) : ps[k].n = x + k - 1
  BY DEF Placed
<1>10. \A k \in 1..Len(qs) : qs[k].n = (x + d) + k - 1
  BY <1>8 DEF Placed
<1>11. \A k \in 1..Len(ps) : FoundIn(f, ps[k])
  BY DEF Placed
<1>12. \A k \in 1..Len(qs) : FoundIn(g, qs[k])
  BY DEF Placed
<1> HIDE DEF x, y, z
<1>13. i = d + j
  <2>1. ps[i].n = x + i - 1 /\ qs[j].n = (x + d) + j - 1
    BY <1>5, <1>9, <1>10
  <2>2. x + i - 1 = (x + d) + j - 1
    BY <1>5, <2>1
  <2>3. i \in Int /\ j \in Int /\ x \in Int
    BY <1>5, <1>8
  <2> QED BY <2>2, <2>3, SMTT(30)
<1>14. ASSUME NEW k \in (d + 1)..Len(ps) PROVE ps[k].at = qs[k - d].at
  <2>1. k \in 1..Len(ps) /\ k - d \in 1..Len(qs)
    <3>1. Len(ps) - d <= Len(qs) /\ k \in Nat /\ k >= d + 1 /\ k <= Len(ps)
      BY <1>1, <1>8
    <3> QED BY <1>1, <3>1, SMTT(30)
  <2>2. ps[k].n = x + k - 1 /\ qs[k - d].n = (x + d) + (k - d) - 1
    BY <1>9, <1>10, <2>1
  <2>3. ps[k].n = qs[k - d].n
    BY <1>8, <2>1, <2>2
  <2>4. FoundIn(f, ps[k]) /\ FoundIn(g, qs[k - d])
    BY <1>11, <1>12, <2>1
  <2> QED BY <2>3, <2>4, SameDate
<1>15. Below(ps, i) <= Len(ps)
  <2>1. Below(ps, i) \in (i + 1)..(Len(ps) + 1) /\ \A k \in i..Len(ps) : k < Below(ps, i) => Undated(ps, k)
    BY <1>1, <1>5, RunAround
  <2>2. b \in i..Len(ps)
    BY <1>6, SMTT(30)
  <2>3. ~(b < Below(ps, i))
    BY <1>6, <2>1, <2>2
  <2> QED BY <1>1, <1>6, <2>1, <2>3
<1>16. ASSUME Above(ps, i) > 0 PROVE Above(ps, i) > d
  <2> DEFINE a == Above(ps, i)
  <2>1. a \in 0..(i - 1) /\ ~Undated(ps, a)
    BY <1>1, <1>5, <1>16, RunAround
  <2> HIDE DEF a
  <2>2. a \in 1..Len(ps) /\ a < i
    BY <1>5, <1>16, <2>1, SMTT(30) DEF a
  <2>3. PICK l \in 1..Len(qs) : ps[a].n = qs[l].n
    BY <1>7, <2>1, <2>2
  <2>4. x + a - 1 = (x + d) + l - 1
    BY <1>9, <1>10, <2>2, <2>3
  <2>5. a > d
    BY <1>8, <2>2, <2>4
  <2> QED BY <2>5 DEF a
<1>17. Len(ps) - d <= Len(qs) /\ i \in (d + 1)..Len(ps) /\ i - d = j
  <2>1. Len(ps) - d <= Len(qs)
    BY <1>1, <1>8
  <2>2. i \in 1..Len(ps) /\ j \in 1..Len(qs)
    BY <1>5
  <2> QED BY <1>1, <1>13, <2>1, <2>2
<1>18. ApproximateUndated(ps, m)[i].at = ApproximateUndated(qs, end)[i - d].at
  <2>1. ShiftedBy(ps, qs, d)
    BY <1>14, <1>17 DEF ShiftedBy
  <2>2. Above(ps, i) > 0 => Above(ps, i) > d
    BY <1>16
  <2> QED BY <1>1, <1>5, <1>15, <1>17, <2>1, <2>2, Shifted, SMTT(30)
<1> QED BY <1>17, <1>18 DEF es, fs

\* How a step leaves the entries that are in the file before and after: whole,
\* and only the first can be missing.
Keeps(d) ==
  /\ \A i \in 1..Len(file), j \in 1..Len(file') :
       file[i].n = file'[j].n => LinesOf(file, file[i].n) = LinesOf(file', file[i].n)
  /\ Len(file) >= 1 /\ Len(file') >= 1 =>
       file'[1].n = file[1].n + d /\ file[Len(file)].n <= file'[Len(file')].n

\* What is written below leaves every entry that was there.
LEMMA WriteKeeps ==
  ASSUME Typed, Untorn, NEW t \in Text, Write(t)
  PROVE  Keeps(0)
<1> DEFINE f == file
           g == file'
<1>1. /\ f \in Seq(LineType) /\ written \in Nat /\ Len(f) \in Nat
      /\ \A i \in 1..Len(f) : f[i].n <= written /\ f[i].n \in Nat
      /\ Len(Lines(t)) \in 1..3 /\ Len(g) = Len(f) + Len(Lines(t))
      /\ \A i \in 1..Len(f) : g[i] = f[i]
      /\ \A i \in 1..Len(g) :
           \/ i \in 1..Len(f) /\ g[i] = f[i] /\ g[i].n <= written
           \/ i \in (Len(f) + 1)..Len(g) /\ g[i].n = written + 1
  BY WrittenBelow
<1> HIDE DEF f, g
<1>2. ASSUME NEW i \in 1..Len(f) PROVE LinesOf(f, f[i].n) = LinesOf(g, f[i].n)
  <2>1. ASSUME NEW l \in LinesOf(f, f[i].n) PROVE l \in LinesOf(g, f[i].n)
    <3>1. PICK k \in 1..Len(f) : l = f[k] /\ f[k].n = f[i].n
      BY DEF LinesOf
    <3>2. k \in 1..Len(g) /\ g[k] = f[k]
      BY <1>1
    <3> QED BY <3>1, <3>2 DEF LinesOf
  <2>2. ASSUME NEW l \in LinesOf(g, f[i].n) PROVE l \in LinesOf(f, f[i].n)
    <3>1. PICK k \in 1..Len(g) : l = g[k] /\ g[k].n = f[i].n
      BY DEF LinesOf
    <3>2. f[i].n <= written /\ f[i].n \in Nat
      BY <1>1
    <3>3. g[k].n # written + 1
      BY <1>1, <3>1, <3>2
    <3>4. k \in 1..Len(f) /\ g[k] = f[k]
      BY <1>1, <3>3
    <3> QED BY <3>1, <3>4 DEF LinesOf
  <2> QED BY <2>1, <2>2
<1>3. ASSUME Len(f) >= 1 PROVE g[1].n = f[1].n + 0 /\ f[Len(f)].n <= g[Len(g)].n
  <2>0. Len(f) \in Nat /\ Len(Lines(t)) \in 1..3 /\ Len(g) = Len(f) + Len(Lines(t))
    BY <1>1
  <2>1. 1 \in 1..Len(f) /\ Len(f) \in 1..Len(f) /\ Len(g) \in 1..Len(g) /\ Len(g) \notin 1..Len(f)
    BY <1>3, <2>0
  <2>2. g[1].n = f[1].n /\ f[1].n \in Nat
    BY <1>1, <2>1
  <2>3. g[Len(g)].n = written + 1 /\ f[Len(f)].n <= written /\ f[Len(f)].n \in Nat
    BY <1>1, <2>1
  <2> QED BY <1>1, <2>2, <2>3
<1> QED BY <1>2, <1>3 DEF Keeps, f, g

\* Trimming leaves every entry but the first.
LEMMA TrimKeeps ==
  ASSUME Typed, Lay, Trim
  PROVE  Keeps(1)
<1> DEFINE f == file
           g == file'
<1>1. PICK m \in 1..Len(f) : /\ g = SubSeq(f, m + 1, Len(f))
                             /\ f[m].n = f[1].n
                             /\ m = Len(f) \/ f[m + 1].n # f[m].n
  BY OldestGoes DEF Lay
<1>2. f \in Seq(LineType) /\ Len(f) \in Nat /\ Ordered(f) /\ Numbered(f)
  BY DEF Typed, Lay
<1>3. \A i \in 1..Len(f) : f[i].n \in Nat
  BY <1>2, LineTyped
<1> HIDE DEF f, g
<1>4. Len(g) = Len(f) - m /\ \A i \in 1..Len(g) : g[i] = f[m + i] /\ m + i \in 1..Len(f)
  BY <1>1, <1>2
<1>5. ASSUME Len(g) >= 1 PROVE f[m + 1].n = f[1].n + 1 /\ m + 1 \in 1..Len(f) /\ g[1] = f[m + 1]
  <2>1. m # Len(f) /\ m \in 1..(Len(f) - 1) /\ m + 1 \in 1..Len(f) /\ 1 \in 1..Len(g)
    BY <1>2, <1>4, <1>5
  <2>2. f[m + 1].n \in {f[m].n, f[m].n + 1}
    BY <1>2, <2>1 DEF Numbered
  <2>3. g[1] = f[m + 1]
    BY <1>4, <2>1
  <2> QED BY <1>1, <2>1, <2>2, <2>3
<1>6. ASSUME NEW i \in 1..Len(f), NEW j \in 1..Len(g), f[i].n = g[j].n
      PROVE  LinesOf(f, f[i].n) = LinesOf(g, f[i].n)
  <2>1. f[i].n > f[1].n
    <3>1. m + 1 \in 1..Len(f) /\ m + j \in 1..Len(f) /\ m + 1 <= m + j /\ g[j] = f[m + j]
      BY <1>4, <1>5, <1>6
    <3>2. f[m + 1].n <= f[m + j].n
      BY <1>2, <3>1 DEF Ordered
    <3>3. f[m + 1].n = f[1].n + 1 /\ f[1].n \in Nat /\ f[m + j].n \in Nat
      <4>1. Len(g) >= 1 /\ 1 \in 1..Len(f)
        BY <1>2, <1>4
      <4> QED BY <1>3, <1>5, <3>1, <4>1
    <3> QED BY <1>6, <3>1, <3>2, <3>3, SMTT(30)
  <2>2. ASSUME NEW l \in LinesOf(f, f[i].n) PROVE l \in LinesOf(g, f[i].n)
    <3>1. PICK k \in 1..Len(f) : l = f[k] /\ f[k].n = f[i].n
      BY DEF LinesOf
    <3>2. k > m
      <4> SUFFICES ASSUME k <= m PROVE FALSE
        OBVIOUS
      <4>1. f[k].n <= f[m].n
        BY <1>2 DEF Ordered
      <4>2. f[k].n \in Nat /\ f[m].n \in Nat /\ f[1].n \in Nat
        <5>1. 1 \in 1..Len(f)
          BY <1>2
        <5> QED BY <1>3, <5>1
      <4> QED BY <1>1, <2>1, <3>1, <4>1, <4>2, SMTT(30)
    <3>3. k - m \in 1..Len(g) /\ m + (k - m) = k
      BY <1>2, <1>4, <3>2
    <3>4. g[k - m] = f[k]
      BY <1>4, <3>3
    <3> QED BY <3>1, <3>3, <3>4 DEF LinesOf
  <2>3. ASSUME NEW l \in LinesOf(g, f[i].n) PROVE l \in LinesOf(f, f[i].n)
    <3>1. PICK k \in 1..Len(g) : l = g[k] /\ g[k].n = f[i].n
      BY DEF LinesOf
    <3>2. g[k] = f[m + k] /\ m + k \in 1..Len(f)
      BY <1>4
    <3> QED BY <3>1, <3>2 DEF LinesOf
  <2> QED BY <2>2, <2>3
<1>7. ASSUME Len(g) >= 1 PROVE g[1].n = f[1].n + 1 /\ f[Len(f)].n <= g[Len(g)].n
  <2>1. Len(g) \in 1..Len(g) /\ m + Len(g) = Len(f) /\ Len(f) \in 1..Len(f)
    BY <1>2, <1>4, <1>7
  <2>2. g[Len(g)] = f[Len(f)] /\ f[Len(f)].n \in Nat
    BY <1>3, <1>4, <2>1
  <2> QED BY <1>5, <1>7, <2>2
<1> QED BY <1>6, <1>7 DEF Keeps, f, g

\* Nothing else touches the file.
LEMMA FileChanges ==
  ASSUME Typed, Untorn => Lay, [Next]_vars, Untorn, file' # file
  PROVE  \E d \in Nat : Keeps(d)
<1>1. ASSUME NEW t \in Text, Write(t) PROVE \E d \in Nat : Keeps(d)
  BY <1>1, WriteKeeps
<1>2. CASE Trim
  BY <1>2, TrimKeeps
<1>3. file' = file \/ Trim \/ \E t \in Text : Write(t)
  BY DEF Next, SwitchOn, SwitchOff, Tick, Import, vars, history
<1> QED BY <1>1, <1>2, <1>3

\* Nothing of fish is undated.
LEMMA FishMeasures ==
  ASSUME Typed, Sniff(file) = "fish", NEW i \in DOMAIN Entries
  PROVE  ~Entries[i].approximate
<1>1. Entries = ParseFish(file) /\ file \in Seq(LineType)
  BY DEF Entries, Parse, Typed
<1>2. Entries \in Seq(EntryType)
  BY <1>1, ParsedEntries
<1> HIDE DEF Entries
<1>3. i \in 1..Len(Entries)
  BY <1>2
<1> QED BY <1>2, <1>3, EntryIsTyped

\* What UndatedStay says of a step.
LEMMA NextStay ==
  ASSUME Typed, Typed', Untorn => Lay, (Untorn => Lay)', [Next]_vars, Untorn,
         file' # file, Sniff(file) = Sniff(file)'
  PROVE  StayIn(Entries, Entries')
<1>1. CASE Sniff(file) = "fish"
  BY <1>1, FishMeasures DEF StayIn
<1>2. CASE Sniff(file) # "fish"
  <2>1. setting' = setting
    BY DEF Next, Write, Trim, SwitchOn, SwitchOff, Tick, Import, vars, events
  <2>2. Lay /\ Lay'
    BY <2>1 DEF Untorn
  <2>3. PICK d \in Nat : Keeps(d)
    BY FileChanges
  <2>4. file \in Seq(LineType) /\ file' \in Seq(LineType)
    BY DEF Typed
  <2>5. /\ WellLaid(file) /\ Ordered(file) /\ Numbered(file)
        /\ WellLaid(file') /\ Ordered(file') /\ Numbered(file')
    BY <2>2 DEF Lay
  <2>6. PICK ps : Placed(file, ps) /\ Entries = ApproximateUndated(ps, mtime)
    <3>1. shell \in {"bash", "zsh", "fish"} /\ \A i \in 1..Len(file) : file[i].form \in FormsOf(shell)
      BY <2>2 DEF Typed, Lay
    <3> QED BY <1>2, <2>4, <2>5, <3>1, ReadPlaced DEF Entries
  <2>7. PICK qs : Placed(file', qs) /\ Entries' = ApproximateUndated(qs, mtime')
    <3>1. shell' \in {"bash", "zsh", "fish"} /\ \A i \in 1..Len(file') : file'[i].form \in FormsOf(shell')
      BY <2>2 DEF Typed, Lay
    <3>2. Sniff(file') # "fish"
      BY <1>2
    <3> QED BY <2>4, <2>5, <3>1, <3>2, ReadPlaced DEF Entries
  <2>8. StayIn(ApproximateUndated(ps, mtime), ApproximateUndated(qs, mtime'))
    <3>1. Sniff(file) = Sniff(file')
      OBVIOUS
    <3>2. \A i \in 1..Len(file), j \in 1..Len(file') :
            file[i].n = file'[j].n => LinesOf(file, file[i].n) = LinesOf(file', file[i].n)
      BY <2>3 DEF Keeps
    <3>3. Len(file) >= 1 /\ Len(file') >= 1 =>
            file'[1].n = file[1].n + d /\ file[Len(file)].n <= file'[Len(file')].n
      BY <2>3 DEF Keeps
    <3> QED BY <1>2, <2>4, <2>5, <2>6, <2>7, <3>1, <3>2, <3>3, PlacedStay
  <2> QED BY <2>6, <2>7, <2>8
<1> QED BY <1>1, <1>2

\* While its dated neighbours are in the file, an undated entry keeps its date, and
\* so its event is found again, however many are trimmed above or written below
\* (histfile.go, approximateUndated): what UndatedStay says.
THEOREM UndatedFoundAgain == Spec => UndatedStay
<1> DEFINE Stays ==
      "torn" \notin setting /\ file' # file /\ Sniff(file) = Sniff(file)' =>
        \A newer \in {file'}, end \in {mtime'} :
          \A es \in {Entries}, fs \in {Parse(newer, end)} :
            LET dated == {k \in DOMAIN es : ~es[k].approximate}
                left  == {fs[l].n : l \in DOMAIN fs}
            IN  \A i \in DOMAIN es, j \in DOMAIN fs :
                  /\ es[i].n = fs[j].n /\ es[i].approximate
                  /\ \E k \in dated : k > i
                  /\ \A k \in dated : k < i => es[k].n \in left
                  => es[i].at = fs[j].at
<1>1. Typed /\ Typed' /\ (Untorn => Lay) /\ (Untorn => Lay)' /\ [Next]_vars => [Stays]_vars
  <2> SUFFICES ASSUME Typed, Typed', Untorn => Lay, (Untorn => Lay)', [Next]_vars,
                      "torn" \notin setting, file' # file, Sniff(file) = Sniff(file)'
               PROVE  StayIn(Entries, Entries')
    BY DEF StayIn, Entries
  <2> QED BY NextStay DEF Untorn
<1>2. [][Stays]_vars => UndatedStay
  BY DEF UndatedStay
<1> HIDE DEF Stays
<1> QED BY <1>1, <1>2, TypedAlways, LayAlways, PTL DEF Spec

=============================================================================
