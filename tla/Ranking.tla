------------------------------- MODULE Ranking -------------------------------
(***************************************************************************)
(* How the picker orders commands: matching (internal/rank/rank.go),       *)
(* scores (score.go, frecency.go), the statistics and rows they are        *)
(* computed from (internal/store/stats.go, candidates.go) and the two      *)
(* phases of a query (internal/tui/ranking.go).                            *)
(*                                                                         *)
(* A command and a query are sequences of characters; the alphabet is a    *)
(* constant.  Scores are in hundredths instead of floating point, with the *)
(* logarithm and the cube root rounded down.                               *)
(***************************************************************************)
EXTENDS Integers, Sequences, FiniteSets, SequencesExt

CONSTANTS
  Separator,         \* characters between words, the blank among them
  Upper,             \* upper-case letters
  Lower,             \* the lower-case letter of each
  LowerCase,         \* lower-case letters
  Blank,
  Now,               \* the time of a query; runs start at 1 or later
  HalfLife, BurstWindow, DebugWindow,
  RefineCandidates   \* how many commands a query looks up

Outcome == {"running", "orphaned", "imported", "ok", "failed", "neverRan", "interrupted"}

Signal == {"dir", "repo", "session", "host", "branch"}

\* An execution: near is what it shares with where the user is now.
Run == [start : 1..Now, outcome : Outcome, near : SUBSET Signal]

ASSUME RankingConstants == Now \in Nat /\ HalfLife \in Nat \ {0}

----------------------------------------------------------------------------
(* Matching.                                                               *)

Fold(text) == [i \in DOMAIN text |-> IF text[i] \in Upper THEN Lower[text[i]] ELSE text[i]]

\* strings.Fields: the words of a query by the position they start at.
Tokens(q) ==
  LET begins == {i \in DOMAIN q : q[i] # Blank /\ (i = 1 \/ q[i - 1] = Blank)}
      end(i) == CHOOSE j \in i..Len(q) :
                  /\ \A k \in i..j : q[k] # Blank
                  /\ j = Len(q) \/ q[j + 1] = Blank
  IN  [i \in begins |-> Fold(SubSeq(q, i, end(i)))]

IsLower(ch) == ch \in LowerCase

WordStarts(text) ==
  {i \in DOMAIN text :
     \/ i = 1
     \/ i > 1 /\ text[i - 1] \in Separator /\ text[i] \notin Separator
     \/ /\ i > 1 /\ text[i - 1] \notin Separator /\ text[i] \in Upper
        /\ text[i - 1] \notin Upper \/ (i < Len(text) /\ IsLower(text[i + 1]))}

HasPrefixAt(text, i, tok) ==
  i + Len(tok) - 1 <= Len(text) /\ \A j \in DOMAIN tok : text[i + j - 1] = tok[j]

\* Positions of the token's characters: forward to where the first match ends,
\* then back from there.  << >> when there is none.
Subsequence(text, tok) ==
  LET n == Len(tok)
      forward[i \in 0..Len(text)] ==
        IF i = 0 THEN 0
        ELSE IF forward[i - 1] < n /\ text[i] = tok[forward[i - 1] + 1]
               THEN forward[i - 1] + 1 ELSE forward[i - 1]
      ends == {i \in DOMAIN text : forward[i] = n}
      end == Min(ends)
      back[i \in 1..(end + 1)] ==
        IF i = end + 1 THEN 0
        ELSE IF back[i + 1] < n /\ text[i] = tok[n - back[i + 1]]
               THEN back[i + 1] + 1 ELSE back[i + 1]
  IN  IF ends = {} THEN << >>
      ELSE [k \in 1..n |-> Max({i \in 1..end : back[i] > n - k})]

\* The cube root of n/d in hundredths.
CubeRoot(n, d) == Max({0} \cup {k \in 1..100 : k * k * k * d <= n * 1000000})

TokenScore(starts, pos) ==
  LET n == Len(pos)
      weight == [k \in 1..n |->
                   CASE pos[k] \in starts -> 100
                     [] pos[k] \notin starts /\ k > 1 /\ pos[k - 1] = pos[k] - 1 -> 70
                     [] OTHER -> 40]
      placement == SumFunction(weight) \div n
  IN  (placement * CubeRoot(n, pos[n] - pos[1] + 1)) \div 100

TierNone == 0
TierFuzzy == 1
TierSubstring == 2
TierPrefix == 3

MatchToken(text, tok) ==
  LET folded == Fold(text)
      starts == WordStarts(text)
      places == {i \in DOMAIN text : HasPrefixAt(folded, i, tok)}
      scattered == Subsequence(folded, tok)
      Found(tier, pos) == [tier |-> tier, score |-> TokenScore(starts, pos)]
      At(i) == [k \in DOMAIN tok |-> i + k - 1]
  IN  IF places \cap starts # {} THEN Found(TierPrefix, At(Min(places \cap starts)))
      ELSE IF places # {} THEN Found(TierSubstring, At(Min(places)))
      ELSE IF scattered # << >> THEN Found(TierFuzzy, scattered)
      ELSE [tier |-> TierNone, score |-> 0]

\* Every token must match; the weakest decides the tier.
MatchCommand(text, tokens) ==
  LET match == [i \in DOMAIN tokens |-> MatchToken(text, tokens[i])]
      score == [i \in DOMAIN tokens |-> match[i].score]
  IN  IF tokens = << >> THEN [tier |-> TierPrefix, score |-> 100]
      ELSE [tier  |-> Min({match[i].tier : i \in DOMAIN tokens}),
            score |-> SumFunction(score) \div Cardinality(DOMAIN tokens)]

----------------------------------------------------------------------------
(* Statistics of the runs of one command.                                  *)

Latest(runs) == Max({r.start : r \in runs})

Of(runs, outcomes) == {r \in runs : r.outcome \in outcomes}

StatusOf(r) ==
  CASE r.outcome \in {"running", "orphaned"} -> r.outcome
    [] r.outcome \in {"ok", "imported"} -> "completed"
    [] r.outcome \in {"failed", "neverRan", "interrupted"} -> "failed"

\* Counter: one run counts per burst, and half as much a half-life later,
\* rounded down.
Frecency(runs) ==
  LET starts == {r.start : r \in runs}
      counted[t \in 0..Now] ==
        t \in starts /\ \A u \in 1..(t - 1) : t - u <= BurstWindow => ~counted[u]
      weight(t) == Max({w \in 0..100 : w * 2 ^ ((Now - t) \div HalfLife) <= 100})
  IN  SumFunction([t \in {u \in starts : counted[u]} |-> weight(t)])

\* 1 + Beta * log(1 + w), with the logarithm in doublings.
Lift(w) == 100 + 42 * Max({0} \cup {k \in 1..10 : 100 * 2 ^ k <= 100 + w})

Multiplier(runs, near) ==
  LET failures == Cardinality(Of(runs, {"failed"}))
      finished == Cardinality(Of(runs, {"ok", "failed", "neverRan"}))
      debugging == \E r \in Of(runs, {"failed"}) : Now - r.start <= DebugWindow
      place == CASE "dir" \in near -> 135
                 [] "dir" \notin near /\ "repo" \in near -> 120
                 [] OTHER -> 100
      shared == (place * (IF "session" \in near THEN 115 ELSE 100)
                       * (IF "host" \in near THEN 110 ELSE 100)) \div 100
      all == (shared * (IF "branch" \in near THEN 110 ELSE 100)) \div 100
      worked == IF Of(runs, {"neverRan"}) # {} /\ Of(runs, {"ok", "failed"}) = {} THEN 60
                ELSE IF debugging \/ failures = 0 THEN 100
                ELSE 100 - (25 * failures) \div finished
      known == IF runs # {} /\ Of(runs, {"imported"}) = runs THEN 90 ELSE 100
      m == (((all * worked) \div 100) * known) \div 10000
  IN  IF m < 60 THEN 60 ELSE IF m > 200 THEN 200 ELSE m

----------------------------------------------------------------------------
(* One query.                                                              *)

\* Wrong: the score alone, whatever the tier.
LessByScore(a, b) == IF a.score # b.score THEN a.score > b.score ELSE a.last > b.last

\* rank.Less.  No two commands were used last in the same millisecond.
Less(a, b) ==
  IF a.tier # b.tier THEN a.tier > b.tier
  ELSE IF a.score # b.score THEN a.score > b.score
  ELSE a.last > b.last

Ahead(S, a) == Cardinality({b \in S : Less(b, a)})

Sorted(S) == [n \in 1..Cardinality(S) |-> CHOOSE a \in S : Ahead(S, a) = n - 1]

\* The gate on the cached counts.
StatusPossible(runs, status) ==
  CASE status = ""         -> TRUE
    [] status \in {"running", "orphaned"} ->
         Of(runs, {"running", "orphaned", "imported"}) # {}
    [] status = "failed"   -> Of(runs, {"failed", "neverRan"}) # {}

StatusMatches(r, status) == status = "" \/ StatusOf(r) = status

\* stats: the runs behind the picker's statistics.  match: how each command
\* matches the query; a query without tokens ranks nothing.  found: the row
\* and the runs the database has for each command by now.
RankedResults(stats, match, blank, found, status) ==
  LET scored(c, multiplier) ==
        [command |-> c, tier |-> match[c].tier, last |-> Latest(stats[c]),
         score |-> IF blank THEN 0
                   ELSE match[c].score * Lift(Frecency(stats[c])) * multiplier]
      candidates ==
        {scored(c, 100) : c \in
           {d \in DOMAIN stats : StatusPossible(stats[d], status) /\ match[d].tier # TierNone}}
      shortlist == {s.command : s \in {a \in candidates : Ahead(candidates, a) < RefineCandidates}}
      near(c) == UNION {r.near : r \in found[c].runs}
      matches(c) == \E r \in found[c].row : StatusMatches(r, status)
      refined == {scored(c, Multiplier(stats[c], near(c))) : c \in {d \in shortlist : matches(d)}}
      out == Sorted(refined)
  IN  [n \in DOMAIN out |->
         [command |-> out[n].command, run |-> CHOOSE r \in found[out[n].command].row : TRUE]]

=============================================================================
