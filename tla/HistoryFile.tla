----------------------------- MODULE HistoryFile -----------------------------
(***************************************************************************)
(* How the shells' own history files are read (internal/histfile).         *)
(*                                                                         *)
(* A file is a sequence of lines, a line what its reader can tell apart:   *)
(*   stamp    #<epoch>              bash, before an entry                  *)
(*   header   : <epoch>:<n>;<text>  zsh, with EXTENDED_HISTORY             *)
(*   cmd      - cmd: <text>         fish                                   *)
(*   when       when: <epoch>       fish, after it                         *)
(*   plain    <text>                an entry, or more of one               *)
(* more: it ends in a backslash that escapes the newline.  n, for the      *)
(* properties only: the entry it was written for.  Blank lines and the     *)
(* escapes within a text are left out.                                     *)
(***************************************************************************)
EXTENDS Integers, Sequences, FiniteSets, FiniteSetsExt

CONSTANTS
  SniffLines,   \* how many lines sniff looks at: 40
  Second        \* milliseconds

Line(form, at, text, more, n) ==
  [form |-> form, at |-> at, text |-> text, more |-> more, n |-> n]

Sniff(file) ==
  LET telling == {i \in DOMAIN file : i <= SniffLines /\ file[i].form \in {"header", "cmd"}}
  IN  IF telling = {} THEN "bash"
      ELSE IF file[Min(telling)].form = "header" THEN "zsh" ELSE "fish"

\* The last line of the entry that begins at i.
LastLine(file, i) == Min({j \in i..Len(file) : ~file[j].more \/ j = Len(file)})

\* A text is what its lines say; only the first may be rid of its header.
Piece(line, bare) ==
  [form |-> IF bare THEN "plain" ELSE line.form, at |-> IF bare THEN 0 ELSE line.at,
   text |-> line.text, more |-> line.more]

Entry(file, i, bare, at) ==
  LET last == LastLine(file, i)
  IN  [text  |-> [k \in 1..(last - i + 1) |-> Piece(file[i + k - 1], bare /\ k = 1)],
       at    |-> at * Second,
       approximate |-> FALSE,
       n     |-> file[i].n]

\* bash: the stamp above the line, unless the entry before took it for its text.
Pending(file, i) ==
  IF i > 1 /\ file[i - 1].form = "stamp" /\ ~(i > 2 /\ file[i - 2].more)
  THEN file[i - 1].at ELSE 0

\* A parser's scan of the file: from[i] is what it finds from line i on.

ParseBash(file) ==
  LET from[i \in 1..(Len(file) + 1)] ==
        IF i > Len(file) THEN << >>
        ELSE IF file[i].form = "stamp" THEN from[i + 1]
        ELSE <<Entry(file, i, FALSE, Pending(file, i))>> \o from[LastLine(file, i) + 1]
  IN  from[1]

ParseZsh(file) ==
  LET from[i \in 1..(Len(file) + 1)] ==
        IF i > Len(file) THEN << >>
        ELSE <<IF file[i].form = "header"
                 THEN Entry(file, i, TRUE, file[i].at)
                 ELSE Entry(file, i, FALSE, 0)>> \o from[LastLine(file, i) + 1]
  IN  from[1]

\* The dates below a command, up to the next one.
Dates(file, i) ==
  {j \in (i + 1)..Len(file) :
     file[j].form = "when" /\ \A k \in (i + 1)..j : file[k].form # "cmd"}

ParseFish(file) ==
  LET from[i \in 1..(Len(file) + 1)] ==
        IF i > Len(file) THEN << >>
        ELSE IF file[i].form # "cmd" THEN from[i + 1]
        ELSE <<[text  |-> <<Piece(file[i], TRUE)>>,
                at    |-> IF Dates(file, i) = {} THEN 0
                          ELSE file[Max(Dates(file, i))].at * Second,
                approximate |-> FALSE,
                n     |-> file[i].n]>> \o from[i + 1]
  IN  from[1]

Undated(es, i) == es[i].at = 0

\* The run of undated entries that i is in: the positions around it.
Above(es, i) == Max({0} \cup {j \in 1..i : ~Undated(es, j)})
Below(es, i) == Min({Len(es) + 1} \cup {j \in i..Len(es) : ~Undated(es, j)})

\* Wrong: all of them go before the last modification.
NearTheEnd(es, end) ==
  [i \in DOMAIN es |->
     IF Undated(es, i) THEN [es[i] EXCEPT !.at = end - (Len(es) + 1 - i) * Second, !.approximate = TRUE]
     ELSE es[i]]

\* Each run goes between its dated neighbours, at most a second apart; where
\* a share of the gap is under a millisecond, a second apart before the lower
\* neighbour.  The step is in nanoseconds, what is stored in milliseconds.
Nanos == 1000000

ApproximateUndated(es, end) ==
  LET time(i) ==
        LET above == Above(es, i)
            below == Below(es, i)
            parts == below - above
            upper == IF below > Len(es) THEN end ELSE es[below].at
            roomy == upper - parts * Second
            lower == IF above > 0 THEN Max({es[above].at, roomy}) ELSE roomy
            start == IF upper - lower < parts THEN roomy ELSE lower
            step  == ((upper - start) * Nanos) \div parts
        IN  start + ((i - above) * step) \div Nanos
  IN  [i \in DOMAIN es |->
         IF Undated(es, i) THEN [es[i] EXCEPT !.at = time(i), !.approximate = TRUE] ELSE es[i]]

Parse(file, modTime) ==
  CASE Sniff(file) = "fish" -> ParseFish(file)
    [] Sniff(file) = "zsh"  -> ApproximateUndated(ParseZsh(file), modTime)
    [] Sniff(file) = "bash" -> ApproximateUndated(ParseBash(file), modTime)

=============================================================================
