-------------------------- MODULE ImportProperties --------------------------
(***************************************************************************)
(* What an import promises, stated over HistoryImport.                     *)
(***************************************************************************)
EXTENDS HistoryImport

\* Every variable holds values of its kind, and no secret is stored.
TypeOK ==
  /\ shell \in Shell /\ stamping \in BOOLEAN
  /\ \A i \in DOMAIN file : file[i].n \in 1..written /\ file[i].text \in Text \cup {""}
  /\ now \in FirstTime..LastTime /\ mtime \in FirstTime * Second..now * Second
  /\ written \in 0..MaxEntries[setting]
  /\ {o.id : o \in origin} = store
  /\ \A id \in store : \A k \in DOMAIN id.text : id.text[k].text \notin Secret \cup Unstored
  /\ setting \in Settings

Ids(n) == {o.id : o \in {p \in origin : p.n = n}}

\* An entry the shell dated is in the history once, however often the file is
\* imported, grows and is trimmed in between, which a position in the file
\* would not give (histimport.go, Event).  Not so for a zsh that was told to
\* write dates only after the lines sniff looks at, whose file is taken for
\* bash's, and for what is around an entry that was not written whole.
DatedOnce ==
  setting \cap {"late", "torn"} = {} =>
    \A n \in 1..written :
      (\E id \in Ids(n) : \E i \in DOMAIN file :
          file[i].n = n /\ file[i].form \in {"stamp", "header", "when"})
        => Cardinality(Ids(n)) = 1

\* Undated entries keep their order and their place: each is earlier than
\* what is below it, undated or not, and later than the dated entry above where
\* the gap has a millisecond for each.  Two of one time would make one event.
OrderIsKept ==
  LET es == Entries
      dated(a, b) == {k \in a..b : ~es[k].approximate}
  IN  /\ \A i, j \in DOMAIN es :
           /\ i < j /\ es[i].approximate
           /\ dated(i, j) \subseteq {j}
           => es[i].at < es[j].at
      /\ \A i, j, b \in DOMAIN es :
           /\ i < j /\ j < b /\ es[j].approximate
           /\ dated(i, b) = {i, b}
           /\ es[b].at - es[i].at >= b - i
           => es[i].at < es[j].at

\* A second import of a file that has not changed since a whole one adds
\* nothing (histimport.go, Result.Existing).
SecondAddsNothing == imported = <<file, mtime>> => WouldAdd = {}

\* Importing again, the same file or what became of it, finds what is there.
FoundAgain == DatedOnce /\ SecondAddsNothing

\* What the shell adds below a dated entry does not move the undated entries
\* above it, nor does what it trims above a dated one move those below: while
\* the neighbours of an undated entry are there, its event is found again.
UndatedStay ==
  [][ "torn" \notin setting /\ file' # file /\ Sniff(file) = Sniff(file)' =>
        \A newer \in {file'}, end \in {mtime'} :
          \A es \in {Entries}, fs \in {Parse(newer, end)} :
            LET dated == {k \in DOMAIN es : ~es[k].approximate}
                left  == {fs[l].n : l \in DOMAIN fs}
            IN  \A i \in DOMAIN es, j \in DOMAIN fs :
                  /\ es[i].n = fs[j].n /\ es[i].approximate
                  /\ \E k \in dated : k > i
                  /\ \A k \in dated : k < i => es[k].n \in left
                  => es[i].at = fs[j].at ]_vars

=============================================================================
