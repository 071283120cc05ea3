-------------------------- MODULE StoreProperties --------------------------
(***************************************************************************)
(* What the derived tables promise, stated over EventStore.                *)
(***************************************************************************)
EXTENDS EventStore

\* Every variable holds values of its kind, and the watermark is a position
\* of the log.
TypeOK ==
  /\ log \in [Device -> Seq(Event)]
  /\ rows \in [Device -> [Command -> Row \cup {NoRow}]]
  /\ index \in [Device -> [Command -> Text]]
  /\ cache \in [Device -> [Text -> SUBSET [cmd : Command, row : Row]]]
  /\ watermark \in [Device -> Nat]
  /\ stage \in [Refresher -> {"idle", "bound", "pass"}]
  /\ from \in [Refresher -> Nat]
  /\ upTo \in [Refresher -> Nat]
  /\ world \in Worlds
  /\ \A d \in Device : watermark[d] <= Len(log[d])

Held(d, c) == {e \in Event : e.cmd = c /\ \E i \in DOMAIN log[d] : log[d][i] = e}

HeldKind(d, c, kinds) == {e \in Held(d, c) : e.kind \in kinds}

\* Any arrival order converges: two machines that hold the same events of a
\* command show the same row, once a start or an import is among them.
RowsConverge ==
  \A d, q \in Device : \A c \in Command :
    Held(d, c) = Held(q, c) /\ HeldKind(d, c, {"start", "import"}) # {} =>
      rows[d][c] = rows[q][c]

\* A redacted command's text is in neither the table nor the search index of
\* a machine that holds the redaction, also when the text itself arrives
\* later or was recorded by a machine whose clock is ahead.
RedactionSticks ==
  \A d \in Device : \A c \in Command :
    HeldKind(d, c, {"redact"}) # {} =>
      rows[d][c].text = RedactedMarker /\ index[d][c] = RedactedMarker

\* A reported result is final: no event that arrives later, such as the
\* orphan a sweep decided on before the result came, takes it back.
ResultIsFinal ==
  [][\A d \in Device : \A c \in Command :
       HeldKind(d, c, {"end"}) # {} => rows'[d][c].status = rows[d][c].status]_rows

Redacted(d, t) ==
  \E c \in Command :
    HeldKind(d, c, {"redact"}) # {} /\ \E e \in HeldKind(d, c, {"start", "import"}) : e.text = t

Pending(d, t) ==
  \E i \in watermark[d]+1 .. Len(log[d]) : rows[d][log[d][i].cmd].text = t

\* The watermark steps over nothing: the statistics of a text with no event
\* beyond it are those of all its runs, whatever arrived while they were
\* computed and however many refreshers were at it.  Redacted texts excepted.
CacheFollowsLog ==
  \A d \in Device : \A t \in Text \ {NoText} :
    ~Pending(d, t) /\ ~Redacted(d, t) => cache[d][t] = RunsOf(d, t)

=============================================================================
