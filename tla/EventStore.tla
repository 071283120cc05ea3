----------------------------- MODULE EventStore -----------------------------
(***************************************************************************)
(* The databases of the machines (internal/store): the event log, the      *)
(* command rows and the search index derived from it, and the ranking      *)
(* cache derived from the rows (stats.go).                                 *)
(*                                                                         *)
(* A row is rebuilt from all events of its command in the transaction that *)
(* inserts one of them.  The cache is brought up to date now and then, by  *)
(* the daemon and by every picker that opens (cmd/shcr/main.go, cmdTUI),   *)
(* from a position in the log, the watermark, to the end of the log.       *)
(*                                                                         *)
(* The payloads are those a row can tell apart: the text of a start or an  *)
(* import, the start time, whether an exit code was zero.                  *)
(***************************************************************************)
EXTENDS Naturals, Sequences

CONSTANTS
  Device,
  Command,
  Text,            \* command texts
  NoText,          \* the empty text
  RedactedMarker,
  NoRow,           \* no row in the commands table
  Event,           \* the events that may be recorded
  Worlds,          \* the sets of events a behaviour may be about
  Refresher,       \* processes that refresh the cache: daemon, pickers
  DeviceOf         \* the machine a refresher runs on

Kind == {"start", "end", "import", "orphan", "redact"}

\* at: the position in (created_at, event_id) order, which names the event;
\* num: the start time of a start or import, the exit code of an end.
EventRecord ==
  [at : Nat, cmd : Command, dev : Device, kind : Kind, text : Text, num : Nat]

Status == {"running", "completed", "failed", "orphaned"}

Row == [text : Text, dev : Device, time : Nat, status : Status, exit : BOOLEAN]

ASSUME StoreConstants ==
  /\ Event \subseteq EventRecord
  /\ Worlds \subseteq SUBSET Event
  /\ {NoText, RedactedMarker} \subseteq Text
  /\ NoText # RedactedMarker
  /\ NoRow \notin Row
  /\ DeviceOf \in [Refresher -> Device]

VARIABLES
  log,        \* events table in rowid order
  rows,       \* commands table
  index,      \* commands_fts: the text a command is found under
  cache,      \* command_stats: the runs a text's statistics were computed from
  watermark,  \* stats_meta
  stage,      \* where a refresher is
  from,       \* RefreshCommandStats: the watermark it was called with
  upTo,       \* RefreshCommandStats: the end of the log it will read to
  world       \* the events of this behaviour, a choice made once

tables   == <<log, rows, index>>
refresh  == <<stage, from, upTo>>
vars     == <<tables, cache, watermark, refresh, world>>

-----------------------------------------------------------------------------
(* recompute. *)

\* Wrong: the row is what the newest arrival says.
OnlyLatestArrival(L, c) == {L[i] : i \in {j \in {Len(L)} \cap DOMAIN L : L[j].cmd = c}}

Of(L, c) == {L[i] : i \in {j \in DOMAIN L : L[j].cmd = c}}

OfKind(E, kinds) == {e \in E : e.kind \in kinds}

\* The event of E that the scan in (created_at, event_id) order meets last.
Latest(E) == CHOOSE e \in E : \A f \in E : f.at <= e.at

\* SELECT device_id ... LIMIT 1, through the index on command_id: the event
\* that arrived first.
FirstHeard(L, c) ==
  L[CHOOSE i \in DOMAIN L : L[i].cmd = c /\ \A j \in 1..i-1 : L[j].cmd # c]

\* Wrong: an orphan guess beats the result.
OrphanFirst(E) ==
  LET ends == OfKind(E, {"end"}) IN
  IF OfKind(E, {"orphan"}) # {} THEN "orphaned"
  ELSE IF ends # {} THEN IF Latest(ends).num = 0 THEN "completed" ELSE "failed"
  ELSE IF OfKind(E, {"import"}) # {} THEN "completed" ELSE "running"

StatusOf(E) ==
  LET ends == OfKind(E, {"end"}) IN
  IF ends # {} THEN IF Latest(ends).num = 0 THEN "completed" ELSE "failed"
  ELSE IF OfKind(E, {"orphan"}) # {} THEN "orphaned"
  ELSE IF OfKind(E, {"import"}) # {} THEN "completed" ELSE "running"

\* Wrong: a redaction replaces the text the scan has met so far.
TextSoFar(E) ==
  LET said == OfKind(E, {"start", "import", "redact"}) IN
  IF said = {} THEN NoText
  ELSE IF Latest(said).kind = "redact" THEN RedactedMarker ELSE Latest(said).text

TextOf(E) ==
  LET begun == OfKind(E, {"start", "import"}) IN
  IF OfKind(E, {"redact"}) # {} THEN RedactedMarker
  ELSE IF begun = {} THEN NoText ELSE Latest(begun).text

recompute(L, c) ==
  LET E     == Of(L, c)
      begun == OfKind(E, {"start", "import"})
  IN [text   |-> TextOf(E),
      dev    |-> IF begun = {} THEN FirstHeard(L, c).dev ELSE Latest(begun).dev,
      time   |-> IF begun = {} THEN 0 ELSE Latest(begun).num,
      status |-> StatusOf(E),
      exit   |-> OfKind(E, {"end"}) # {}]

-----------------------------------------------------------------------------
Init ==
  /\ log = [d \in Device |-> <<>>]
  /\ rows = [d \in Device |-> [c \in Command |-> NoRow]]
  /\ index = [d \in Device |-> [c \in Command |-> NoText]]
  /\ cache = [d \in Device |-> [t \in Text |-> {}]]
  /\ watermark = [d \in Device |-> 0]
  /\ stage = [r \in Refresher |-> "idle"]
  /\ from = [r \in Refresher |-> 0]
  /\ upTo = [r \in Refresher |-> 0]
  /\ world \in Worlds

\* appendEvent: one transaction, a no-op for a known id.
Insert(d, e) ==
  LET L == Append(log[d], e) IN
  /\ \A i \in DOMAIN log[d] : log[d][i].at # e.at
  /\ log' = [log EXCEPT ![d] = L]
  /\ rows' = [rows EXCEPT ![d][e.cmd] = recompute(L, e.cmd)]
  /\ index' = [index EXCEPT ![d][e.cmd] = recompute(L, e.cmd).text]
  /\ UNCHANGED <<cache, watermark, refresh, world>>

\* The hook's senders may be overtaken by one another, and the sweep appends
\* an orphan for a row it saw running some time ago; `shcr redact` wants a row.
Recordable(d, e) ==
  CASE e.kind = "redact" -> rows[d][e.cmd] # NoRow
    [] e.kind = "orphan" ->
         \E n \in 1..Len(log[d]) :
           LET L == SubSeq(log[d], 1, n) IN
           /\ Of(L, e.cmd) # {}
           /\ recompute(L, e.cmd).status = "running"
           /\ recompute(L, e.cmd).dev = d
    [] OTHER -> TRUE

AppendEvent(d, e) ==
  /\ e \in world
  /\ e.dev = d
  /\ Recordable(d, e)
  /\ Insert(d, e)

\* From whichever peer, in whatever order its events came here.
InsertRemoteEvent(d, e) ==
  /\ e.dev # d
  /\ \E i \in DOMAIN log[e.dev] : log[e.dev][i] = e
  /\ Insert(d, e)

-----------------------------------------------------------------------------
(* RefreshCommandStats. *)

\* The statistics of a text are a function of the runs they count.
RunsOf(d, t) ==
  {[cmd |-> c, row |-> rows[d][c]] : c \in {x \in Command : rows[d][x] # NoRow /\ rows[d][x].text = t}}

ReadWatermark(r) ==
  /\ stage[r] = "idle"
  /\ from' = [from EXCEPT ![r] = watermark[DeviceOf[r]]]
  /\ stage' = [stage EXCEPT ![r] = "bound"]
  /\ UNCHANGED <<tables, cache, watermark, upTo, world>>

\* Wrong: the position the next event will have.
NextRowID(d) == Len(log[d]) + 1

MaxRowID(d) == Len(log[d])

FixUpTo(r) ==
  /\ stage[r] = "bound"
  /\ upTo' = [upTo EXCEPT ![r] = MaxRowID(DeviceOf[r])]
  /\ stage' = [stage EXCEPT ![r] = "pass"]
  /\ UNCHANGED <<tables, cache, watermark, from, world>>

\* The texts to compute again: all of them for a rebuild, else the texts the
\* commands of the new events have now.
Changed(r) ==
  LET d == DeviceOf[r] IN
  {rows[d][c].text :
     c \in {x \in Command :
              /\ rows[d][x] # NoRow
              /\ from[r] = 0 \/ \E i \in from[r]+1 .. upTo[r] : log[d][i].cmd = x}} \ {NoText}

Refreshed(r) ==
  LET d == DeviceOf[r] IN
  [cache EXCEPT ![d] = [t \in Text |->
     IF t \in Changed(r) THEN RunsOf(d, t)
     ELSE IF from[r] = 0 THEN {} ELSE cache[d][t]]]

Return(r) ==
  /\ stage' = [stage EXCEPT ![r] = "idle"]
  /\ from' = [from EXCEPT ![r] = 0]
  /\ upTo' = [upTo EXCEPT ![r] = 0]

\* Wrong: the watermark is where the log ends by now.
RefreshToTheEnd(r) ==
  /\ stage[r] = "pass"
  /\ cache' = Refreshed(r)
  /\ watermark' = [watermark EXCEPT ![DeviceOf[r]] = Len(log[DeviceOf[r]])]
  /\ Return(r)
  /\ UNCHANGED <<tables, world>>

\* One transaction; a refresher whose snapshot is too old to write is refused.
RefreshCommandStats(r) ==
  /\ stage[r] = "pass"
  /\ cache' = Refreshed(r)
  /\ watermark' = [watermark EXCEPT ![DeviceOf[r]] = upTo[r]]
  /\ Return(r)
  /\ UNCHANGED <<tables, world>>

\* Refused, failed or killed.
GiveUp(r) ==
  /\ stage[r] # "idle"
  /\ Return(r)
  /\ UNCHANGED <<tables, cache, watermark, world>>

-----------------------------------------------------------------------------
Next ==
  \/ \E d \in Device, e \in Event : AppendEvent(d, e) \/ InsertRemoteEvent(d, e)
  \/ \E r \in Refresher :
       ReadWatermark(r) \/ FixUpTo(r) \/ RefreshCommandStats(r) \/ GiveUp(r)

Spec == Init /\ [][Next]_vars

=============================================================================
