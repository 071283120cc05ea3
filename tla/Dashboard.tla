------------------------------ MODULE Dashboard -----------------------------
(***************************************************************************)
(* The dashboard: the broker that follows the event log                    *)
(* (internal/web/sse.go), the handlers a page asks                         *)
(* (internal/web/api.go over internal/store/store.go) and the page that    *)
(* merges their answers (internal/web/static/app.js).                      *)
(*                                                                         *)
(* A row is a function of its command's events, so a version, their        *)
(* number, stands for it: 0 is no row, 1 a command that runs, 2 or more    *)
(* one that ended or was redacted.  A version says whether a row matches a *)
(* filter; the limit on the rows of a list is left out.                    *)
(***************************************************************************)
EXTENDS Naturals, Sequences, FiniteSets

CONSTANTS
  Command,
  MaxEvents,    \* bound on the log
  BufferSize,   \* capacity of a subscriber's channel
  PollLimit,    \* the LIMIT of EventsSince
  MaxRequests,  \* bound on the requests in flight
  MaxAsked,     \* bound on the requests the user makes
  NoCommand,
  Settings      \* the sets of conditions a behaviour may be subject to

\* "gap": something is recorded while the page boots.  "slow": the browser
\* falls behind its buffer.  "drop": the connection breaks and comes back.
\* "overtake": the page asks, or handles an event, while it waits for an answer.
\* "error": CommandByID fails.
Condition == {"gap", "slow", "drop", "overtake", "error"}

ASSUME DashboardConstants ==
  /\ MaxEvents \in Nat \ {0} /\ BufferSize \in Nat \ {0} /\ PollLimit \in Nat \ {0}
  /\ MaxRequests \in Nat /\ MaxAsked \in Nat
  /\ NoCommand \notin Command
  /\ Settings \subseteq SUBSET Condition

Filter == {"all", "running", "ended"}
Version == 0..MaxEvents

VARIABLES
  log,        \* events, by rowid: the command of each
  mark,       \* broker.run: last
  changed,    \* broker.run: ids whose rows are being collected
  client,     \* is the page's channel in broker.clients
  buffer,     \* that channel and the connection: payloads not handled yet
  page,       \* boot, load, connect, live, lost
  rows,       \* state.commands
  filter,     \* state.filters
  panel,      \* state.selected: a command and the version shown
  flight,     \* requests: what they ask, and the answer once there is one
  asked,      \* number of requests the user made
  setting

database == <<log>>
broker   == <<mark, changed, client, buffer>>
browser  == <<page, rows, filter, panel, flight, asked>>
vars     == <<database, broker, browser, setting>>

VersionIn(l, c) == Cardinality({i \in DOMAIN l : l[i] = c})
Row(c) == VersionIn(log, c)

Matches(v, f) ==
  CASE f = "all"     -> v > 0
    [] f = "running" -> v = 1
    [] f = "ended"   -> v > 1

\* A payload or a list: the version of every command in it.
Payload == [Command -> Version]
Nothing == [c \in Command |-> 0]

----------------------------------------------------------------------------
(* The database and the broker.                                            *)

Pending(kind) == {m \in flight : m.ask.kind = kind}

\* The bound on the log leaves room for the redactions asked for.
Room == Len(log) + Cardinality({m \in Pending("redact") : ~m.answered}) < MaxEvents

\* What happens while the page boots is missed by it: neither in its list nor
\* in the stream.
Quiet == "gap" \notin setting => page \in {"boot", "live", "lost"}

Record(c) ==
  /\ Room
  /\ Quiet
  /\ log' = Append(log, c)
  /\ UNCHANGED <<broker, browser, setting>>

\* Wrong: the mark moves past what LIMIT left out.
PollToTheEnd ==
  /\ changed = {}
  /\ LET next == IF Len(log) - mark > PollLimit THEN mark + PollLimit ELSE Len(log)
     IN  /\ changed' = IF client THEN {log[i] : i \in (mark + 1)..next} ELSE changed
         /\ mark' = Len(log)
  /\ UNCHANGED <<database, client, buffer, browser, setting>>

\* One tick.  With no client the mark moves to the end.
Poll ==
  /\ changed = {}
  /\ LET next == IF Len(log) - mark > PollLimit THEN mark + PollLimit ELSE Len(log)
     IN  IF client
           THEN mark' = next /\ changed' = {log[i] : i \in (mark + 1)..next}
           ELSE mark' = Len(log) /\ UNCHANGED changed
  /\ UNCHANGED <<database, client, buffer, browser, setting>>

\* Wrong: a channel takes what it is given.
PublishAnyway ==
  /\ changed # {}
  /\ buffer' = IF client THEN Append(buffer, [c \in Command |-> IF c \in changed THEN Row(c) ELSE 0])
               ELSE buffer
  /\ changed' = {}
  /\ UNCHANGED <<database, mark, client, browser, setting>>

\* Wrong: only a browser that has read everything is sent more.
PublishToIdle ==
  /\ changed # {}
  /\ buffer' = IF client /\ buffer = << >>
                 THEN <<[c \in Command |-> IF c \in changed THEN Row(c) ELSE 0]>> ELSE buffer
  /\ changed' = {}
  /\ UNCHANGED <<database, mark, client, browser, setting>>

\* The rows as they are by now; a full buffer drops them.
Publish ==
  /\ changed # {}
  /\ \E S \in (IF "error" \in setting THEN SUBSET changed ELSE {changed}) :
       LET payload == [c \in Command |-> IF c \in S THEN Row(c) ELSE 0]
       IN  IF ~client \/ S = {}
             THEN UNCHANGED buffer
             ELSE \/ /\ Len(buffer) < BufferSize
                     /\ buffer' = Append(buffer, payload)
                  \/ /\ Len(buffer) = BufferSize /\ "slow" \in setting
                     /\ UNCHANGED buffer
  /\ changed' = {}
  /\ UNCHANGED <<database, mark, client, browser, setting>>

----------------------------------------------------------------------------
(* Requests.                                                               *)

Request == [kind : {"list"}, filter : Filter] \cup [kind : {"detail", "redact"}, id : Command]

Asking(r) == flight \cup {[ask |-> r, answered |-> FALSE, answer |-> Nothing]}

\* The page is not waiting for an answer.
MayAsk == "overtake" \notin setting => flight = {}

\* handleCommands, handleCommand, handleRedact: each answers with rows as the
\* database has them; a redaction appends an event first.
Answer(m) ==
  LET r == m.ask
      after == IF r.kind = "redact" THEN Append(log, r.id) ELSE log
      rowsNow == [c \in Command |->
        LET v == VersionIn(after, c)
        IN  IF IF r.kind = "list" THEN Matches(v, r.filter) ELSE c = r.id
            THEN v ELSE 0]
  IN /\ m \in flight /\ ~m.answered
     /\ after # log => Quiet
     /\ log' = after
     /\ flight' = (flight \ {m}) \cup {[m EXCEPT !.answered = TRUE, !.answer = rowsNow]}
     /\ UNCHANGED <<broker, page, rows, filter, panel, asked, setting>>

(* The page.                                                               *)

User == asked < MaxAsked /\ asked' = asked + 1

Boot ==
  /\ page = "boot" /\ MayAsk
  /\ page' = "load"
  /\ flight' = Asking([kind |-> "list", filter |-> filter])
  /\ UNCHANGED <<database, broker, rows, filter, panel, asked, setting>>

SetFilter(f) ==
  /\ page \in {"live", "lost"} /\ f # filter /\ MayAsk
  /\ User
  /\ filter' = f
  /\ flight' = Asking([kind |-> "list", filter |-> f])
  /\ Cardinality(flight') <= MaxRequests
  /\ UNCHANGED <<database, broker, page, rows, panel, setting>>

\* Opening a row, or redacting the one the panel shows.
Open(c) ==
  /\ rows[c] > 0 /\ MayAsk
  /\ User
  /\ flight' = Asking([kind |-> "detail", id |-> c])
  /\ Cardinality(flight') <= MaxRequests
  /\ UNCHANGED <<database, broker, page, rows, filter, panel, setting>>

Redact ==
  /\ panel.id # NoCommand /\ MayAsk
  /\ User
  /\ Room
  /\ flight' = Asking([kind |-> "redact", id |-> panel.id])
  /\ Cardinality(flight') <= MaxRequests
  /\ UNCHANGED <<database, broker, page, rows, filter, panel, setting>>

Show(c, v) == [id |-> c, version |-> v]

Close ==
  /\ panel.id # NoCommand
  /\ panel' = Show(NoCommand, 0)
  /\ UNCHANGED <<database, broker, page, rows, filter, flight, asked, setting>>

\* loadCommands replaces the rows, whatever was asked since.
ReceiveList(m) ==
  /\ m \in Pending("list") /\ m.answered
  /\ rows' = m.answer
  /\ page' = IF page = "load" THEN "connect" ELSE page
  /\ flight' = flight \ {m}
  /\ UNCHANGED <<database, broker, filter, panel, asked, setting>>

ReceiveDetail(m) ==
  /\ m \in Pending("detail") /\ m.answered
  /\ panel' = Show(m.ask.id, m.answer[m.ask.id])
  /\ flight' = flight \ {m}
  /\ UNCHANGED <<database, broker, page, rows, filter, asked, setting>>

ReceiveRedact(m) ==
  /\ m \in Pending("redact") /\ m.answered
  /\ LET c == m.ask.id
     IN  /\ rows' = [rows EXCEPT ![c] = m.answer[c]]
         /\ panel' = Show(c, m.answer[c])
         /\ flight' = (flight \ {m}) \cup
              {[ask |-> [kind |-> "detail", id |-> c], answered |-> FALSE, answer |-> Nothing]}
  /\ UNCHANGED <<database, broker, page, filter, asked, setting>>

\* connectStream, and the browser reconnecting: the handler subscribes.
Subscribe ==
  /\ page \in {"connect", "lost"}
  /\ page' = "live" /\ client' = TRUE /\ buffer' = << >>
  /\ UNCHANGED <<database, mark, changed, rows, filter, panel, flight, asked, setting>>

Disconnect ==
  /\ page = "live" /\ "drop" \in setting
  /\ page' = "lost" /\ client' = FALSE /\ buffer' = << >>
  /\ UNCHANGED <<database, mark, changed, rows, filter, panel, flight, asked, setting>>

\* A "commands" event: rows already listed are replaced, others only added
\* without a filter; the panel asks again for its own.
HandleEvent ==
  /\ page = "live" /\ buffer # << >> /\ MayAsk
  /\ LET news == Head(buffer)
         touched(c) == news[c] > 0 /\ (rows[c] > 0 \/ filter = "all")
     IN  /\ rows' = [c \in Command |-> IF touched(c) THEN news[c] ELSE rows[c]]
         /\ flight' = IF \E c \in Command : c = panel.id /\ news[c] > 0
                        THEN Asking([kind |-> "detail", id |-> panel.id]) ELSE flight
  /\ buffer' = Tail(buffer)
  /\ UNCHANGED <<database, mark, changed, client, page, filter, panel, asked, setting>>

----------------------------------------------------------------------------
Init ==
  /\ log \in UNION {[1..n -> Command] : n \in 0..1}
  /\ mark = Len(log)
  /\ changed = {} /\ client = FALSE /\ buffer = << >>
  /\ page = "boot" /\ rows = Nothing /\ filter = "all"
  /\ panel = Show(NoCommand, 0)
  /\ flight = {} /\ asked = 0
  /\ setting \in Settings

Receive(m) == ReceiveList(m) \/ ReceiveDetail(m) \/ ReceiveRedact(m)

Next ==
  \/ \E c \in Command : Record(c) \/ Open(c)
  \/ Poll \/ Publish
  \/ \E m \in flight : Answer(m) \/ ReceiveList(m) \/ ReceiveDetail(m) \/ ReceiveRedact(m)
  \/ Boot \/ Redact \/ Close \/ Subscribe \/ Disconnect \/ HandleEvent
  \/ \E f \in Filter : SetFilter(f)

Spec == Init /\ [][Next]_vars

=============================================================================
