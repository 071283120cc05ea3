------------------------- MODULE DashboardProperties ------------------------
(***************************************************************************)
(* What the dashboard promises, stated over Dashboard.                     *)
(***************************************************************************)
EXTENDS Dashboard

\* Every variable holds values of its kind.
TypeOK ==
  /\ log \in Seq(Command) /\ Len(log) <= MaxEvents
  /\ mark \in 0..Len(log)
  /\ changed \subseteq Command
  /\ client \in BOOLEAN
  /\ buffer \in Seq(Payload) /\ Len(buffer) <= BufferSize
  /\ page \in {"boot", "load", "connect", "live", "lost"}
  /\ rows \in Payload
  /\ filter \in Filter
  /\ panel \in [id : Command \cup {NoCommand}, version : Version]
  /\ flight \subseteq [ask : Request, answered : BOOLEAN, answer : Payload]
  /\ asked \in 0..MaxAsked
  /\ setting \in Settings

\* The state of a command is on its way: the broker has not read its last
\* event, is collecting its row, or has sent the row with that event in it and
\* nothing older after.
LastIn(c) ==
  {i \in DOMAIN buffer : buffer[i][c] > 0 /\ \A j \in DOMAIN buffer : j > i => buffer[j][c] = 0}

Coming(c) ==
  \/ \E i \in DOMAIN log : i > mark /\ log[i] = c
  \/ c \in changed
  \/ \E i \in LastIn(c) : buffer[i][c] = Row(c)

\* A page that is live and listens to everything shows every row as it is in
\* the database, or the row is on its way, in the stream or in an answer: the
\* mark moves past an event only with the row in hand, whatever is recorded in
\* between.  Not so for what is recorded before the subscription or while the
\* connection is down, for what a full buffer drops, for a row that could not
\* be read, and for an answer that another one overtakes.
NothingMissed ==
  setting = {} /\ page = "live" =>
    \A c \in Command : rows[c] = Row(c)
      \/ (rows[c] = 0 /\ filter # "all")
      \/ Coming(c)
      \/ \E m \in flight : m.ask.kind # "detail" /\ (m.answered => m.answer[c] = Row(c))

\* The panel keeps up with the row it shows: an event for it makes it ask
\* again.
PanelFollows ==
  setting = {} /\ page = "live" =>
    \A c \in Command : panel.id = c /\ panel.version # Row(c)
      => Coming(c) \/ flight # {}

\* A row that does not match the filter does not appear just because it
\* changed: what is listed matched at some time, once the list asked for has
\* arrived (app.js, connectStream).  Also with full buffers, dropped
\* connections and rows recorded at any time, but not when answers overtake
\* each other.
FilterRespected ==
  "overtake" \notin setting /\ Pending("list") = {} /\ filter = "ended" =>
    \A c \in Command : rows[c] > 0 => Row(c) > 1

\* What a later event brings heals what was missed: a payload never carries a
\* row older than the events the broker has read for it.
PayloadsAreCurrent ==
  \A c \in Command : \A i \in LastIn(c) :
    c \notin changed /\ setting \cap {"slow", "error"} = {} =>
      buffer[i][c] >= VersionIn(SubSeq(log, 1, mark), c)

\* What the page shows is what the database holds, or that is on its way.
PageIsTrue == NothingMissed /\ PanelFollows /\ FilterRespected /\ PayloadsAreCurrent

\* In the end the page shows the database.
PageCatchesUp ==
  setting = {} =>
    \A c \in Command : Row(c) > 0 ~> (rows[c] = Row(c) \/ filter # "all")

Fairness ==
  /\ WF_vars(Poll) /\ WF_vars(Publish)
  /\ WF_vars(Boot) /\ WF_vars(Subscribe) /\ WF_vars(HandleEvent)
  /\ WF_vars(\E m \in flight : Answer(m))
  /\ WF_vars(\E m \in flight : Receive(m))

FairSpec == Spec /\ Fairness

=============================================================================
