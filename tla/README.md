# shcr in TLA+

shcr records every shell command of a machine in a local SQLite database and
replicates the records between machines through an object store.  This
directory models the parts of it in which processes, machines and failures
interleave, model-checks them with TLC and proves the main properties with
TLAPS for every number of machines, shells, commands and events.

Paths are relative to the repository; `engine.go` is `internal/sync/engine.go`,
`store.go` and `stats.go` are in `internal/store`, `daemon.go` in
`internal/daemon`, `ipc.go` in `internal/ipc`, `bash.sh`, `zsh.zsh` and
`fish.fish` in `internal/shell`, `main.go` in `cmd/shcr`, `loop.go` beside
`engine.go`, `tui.go` and `ranking.go` in `internal/tui`, `sse.go`, `api.go` and
`static/app.js` in `internal/web`, `histimport.go` and `histfile.go` in
`internal/histimport` and `internal/histfile`, `paths.go`, `config.go` and
`keystore.go` in `internal/paths`, `config` and `crypto`.

    shell hook --fork--> shcr event --socket--> daemon --> SQLite --> picker     Picker, Ranking
     ShellHook             |    Capture   ^                   |   \
                           +--spool file--+        EventStore |    +-> dashboard Dashboard
    history files --> shcr import ----------------------------+
     HistoryFile, HistoryImport                         sync engine <--> bucket
    device id, configuration, key   <--- all of them     SyncEngine, PeerStreams
     DataDir                                            sync loop  SyncLoop


## 1. Inventory

| Part | State | Operations | What is hard | What makes it correct |
|---|---|---|---|---|
| Shell hooks (`bash.sh`, `zsh.zsh`, `fish.fish`) | session id, counter, armed flag, open command, last history number | sourcing, preexec, precmd, arm, exit | bash never hands over the line: the hook infers it from history and a DEBUG trap that also fires for its own functions; shells inherit each other's environment | what runs is recorded, what is hidden is not, an exit code belongs to its command, ids are unique |
| Local transport (`ipc.go`, `shcr event`) | socket, spool file | dial, write, fall back to the spool, append | any number of senders at once, none of them waited for; a write succeeds although nobody reads it | an event is in the database, in the socket or in the spool |
| Daemon (`daemon.go`, `activation.go`) | spool, `.draining` file, connections | drain, sweep, serve, ingest, stop | killed between any two steps; drains a file others have open; judges listings that are out of date | nothing spooled is lost, dead shells are noticed |
| Event store (`store.go`, `schema.go`) | events, commands, full-text index, cursors, synced flags | append, insert from a peer, recompute, queue, mark | events of one command arrive in any order, from several machines, with clocks that disagree | the row is a function of the set of events |
| Ranking cache (`stats.go`) | command_stats, watermark | refresh, rebuild | several processes refresh it while events arrive | it is what a rebuild would give |
| Sync engine (`engine.go`, `storage.go`) | bucket, manifests, batch keys, cursors | push, pull | every call may fail or be cut off; two engines of one machine; clocks step back | no event skipped, none echoed, all arrive |
| Sync loop (`loop.go`) | queued and pending trigger, last attempt and success, back-off, timer | trigger, nudge, timer, cycle | debounce, floor, ceiling and back-off at once; settings change under it, the file is half-written, the daemon restarts | never too often, never silent for ever, no trigger forgotten |
| Dashboard (`sse.go`, `api.go`, `app.js`) | subscribers and their buffers, the broker's mark; the page's rows, filter and panel | poll, publish, subscribe; load, filter, open, redact | slow browsers, rows recorded between query and subscription, answers beside payloads | the page shows what the database holds |
| Picker (`tui.go`, `candidates.go`, `acceptance.go`) | query, caret, list, selection, neighbours | keys, messages | answers arrive after the question has changed, in any order | list, pane and logged acceptance belong to the question on the screen |
| Ranking (`ranking.go`, `rank/*.go`) | - | match, score, cut, look up, score again | a cut before the second score, several orders in one | a better match comes first |
| Identity, configuration, keys (`paths.go`, `config.go`, `keystore.go`) | small files, the keychain | read or create, load and save | check-then-create by several processes; files that pass through empty; a locked keychain | one identity, one key, a configuration that loads |
| Importing history (`histimport.go`, `histfile.go`) | - | sniff, read, date, redact, derive ids | a file that grows below and shrinks above between imports; entries without a date; two machines derive one id | importing twice changes nothing, order is kept |
| Redaction (`redact.go`) | rules | rewrite, skip | applied at several entrances | no secret is stored |
| Encryption, GCS, export, service files, theme, git branch | - | library calls, I/O, layout | - | not modelled |

Parts meet in four places: the socket and spool between senders and daemon,
the database between the daemon and every other process of the machine, the
small files every process reads and some rewrite, and the bucket between
machines.  PROJECT.json lists every part with what is
modelled of it, and under "hazards" the lines where the code could go wrong in
a way a test would hardly reach.


## 2. Modules

| Module | Models | |
|---|---|---|
| `SyncEngine` | `engine.go` over `store.go` and `storage.go` | one action per step of `pushBatch`, `PullOnce`, `pullPeer`, `applyBatch` |
| `PeerStreams` | what replication promises | append-only streams and positions; no keys, manifests, clocks |
| `SyncProperties` | - | invariants, refinement mapping and liveness of `SyncEngine` |
| `Capture` | `ipc.go`, `daemon.go`, `event start/end` of `main.go` | one action per system call of a sender, per step of `DrainSpool`, `SweepOrphans`, `Run` |
| `CaptureProperties` | - | invariants and liveness of `Capture` |
| `EventStore` | `store.go` (`appendEvent`, `recompute`), `stats.go` | an insert is one transaction; a refresh is three steps |
| `StoreProperties` | - | invariants and action property of `EventStore` |
| `ShellHook` | `bash.sh`, `zsh.zsh`, `fish.fish` | one action per hook function; a shell's own list of history is an assumption about it |
| `HookProperties` | - | invariants of `ShellHook` |
| `SyncLoop` | `loop.go`, its start in `main.go`, nudges of `ipc.go` | one action per branch of `Run`'s select, per outcome of a cycle, per step of a Save |
| `DataDir` | `paths.go`, `config.go`, `keystore.go`, the commands of `main.go` and the settings patch of `api.go` that use them | one action per file or keychain call |
| `Dashboard` | `sse.go`, `api.go`, `app.js` | the broker's two steps, handlers, page events |
| `Ranking` | `rank/*.go`, `stats.go`, `ranking.go` | operators |
| `Picker` (extends `Ranking`) | `tui.go`, `candidates.go`, `acceptance.go` | one action per key and per message |
| `HistoryFile` | `histfile.go` | operators |
| `HistoryImport` (extends `HistoryFile`) | `histimport.go`, `import` of `main.go`, `redact.go` | a shell that writes and trims, an import |
| `LoopProperties`, `DataDirProperties`, `DashboardProperties`, `PickerProperties`, `ImportProperties` | - | invariants, action properties and liveness of these |
| `SyncProofs` (the engine and the loop), `CaptureProofs`, `StoreProofs`, `HookProofs`, `DataDirProofs`, `DashboardProofs`, `PickerProofs`, `ImportProofs` | - | theorems |
| `MC*` | - | instances for TLC |

How state and actions correspond to the code is said at each VARIABLE and each
action.  Operators whose comment starts with "Wrong:" are not used by any
specification: they are the plausible mistakes against which each property was
tried, and each breaks its property.

### SyncEngine
A batch key is a pair of a time and a suffix under `newBatchKey`'s order; a
batch is a set of rows; a manifest is the key it names.  `pushBatch` is
`ReadQueue`, `NameBatch`, `PutBatch`, `PutManifest`, `MarkSynced`; a pull is
`ListPeers`, then per peer `SkipPeer` or `OpenPeer`, `ListBatches`,
`FetchBatch`, `ApplyEvent`, `SaveCursor`.  `Abort` is a crash or an error
return at any step, `StopAtBatch` an unreadable batch, `GiveUpPeer` a peer whose
listing or cursor fails.  Reading manifest and cursor is one step: one engine
writes a machine's cursors, and a manifest read earlier is an older listing.  A
failing read of either is `SkipPeer`, or `OpenPeer` and `GiveUpPeer`.  The next
cycle starts later than the last one on the machine's clock (`Abort`): the loop
waits a floor of seconds, a new process takes longer than a key runs ahead.
Encryption is left out: it returns the plaintext or an error.

### Capture
Files are inodes named after the sender that made them, so that a name can be
moved while someone holds the file open.  Conditions say what may happen in a
behaviour: the service manager holds the socket, the daemon stops, a dial or
write times out, a file or database call fails.  A command younger than the
sweep's grace, or without a usable process id, is `PassOver`.  The order of
lines within a file and lines that are cut off or too long are left out.

### EventStore
An event is its place in `(created_at, event_id)` order, its command, machine
and type, and of the payload the text, the start time or the exit code: the
other columns of a row are copied from the last start as the text is.  A
machine receives any event any other holds, in any order, which includes every
order batches can produce.  A behaviour is about one of the sets of events in
`Worlds`.  The cache holds, for a text, the runs its statistics are computed
from (`statFor` is a function of those).  A refresh reads the watermark, fixes
the end of the log, then does its transaction; SQLite refuses a transaction
that read before another one wrote (`GiveUp`), so the transaction is one step.

### ShellHook
A line is a text, whether it has a leading space, and what its first simple
command is: nothing for an empty line, a comment, a syntax error or a subshell,
for which bash's trap fires later, before the hook's own `__shcr_precmd`.
`StartsWith` abstracts the comparison of `$BASH_COMMAND` with the history line.
Reading a line, the shell's history under HISTCONTROL and the end of a shell
are assumptions about the shells, made from what the hooks say of them;
`erasedups` and a bounded list are left out.  Completion and the Ctrl+R widget
return from the trap before anything and are left out.

### SyncLoop
Moments are kept as the time since them, counted up to `Horizon`, beyond which
every deadline has passed.  `Run` is `ReceiveTrigger`, `TimerFires`, then
`SkipCycle` or `StartCycle`, and `PushRecorded`, `CycleDone` or `CycleFails`, each ending
in `Select`, which sets the timer as `resetTimer` does.  An event is appended
and rung for in two steps, as `ingest` does.  `Enabled` reads the configuration
file, which a Save empties before it writes it.  `owed` is history: what was
recorded with a loop to tell and no attempt has found sync switched off since.
A cycle is atomic but for its push and its pull; its steps are `SyncEngine`'s.

### DataDir
Ids and keys are named after the process that made them.  A process does one
job: `work` (any command that needs the device id, and the daemon's uploads),
`enable`, `patch` (the dashboard's settings), `init` and `import` of a key.  A
write is two steps, since `os.WriteFile` truncates first, and a process may die
between any two.  `SetKey` is the keychain, `OpenKey` and `WriteKey` the file it
falls back to, `RemoveKey` the older file that goes when the keychain took the key.
`Upload` is a cycle of the loop, of `sync now` or of the dashboard: it needs a
backend, which `sync enable` sets and switching sync off leaves.

### Dashboard
A row is a function of its command's events, so their number stands for it:
0 no row, 1 running, 2 or more ended or redacted.  `Poll` reads the events past
the mark, `Publish` their rows, and sends them to whoever has room.  A page
boots, loads, subscribes, and merges answers and payloads as `app.js` does, by
identity and filter and not by age.  Conditions name what breaks its picture:
`gap`, `slow`, `drop`, `overtake`, `error`.

### Ranking and Picker
A command is a sequence of characters over a small alphabet, so that word
starts, case and the three tiers of a match are computed and not assumed.
Scores are whole hundredths; the decay is over few half-lives.  The cache is
represented by the runs it was computed from, and may be behind the table.  A
started `tea.Cmd` is a member of `flight` that reads the database at any time
(`Answer`) and is then handled as a message (`Receive...`), in any order.  The
two reads of a query are one step.  `Move` covers the four keys that move the
selection.  A result carries the question it answers, and `shown` is that of the
list on the screen: history, for `AcceptanceIsRanked`.  An acceptance is logged, or
not, when the insert fails or logging is switched off (under `error`).  The
alphabet names its lower-case letters, as digits and symbols have no case.

### HistoryFile and HistoryImport
A file is a sequence of lines, a line what its reader can tell apart; sniffing,
the three readers, lines that continue and `approximateUndated` are translated
in full, with times in milliseconds of which a second has few.  The shell
writes whole entries at the end, or dies within one (`torn`), trims at the top,
and may be told to write dates on the way; bash also to stop, so that it leaves
undated entries between dated ones.  `Import` records a prefix of the
entries when the database fails.


## 3. Runs

| Run | Question | Result |
|---|---|---|
| `sync_safety` | two machines push and pull under failures everywhere, or under a clock that steps back | holds |
| `sync_streams` | does the engine implement `PeerStreams`, does every event arrive | holds |
| `sync_two_engines` | is that so with a second engine on one machine | **no** |
| `sync_loop` | how long does the loop sleep, is a trigger ever forgotten, is everything uploaded in the end | holds |
| `capture` | is anything spooled or delivered lost, whenever daemons stop; is it stored in the end, are dead shells noticed | holds |
| `capture_truncate` | is nothing lost to a truncate race | **no** |
| `store_safety` | do rows converge, redactions and results stand, does the cache follow | holds |
| `hook_safety` | is what runs recorded and nothing else, do exit codes belong | holds |
| `data_dir` | one identity, one key, a configuration that heals, whoever dies or overlaps | holds |
| `dashboard` | does the page show what the database holds, and in the end | holds |
| `picker` | do list, pane and acceptance belong to the question, do better matches come first | holds |
| `history_import` | is what was imported found again, is order kept | holds |

**Bounds.**
- `sync_*`: two machines, up to three events of which one is recorded by both,
  batches of one or two events, clocks up to 2, one suffix.  Two batches under
  one prefix, an aborted upload followed by another, and a reader between them
  all occur; a third machine reads a prefix as the second does.  `MaxTime` bounds
  the clocks and through them the number of `Abort`s.
- `capture`: two commands, one skipped: up to three senders at once, which is
  one in each file and one on the socket.  Conditions only add behaviours, but
  for socket activation, so each is combined with all others that matter to a
  property; failing disks are alone.  `capture_truncate` needs one sender.
- `store_safety`: two machines, two commands of one text, three worlds of three or
  four events (with a redaction from a clock that is behind, and an orphan
  beside an end), two refreshers on one machine, so that one can overtake the
  other and the watermark can go back.
- `hook_safety`: a bash with three lines and a second shell with one, six kinds
  of line: three lines are needed for a command, its repeat or its hidden
  namesake, and what comes after.
- `sync_loop`: one event (any further trigger is a nudge), a floor of 2, a
  ceiling of 5 with a jitter of 2, a back-off up to 3, in the order of the real
  ones; times up to 8, past every deadline; one restart.
- `data_dir`: four processes, interchangeable: two that race and two that come
  after, or a key, the switch, a daemon and a second key in a row.
- `dashboard`: two commands, three events, a buffer of two and a poll of two, so
  that both overflow; two requests in flight and two asked by the user.
- `picker`: four commands over two letters, of which it opens with two, reads
  three and looks up two per query, so that every limit bites; queries of two
  characters, two keys before Enter, one change of the history.  Each condition
  is there alone: none takes a behaviour away, so the properties that exclude one
  are checked under the others.
- `history_import`: three texts, one of them secret and of two lines, one skipped;
  three entries in two seconds of four milliseconds, so that undated entries
  have gaps that are wide, narrow or none; sniffing sees two lines.  Without
  conditions there is a fourth entry: an undated one between two dated ones, and
  a write or a trim around them.

**Deadlock** is not checked in `sync_safety`, `sync_streams`, `capture`,
`hook_safety`, `data_dir`, `picker` and `history_import`: when all events are
recorded and read, all shells have read their lines, all processes have done
their job, the picker has quit or the clock is at its bound, nothing is left to
do.  In `store_safety`, `sync_loop` and `dashboard` it is: a refresher, the loop
and the broker always have a step.

**Fairness.**  `sync_streams` assumes that every push and pull step is taken
in the end, which the loop justifies by starting cycles for ever
(`RecordedIsUploaded` in `sync_loop`), and that failures do not go on for ever.
`sync_loop` assumes that the loop and the daemon's connections run, that time
passes, and that a Save ends; what it says of uploads it says for behaviours in
which sync stays on and cycles succeed from some time on.  `capture`
assumes that the daemon is down again and again and that it serves again and
again (machines are switched off and on), and that a running command does not
stay younger than the grace for ever.  `dashboard` assumes that the broker polls
and publishes, that the browser handles what it receives, and that requests
are answered.

### What the violations say
- **`sync_two_engines`**: `cycle` serialises the cycles of one `Engine`; the
  daemon, `shcr sync now` and the dashboard each build their own.  Two of them
  read one manifest, and the batch with the lower key may go up after a reader
  has moved past it.  It is never listed again.
- **`capture_truncate`**: a sender that opened the spool before `DrainSpool`
  renames it, and writes after the last read, loses its event with the file.

### Also seen, without a run
The properties exclude each of these by name, or are stated so that they hold
beside it.

*Sync.*  With failures *and* a clock that steps back, a batch uploaded without
its manifest may get a key above the next one's (`BatchKeysMonotonic` fails in
`MCSync` with the fault model {"clock", "failure"}).

*Capture.*  With failing disks or databases a spooled line that cannot be ingested
is removed with the file; a delivered event dies with the daemon that has not
read it.  The end of a skipped command is recorded, and makes a row, although
README.md:323-324 says that "nothing about it is stored".

*Store.*  An incremental refresh computes again the texts the changed commands
have *now*; for a redacted command that is the marker, and the statistics of its
former text stay in `command_stats` until a rebuild, although stats.go:39-41
says that a redaction "repairs itself on the next pass".

*Hooks.*  A nested shell keeps the session id and sets its counter to 0, so its
first command has the id of the first command of its parent, and `recompute`
makes one row of the two; two shells of one terminal multiplexer started from a
shell with the hook do the same.  As the first line of a new bash, Enter alone
or a hidden command records the last line of the history file, as run here and
now.  Repeats of aliased commands, and of lines that run in a subshell, are
skipped in bash, as README.md says of aliases.

*Identity, configuration, keys.*  The first two commands of an install, at once,
have an id each, of which one is kept.  A read of the id file that fails
although it is there replaces the identity.  While the keychain is locked, `key
init` makes a second key.  Saves that overlap lose a change, and a daemon that
starts on a half-written configuration runs without a sync loop.  An engine
keeps the setting about host names it started with.

*Dashboard.*  What is recorded between the first answer and the subscription,
while the connection is down, beyond a full buffer, or while a row cannot be
read, is shown when its row next changes; an answer that another one overtakes
puts older rows back.

*Picker.*  When the selection moves away and back while neighbours load, the
pane stays empty until it moves again (tui.go:449): `PaneIsFilled` leaves such keys
out, and what holds beside it is that the row's own session is the one remembered
or still read (`PaneIsRemembered`) and no other's is shown (`PaneBelongs`).  Enter
before the list of a query arrives logs the new query with a rank in the list of
the one before; `AcceptanceIsRanked` says that the rank is that list's.  A command
that was interrupted last, and of which no run failed, does not come up under
the filter for failed ones although its row says failed: the counts `statusPossible` asks leave interruptions out, where its comment says
that it "admits more than it should".

*History files.*  `sniff` looks at 40 lines, so a zsh told to write dates later
than that is taken for bash, with "its timestamp prefix glued to the front"
(histfile.go:82-84); a zsh told to stop, whose headers are then trimmed, is not
modelled.  An entry that was not written whole takes what follows
with it.  The dry run counts two identical entries of one second twice.  Fish
entries without a date keep time 0.  Undated entries at the end of a file are
dated back from its modification time, so they move when the file is touched
and are imported again; so is everything a new redaction rule matches.


## 4. Proofs

Everything below holds for every value of the constants; the named assumptions
on constants (`SyncConstants`, `CaptureConstants`, `StoreConstants`,
`HookConstants`, `LoopConstants`, `DataDirConstants`, `DashboardConstants`, `RankingConstants`,
`PickerConstants`, `ImportConstants`) are evaluated by TLC in every run.

| Theorem | Says | Assumes |
|---|---|---|
| `SyncProofs!TypeCorrect` | `TypeOK` | |
| `SyncProofs!NoEcho` | `OwnEventsOnly` | |
| `SyncProofs!NoEventSkipped` | `NoBatchSkipped` | `OneEngine`, `GentleFaults` |
| `SyncProofs!ManifestsAreReadable` | `ManifestNamesBatch` | same |
| `SyncProofs!KeysGrow` | `BatchKeysMonotonic` | same |
| `SyncProofs!QueueKeepsUnpublished` | `SyncedIsPublished` | same |
| `SyncProofs!StreamsImplemented` | `ImplementsPeerStreams`: the engine refines `PeerStreams` | same |
| `CaptureProofs!TypeCorrect`, `SpoolKeepsEvents`, `ServingMeansDrained`, `SocketKeepsEvents` | `TypeOK`, `SpooledIsSafe`, `ServingHasDrained`, `DeliveredIsSafe` | |
| `StoreProofs!TypeCorrect`, `ArrivalOrderDoesNotMatter`, `RedactionIsForGood` | `TypeOK`, `RowsConverge`, `RedactionSticks` | |
| `StoreProofs!ResultsStand` | `ResultIsFinal` | `OneEnd` |
| `StoreProofs!RefreshStepsOverNothing` | `CacheFollowsLog` | `OneText` |
| `HookProofs!TypeCorrect`, `ExitCodesBelong` | `TypeOK`, `EndReportsItsCommand` | |
| `HookProofs!IdsAreUnique` | `CommandIdsUnique` | `NoNesting` |
| `HookProofs!VisibleRunsAreRecorded` | `RunsAreRecorded` | |
| `HookProofs!HiddenStaysHidden` | `OnlyRunsAreRecorded` | `NotQuiet` |
| `SyncProofs!LoopTypeCorrect`, `SleepIsBounded`, `TriggersServed` | `LoopTypeOK`, `WaitIsBounded`, `TriggersAreServed` | |
| `DataDirProofs!TypeCorrect`, `StaysWhole`, `IdentityIsKept` | `TypeOK`, `InstallIsWhole`, `IdentitySettles` | |
| `DashboardProofs!DashboardTyped`, `PageStaysTrue` | `TypeOK`, `PageIsTrue` | |
| `DashboardProofs!CatchingUpIsNeverStuck` | a page that is behind, nothing lost, has a step before it | |
| `PickerProofs!ListIsCurrent`, `PaneShowsSelected`, `AcceptancesAreRanked` | `ListAnswersQuery`, `PaneFollows`, `AcceptanceIsRanked` | `Sizes` |
| `PickerProofs!PickerTyped`, `BetterMatchesFirst` | `TypeOK`, `BestMatchFirst` | `Sizes` |
| `PickerProofs!MatchTokenIs` | how the scan matches a token, for every text and token, is what `TierOf` defines | |
| `ImportProofs!ReimportAddsNothing`, `UndatedInOrder`, `DatedFoundAgain` | `SecondAddsNothing`, `OrderIsKept`, `FoundAgain` | |
| `ImportProofs!UndatedFoundAgain` | `UndatedStay` | |
| `ImportProofs!ImportTyped` | `TypeOK` | `RedactedIsClean` |

`OneEngine`: no machine has two engines.  `GentleFaults`: no behaviour has both
failures and a clock that steps back.  `OneEnd`, `OneText`: a command has one
end, and its starts and imports one text, which is to say that its id was given
out once.  `NoNesting`: no shell inherits a session.  `NotQuiet`: no bash reads a
line its history does not take before its first entry.  `Sizes`: there are
finitely many commands, and a query looks up no more of them than the picker
reads (200 of 20000).  `RedactedIsClean`: what a text with a secret becomes has no
secret in it and is a text the import stores.  All but the last two are
necessary: the observations above are what happens without them.

**The arguments.**
- *SyncEngine.* That a reader skips nothing needs: every key in hand is above
  every key of its prefix and above the manifest (`KeysInv`, where one engine
  per machine and the fault models are used); the listing an engine works
  through still holds every key between its position and the manifest it
  followed, or a key is above them (`ReadInv`); rows in hand are the machine's
  own and recorded (`RowsInv`).  `PublishedInv` adds that rows are only marked
  when the batch in the bucket has them.
  For `PeerStreams`, a prefix's batches ranked by key are a sequence (`StreamIsSeq`,
  by the rank of a batch in a finite set), which a batch above all others
  extends at its end.  So `PutBatch` maps to `Publish`, `AppendEvent` to `Record`,
  `ApplyEvent` to `Receive` and `SaveCursor` to `Advance`, or to a stutter where
  nothing new came, and every other step to a stutter.  `StreamsInv` keeps what
  that needs: no upload is empty, rows being applied are those of a batch, and a
  position is at or past its cursor.
- *Capture.*  `SpoolInv`: a line in the file being replayed is stored, or the
  scan has not passed it, or the file stays; and a file is only removed by the
  daemon that scanned it to its end.
- *EventStore.*  `RowsInv`: a row is `recompute` of the log.  That `recompute`
  makes a row at all needs a latest and a first event to choose (`ChoiceInv`),
  kept insert by insert, as the induction over the set is not available.
  Convergence and redaction follow since `recompute` looks at the set of
  events only, once a start is there.  For the cache, `CacheFollowsLog` is not
  inductive: a slow refresher may set the watermark back, below what another
  one has read.  `CacheInv` says of every such position that it stepped over
  nothing; that a text leaves its rows only when redacted (`TextIsKept`) is where
  `OneText` is used.
- *ShellHook.*  `OpenInv`: the command that is open was started in this prompt
  cycle.  `CountInv`: ids carry the shell's own name and its counter is past
  them.  For what is recorded, `LineInv` ties the history to the line read last,
  `HistInv` says that the number the hook remembers is that of the last entry
  whenever it is compared, and `RunsInv` that every visible line whose commands
  run has its start.
- *SyncLoop.*  What `delay` returns fits the floor, the wait of a trigger and the
  ceiling at once (`TimerFits`, `DelayBounds`), for intervals in any order; only
  `Select` sets the timer, and time brings both sides of each bound nearer
  together.  `OwedInv` adds to the triggers that a loop that is not there owes
  nothing, and that what is recorded while a cycle pulls still has its trigger
  to come.
- *DataDir.*  `BaseInv` has what a process holds in its hands and that, without
  overlap, one process is between its reads and writes.  On it rest `IdInv` (the
  one past the test that found no id is the first), `ConfigHeals`, `HeldInv`
  (sync is only set up with a key, and a writer that could die found none to
  write over) and `SealInv` (the key that loads is the one there is, and what is
  uploaded is sealed with it).
- *Dashboard.*  `PageIsTrue` is not inductive: it says what a live page shows, and
  that rests on what every other part holds.  Its strengthening follows a version
  of a command to each place it can be (`RowsFresh`, `ListFresh`, `RedactFresh`,
  `DetailFresh`, `BufferFresh`, `PanelFresh`): there it is the row's, or `Coming`
  says that the stream makes up for it.  Versions are counts of a growing log, so
  an event moves one of them by one (`VersionAppend`) and what the broker has read
  of a command is never more than there is (`PrefixBelow`).  A payload sent later
  supersedes those before it (`BufferAppend`, `BufferTail`); a tick that reads no
  event of a command leaves what was read of it (`PrefixQuiet`).  Before the page
  listens, its list is right as it is (`LoadIsCurrent`), as without `gap` nothing
  is recorded then.  `OneRequest` is where `overtake` matters: without it an answer
  is the only one there is, and a list is for the filter on the screen.  `Ended`
  uses that a version that has ended stays so.  `CatchingUpIsNeverStuck` is what of
  `PageCatchesUp` the prover reaches: fairness has always a step to work on, as
  the list a page loads is in flight until it has it (`ListAsked`), and a broker
  that cannot send because the buffer is full has a page that can read it.
- *Picker.*  Questions are numbered, and the newest is in flight once
  (`FlightInv`); so what is on its way for it is its answer, and the list is once
  nothing is (`ListInv`); the pane shows what its neighbours were loaded for, and
  the selected row is the one they were loaded for or are being loaded for
  (`PaneInv`); the list is the answer to the question it is shown for, whose text
  is the one on the screen unless keys ran ahead (`ShownInv`, `Agreement`), which
  is what an acceptance needs, with whatever else is in flight (`AcceptStep`).  The
  ranking is opaque to these.  That the rest of the history
  leaves the list alone when there is no more of it than the first frame had
  (`NoMoreStats`) is where `Sizes` is used.
- *Ranking.*  `BestMatchFirst` is about what `RankedResults` returns.  Scores are
  integers, since the sums they are made of are (`SumTyped`: a counterexample on
  the fewest elements would be one on fewer).  Taking each character of a token
  where it is met first finds them all if they are there at all (`GreedyFinds`), so
  that the tier of a match is the one `TierOf` defines.  `Less` is a strict total
  order on entries, as no two commands ran at the same moment; the number of
  entries ahead therefore gives every entry a place of its own, and by
  counting every place an entry (`PlaceTaken`).  A command not looked up has as many
  ahead of it as are (`ShortlistIs`), and the second score orders what was.
  `KindInv` says that the history, the statistics and everything in flight are of
  their kind, so that this applies to what is read at any moment; with it the
  caret, the cursor and the window stay in bounds (`TypeOK`).
- *HistoryImport.*  `ReadInv`: what a whole import read is in the store.  The rest
  is about what the parsers return.  The library's induction theorems cannot be
  instantiated, so that a recursive function on positions exists, and that a
  scan keeps what it should, is shown from the least position at which it would
  not (`LeastNat`).  `Laid` says how a file is put together, whole entries of the
  shell's forms one after the other, and `Placed` that the parser finds exactly
  those; a step leaves the entries whole and takes them only from the top
  (`Keeps`).  `DatedFoundAgain` follows since an entry with a date is stored as
  what its lines say (`KnownAs`), and `UndatedFoundAgain` since a date made up
  depends only on the dated neighbours and the distance to them (`TimeShifted`).
  For `UndatedInOrder`, the shares of a gap grow and stay inside it (`Shares`), in
  nanoseconds and rounded.

Three of the proved invariants are in no run of their own: `ManifestNamesBatch` is
part of the argument for keys, `ServingHasDrained` of that for the spool, and
`CommandIdsUnique` needs an assumption `hook_safety` does not make.

Every safety property a passing run checks is a theorem, some under an assumption of
the table.  Only model-checked is liveness (`EventsReachEveryDevice`,
`SpooledIsStored`, `DeadShellIsNoticed`, `RecordedIsUploaded`, `PageCatchesUp`),
which the prover does not reach.  No theorem says which runs a burst counts, where the backward pass puts a
token's characters or how high a score is: TLC computes these on its histories.


## 5. Not modelled

- The daemon's start on a stale socket: two that start at once may both remove
  it.  `Capture` has one daemon at a time.
- Encryption and GCS: libraries behind interfaces that are modelled.
- What has no state or only layout: `view.go`, the theme, export, service files,
  the git branch, the dashboard's statistics, devices and hosts, commands that
  print.
- The patterns of redaction, zsh's metafied bytes and fish's escapes: functions
  of a text's characters, which the models do not have.
- The order of lines within the spool, lines cut off or too long, payloads that
  do not parse, migrations of the schema.

What could follow: the daemon's start-up with two daemons.
