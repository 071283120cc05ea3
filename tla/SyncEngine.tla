----------------------------- MODULE SyncEngine -----------------------------
(***************************************************************************)
(* Devices that replicate their event logs through a shared bucket         *)
(* (internal/sync/engine.go over internal/store/store.go).                 *)
(*                                                                         *)
(* A device writes numbered batches and a manifest under its own prefix    *)
(* and reads every other prefix, remembering per peer one batch key, the   *)
(* cursor, below which it never looks again.  An Engine is one value of    *)
(* the Go type: the daemon's, the one `shcr sync now` builds in its own    *)
(* process, the one the dashboard builds for each request.  Engine.cycle   *)
(* makes one engine run one cycle at a time; nothing orders the cycles of  *)
(* two engines of one device, so DeviceOf says how many there are.         *)
(***************************************************************************)
EXTENDS Integers, FiniteSets

CONSTANTS
  Device,             \* the machines
  Engine,             \* every sync engine that may run a cycle
  DeviceOf,           \* the machine an engine works for
  Event,              \* event ids, as numbers in (created_at, event_id) order
  Recorders,          \* the machines that may record an id: one for a random
                      \* id, several for an id derived from a history line
  MaxEventsPerBatch,  \* maxEventsPerBatch
  Suffix,             \* the random tail of a batch key
  MaxTime,            \* bound on the clocks, in milliseconds
  FaultModels         \* the sets of faults a behaviour may be subject to

Fault == {"clock", "failure"}

ASSUME SyncConstants ==
  /\ DeviceOf \in [Engine -> Device]
  /\ Event \subseteq Nat
  /\ Recorders \in [Event -> SUBSET Device]
  /\ MaxEventsPerBatch \in Nat \ {0}
  /\ Suffix \subseteq Nat
  /\ MaxTime \in Nat
  /\ FaultModels \subseteq SUBSET Fault

VARIABLES
  store,     \* events table: the rows device d holds
  synced,    \* ids whose synced column is 1
  cursor,    \* sync_cursors: last batch key consumed, per device and peer
  bucket,    \* batch objects, of every prefix
  manifest,  \* manifest.json of every prefix: its latest_batch
  clock,     \* the last time read from a wall clock, in milliseconds
  faults,    \* the faults of this behaviour, a choice made once
  pc,        \* where an engine is in SyncOnce
  rows,      \* pushBatch: events being uploaded; applyBatch: rows to insert
  key,       \* the batch key in hand, of the upload or of the download
  todo,      \* PullOnce: peers not visited yet
  peer,      \* pullPeer: the peer being read
  pos,       \* pullPeer: cursor.LastBatchKey
  listed     \* pullPeer: keys of the listing not consumed yet

disk  == <<store, synced, cursor>>
cloud == <<bucket, manifest>>
env   == <<clock, faults>>
locals == <<rows, key, todo, peer, pos, listed>>
vars  == <<disk, cloud, env, pc, locals>>

-----------------------------------------------------------------------------
(* Batch keys: a millisecond timestamp, then a random suffix, compared as  *)
(* strings.  NoKey is the empty string, below every key.                   *)

Key   == [ts : Nat, sfx : Nat]
NoKey == [ts |-> 0, sfx |-> 0]

Before(a, b)     == a.ts < b.ts \/ (a.ts = b.ts /\ a.sfx < b.sfx)
AtOrBefore(a, b) == a = b \/ Before(a, b)

\* Wrong: the clock alone names the batch.
ClockBatchKey(now, previous, sfx) == [ts |-> now, sfx |-> sfx]

\* Wrong: the time since the previous batch names it.
ElapsedBatchKey(now, previous, sfx) == [ts |-> now - previous.ts, sfx |-> sfx]

newBatchKey(now, previous, sfx) ==
  [ts |-> IF now > previous.ts THEN now ELSE previous.ts + 1, sfx |-> sfx]

-----------------------------------------------------------------------------
(* The store and the bucket. *)

Row   == [id : Event, dev : Device]
Batch == [dev : Device, key : Key, rows : SUBSET Row]

Ids(R) == {r.id : r \in R}

\* INSERT OR IGNORE: the first row recorded under an id stays.
Inserted(R, r) == IF r.id \in Ids(R) THEN R ELSE R \cup {r}

\* Wrong: the queue is the whole table.
WholeTable(d) == store[d]

Unsynced(d) == {r \in store[d] : r.dev = d /\ r.id \notin synced[d]}

Oldest(R, n) == {r \in R : Cardinality({q \in R : q.id < r.id}) < n}

BatchesOf(p) == {b \in bucket : b.dev = p}

Put(b) == {c \in bucket : ~(c.dev = b.dev /\ c.key = b.key)} \cup {b}

\* The steps of pushBatch at which a key of its own is in hand.
Uploading == {"put", "publish", "mark"}

-----------------------------------------------------------------------------
Init ==
  /\ store = [d \in Device |-> {}]
  /\ synced = [d \in Device |-> {}]
  /\ cursor = [d \in Device |-> [p \in Device |-> NoKey]]
  /\ bucket = {}
  /\ manifest = [d \in Device |-> NoKey]
  /\ clock = [d \in Device |-> 1]
  /\ faults \in FaultModels
  /\ pc = [e \in Engine |-> "idle"]
  /\ rows = [e \in Engine |-> {}]
  /\ key = [e \in Engine |-> NoKey]
  /\ todo = [e \in Engine |-> {}]
  /\ peer = [e \in Engine |-> DeviceOf[e]]
  /\ pos = [e \in Engine |-> NoKey]
  /\ listed = [e \in Engine |-> {}]

\* AppendEvent: the device records an event of its own, still to be uploaded.
AppendEvent(d, id) ==
  /\ d \in Recorders[id]
  /\ id \notin Ids(store[d])
  /\ store' = [store EXCEPT ![d] = @ \cup {[id |-> id, dev |-> d]}]
  /\ UNCHANGED <<synced, cursor, cloud, env, pc, locals>>

-----------------------------------------------------------------------------
(* Push. *)

\* SyncOnce starts with a push, PushOnce repeats it: pushBatch reads the
\* queue, and an empty one ends PushOnce.
AtQueue(e) == pc[e] \in {"idle", "push"}

ReadQueue(e) ==
  LET d == DeviceOf[e] IN
  /\ AtQueue(e)
  /\ Unsynced(d) # {}
  /\ rows' = [rows EXCEPT ![e] = Oldest(Unsynced(d), MaxEventsPerBatch)]
  /\ pc' = [pc EXCEPT ![e] = "name"]
  /\ UNCHANGED <<disk, cloud, env, key, todo, peer, pos, listed>>

\* loadManifest of its own prefix, then newBatchKey from it and time.Now().
\* The clock shows any time from the last one seen on, or, when it may be
\* corrected backwards, any time at all.
NameBatch(e) ==
  LET d == DeviceOf[e] IN
  /\ pc[e] = "name"
  /\ \E now \in 1..MaxTime, s \in Suffix :
       /\ now >= clock[d] \/ "clock" \in faults
       /\ clock' = [clock EXCEPT ![d] = now]
       /\ key' = [key EXCEPT ![e] = newBatchKey(now, manifest[d], s)]
  /\ pc' = [pc EXCEPT ![e] = "put"]
  /\ UNCHANGED <<disk, cloud, faults, rows, todo, peer, pos, listed>>

PutBatch(e) ==
  /\ pc[e] = "put"
  /\ bucket' = Put([dev |-> DeviceOf[e], key |-> key[e], rows |-> rows[e]])
  /\ pc' = [pc EXCEPT ![e] = "publish"]
  /\ UNCHANGED <<disk, manifest, env, locals>>

PutManifest(e) ==
  /\ pc[e] = "publish"
  /\ manifest' = [manifest EXCEPT ![DeviceOf[e]] = key[e]]
  /\ pc' = [pc EXCEPT ![e] = "mark"]
  /\ UNCHANGED <<disk, bucket, env, locals>>

\* Wrong: marks what is queued now, not what was uploaded.
MarkQueueSynced(e) ==
  LET d == DeviceOf[e] IN
  /\ pc[e] = "mark"
  /\ synced' = [synced EXCEPT ![d] = @ \cup Ids(Unsynced(d))]
  /\ pc' = [pc EXCEPT ![e] = IF Cardinality(rows[e]) < MaxEventsPerBatch
                             THEN "peers" ELSE "push"]
  /\ rows' = [rows EXCEPT ![e] = {}]
  /\ key' = [key EXCEPT ![e] = NoKey]
  /\ UNCHANGED <<store, cursor, cloud, env, todo, peer, pos, listed>>

\* MarkSynced; a full batch means there may be more, a short one that the
\* queue is empty and PushOnce returns.
MarkSynced(e) ==
  LET d == DeviceOf[e] IN
  /\ pc[e] = "mark"
  /\ synced' = [synced EXCEPT ![d] = @ \cup Ids(rows[e])]
  /\ pc' = [pc EXCEPT ![e] = IF Cardinality(rows[e]) < MaxEventsPerBatch
                             THEN "peers" ELSE "push"]
  /\ rows' = [rows EXCEPT ![e] = {}]
  /\ key' = [key EXCEPT ![e] = NoKey]
  /\ UNCHANGED <<store, cursor, cloud, env, todo, peer, pos, listed>>

QueueEmpty(e) ==
  /\ AtQueue(e)
  /\ Unsynced(DeviceOf[e]) = {}
  /\ pc' = [pc EXCEPT ![e] = "peers"]
  /\ UNCHANGED <<disk, cloud, env, locals>>

-----------------------------------------------------------------------------
(* Pull. *)

\* Peers: every prefix something was ever written under, but its own.
ListPeers(e) ==
  /\ pc[e] = "peers"
  /\ todo' = [todo EXCEPT ![e] = {b.dev : b \in bucket} \ {DeviceOf[e]}]
  /\ pc' = [pc EXCEPT ![e] = "pull"]
  /\ UNCHANGED <<disk, cloud, env, rows, key, peer, pos, listed>>

\* Wrong: a peer one millisecond ahead counts as read.
SkipPeerNearby(e, p) ==
  /\ pc[e] = "pull"
  /\ p \in todo[e]
  /\ manifest[p].ts <= cursor[DeviceOf[e]][p].ts + 1
  /\ todo' = [todo EXCEPT ![e] = @ \ {p}]
  /\ UNCHANGED <<disk, cloud, env, pc, rows, key, peer, pos, listed>>

\* pullPeer up to the cheap check: nothing published beyond the cursor.
SkipPeer(e, p) ==
  /\ pc[e] = "pull"
  /\ p \in todo[e]
  /\ AtOrBefore(manifest[p], cursor[DeviceOf[e]][p])
  /\ todo' = [todo EXCEPT ![e] = @ \ {p}]
  /\ UNCHANGED <<disk, cloud, env, pc, rows, key, peer, pos, listed>>

OpenPeer(e, p) ==
  LET c == cursor[DeviceOf[e]][p] IN
  /\ pc[e] = "pull"
  /\ p \in todo[e]
  /\ ~AtOrBefore(manifest[p], c)
  /\ todo' = [todo EXCEPT ![e] = @ \ {p}]
  /\ peer' = [peer EXCEPT ![e] = p]
  /\ pos' = [pos EXCEPT ![e] = c]
  /\ pc' = [pc EXCEPT ![e] = "list"]
  /\ UNCHANGED <<disk, cloud, env, rows, key, listed>>

\* Storage.List(batchPrefix(peer), after the cursor).
ListBatches(e) ==
  /\ pc[e] = "list"
  /\ listed' = [listed EXCEPT ![e] =
                  {b.key : b \in {c \in BatchesOf(peer[e]) :
                                    Before(pos[e], c.key)}}]
  /\ pc' = [pc EXCEPT ![e] = "fetch"]
  /\ UNCHANGED <<disk, cloud, env, rows, key, todo, peer, pos>>

\* applyBatch, its Get: the first key of the listing not consumed yet.
FetchBatch(e) ==
  /\ pc[e] = "fetch"
  /\ \E b \in BatchesOf(peer[e]) :
       /\ b.key \in listed[e]
       /\ \A k \in listed[e] : AtOrBefore(b.key, k)
       /\ key' = [key EXCEPT ![e] = b.key]
       /\ rows' = [rows EXCEPT ![e] = b.rows]
  /\ pc' = [pc EXCEPT ![e] = "apply"]
  /\ UNCHANGED <<disk, cloud, env, todo, peer, pos, listed>>

\* InsertRemoteEvent, one transaction per event, in the batch's order.  Only
\* the last one moves the position past the batch.
ApplyEvent(e) ==
  LET d == DeviceOf[e] IN
  /\ pc[e] = "apply"
  /\ \E r \in rows[e] :
       /\ \A q \in rows[e] : r.id <= q.id
       /\ store' = [store EXCEPT ![d] = Inserted(@, r)]
       /\ synced' = [synced EXCEPT ![d] =
                       IF r.id \in Ids(store[d]) THEN @ ELSE @ \cup {r.id}]
       /\ rows' = [rows EXCEPT ![e] = @ \ {r}]
       /\ IF rows[e] = {r}
          THEN /\ pos' = [pos EXCEPT ![e] = key[e]]
               /\ listed' = [listed EXCEPT ![e] = @ \ {key[e]}]
               /\ key' = [key EXCEPT ![e] = NoKey]
               /\ pc' = [pc EXCEPT ![e] = "fetch"]
          ELSE UNCHANGED <<pos, listed, key, pc>>
  /\ UNCHANGED <<cursor, cloud, env, todo, peer>>

\* Wrong: the cursor jumps to what the manifest announced.
SaveManifestCursor(e) ==
  /\ pc[e] = "fetch"
  /\ listed[e] = {}
  /\ cursor' = [cursor EXCEPT ![DeviceOf[e]][peer[e]] = manifest[peer[e]]]
  /\ pos' = [pos EXCEPT ![e] = NoKey]
  /\ peer' = [peer EXCEPT ![e] = DeviceOf[e]]
  /\ pc' = [pc EXCEPT ![e] = "pull"]
  /\ UNCHANGED <<store, synced, cloud, env, rows, key, todo, listed>>

SaveCursor(e) ==
  /\ pc[e] = "fetch"
  /\ listed[e] = {}
  /\ cursor' = [cursor EXCEPT ![DeviceOf[e]][peer[e]] = pos[e]]
  /\ pos' = [pos EXCEPT ![e] = NoKey]
  /\ peer' = [peer EXCEPT ![e] = DeviceOf[e]]
  /\ pc' = [pc EXCEPT ![e] = "pull"]
  /\ UNCHANGED <<store, synced, cloud, env, rows, key, todo, listed>>

EndCycle(e) ==
  /\ pc[e] = "pull"
  /\ todo[e] = {}
  /\ pc' = [pc EXCEPT ![e] = "idle"]
  /\ UNCHANGED <<disk, cloud, env, locals>>

-----------------------------------------------------------------------------
(* Failures. *)

\* A batch cannot be read or a row cannot be inserted: pullPeer stops there,
\* keeps the position reached and still saves it.
StopAtBatch(e) ==
  /\ "failure" \in faults
  /\ pc[e] = "apply" \/ (pc[e] = "fetch" /\ listed[e] # {})
  /\ rows' = [rows EXCEPT ![e] = {}]
  /\ key' = [key EXCEPT ![e] = NoKey]
  /\ listed' = [listed EXCEPT ![e] = {}]
  /\ pc' = [pc EXCEPT ![e] = "fetch"]
  /\ UNCHANGED <<disk, cloud, env, todo, peer, pos>>

\* The listing or the write of the cursor fails: this peer is given up with
\* its cursor as it was, the next one is still visited.
GiveUpPeer(e) ==
  /\ "failure" \in faults
  /\ pc[e] = "list" \/ (pc[e] = "fetch" /\ listed[e] = {})
  /\ pos' = [pos EXCEPT ![e] = NoKey]
  /\ peer' = [peer EXCEPT ![e] = DeviceOf[e]]
  /\ pc' = [pc EXCEPT ![e] = "pull"]
  /\ UNCHANGED <<disk, cloud, env, rows, key, todo, listed>>

\* The cycle ends wherever it is: the process dies, or a push step returns an
\* error.  An upload reported as failed may have happened: that is PutBatch
\* or PutManifest, then Abort.  The next cycle starts later: loop.go waits the
\* floor out, and a new process takes longer than a key runs ahead of the
\* clock.
Abort(e) ==
  LET d == DeviceOf[e]
      later == 1 + IF pc[e] \in Uploading /\ key[e].ts > clock[d]
                   THEN key[e].ts ELSE clock[d]
  IN
  /\ "failure" \in faults
  /\ pc[e] # "idle"
  /\ later <= MaxTime
  /\ clock' = [clock EXCEPT ![d] = later]
  /\ pc' = [pc EXCEPT ![e] = "idle"]
  /\ rows' = [rows EXCEPT ![e] = {}]
  /\ key' = [key EXCEPT ![e] = NoKey]
  /\ todo' = [todo EXCEPT ![e] = {}]
  /\ peer' = [peer EXCEPT ![e] = d]
  /\ pos' = [pos EXCEPT ![e] = NoKey]
  /\ listed' = [listed EXCEPT ![e] = {}]
  /\ UNCHANGED <<disk, cloud, faults>>

-----------------------------------------------------------------------------
Push(e) ==
  \/ ReadQueue(e)
  \/ QueueEmpty(e)
  \/ NameBatch(e)
  \/ PutBatch(e)
  \/ PutManifest(e)
  \/ MarkSynced(e)

Pull(e) ==
  \/ ListPeers(e)
  \/ \E p \in Device : SkipPeer(e, p) \/ OpenPeer(e, p)
  \/ ListBatches(e)
  \/ FetchBatch(e)
  \/ ApplyEvent(e)
  \/ SaveCursor(e)
  \/ EndCycle(e)

Failure(e) == StopAtBatch(e) \/ GiveUpPeer(e) \/ Abort(e)

Next ==
  \/ \E d \in Device, id \in Event : AppendEvent(d, id)
  \/ \E e \in Engine : Push(e) \/ Pull(e) \/ Failure(e)

Spec == Init /\ [][Next]_vars

=============================================================================
