----------------------------- MODULE SyncProofs -----------------------------
(***************************************************************************)
(* Proofs about internal/sync: SyncEngine, for any number of devices,      *)
(* engines, events and milliseconds, and, in the last part, the SyncLoop   *)
(* that runs it, for any intervals in any order of size and any number of  *)
(* events and restarts.                                                    *)
(*                                                                         *)
(* The loss theorems need two hypotheses, and the runs that drop either    *)
(* one find a counterexample: one engine per device, and no behaviour in   *)
(* which clocks step backwards and uploads fail as well.                   *)
(***************************************************************************)
EXTENDS SyncProperties, LoopProperties, FiniteSetTheorems, SequenceTheorems, TLAPS

\* One engine per device: cycles of one device never overlap.
OneEngine == \A e, f \in Engine : DeviceOf[e] = DeviceOf[f] => e = f

\* No behaviour has both a clock that steps back and uploads that fail.
GentleFaults == \A f \in FaultModels : ~("clock" \in f /\ "failure" \in f)

-----------------------------------------------------------------------------
(* The order of keys. *)

LEMMA KeyFields ==
  ASSUME NEW k \in Key
  PROVE  k.ts \in Nat /\ k.sfx \in Nat
  BY DEF Key

\* Batch keys are totally ordered.
LEMMA KeyOrder ==
  ASSUME NEW a \in Key, NEW b \in Key
  PROVE  /\ AtOrBefore(a, b) \/ Before(b, a)
         /\ ~(AtOrBefore(a, b) /\ Before(b, a))
         /\ AtOrBefore(a, b) /\ AtOrBefore(b, a) => a = b
         /\ a.ts < b.ts => Before(a, b)
         /\ AtOrBefore(a, b) => a.ts <= b.ts
<1>1. a.ts \in Nat /\ a.sfx \in Nat /\ b.ts \in Nat /\ b.sfx \in Nat
  BY KeyFields
<1>2. a.ts = b.ts /\ a.sfx = b.sfx => a = b
  BY DEF Key
<1> QED
  BY <1>1, <1>2 DEF Before, AtOrBefore

LEMMA KeyTransitive ==
  ASSUME NEW a \in Key, NEW b \in Key, NEW c \in Key,
         AtOrBefore(a, b), AtOrBefore(b, c)
  PROVE  AtOrBefore(a, c) /\ (Before(a, b) \/ Before(b, c) => Before(a, c))
<1>1. \A k \in {a, b, c} : k.ts \in Nat /\ k.sfx \in Nat
  BY KeyFields
<1> QED
  BY <1>1 DEF Before, AtOrBefore

LEMMA NoKeyIsKey == NoKey \in Key /\ NoKey.ts = 0
  BY DEF NoKey, Key

-----------------------------------------------------------------------------
(* Type correctness. *)

LEMMA InitType == Init => TypeOK
<1> SUFFICES ASSUME Init PROVE TypeOK
  OBVIOUS
<1> USE SyncConstants
<1>1. \A e \in Engine : DeviceOf[e] \in Device
  OBVIOUS
<1> QED
  BY <1>1, NoKeyIsKey DEF Init, TypeOK

LEMMA NextType == TypeOK /\ [Next]_vars => TypeOK'
<1> SUFFICES ASSUME TypeOK, [Next]_vars PROVE TypeOK'
  OBVIOUS
<1> USE SyncConstants, NoKeyIsKey DEF TypeOK
<1>0. \A e \in Engine : DeviceOf[e] \in Device
  OBVIOUS
<1>1. ASSUME NEW d \in Device, NEW id \in Event, AppendEvent(d, id) PROVE TypeOK'
  BY <1>1 DEF AppendEvent, cloud, env, locals, Row
<1>2. ASSUME NEW e \in Engine, Push(e) PROVE TypeOK'
  <2>1. CASE ReadQueue(e)
    BY <1>0, <2>1 DEF ReadQueue, Oldest, Unsynced, disk, cloud, env
  <2>2. CASE QueueEmpty(e)
    BY <2>2 DEF QueueEmpty, disk, cloud, env, locals
  <2>3. CASE NameBatch(e)
    BY <1>0, <2>3 DEF NameBatch, newBatchKey, Key, disk, cloud
  <2>4. CASE PutBatch(e)
    BY <1>0, <2>4 DEF PutBatch, Put, Batch, disk, env, locals
  <2>5. CASE PutManifest(e)
    BY <1>0, <2>5 DEF PutManifest, disk, env, locals
  <2>6. CASE MarkSynced(e)
    BY <1>0, <2>6 DEF MarkSynced, Ids, Row, cloud, env
  <2> QED
    BY <1>2, <2>1, <2>2, <2>3, <2>4, <2>5, <2>6 DEF Push
<1>3. ASSUME NEW e \in Engine, Pull(e) PROVE TypeOK'
  <2>1. CASE ListPeers(e)
    BY <2>1 DEF ListPeers, Batch, disk, cloud, env
  <2>2. ASSUME NEW p \in Device, SkipPeer(e, p) PROVE TypeOK'
    BY <2>2 DEF SkipPeer, disk, cloud, env
  <2>3. ASSUME NEW p \in Device, OpenPeer(e, p) PROVE TypeOK'
    BY <1>0, <2>3 DEF OpenPeer, disk, cloud, env
  <2>4. CASE ListBatches(e)
    BY <2>4 DEF ListBatches, BatchesOf, Batch, disk, cloud, env
  <2>5. CASE FetchBatch(e)
    BY <2>5 DEF FetchBatch, BatchesOf, Batch, disk, cloud, env
  <2>6. CASE ApplyEvent(e)
    <3>1. PICK r \in rows[e] :
            /\ store' = [store EXCEPT ![DeviceOf[e]] = Inserted(@, r)]
            /\ synced' = [synced EXCEPT ![DeviceOf[e]] =
                            IF r.id \in Ids(store[DeviceOf[e]]) THEN @ ELSE @ \cup {r.id}]
            /\ rows' = [rows EXCEPT ![e] = @ \ {r}]
            /\ \/ /\ pos' = [pos EXCEPT ![e] = key[e]]
                  /\ listed' = [listed EXCEPT ![e] = @ \ {key[e]}]
                  /\ key' = [key EXCEPT ![e] = NoKey]
                  /\ pc' = [pc EXCEPT ![e] = "fetch"]
               \/ UNCHANGED <<pos, listed, key, pc>>
      BY <2>6 DEF ApplyEvent
    <3>2. r \in Row /\ r.id \in Event
      BY DEF Row
    <3>3. store' \in [Device -> SUBSET Row] /\ synced' \in [Device -> SUBSET Event]
      BY <1>0, <3>1, <3>2 DEF Inserted
    <3>4. /\ rows' \in [Engine -> SUBSET Row] /\ pos' \in [Engine -> Key]
          /\ listed' \in [Engine -> SUBSET Key] /\ key' \in [Engine -> Key]
          /\ pc' \in [Engine -> {"idle", "push", "name", "put", "publish", "mark",
                                "peers", "pull", "list", "fetch", "apply"}]
      <4>1. rows' \in [Engine -> SUBSET Row]
        BY <3>1
      <4>2. CASE UNCHANGED <<pos, listed, key, pc>>
        BY <4>1, <4>2
      <4>3. CASE /\ pos' = [pos EXCEPT ![e] = key[e]]
                 /\ listed' = [listed EXCEPT ![e] = @ \ {key[e]}]
                 /\ key' = [key EXCEPT ![e] = NoKey]
                 /\ pc' = [pc EXCEPT ![e] = "fetch"]
        BY <4>1, <4>3
      <4> QED
        BY <3>1, <4>2, <4>3
    <3> QED
      BY <2>6, <3>3, <3>4 DEF ApplyEvent, cloud, env
  <2>7. CASE SaveCursor(e)
    BY <1>0, <2>7 DEF SaveCursor, cloud, env
  <2>8. CASE EndCycle(e)
    BY <2>8 DEF EndCycle, disk, cloud, env, locals
  <2> QED
    BY <1>3, <2>1, <2>2, <2>3, <2>4, <2>5, <2>6, <2>7, <2>8 DEF Pull
<1>4. ASSUME NEW e \in Engine, Failure(e) PROVE TypeOK'
  <2>1. CASE StopAtBatch(e)
    BY <2>1 DEF StopAtBatch, disk, cloud, env
  <2>2. CASE GiveUpPeer(e)
    BY <1>0, <2>2 DEF GiveUpPeer, disk, cloud, env
  <2>3. CASE Abort(e)
    BY <1>0, <2>3 DEF Abort, Key, disk, cloud
  <2> QED
    BY <1>4, <2>1, <2>2, <2>3 DEF Failure
<1>5. CASE UNCHANGED vars
  BY <1>5 DEF vars, disk, cloud, env, locals
<1> QED
  BY <1>1, <1>2, <1>3, <1>4, <1>5 DEF Next

\* Every variable of every engine and device keeps its kind.
THEOREM TypeCorrect == Spec => []TypeOK
  BY InitType, NextType, PTL DEF Spec

-----------------------------------------------------------------------------
(* Rows: who recorded what.  Nothing here needs a hypothesis. *)

InPush == {"name", "put", "publish", "mark"}

\* Rows were recorded by a device that may record them, there is one per id,
\* and only held ids count as synced.
RowsRecorded ==
  \A d \in Device :
    /\ \A r \in store[d] : r.dev \in Recorders[r.id]
    /\ \A r, q \in store[d] : r.id = q.id => r = q
    /\ synced[d] \subseteq Ids(store[d])

\* What an engine uploads is in its device's store and its device's own; what
\* it applies was recorded by the device its row names.
InHand ==
  \A e \in Engine :
    /\ pc[e] \in InPush =>
         \A r \in rows[e] : r.dev = DeviceOf[e] /\ r \in store[DeviceOf[e]]
    /\ pc[e] = "apply" => \A r \in rows[e] : r.dev \in Recorders[r.id]

RowsInv == RowsRecorded /\ OwnEventsOnly /\ InHand

\* A step that moves no row: stores and bucket stay, and an engine that has
\* rows in hand afterwards had them before.
RowsFrame ==
  /\ UNCHANGED <<store, synced, bucket>>
  /\ \A f \in Engine :
       /\ pc'[f] \in InPush => pc[f] \in InPush /\ rows'[f] = rows[f]
       /\ pc'[f] = "apply" => pc[f] = "apply" /\ rows'[f] = rows[f]

LEMMA DeviceOfType == \A e \in Engine : DeviceOf[e] \in Device
  BY SyncConstants

LEMMA RowsFrameStep == RowsInv /\ RowsFrame => RowsInv'
  BY DEF RowsInv, RowsFrame, RowsRecorded, OwnEventsOnly, InHand, Ids

LEMMA RowsStep == TypeOK /\ RowsInv /\ [Next]_vars => RowsInv'
<1> SUFFICES ASSUME TypeOK, RowsInv, [Next]_vars PROVE RowsInv'
  OBVIOUS
<1> USE DeviceOfType DEF InPush
<1>1. ASSUME NEW d \in Device, NEW id \in Event, AppendEvent(d, id) PROVE RowsInv'
  <2>1. RowsRecorded'
    BY <1>1 DEF AppendEvent, RowsInv, RowsRecorded, TypeOK, Ids
  <2>2. OwnEventsOnly' /\ InHand'
    BY <1>1 DEF AppendEvent, RowsInv, OwnEventsOnly, InHand, TypeOK, cloud, locals
  <2> QED
    BY <2>1, <2>2 DEF RowsInv
<1>2. ASSUME NEW e \in Engine, Push(e) PROVE RowsInv'
  <2>1. CASE ReadQueue(e)
    <3>1. RowsRecorded' /\ OwnEventsOnly'
      BY <2>1 DEF ReadQueue, RowsInv, RowsRecorded, OwnEventsOnly, Ids, disk, cloud
    <3>2. InHand'
      BY <2>1 DEF ReadQueue, Oldest, Unsynced, RowsInv, InHand, TypeOK, disk
    <3> QED
      BY <3>1, <3>2 DEF RowsInv
  <2>2. CASE QueueEmpty(e)
    <3>1. RowsFrame
      BY <2>2 DEF QueueEmpty, RowsFrame, TypeOK, disk, cloud, locals
    <3> QED
      BY <3>1, RowsFrameStep
  <2>3. CASE NameBatch(e)
    <3>1. RowsFrame
      BY <2>3 DEF NameBatch, RowsFrame, TypeOK, disk, cloud
    <3> QED
      BY <3>1, RowsFrameStep
  <2>4. CASE PutBatch(e)
    <3>1. RowsRecorded' /\ InHand'
      BY <2>4 DEF PutBatch, RowsInv, RowsRecorded, InHand, Ids, TypeOK, disk, locals
    <3>2. \A r \in rows[e] : r.dev = DeviceOf[e] /\ r.dev \in Recorders[r.id]
      BY <2>4 DEF PutBatch, RowsInv, RowsRecorded, InHand
    <3>3. OwnEventsOnly'
      BY <2>4, <3>2 DEF PutBatch, Put, RowsInv, OwnEventsOnly
    <3> QED
      BY <3>1, <3>3 DEF RowsInv
  <2>5. CASE PutManifest(e)
    <3>1. RowsFrame
      BY <2>5 DEF PutManifest, RowsFrame, TypeOK, disk, locals
    <3> QED
      BY <3>1, RowsFrameStep
  <2>6. CASE MarkSynced(e)
    <3>1. Ids(rows[e]) \subseteq Ids(store[DeviceOf[e]])
      BY <2>6 DEF MarkSynced, RowsInv, InHand, Ids
    <3>2. RowsRecorded'
      BY <2>6, <3>1 DEF MarkSynced, RowsInv, RowsRecorded, TypeOK
    <3>3. OwnEventsOnly' /\ InHand'
      BY <2>6 DEF MarkSynced, RowsInv, OwnEventsOnly, InHand, TypeOK, cloud
    <3> QED
      BY <3>2, <3>3 DEF RowsInv
  <2> QED
    BY <1>2, <2>1, <2>2, <2>3, <2>4, <2>5, <2>6 DEF Push
<1>3. ASSUME NEW e \in Engine, Pull(e) PROVE RowsInv'
  <2>1. CASE ListPeers(e) \/ ListBatches(e) \/ SaveCursor(e) \/ EndCycle(e)
    <3>1. RowsFrame
      BY <2>1 DEF ListPeers, ListBatches, SaveCursor, EndCycle, RowsFrame, TypeOK,
                  disk, cloud, locals
    <3> QED
      BY <3>1, RowsFrameStep
  <2>2. ASSUME NEW p \in Device, SkipPeer(e, p) \/ OpenPeer(e, p) PROVE RowsInv'
    <3>1. RowsFrame
      BY <2>2 DEF SkipPeer, OpenPeer, RowsFrame, TypeOK, disk, cloud
    <3> QED
      BY <3>1, RowsFrameStep
  <2>3. CASE FetchBatch(e)
    <3>1. RowsRecorded' /\ OwnEventsOnly'
      BY <2>3 DEF FetchBatch, RowsInv, RowsRecorded, OwnEventsOnly, Ids, disk, cloud
    <3>2. \A r \in rows'[e] : r.dev \in Recorders[r.id]
      BY <2>3 DEF FetchBatch, BatchesOf, RowsInv, OwnEventsOnly, TypeOK
    <3>3. InHand'
      BY <2>3, <3>2 DEF FetchBatch, RowsInv, InHand, TypeOK, disk
    <3> QED
      BY <3>1, <3>3 DEF RowsInv
  <2>4. CASE ApplyEvent(e)
    <3> DEFINE d == DeviceOf[e]
    <3>1. PICK r \in rows[e] :
            /\ store' = [store EXCEPT ![d] = Inserted(@, r)]
            /\ synced' = [synced EXCEPT ![d] =
                            IF r.id \in Ids(store[d]) THEN @ ELSE @ \cup {r.id}]
            /\ rows' = [rows EXCEPT ![e] = @ \ {r}]
      BY <2>4 DEF ApplyEvent
    <3>2. r.dev \in Recorders[r.id]
      BY <2>4 DEF ApplyEvent, RowsInv, InHand
    <3>3. RowsRecorded'
      <4>1. CASE r.id \in Ids(store[d])
        BY <3>1, <4>1 DEF Inserted, RowsInv, RowsRecorded, TypeOK
      <4>2. CASE r.id \notin Ids(store[d])
        <5>1. /\ store' = [store EXCEPT ![d] = @ \cup {r}]
              /\ synced' = [synced EXCEPT ![d] = @ \cup {r.id}]
          BY <3>1, <4>2 DEF Inserted
        <5> QED
          BY <3>2, <4>2, <5>1 DEF RowsInv, RowsRecorded, TypeOK, Ids
      <4> QED
        BY <4>1, <4>2
    <3>4. pc'[e] \in {"apply", "fetch"} /\ \A f \in Engine \ {e} : pc'[f] = pc[f]
      BY <2>4 DEF ApplyEvent, TypeOK
    <3>5. \A x \in Device : store[x] \subseteq store'[x]
      BY <3>1 DEF Inserted, TypeOK
    <3>6. InHand'
      BY <2>4, <3>1, <3>4, <3>5 DEF ApplyEvent, RowsInv, InHand, TypeOK
    <3> QED
      BY <2>4, <3>3, <3>6 DEF ApplyEvent, RowsInv, OwnEventsOnly, cloud
  <2> QED
    BY <1>3, <2>1, <2>2, <2>3, <2>4 DEF Pull
<1>4. ASSUME NEW e \in Engine, Failure(e) PROVE RowsInv'
  <2>1. RowsFrame
    BY <1>4 DEF Failure, StopAtBatch, GiveUpPeer, Abort, RowsFrame, TypeOK, disk, cloud
  <2> QED
    BY <2>1, RowsFrameStep
<1>5. CASE UNCHANGED vars
  BY <1>5, RowsFrameStep DEF RowsFrame, vars, disk, cloud, locals
<1> QED
  BY <1>1, <1>2, <1>3, <1>4, <1>5 DEF Next

LEMMA RowsAlways == Spec => []RowsInv
<1>1. Init => RowsInv
  BY DEF Init, RowsInv, RowsRecorded, OwnEventsOnly, InHand, InPush, Ids
<1> QED
  BY <1>1, RowsStep, TypeCorrect, PTL DEF Spec

\* No device ever publishes an event it did not record, whatever fails and
\* however many engines run.
THEOREM NoEcho == Spec => []OwnEventsOnly
<1>1. RowsInv => OwnEventsOnly
  BY DEF RowsInv
<1> QED
  BY <1>1, RowsAlways, PTL

-----------------------------------------------------------------------------
(* Keys: a prefix only grows at its end. *)

\* Keys are above NoKey, and a prefix holds one batch per key.
KeysDistinct ==
  /\ \A b \in bucket : b.key.ts >= 1
  /\ \A b, c \in bucket : b.dev = c.dev /\ b.key = c.key => b = c

\* The key in hand is above every batch of the prefix until it names one.
UploadKey ==
  \A e \in Engine :
    /\ pc[e] = "put" =>
         /\ key[e].ts >= 1
         /\ \A b \in BatchesOf(DeviceOf[e]) : b.key.ts < key[e].ts
    /\ pc[e] \in {"publish", "mark"} =>
         /\ [dev |-> DeviceOf[e], key |-> key[e], rows |-> rows[e]] \in bucket
         /\ \A b \in BatchesOf(DeviceOf[e]) :
              b.key.ts < key[e].ts \/ b.key = key[e]

\* A batch the manifest has not reached was either left behind by a failed
\* cycle, and then the clock is past it, or is being published right now.
KeysBehind ==
  \A b \in bucket :
    \/ b.key.ts <= manifest[b.dev].ts
    \/ "clock" \notin faults /\ b.key.ts < clock[b.dev]
    \/ \E e \in Engine : DeviceOf[e] = b.dev /\ pc[e] = "publish" /\ key[e] = b.key

KeysInv == KeysDistinct /\ UploadKey /\ KeysBehind /\ ManifestNamesBatch

\* A step that publishes nothing: the bucket, the manifests and the clocks
\* stay, and no engine enters or leaves an upload or changes what it uploads.
KeysFrame ==
  /\ UNCHANGED <<bucket, manifest, clock, faults>>
  /\ \A f \in Engine :
       /\ pc'[f] \in Uploading => pc'[f] = pc[f] /\ key'[f] = key[f] /\ rows'[f] = rows[f]
       /\ pc[f] = "publish" => pc'[f] = "publish"

LEMMA KeysFrameStep == KeysInv /\ KeysFrame => KeysInv'
<1> SUFFICES ASSUME KeysInv, KeysFrame PROVE KeysInv'
  OBVIOUS
<1> USE DEF KeysInv, KeysFrame, Uploading
<1>1. KeysDistinct' /\ ManifestNamesBatch'
  BY DEF KeysDistinct, ManifestNamesBatch, BatchesOf
<1>2. UploadKey'
  BY DEF UploadKey, BatchesOf
<1>3. KeysBehind'
  BY DEF KeysBehind
<1> QED
  BY <1>1, <1>2, <1>3

\* newBatchKey names a batch above everything under the prefix: the last
\* published key bounds what was published, the clock what was left behind.
LEMMA NewKeyIsLast ==
  ASSUME OneEngine, TypeOK, KeysInv, NEW e \in Engine, NameBatch(e)
  PROVE  /\ key'[e].ts >= 1
         /\ \A b \in BatchesOf(DeviceOf[e]) : b.key.ts < key'[e].ts
<1> DEFINE d == DeviceOf[e]
<1>1. d \in Device
  BY DeviceOfType
<1>2. PICK now \in 1..MaxTime, s \in Suffix :
        /\ now >= clock[d] \/ "clock" \in faults
        /\ key' = [key EXCEPT ![e] = newBatchKey(now, manifest[d], s)]
  BY DEF NameBatch
<1>3. /\ key'[e].ts = IF now > manifest[d].ts THEN now ELSE manifest[d].ts + 1
      /\ manifest[d].ts \in Nat /\ now \in Nat /\ now >= 1
      /\ clock[d] \in Nat
  BY <1>1, <1>2, SyncConstants DEF newBatchKey, TypeOK, Key
<1>4. ASSUME NEW b \in BatchesOf(d) PROVE b.key.ts < key'[e].ts
  <2>1. b \in bucket /\ b.dev = d /\ b.key.ts \in Nat
    BY DEF BatchesOf, TypeOK, Batch, Key
  <2>2. ~\E f \in Engine : DeviceOf[f] = b.dev /\ pc[f] = "publish" /\ key[f] = b.key
    BY <2>1 DEF OneEngine, NameBatch
  <2>3. b.key.ts <= manifest[d].ts \/ ("clock" \notin faults /\ b.key.ts < clock[d])
    BY <2>1, <2>2 DEF KeysInv, KeysBehind
  <2> QED
    BY <1>2, <1>3, <2>1, <2>3
<1> QED
  BY <1>3, <1>4

LEMMA KeysStep ==
  ASSUME OneEngine, GentleFaults, TypeOK, KeysInv, [Next]_vars
  PROVE  KeysInv'
<1> USE DeviceOfType
<1>1. ASSUME NEW d \in Device, NEW id \in Event, AppendEvent(d, id) PROVE KeysInv'
  <2>1. KeysFrame
    BY <1>1 DEF AppendEvent, KeysFrame, Uploading, cloud, env, locals
  <2> QED
    BY <2>1, KeysFrameStep
<1>2. ASSUME NEW e \in Engine, Push(e) PROVE KeysInv'
  <2>1. CASE ReadQueue(e) \/ QueueEmpty(e)
    <3>1. KeysFrame
      BY <2>1 DEF ReadQueue, QueueEmpty, AtQueue, KeysFrame, Uploading, TypeOK,
                  cloud, env, locals
    <3> QED
      BY <3>1, KeysFrameStep
  <2>2. CASE NameBatch(e)
    <3>1. KeysDistinct' /\ ManifestNamesBatch'
      BY <2>2 DEF NameBatch, KeysInv, KeysDistinct, ManifestNamesBatch, BatchesOf, cloud
    <3>2. UploadKey'
      <4>1. /\ pc' = [pc EXCEPT ![e] = "put"] /\ UNCHANGED <<bucket, rows>>
            /\ \A f \in Engine \ {e} : key'[f] = key[f]
        BY <2>2 DEF NameBatch, TypeOK, cloud
      <4> QED
        BY <2>2, <4>1, NewKeyIsLast DEF KeysInv, UploadKey, BatchesOf, TypeOK
    <3>3. KeysBehind'
      <4>1. /\ \A f \in Engine : pc[f] = "publish" => pc'[f] = "publish" /\ key'[f] = key[f]
            /\ UNCHANGED <<bucket, manifest, faults>>
        BY <2>2 DEF NameBatch, TypeOK, cloud
      <4>2. "clock" \notin faults => \A p \in Device : clock[p] <= clock'[p]
        BY <2>2, SyncConstants DEF NameBatch, TypeOK
      <4>3. \A b \in bucket : b.dev \in Device /\ b.key.ts \in Nat
        BY DEF TypeOK, Batch, Key
      <4>4. clock \in [Device -> Nat] /\ clock' \in [Device -> Nat]
        BY <2>2 DEF NameBatch, TypeOK
      <4> QED
        BY <4>1, <4>2, <4>3, <4>4 DEF KeysInv, KeysBehind
    <3> QED
      BY <3>1, <3>2, <3>3 DEF KeysInv
  <2>3. CASE PutBatch(e)
    <3> DEFINE d == DeviceOf[e]
               new == [dev |-> d, key |-> key[e], rows |-> rows[e]]
    <3>1. /\ key[e].ts >= 1
          /\ \A b \in BatchesOf(d) : b.key.ts < key[e].ts
          /\ key[e].ts \in Nat
      BY <2>3 DEF PutBatch, KeysInv, UploadKey, TypeOK, Key
    <3>2. \A b \in bucket : b.dev = d => b.key # key[e]
      BY <3>1 DEF BatchesOf
    <3>3. bucket' = bucket \cup {new}
      BY <2>3, <3>2 DEF PutBatch, Put
    <3>4. /\ pc' = [pc EXCEPT ![e] = "publish"]
          /\ UNCHANGED <<manifest, clock, faults, key, rows>>
      BY <2>3 DEF PutBatch, env, locals
    <3>5. KeysDistinct'
      BY <3>1, <3>2, <3>3 DEF KeysInv, KeysDistinct
    <3>6. UploadKey'
      <4>1. ASSUME NEW f \in Engine, f # e PROVE BatchesOf(DeviceOf[f])' = BatchesOf(DeviceOf[f])
        BY <3>3, <4>1 DEF BatchesOf, OneEngine
      <4>2. BatchesOf(d)' = BatchesOf(d) \cup {new}
        BY <3>3 DEF BatchesOf
      <4>3. pc'[e] = "publish" /\ \A f \in Engine \ {e} : pc'[f] = pc[f]
        BY <3>4 DEF TypeOK
      <4> QED
        BY <3>1, <3>3, <3>4, <4>1, <4>2, <4>3 DEF KeysInv, UploadKey
    <3>7. KeysBehind'
      <4>1. \A f \in Engine : pc[f] = "publish" => pc'[f] = "publish"
        BY <3>4 DEF TypeOK
      <4>2. pc'[e] = "publish"
        BY <3>4 DEF TypeOK
      <4> QED
        BY <3>3, <3>4, <4>1, <4>2 DEF KeysInv, KeysBehind
    <3>8. ManifestNamesBatch'
      BY <3>3, <3>4 DEF KeysInv, ManifestNamesBatch, BatchesOf
    <3> QED
      BY <3>5, <3>6, <3>7, <3>8 DEF KeysInv
  <2>4. CASE PutManifest(e)
    <3> DEFINE d == DeviceOf[e]
    <3>1. /\ pc' = [pc EXCEPT ![e] = "mark"]
          /\ manifest' = [manifest EXCEPT ![d] = key[e]]
          /\ UNCHANGED <<bucket, clock, faults, key, rows>>
      BY <2>4 DEF PutManifest, env, locals
    <3>2. KeysDistinct'
      BY <3>1 DEF KeysInv, KeysDistinct
    <3>3. UploadKey'
      BY <2>4, <3>1 DEF PutManifest, KeysInv, UploadKey, BatchesOf, TypeOK
    <3>4. KeysBehind'
      <4>1. ASSUME NEW b \in bucket, b.dev = d PROVE b.key.ts <= manifest'[d].ts
        <5>1. b.key.ts < key[e].ts \/ b.key = key[e]
          BY <2>4, <4>1 DEF PutManifest, KeysInv, UploadKey, BatchesOf
        <5>2. b.key.ts \in Nat /\ key[e].ts \in Nat /\ manifest'[d] = key[e]
          BY <3>1 DEF TypeOK, Batch, Key
        <5> QED
          BY <5>1, <5>2
      <4>2. ASSUME NEW b \in bucket, b.dev # d
            PROVE  \/ b.key.ts <= manifest'[b.dev].ts
                   \/ "clock" \notin faults /\ b.key.ts < clock[b.dev]
                   \/ \E f \in Engine : DeviceOf[f] = b.dev /\ pc'[f] = "publish" /\ key[f] = b.key
        <5>1. manifest'[b.dev] = manifest[b.dev]
          BY <3>1, <4>2 DEF TypeOK, Batch
        <5>2. \A f \in Engine : DeviceOf[f] = b.dev => pc'[f] = pc[f]
          BY <3>1, <4>2 DEF TypeOK
        <5> QED
          BY <5>1, <5>2 DEF KeysInv, KeysBehind
      <4> QED
        BY <3>1, <4>1, <4>2 DEF KeysBehind
    <3>5. ManifestNamesBatch'
      <4> DEFINE new == [dev |-> d, key |-> key[e], rows |-> rows[e]]
      <4>1. new \in bucket /\ new.dev = d /\ new.key = key[e]
        BY <2>4 DEF PutManifest, KeysInv, UploadKey
      <4> HIDE DEF new
      <4> QED
        BY <3>1, <4>1 DEF KeysInv, ManifestNamesBatch, BatchesOf, TypeOK
    <3> QED
      BY <3>2, <3>3, <3>4, <3>5 DEF KeysInv
  <2>5. CASE MarkSynced(e)
    <3>1. KeysFrame
      BY <2>5 DEF MarkSynced, KeysFrame, Uploading, TypeOK, cloud, env
    <3> QED
      BY <3>1, KeysFrameStep
  <2> QED
    BY <1>2, <2>1, <2>2, <2>3, <2>4, <2>5 DEF Push
<1>3. ASSUME NEW e \in Engine, Pull(e) PROVE KeysInv'
  <2>1. CASE ListPeers(e) \/ ListBatches(e) \/ FetchBatch(e) \/ SaveCursor(e) \/ EndCycle(e)
    <3>1. KeysFrame
      BY <2>1 DEF ListPeers, ListBatches, FetchBatch, SaveCursor, EndCycle, KeysFrame,
                  Uploading, TypeOK, disk, cloud, env, locals
    <3> QED
      BY <3>1, KeysFrameStep
  <2>2. ASSUME NEW p \in Device, SkipPeer(e, p) \/ OpenPeer(e, p) PROVE KeysInv'
    <3>1. KeysFrame
      BY <2>2 DEF SkipPeer, OpenPeer, KeysFrame, Uploading, TypeOK, disk, cloud, env
    <3> QED
      BY <3>1, KeysFrameStep
  <2>3. CASE ApplyEvent(e)
    <3>1. /\ pc[e] = "apply" /\ pc'[e] \in {"apply", "fetch"}
          /\ \A f \in Engine \ {e} : pc'[f] = pc[f] /\ key'[f] = key[f] /\ rows'[f] = rows[f]
      BY <2>3 DEF ApplyEvent, TypeOK
    <3>2. KeysFrame
      BY <2>3, <3>1 DEF ApplyEvent, KeysFrame, Uploading, cloud, env
    <3> QED
      BY <3>2, KeysFrameStep
  <2> QED
    BY <1>3, <2>1, <2>2, <2>3 DEF Pull
<1>4. ASSUME NEW e \in Engine, Failure(e) PROVE KeysInv'
  <2>1. CASE StopAtBatch(e) \/ GiveUpPeer(e)
    <3>1. KeysFrame
      BY <2>1 DEF StopAtBatch, GiveUpPeer, KeysFrame, Uploading, TypeOK, disk, cloud, env
    <3> QED
      BY <3>1, KeysFrameStep
  <2>2. CASE Abort(e)
    <3> DEFINE d == DeviceOf[e]
    <3>1. /\ pc' = [pc EXCEPT ![e] = "idle"]
          /\ UNCHANGED <<bucket, manifest, faults>>
          /\ \A f \in Engine \ {e} : key'[f] = key[f] /\ rows'[f] = rows[f]
      BY <2>2 DEF Abort, disk, cloud, TypeOK
    <3>2. KeysDistinct' /\ ManifestNamesBatch'
      BY <3>1 DEF KeysInv, KeysDistinct, ManifestNamesBatch, BatchesOf
    <3>3. UploadKey'
      BY <3>1 DEF KeysInv, UploadKey, BatchesOf, TypeOK
    <3>4. "clock" \notin faults
      BY <2>2 DEF Abort, GentleFaults, TypeOK
    <3>5. /\ clock'[d] > clock[d]
          /\ pc[e] = "publish" => clock'[d] > key[e].ts
          /\ \A p \in Device \ {d} : clock'[p] = clock[p]
          /\ clock[d] \in Nat /\ clock'[d] \in Nat
      BY <2>2 DEF Abort, Uploading, TypeOK, Key
    <3>6. KeysBehind'
      <4> SUFFICES ASSUME NEW b \in bucket
                   PROVE  \/ b.key.ts <= manifest[b.dev].ts
                          \/ b.key.ts < clock'[b.dev]
                          \/ \E f \in Engine : /\ DeviceOf[f] = b.dev
                                               /\ pc'[f] = "publish" /\ key'[f] = b.key
        BY <3>1, <3>4 DEF KeysBehind
      <4>1. b.dev \in Device /\ b.key.ts \in Nat /\ clock[b.dev] \in Nat
        BY DEF TypeOK, Batch, Key
      <4>2. CASE \E f \in Engine : DeviceOf[f] = b.dev /\ pc[f] = "publish" /\ key[f] = b.key
        <5>1. PICK f \in Engine : DeviceOf[f] = b.dev /\ pc[f] = "publish" /\ key[f] = b.key
          BY <4>2
        <5>2. CASE f = e
          BY <3>5, <4>1, <5>1, <5>2
        <5>3. CASE f # e
          BY <3>1, <5>1, <5>3 DEF TypeOK
        <5> QED
          BY <5>2, <5>3
      <4>3. CASE b.key.ts < clock[b.dev]
        BY <3>5, <4>1, <4>3
      <4> QED
        BY <4>2, <4>3 DEF KeysInv, KeysBehind
    <3> QED
      BY <3>2, <3>3, <3>6 DEF KeysInv
  <2> QED
    BY <1>4, <2>1, <2>2 DEF Failure
<1>5. CASE UNCHANGED vars
  <2>1. KeysFrame
    BY <1>5 DEF KeysFrame, vars, cloud, env, locals
  <2> QED
    BY <2>1, KeysFrameStep
<1> QED
  BY <1>1, <1>2, <1>3, <1>4, <1>5 DEF Next

LEMMA KeysAlways ==
  ASSUME OneEngine, GentleFaults
  PROVE  Spec => []KeysInv
<1>1. Init => KeysInv
  BY DEF Init, KeysInv, KeysDistinct, UploadKey, KeysBehind, ManifestNamesBatch, BatchesOf
<1>2. TypeOK /\ KeysInv /\ [Next]_vars => KeysInv'
  BY KeysStep
<1> QED
  BY <1>1, <1>2, TypeCorrect, PTL DEF Spec

-----------------------------------------------------------------------------
(* Reading: no position moves past what is held. *)

InPeer == {"list", "fetch", "apply"}

\* A position in a peer's stream is a key of that stream, and everything at
\* or below it is held.
Read(d, p, k) ==
  /\ k = NoKey \/ \E b \in BatchesOf(p) : b.key = k
  /\ \A b \in BatchesOf(p) : AtOrBefore(b.key, k) => Ids(b.rows) \subseteq Ids(store[d])

CursorsRead == \A d, p \in Device : Read(d, p, cursor[d][p])

PositionsRead ==
  \A e \in Engine : pc[e] \in InPeer => Read(DeviceOf[e], peer[e], pos[e])

\* A listing holds keys of the stream, above the position, with no gap: a
\* batch between the position and a listed key is listed too.
ListingComplete ==
  \A e \in Engine : pc[e] \in {"fetch", "apply"} =>
    /\ \A k \in listed[e] : Before(pos[e], k) /\ \E b \in BatchesOf(peer[e]) : b.key = k
    /\ \A b \in BatchesOf(peer[e]) : \A k \in listed[e] :
         Before(pos[e], b.key) /\ AtOrBefore(b.key, k) => b.key \in listed[e]

\* The batch being applied is the first one listed, and what this device
\* still lacks of it is in hand.
ApplyingFirst ==
  \A e \in Engine : pc[e] = "apply" =>
    /\ key[e] \in listed[e]
    /\ \A k \in listed[e] : AtOrBefore(key[e], k)
    /\ \A b \in BatchesOf(peer[e]) : b.key = key[e] =>
         Ids(b.rows) \subseteq Ids(store[DeviceOf[e]]) \cup Ids(rows[e])

ReadInv == CursorsRead /\ PositionsRead /\ ListingComplete /\ ApplyingFirst

\* A step that does not read: the bucket and the cursors stay, stores only
\* grow, and an engine in pullPeer afterwards was there before, unchanged.
ReadFrame ==
  /\ UNCHANGED <<bucket, cursor>>
  /\ \A d \in Device : store[d] \subseteq store'[d]
  /\ \A f \in Engine : pc'[f] \in InPeer =>
       /\ pc'[f] = pc[f] /\ peer'[f] = peer[f] /\ pos'[f] = pos[f]
       /\ listed'[f] = listed[f] /\ key'[f] = key[f] /\ rows'[f] = rows[f]

\* A position stays read when stores grow and the stream stays as it is.
LEMMA ReadGrows ==
  ASSUME NEW d \in Device, NEW p \in Device, NEW k \in Key,
         Read(d, p, k), bucket' = bucket, store[d] \subseteq store'[d]
  PROVE  Read(d, p, k)'
  BY DEF Read, BatchesOf, Ids

LEMMA ReadFrameStep == TypeOK /\ ReadInv /\ ReadFrame => ReadInv'
<1> SUFFICES ASSUME TypeOK, ReadInv, ReadFrame PROVE ReadInv'
  OBVIOUS
<1> USE DeviceOfType DEF ReadInv, ReadFrame, InPeer
<1>1. CursorsRead'
  <2> SUFFICES ASSUME NEW d \in Device, NEW p \in Device PROVE Read(d, p, cursor[d][p])'
    BY DEF CursorsRead
  <2> QED
    BY ReadGrows DEF CursorsRead, TypeOK
<1>2. PositionsRead'
  <2> SUFFICES ASSUME NEW e \in Engine, pc'[e] \in InPeer
               PROVE  Read(DeviceOf[e], peer[e], pos[e])'
    BY DEF PositionsRead
  <2> QED
    BY ReadGrows DEF PositionsRead, TypeOK
<1>3. ListingComplete'
  BY DEF ListingComplete, BatchesOf
<1>4. ApplyingFirst'
  BY DEF ApplyingFirst, BatchesOf, Ids
<1> QED
  BY <1>1, <1>2, <1>3, <1>4

LEMMA ReadStep ==
  ASSUME OneEngine, TypeOK, KeysInv, ReadInv, [Next]_vars
  PROVE  ReadInv'
<1> USE DeviceOfType
<1>1. ASSUME NEW d \in Device, NEW id \in Event, AppendEvent(d, id) PROVE ReadInv'
  <2>1. ReadFrame
    BY <1>1 DEF AppendEvent, ReadFrame, TypeOK, cloud, locals
  <2> QED
    BY <2>1, ReadFrameStep
<1>2. ASSUME NEW e \in Engine, Push(e) PROVE ReadInv'
  <2>1. CASE ReadQueue(e) \/ QueueEmpty(e) \/ NameBatch(e) \/ PutManifest(e) \/ MarkSynced(e)
    <3>1. ReadFrame
      BY <2>1 DEF ReadQueue, QueueEmpty, NameBatch, PutManifest, MarkSynced, ReadFrame,
                  InPeer, TypeOK, disk, cloud, locals
    <3> QED
      BY <3>1, ReadFrameStep
  <2>2. CASE PutBatch(e)
    <3> DEFINE d == DeviceOf[e]
               new == [dev |-> d, key |-> key[e], rows |-> rows[e]]
    <3> DEFINE After(p) == {b \in bucket' : b.dev = p}
    <3>1. /\ key[e] \in Key /\ key[e].ts \in Nat /\ key[e].ts >= 1
          /\ \A b \in BatchesOf(d) : b.key.ts < key[e].ts
      BY <2>2 DEF PutBatch, KeysInv, UploadKey, TypeOK, Key
    <3>2. bucket' = bucket \cup {new}
      BY <2>2, <3>1 DEF PutBatch, Put, BatchesOf
    <3>3. /\ \A p \in Device \ {d} : After(p) = BatchesOf(p)
          /\ After(d) = BatchesOf(d) \cup {new}
      BY <3>2 DEF BatchesOf
    <3>4. \A b \in BatchesOf(d) : b.key \in Key /\ Before(b.key, key[e])
      BY <3>1, KeyOrder DEF BatchesOf, TypeOK, Batch
    <3>5. ASSUME NEW x \in Device, NEW p \in Device, NEW k \in Key, Read(x, p, k)
          PROVE  /\ k = NoKey \/ \E b \in After(p) : b.key = k
                 /\ \A b \in After(p) : AtOrBefore(b.key, k) => Ids(b.rows) \subseteq Ids(store[x])
      <4>1. CASE p = d
        <5>1. k.ts < key[e].ts
          BY <3>1, <3>5, <4>1, NoKeyIsKey DEF Read
        <5>2. ~AtOrBefore(key[e], k)
          BY <3>1, <5>1, KeyOrder, KeyFields
        <5> QED
          BY <3>3, <3>5, <4>1, <5>2 DEF Read
      <4>2. CASE p # d
        BY <3>3, <3>5, <4>2 DEF Read
      <4> QED
        BY <4>1, <4>2
    <3>6. UNCHANGED <<store, cursor, rows, key, peer, pos, listed>>
      BY <2>2 DEF PutBatch, disk, locals
    <3>7. \A f \in Engine : pc'[f] \in InPeer => pc'[f] = pc[f]
      BY <2>2 DEF PutBatch, InPeer, TypeOK
    <3> HIDE DEF new
    <3>8. CursorsRead'
      <4> SUFFICES ASSUME NEW x \in Device, NEW p \in Device
                   PROVE  Read(x, p, cursor[x][p])'
        BY DEF CursorsRead
      <4>1. Read(x, p, cursor[x][p]) /\ cursor[x][p] \in Key
        BY DEF ReadInv, CursorsRead, TypeOK
      <4>2. /\ cursor[x][p] = NoKey \/ \E b \in After(p) : b.key = cursor[x][p]
            /\ \A b \in After(p) :
                 AtOrBefore(b.key, cursor[x][p]) => Ids(b.rows) \subseteq Ids(store[x])
        BY <3>5, <4>1
      <4> QED
        BY <3>6, <4>2 DEF Read, BatchesOf, Ids
    <3>9. PositionsRead'
      <4> SUFFICES ASSUME NEW f \in Engine, pc'[f] \in InPeer
                   PROVE  Read(DeviceOf[f], peer[f], pos[f])'
        BY DEF PositionsRead
      <4>1. /\ Read(DeviceOf[f], peer[f], pos[f])
            /\ DeviceOf[f] \in Device /\ peer[f] \in Device /\ pos[f] \in Key
        BY <3>7 DEF ReadInv, PositionsRead, TypeOK
      <4>2. /\ pos[f] = NoKey \/ \E b \in After(peer[f]) : b.key = pos[f]
            /\ \A b \in After(peer[f]) :
                 AtOrBefore(b.key, pos[f]) => Ids(b.rows) \subseteq Ids(store[DeviceOf[f]])
        BY <3>5, <4>1
      <4> QED
        BY <3>6, <4>2 DEF Read, BatchesOf, Ids
    <3>10. ListingComplete'
      <4> SUFFICES ASSUME NEW f \in Engine, pc'[f] \in {"fetch", "apply"}
                   PROVE  /\ \A k \in listed[f] : /\ Before(pos[f], k)
                                                  /\ \E b \in After(peer[f]) : b.key = k
                          /\ \A b \in After(peer[f]) : \A k \in listed[f] :
                               Before(pos[f], b.key) /\ AtOrBefore(b.key, k) => b.key \in listed[f]
        BY <3>6 DEF ListingComplete, BatchesOf
      <4>1. /\ \A k \in listed[f] : Before(pos[f], k) /\ \E b \in BatchesOf(peer[f]) : b.key = k
            /\ \A b \in BatchesOf(peer[f]) : \A k \in listed[f] :
                 Before(pos[f], b.key) /\ AtOrBefore(b.key, k) => b.key \in listed[f]
        BY <3>7 DEF InPeer, ReadInv, ListingComplete
      <4>2. CASE peer[f] # d
        <5>1. After(peer[f]) = BatchesOf(peer[f])
          BY <3>3, <4>2 DEF TypeOK
        <5> QED
          BY <4>1, <5>1
      <4>3. CASE peer[f] = d
        <5>1. \A k \in listed[f] : ~AtOrBefore(key[e], k)
          BY <3>1, <3>4, <4>1, <4>3, KeyOrder
        <5>2. new.key = key[e]
          BY DEF new
        <5> QED
          BY <3>3, <4>1, <4>3, <5>1, <5>2
      <4> QED
        BY <4>2, <4>3
    <3>11. ApplyingFirst'
      <4> SUFFICES ASSUME NEW f \in Engine, pc'[f] = "apply"
                   PROVE  /\ key[f] \in listed[f]
                          /\ \A k \in listed[f] : AtOrBefore(key[f], k)
                          /\ \A b \in After(peer[f]) : b.key = key[f] =>
                               Ids(b.rows) \subseteq Ids(store[DeviceOf[f]]) \cup Ids(rows[f])
        BY <3>6 DEF ApplyingFirst, BatchesOf
      <4>1. pc[f] = "apply"
        BY <3>7 DEF InPeer
      <4>2. CASE peer[f] # d
        <5>1. After(peer[f]) = BatchesOf(peer[f])
          BY <3>3, <4>2 DEF TypeOK
        <5> QED
          BY <4>1, <5>1 DEF ReadInv, ApplyingFirst
      <4>3. CASE peer[f] = d
        <5>1. \E b \in BatchesOf(d) : b.key = key[f]
          BY <4>1, <4>3 DEF ReadInv, ListingComplete, ApplyingFirst
        <5>2. key[f] # key[e] /\ new.key = key[e]
          BY <3>1, <5>1 DEF new
        <5> QED
          BY <3>3, <4>1, <4>3, <5>2 DEF ReadInv, ApplyingFirst
      <4> QED
        BY <4>2, <4>3
    <3> QED
      BY <3>8, <3>9, <3>10, <3>11 DEF ReadInv
  <2> QED
    BY <1>2, <2>1, <2>2 DEF Push
<1>3. ASSUME NEW e \in Engine, Pull(e) PROVE ReadInv'
  <2> DEFINE d == DeviceOf[e]
  <2>1. CASE ListPeers(e) \/ EndCycle(e)
    <3>1. ReadFrame
      BY <2>1 DEF ListPeers, EndCycle, ReadFrame, InPeer, TypeOK, disk, cloud, locals
    <3> QED
      BY <3>1, ReadFrameStep
  <2>2. ASSUME NEW p \in Device, SkipPeer(e, p) PROVE ReadInv'
    <3>1. ReadFrame
      BY <2>2 DEF SkipPeer, ReadFrame, disk, cloud
    <3> QED
      BY <3>1, ReadFrameStep
  <2>3. ASSUME NEW p \in Device, OpenPeer(e, p) PROVE ReadInv'
    <3>1. /\ pc' = [pc EXCEPT ![e] = "list"] /\ peer' = [peer EXCEPT ![e] = p]
          /\ pos' = [pos EXCEPT ![e] = cursor[d][p]]
          /\ UNCHANGED <<store, cursor, bucket, rows, key, listed>>
      BY <2>3 DEF OpenPeer, disk, cloud
    <3>2. Read(d, p, cursor[d][p])
      BY DEF ReadInv, CursorsRead
    <3>3. CursorsRead'
      BY <3>1 DEF ReadInv, CursorsRead, Read, BatchesOf
    <3>4. PositionsRead'
      BY <3>1, <3>2 DEF ReadInv, PositionsRead, Read, BatchesOf, TypeOK
    <3>5. ListingComplete' /\ ApplyingFirst'
      BY <3>1 DEF ReadInv, ListingComplete, ApplyingFirst, BatchesOf, TypeOK
    <3> QED
      BY <3>3, <3>4, <3>5 DEF ReadInv
  <2>4. CASE ListBatches(e)
    <3>1. /\ pc[e] = "list" /\ pc' = [pc EXCEPT ![e] = "fetch"]
          /\ listed' = [listed EXCEPT ![e] =
                {b.key : b \in {c \in BatchesOf(peer[e]) : Before(pos[e], c.key)}}]
          /\ UNCHANGED <<store, cursor, bucket, rows, key, peer, pos>>
      BY <2>4 DEF ListBatches, disk, cloud
    <3>2. CursorsRead'
      BY <3>1 DEF ReadInv, CursorsRead, Read, BatchesOf
    <3>3. PositionsRead'
      BY <3>1 DEF ReadInv, PositionsRead, Read, BatchesOf, TypeOK, InPeer
    <3>4. ListingComplete' /\ ApplyingFirst'
      BY <3>1 DEF ReadInv, ListingComplete, ApplyingFirst, BatchesOf, TypeOK
    <3> QED
      BY <3>2, <3>3, <3>4 DEF ReadInv
  <2>5. CASE FetchBatch(e)
    <3>1. /\ pc[e] = "fetch" /\ pc' = [pc EXCEPT ![e] = "apply"]
          /\ UNCHANGED <<store, cursor, bucket, peer, pos, listed>>
      BY <2>5 DEF FetchBatch, disk, cloud
    <3>2. PICK b \in BatchesOf(peer[e]) :
            /\ b.key \in listed[e] /\ \A k \in listed[e] : AtOrBefore(b.key, k)
            /\ key' = [key EXCEPT ![e] = b.key] /\ rows' = [rows EXCEPT ![e] = b.rows]
      BY <2>5 DEF FetchBatch
    <3>3. CursorsRead'
      BY <3>1 DEF ReadInv, CursorsRead, Read, BatchesOf
    <3>4. PositionsRead'
      BY <3>1 DEF ReadInv, PositionsRead, Read, BatchesOf, TypeOK, InPeer
    <3>5. ListingComplete'
      BY <3>1 DEF ReadInv, ListingComplete, BatchesOf, TypeOK
    <3>6. \A c \in BatchesOf(peer[e]) : c.key = b.key => c = b
      BY DEF BatchesOf, KeysInv, KeysDistinct
    <3>7. ApplyingFirst'
      BY <3>1, <3>2, <3>6 DEF ReadInv, ApplyingFirst, BatchesOf, TypeOK
    <3> QED
      BY <3>3, <3>4, <3>5, <3>7 DEF ReadInv
  <2>6. CASE ApplyEvent(e)
    <3>1. PICK r \in rows[e] :
            /\ store' = [store EXCEPT ![d] = Inserted(@, r)]
            /\ rows' = [rows EXCEPT ![e] = @ \ {r}]
            /\ IF rows[e] = {r}
               THEN /\ pos' = [pos EXCEPT ![e] = key[e]]
                    /\ listed' = [listed EXCEPT ![e] = @ \ {key[e]}]
                    /\ key' = [key EXCEPT ![e] = NoKey]
                    /\ pc' = [pc EXCEPT ![e] = "fetch"]
               ELSE UNCHANGED <<pos, listed, key, pc>>
      BY <2>6 DEF ApplyEvent
    <3>2. pc[e] = "apply" /\ UNCHANGED <<cursor, bucket, peer>>
      BY <2>6 DEF ApplyEvent, cloud
    <3>3. /\ \A x \in Device : store[x] \subseteq store'[x]
          /\ r.id \in Ids(store'[d])
      BY <3>1 DEF Inserted, Ids, TypeOK
    <3>4. CursorsRead'
      BY <3>2, <3>3, ReadGrows DEF ReadInv, CursorsRead, TypeOK
    <3>5. /\ key[e] \in listed[e] /\ \A k \in listed[e] : AtOrBefore(key[e], k)
          /\ \A b \in BatchesOf(peer[e]) : b.key = key[e] =>
               Ids(b.rows) \subseteq Ids(store[d]) \cup Ids(rows[e])
          /\ \A k \in listed[e] : Before(pos[e], k) /\ \E b \in BatchesOf(peer[e]) : b.key = k
          /\ \A b \in BatchesOf(peer[e]) : \A k \in listed[e] :
               Before(pos[e], b.key) /\ AtOrBefore(b.key, k) => b.key \in listed[e]
          /\ Read(d, peer[e], pos[e])
      BY <3>2 DEF ReadInv, ApplyingFirst, ListingComplete, PositionsRead, InPeer
    <3>6. /\ pos[e] \in Key /\ key[e] \in Key /\ listed[e] \subseteq Key
          /\ \A b \in BatchesOf(peer[e]) : b.key \in Key
      BY DEF TypeOK, BatchesOf, Batch
    <3>7. \A f \in Engine \ {e} :
            /\ pc'[f] = pc[f] /\ pos'[f] = pos[f] /\ listed'[f] = listed[f]
            /\ key'[f] = key[f] /\ rows'[f] = rows[f]
      BY <3>1 DEF TypeOK
    <3>8. BatchesOf(peer[e])' = BatchesOf(peer[e])
      BY <3>2 DEF BatchesOf
    <3>9. \A f \in Engine \ {e} : pc[f] \in InPeer => Read(DeviceOf[f], peer[f], pos[f])'
      <4> SUFFICES ASSUME NEW f \in Engine \ {e}, pc[f] \in InPeer
                   PROVE  Read(DeviceOf[f], peer[f], pos[f])'
        OBVIOUS
      <4>1. Read(DeviceOf[f], peer[f], pos[f])
        BY DEF ReadInv, PositionsRead
      <4> QED
        BY <3>2, <3>3, <3>7, <4>1 DEF Read, BatchesOf, Ids
    <3>10. CASE rows[e] = {r}
      <4>1. /\ pos'[e] = key[e] /\ listed'[e] = listed[e] \ {key[e]} /\ pc'[e] = "fetch"
        BY <3>1, <3>10 DEF TypeOK
      <4>2. ASSUME NEW b \in BatchesOf(peer[e]), AtOrBefore(b.key, key[e])
            PROVE  Ids(b.rows) \subseteq Ids(store'[d])
        <5>1. Ids(store[d]) \subseteq Ids(store'[d]) /\ Ids(rows[e]) \subseteq Ids(store'[d])
          BY <3>3, <3>10 DEF Ids
        <5>2. CASE AtOrBefore(b.key, pos[e])
          BY <3>5, <5>1, <5>2 DEF Read
        <5>3. CASE Before(pos[e], b.key)
          <6>1. b.key = key[e]
            BY <3>5, <3>6, <4>2, <5>3, KeyOrder
          <6> QED
            BY <3>5, <5>1, <6>1
        <5> QED
          BY <3>6, <5>2, <5>3, KeyOrder
      <4>3. PositionsRead'
        <5>1. Read(DeviceOf[e], peer[e], pos[e])'
          BY <3>2, <3>5, <4>1, <4>2 DEF Read, BatchesOf
        <5> QED
          BY <3>7, <3>9, <5>1 DEF PositionsRead
      <4>4. ListingComplete'
        <5>1. ASSUME NEW k \in listed[e] \ {key[e]} PROVE Before(key[e], k)
          BY <3>5, <3>6, KeyOrder DEF AtOrBefore
        <5>2. ASSUME NEW b \in BatchesOf(peer[e]), NEW k \in listed[e] \ {key[e]},
                     Before(key[e], b.key), AtOrBefore(b.key, k)
              PROVE  b.key \in listed[e] \ {key[e]}
          <6>1. Before(pos[e], key[e])
            BY <3>5
          <6>2. Before(pos[e], b.key)
            BY <3>6, <5>2, <6>1, KeyTransitive DEF AtOrBefore
          <6>3. b.key # key[e]
            BY <3>6, <5>2, KeyOrder DEF AtOrBefore
          <6> QED
            BY <3>5, <5>2, <6>2, <6>3
        <5>3. /\ \A k \in listed'[e] : /\ Before(pos'[e], k)
                                       /\ \E b \in BatchesOf(peer[e]) : b.key = k
              /\ \A b \in BatchesOf(peer[e]) : \A k \in listed'[e] :
                   Before(pos'[e], b.key) /\ AtOrBefore(b.key, k) => b.key \in listed'[e]
          BY <3>5, <4>1, <5>1, <5>2
        <5>4. ASSUME NEW f \in Engine \ {e}, pc'[f] \in {"fetch", "apply"}
              PROVE  /\ \A k \in listed'[f] : /\ Before(pos'[f], k)
                                              /\ \E b \in BatchesOf(peer[f]) : b.key = k
                     /\ \A b \in BatchesOf(peer[f]) : \A k \in listed'[f] :
                          Before(pos'[f], b.key) /\ AtOrBefore(b.key, k) => b.key \in listed'[f]
          BY <3>7, <5>4 DEF ReadInv, ListingComplete
        <5>5. \A f \in Engine : pc'[f] \in {"fetch", "apply"} =>
                /\ \A k \in listed'[f] : /\ Before(pos'[f], k)
                                         /\ \E b \in BatchesOf(peer[f]) : b.key = k
                /\ \A b \in BatchesOf(peer[f]) : \A k \in listed'[f] :
                     Before(pos'[f], b.key) /\ AtOrBefore(b.key, k) => b.key \in listed'[f]
          BY <5>3, <5>4
        <5> QED
          BY <3>2, <5>5 DEF ListingComplete, BatchesOf
      <4>5. ApplyingFirst'
        <5> SUFFICES ASSUME NEW f \in Engine \ {e}, pc[f] = "apply"
                     PROVE  /\ key[f] \in listed[f]
                            /\ \A k \in listed[f] : AtOrBefore(key[f], k)
                            /\ \A b \in BatchesOf(peer[f]) : b.key = key[f] =>
                                 Ids(b.rows) \subseteq Ids(store'[DeviceOf[f]]) \cup Ids(rows[f])
          BY <3>2, <3>7, <4>1 DEF ApplyingFirst, BatchesOf, Ids
        <5>1. Ids(store[DeviceOf[f]]) \subseteq Ids(store'[DeviceOf[f]])
          BY <3>3 DEF Ids
        <5> QED
          BY <5>1 DEF ReadInv, ApplyingFirst
      <4> QED
        BY <3>4, <4>3, <4>4, <4>5 DEF ReadInv
    <3>11. CASE rows[e] # {r}
      <4>1. UNCHANGED <<pos, listed, key, pc>>
        BY <3>1, <3>11
      <4>2. PositionsRead'
        <5>1. Read(DeviceOf[e], peer[e], pos[e])'
          BY <3>2, <3>3, <3>5, <4>1 DEF Read, BatchesOf, Ids
        <5> QED
          BY <3>9, <4>1, <5>1 DEF PositionsRead
      <4>3. ListingComplete'
        BY <3>2, <4>1 DEF ReadInv, ListingComplete, BatchesOf
      <4>4. ApplyingFirst'
        <5>1. rows'[e] = rows[e] \ {r} /\ Ids(rows[e]) \subseteq Ids(rows'[e]) \cup {r.id}
          BY <3>1 DEF TypeOK, Ids
        <5>2. \A b \in BatchesOf(peer[e]) : b.key = key[e] =>
                Ids(b.rows) \subseteq Ids(store'[d]) \cup Ids(rows'[e])
          BY <3>3, <3>5, <5>1 DEF Ids
        <5> SUFFICES ASSUME NEW f \in Engine, pc[f] = "apply"
                     PROVE  /\ key[f] \in listed[f]
                            /\ \A k \in listed[f] : AtOrBefore(key[f], k)
                            /\ \A b \in BatchesOf(peer[f]) : b.key = key[f] =>
                                 Ids(b.rows) \subseteq Ids(store'[DeviceOf[f]]) \cup Ids(rows'[f])
          BY <3>2, <4>1 DEF ApplyingFirst, BatchesOf, Ids
        <5>3. CASE f = e
          BY <3>5, <5>2, <5>3
        <5>4. CASE f # e
          <6>1. rows'[f] = rows[f] /\ Ids(store[DeviceOf[f]]) \subseteq Ids(store'[DeviceOf[f]])
            BY <3>3, <3>7, <5>4 DEF Ids
          <6> QED
            BY <6>1 DEF ReadInv, ApplyingFirst
        <5> QED
          BY <5>3, <5>4
      <4> QED
        BY <3>4, <4>2, <4>3, <4>4 DEF ReadInv
    <3> QED
      BY <3>10, <3>11
  <2>7. CASE SaveCursor(e)
    <3>1. /\ pc[e] = "fetch" /\ pc' = [pc EXCEPT ![e] = "pull"]
          /\ cursor' = [cursor EXCEPT ![d][peer[e]] = pos[e]]
          /\ UNCHANGED <<store, bucket, rows, key, listed>>
          /\ \A f \in Engine \ {e} : pos'[f] = pos[f] /\ peer'[f] = peer[f]
      BY <2>7 DEF SaveCursor, cloud, TypeOK
    <3>2. Read(d, peer[e], pos[e])
      BY <3>1 DEF ReadInv, PositionsRead, InPeer
    <3>4. CursorsRead'
      <4> SUFFICES ASSUME NEW x \in Device, NEW p \in Device
                   PROVE  Read(x, p, cursor[x][p])'
        BY DEF CursorsRead
      <4>1. cursor'[x][p] = IF x = d /\ p = peer[e] THEN pos[e] ELSE cursor[x][p]
        BY <3>1 DEF TypeOK
      <4>2. Read(x, p, cursor'[x][p])
        BY <3>2, <4>1 DEF ReadInv, CursorsRead
      <4> QED
        BY <3>1, <4>2 DEF Read, BatchesOf, Ids
    <3>3. \A f \in Engine : pc'[f] \in InPeer =>
            f # e /\ pc'[f] = pc[f] /\ pos'[f] = pos[f] /\ peer'[f] = peer[f]
      BY <3>1 DEF InPeer, TypeOK
    <3>6. PositionsRead'
      <4> SUFFICES ASSUME NEW f \in Engine, pc'[f] \in InPeer
                   PROVE  Read(DeviceOf[f], peer[f], pos[f])'
        BY DEF PositionsRead
      <4>1. Read(DeviceOf[f], peer[f], pos[f])
        BY <3>3 DEF ReadInv, PositionsRead
      <4> QED
        BY <3>1, <3>3, <4>1 DEF Read, BatchesOf, Ids
    <3>5. ListingComplete'
      BY <3>1, <3>3 DEF ReadInv, ListingComplete, BatchesOf, InPeer
    <3>7. ApplyingFirst'
      BY <3>1, <3>3 DEF ReadInv, ApplyingFirst, BatchesOf, InPeer, Ids
    <3> QED
      BY <3>4, <3>5, <3>6, <3>7 DEF ReadInv
  <2> QED
    BY <1>3, <2>1, <2>2, <2>3, <2>4, <2>5, <2>6, <2>7 DEF Pull
<1>4. ASSUME NEW e \in Engine, Failure(e) PROVE ReadInv'
  <2>1. CASE StopAtBatch(e)
    <3>1. /\ pc[e] \in {"fetch", "apply"} /\ pc' = [pc EXCEPT ![e] = "fetch"]
          /\ listed' = [listed EXCEPT ![e] = {}]
          /\ UNCHANGED <<store, cursor, bucket, peer, pos>>
          /\ \A f \in Engine \ {e} : key'[f] = key[f] /\ rows'[f] = rows[f]
      BY <2>1 DEF StopAtBatch, disk, cloud, TypeOK
    <3>2. CursorsRead'
      BY <3>1 DEF ReadInv, CursorsRead, Read, BatchesOf
    <3>4. PositionsRead'
      <4> SUFFICES ASSUME NEW f \in Engine, pc'[f] \in InPeer
                   PROVE  Read(DeviceOf[f], peer[f], pos[f])'
        BY DEF PositionsRead
      <4>1. pc[f] \in InPeer
        BY <3>1 DEF InPeer, TypeOK
      <4>2. Read(DeviceOf[f], peer[f], pos[f])
        BY <4>1 DEF ReadInv, PositionsRead
      <4> QED
        BY <3>1, <4>2 DEF Read, BatchesOf, Ids
    <3>3. ListingComplete' /\ ApplyingFirst'
      BY <3>1 DEF ReadInv, ListingComplete, ApplyingFirst, BatchesOf, TypeOK
    <3> QED
      BY <3>2, <3>3, <3>4 DEF ReadInv
  <2>2. CASE GiveUpPeer(e) \/ Abort(e)
    <3>1. ReadFrame
      BY <2>2 DEF GiveUpPeer, Abort, ReadFrame, InPeer, TypeOK, disk, cloud
    <3> QED
      BY <3>1, ReadFrameStep
  <2> QED
    BY <1>4, <2>1, <2>2 DEF Failure
<1>5. CASE UNCHANGED vars
  <2>1. ReadFrame
    BY <1>5 DEF ReadFrame, vars, disk, cloud, locals
  <2> QED
    BY <2>1, ReadFrameStep
<1> QED
  BY <1>1, <1>2, <1>3, <1>4, <1>5 DEF Next

LEMMA ReadAlways ==
  ASSUME OneEngine, GentleFaults
  PROVE  Spec => []ReadInv
<1>1. Init => ReadInv
  BY DEF Init, ReadInv, CursorsRead, PositionsRead, ListingComplete, ApplyingFirst, Read,
         BatchesOf, InPeer
<1>2. TypeOK /\ KeysInv /\ ReadInv /\ [Next]_vars => ReadInv'
  BY ReadStep
<1> QED
  BY <1>1, <1>2, TypeCorrect, KeysAlways, PTL DEF Spec

\* No event is ever lost to a cursor: the batches a cursor has passed are held.
\* Keys that sort above every published one (KeysInv) are what it rests on: a
\* batch that appears below a position would break Read at once.
THEOREM NoEventSkipped ==
  ASSUME OneEngine, GentleFaults
  PROVE  Spec => []NoBatchSkipped
<1>1. TypeOK /\ ReadInv => NoBatchSkipped
  BY DEF ReadInv, CursorsRead, Read, NoBatchSkipped, BatchesOf, TypeOK, Batch
<1> QED
  BY <1>1, TypeCorrect, ReadAlways, PTL

-----------------------------------------------------------------------------
(* What follows from the order of the keys. *)

\* A manifest never names a batch that cannot be found.
THEOREM ManifestsAreReadable ==
  ASSUME OneEngine, GentleFaults
  PROVE  Spec => []ManifestNamesBatch
<1>1. KeysInv => ManifestNamesBatch
  BY DEF KeysInv
<1> QED
  BY <1>1, KeysAlways, PTL

\* Every upload goes above all that its prefix holds.
THEOREM KeysGrow ==
  ASSUME OneEngine, GentleFaults
  PROVE  Spec => BatchKeysMonotonic
<1> DEFINE Grows == \A b \in bucket' \ bucket : \A c \in BatchesOf(b.dev) : Before(c.key, b.key)
<1>1. TypeOK /\ KeysInv /\ [Next]_vars => [Grows]_bucket
  <2> SUFFICES ASSUME TypeOK, KeysInv, [Next]_vars, bucket' # bucket PROVE Grows
    OBVIOUS
  <2>1. PICK e \in Engine : PutBatch(e)
    BY DEF Next, AppendEvent, Push, ReadQueue, QueueEmpty, NameBatch, PutManifest, MarkSynced,
           Pull, ListPeers, SkipPeer, OpenPeer, ListBatches, FetchBatch, ApplyEvent, SaveCursor,
           EndCycle, Failure, StopAtBatch, GiveUpPeer, Abort, vars, cloud
  <2> DEFINE new == [dev |-> DeviceOf[e], key |-> key[e], rows |-> rows[e]]
  <2>2. /\ bucket' \ bucket \subseteq {new} /\ new.dev = DeviceOf[e] /\ new.key = key[e]
    BY <2>1 DEF PutBatch, Put
  <2>3. \A c \in BatchesOf(DeviceOf[e]) : c.key.ts < key[e].ts
    BY <2>1 DEF PutBatch, KeysInv, UploadKey
  <2> HIDE DEF new
  <2> QED
    BY <2>2, <2>3 DEF Before
<1> QED
  BY <1>1, TypeCorrect, KeysAlways, PTL DEF Spec, BatchKeysMonotonic

-----------------------------------------------------------------------------
(* Synced means published. *)

\* Rows being applied are rows of a batch of the peer being read.
ApplyingPublished ==
  \A e \in Engine : pc[e] = "apply" =>
    \E b \in BatchesOf(peer[e]) : rows[e] \subseteq b.rows

PublishedInv == SyncedIsPublished /\ ApplyingPublished

\* A step that publishes nothing, records nothing and marks nothing.
PublishedFrame ==
  /\ UNCHANGED <<store, synced, bucket>>
  /\ \A f \in Engine : pc'[f] = "apply" =>
       pc[f] = "apply" /\ peer'[f] = peer[f] /\ rows'[f] = rows[f]

LEMMA PublishedFrameStep == PublishedInv /\ PublishedFrame => PublishedInv'
  BY DEF PublishedInv, PublishedFrame, SyncedIsPublished, ApplyingPublished, BatchesOf

LEMMA PublishedStep ==
  ASSUME TypeOK, RowsInv, KeysInv, PublishedInv, [Next]_vars
  PROVE  PublishedInv'
<1> USE DeviceOfType
<1>1. ASSUME NEW d \in Device, NEW id \in Event, AppendEvent(d, id) PROVE PublishedInv'
  <2>1. id \notin synced[d]
    BY <1>1 DEF AppendEvent, RowsInv, RowsRecorded
  <2>2. SyncedIsPublished'
    BY <1>1, <2>1 DEF AppendEvent, PublishedInv, SyncedIsPublished, BatchesOf, TypeOK, cloud
  <2>3. ApplyingPublished'
    BY <1>1 DEF AppendEvent, PublishedInv, ApplyingPublished, BatchesOf, cloud, locals
  <2> QED
    BY <2>2, <2>3 DEF PublishedInv
<1>2. ASSUME NEW e \in Engine, Push(e) PROVE PublishedInv'
  <2>1. CASE ReadQueue(e) \/ QueueEmpty(e) \/ NameBatch(e) \/ PutManifest(e)
    <3>1. PublishedFrame
      BY <2>1 DEF ReadQueue, QueueEmpty, NameBatch, PutManifest, PublishedFrame, TypeOK,
                  disk, cloud, locals
    <3> QED
      BY <3>1, PublishedFrameStep
  <2>2. CASE PutBatch(e)
    <3>1. bucket \subseteq bucket'
      <4>1. key[e].ts \in Nat
        BY KeyFields DEF TypeOK
      <4>2. \A c \in BatchesOf(DeviceOf[e]) : c.key # key[e]
        BY <2>2, <4>1 DEF PutBatch, KeysInv, UploadKey
      <4> QED
        BY <2>2, <4>2 DEF PutBatch, Put, BatchesOf
    <3>2. SyncedIsPublished'
      BY <2>2, <3>1 DEF PutBatch, PublishedInv, SyncedIsPublished, BatchesOf, disk
    <3>3. ApplyingPublished'
      BY <2>2, <3>1 DEF PutBatch, PublishedInv, ApplyingPublished, BatchesOf, TypeOK, locals
    <3> QED
      BY <3>2, <3>3 DEF PublishedInv
  <2>3. CASE MarkSynced(e)
    <3> DEFINE d == DeviceOf[e]
               mine == [dev |-> d, key |-> key[e], rows |-> rows[e]]
    <3>1. mine \in BatchesOf(d) /\ mine.rows = rows[e]
      BY <2>3 DEF MarkSynced, KeysInv, UploadKey, BatchesOf
    <3>2. \A r \in rows[e] : r \in store[d]
      BY <2>3 DEF MarkSynced, RowsInv, InHand, InPush
    <3>3. \A r \in store[d] : r.id \in Ids(rows[e]) => r \in rows[e]
      BY <3>2 DEF RowsInv, RowsRecorded, Ids
    <3>4. /\ UNCHANGED <<store, bucket>>
          /\ synced' = [synced EXCEPT ![d] = @ \cup Ids(rows[e])]
      BY <2>3 DEF MarkSynced, cloud
    <3> HIDE DEF mine
    <3>5. SyncedIsPublished'
      <4> SUFFICES ASSUME NEW x \in Device, NEW r \in store[x], r.dev = x, r.id \in synced'[x]
                   PROVE  \E b \in BatchesOf(x) : r \in b.rows
        BY <3>4 DEF SyncedIsPublished, BatchesOf
      <4>1. CASE r.id \in synced[x]
        BY <4>1 DEF PublishedInv, SyncedIsPublished
      <4>2. CASE r.id \notin synced[x]
        BY <3>1, <3>3, <3>4, <4>2 DEF TypeOK
      <4> QED
        BY <4>1, <4>2
    <3>6. ApplyingPublished'
      BY <2>3 DEF MarkSynced, PublishedInv, ApplyingPublished, BatchesOf, TypeOK, cloud
    <3> QED
      BY <3>5, <3>6 DEF PublishedInv
  <2> QED
    BY <1>2, <2>1, <2>2, <2>3 DEF Push
<1>3. ASSUME NEW e \in Engine, Pull(e) PROVE PublishedInv'
  <2>1. CASE ListPeers(e) \/ ListBatches(e) \/ SaveCursor(e) \/ EndCycle(e)
    <3>1. PublishedFrame
      BY <2>1 DEF ListPeers, ListBatches, SaveCursor, EndCycle, PublishedFrame, TypeOK,
                  disk, cloud, locals
    <3> QED
      BY <3>1, PublishedFrameStep
  <2>2. ASSUME NEW p \in Device, SkipPeer(e, p) \/ OpenPeer(e, p) PROVE PublishedInv'
    <3>1. PublishedFrame
      BY <2>2 DEF SkipPeer, OpenPeer, PublishedFrame, TypeOK, disk, cloud
    <3> QED
      BY <3>1, PublishedFrameStep
  <2>3. CASE FetchBatch(e)
    <3>1. SyncedIsPublished'
      BY <2>3 DEF FetchBatch, PublishedInv, SyncedIsPublished, BatchesOf, disk, cloud
    <3>2. ApplyingPublished'
      BY <2>3 DEF FetchBatch, PublishedInv, ApplyingPublished, BatchesOf, TypeOK, cloud
    <3> QED
      BY <3>1, <3>2 DEF PublishedInv
  <2>4. CASE ApplyEvent(e)
    <3> DEFINE d == DeviceOf[e]
    <3>1. PICK r \in rows[e] :
            /\ store' = [store EXCEPT ![d] = Inserted(@, r)]
            /\ synced' = [synced EXCEPT ![d] =
                            IF r.id \in Ids(store[d]) THEN @ ELSE @ \cup {r.id}]
            /\ rows' = [rows EXCEPT ![e] = @ \ {r}]
      BY <2>4 DEF ApplyEvent
    <3>2. pc[e] = "apply" /\ UNCHANGED <<bucket, peer>>
      BY <2>4 DEF ApplyEvent, cloud
    <3>3. PICK b \in BatchesOf(peer[e]) : rows[e] \subseteq b.rows
      BY <3>2 DEF PublishedInv, ApplyingPublished
    <3>4. r.dev = d => b \in BatchesOf(d)
      BY <3>3 DEF BatchesOf, RowsInv, OwnEventsOnly
    <3>5. SyncedIsPublished'
      <4>1. CASE r.id \in Ids(store[d])
        <5>1. UNCHANGED <<store, synced>>
          BY <3>1, <4>1 DEF Inserted, TypeOK
        <5> QED
          BY <3>2, <5>1 DEF PublishedInv, SyncedIsPublished, BatchesOf
      <4>2. CASE r.id \notin Ids(store[d])
        <5>1. /\ store' = [store EXCEPT ![d] = @ \cup {r}]
              /\ synced' = [synced EXCEPT ![d] = @ \cup {r.id}]
          BY <3>1, <4>2 DEF Inserted
        <5> SUFFICES ASSUME NEW x \in Device, NEW q \in store'[x], q.dev = x, q.id \in synced'[x]
                     PROVE  \E c \in BatchesOf(x) : q \in c.rows
          BY <3>2 DEF SyncedIsPublished, BatchesOf
        <5>2. CASE x = d /\ q = r
          BY <3>3, <3>4, <5>2
        <5>3. CASE q \in store[x]
          <6>1. q.id \in synced[x]
            BY <4>2, <5>1, <5>3 DEF TypeOK, Ids
          <6> QED
            BY <5>3, <6>1 DEF PublishedInv, SyncedIsPublished
        <5> QED
          BY <5>1, <5>2, <5>3 DEF TypeOK
      <4> QED
        BY <4>1, <4>2
    <3>6. \A f \in Engine : pc'[f] = "apply" => pc[f] = "apply" /\ rows'[f] \subseteq rows[f]
      <4>1. \A f \in Engine \ {e} : pc'[f] = pc[f]
        BY <2>4 DEF ApplyEvent, TypeOK
      <4> QED
        BY <3>1, <3>2, <4>1 DEF TypeOK
    <3>7. ApplyingPublished'
      BY <3>2, <3>6 DEF PublishedInv, ApplyingPublished, BatchesOf
    <3> QED
      BY <3>5, <3>7 DEF PublishedInv
  <2> QED
    BY <1>3, <2>1, <2>2, <2>3, <2>4 DEF Pull
<1>4. ASSUME NEW e \in Engine, Failure(e) PROVE PublishedInv'
  <2>1. PublishedFrame
    BY <1>4 DEF Failure, StopAtBatch, GiveUpPeer, Abort, PublishedFrame, TypeOK, disk, cloud
  <2> QED
    BY <2>1, PublishedFrameStep
<1>5. CASE UNCHANGED vars
  BY <1>5, PublishedFrameStep DEF PublishedFrame, vars, disk, cloud, locals
<1> QED
  BY <1>1, <1>2, <1>3, <1>4, <1>5 DEF Next

\* The queue never forgets an event nobody can read: marking comes after the
\* upload, and no later upload overwrites a batch.
THEOREM QueueKeepsUnpublished ==
  ASSUME OneEngine, GentleFaults
  PROVE  Spec => []SyncedIsPublished
<1>1. Init => PublishedInv
  BY DEF Init, PublishedInv, SyncedIsPublished, ApplyingPublished
<1>2. TypeOK /\ RowsInv /\ KeysInv /\ PublishedInv /\ [Next]_vars => PublishedInv'
  BY PublishedStep
<1>3. PublishedInv => SyncedIsPublished
  BY DEF PublishedInv
<1> QED
  BY <1>1, <1>2, <1>3, TypeCorrect, RowsAlways, KeysAlways, PTL DEF Spec

-----------------------------------------------------------------------------
(* Positions in a stream: the batches of a prefix, ranked by their keys.   *)

\* The least of some numbers exists.
LEMMA LeastNat ==
  ASSUME NEW T \in SUBSET Nat, T # {}
  PROVE  \E n \in T : \A m \in T : n <= m
<1>1. PICK x \in T : \A y \in T : ~(<<y, x>> \in OpToRel(<, Nat))
  BY NatLessThanWellFounded, WFMin, Zenon
<1>2. \A y \in T : ~(y < x)
  BY <1>1 DEF OpToRel
<1> QED
  BY <1>2

\* Finitely many batches with a key each, and one at every rank.
Ranked(B) ==
  /\ B \subseteq Batch
  /\ IsFiniteSet(B)
  /\ \A b, c \in B : b.key = c.key => b = c
  /\ \A n \in 1..Cardinality(B) : \E b \in B : Cardinality(Upto(B, b.key)) = n

LEMMA UptoType ==
  ASSUME NEW B, Ranked(B), NEW k
  PROVE  /\ IsFiniteSet(Upto(B, k))
         /\ Cardinality(Upto(B, k)) \in 0..Cardinality(B)
         /\ Cardinality(B) \in Nat
<1>1. Upto(B, k) \in SUBSET B
  BY DEF Upto
<1> QED
  BY <1>1, FS_Subset, FS_CardinalityType DEF Ranked

\* A position is at or past a batch exactly when it counts as many batches.
LEMMA RankOrder ==
  ASSUME NEW B, Ranked(B), NEW b \in B, NEW k \in Key
  PROVE  AtOrBefore(b.key, k) <=> Cardinality(Upto(B, b.key)) <= Cardinality(Upto(B, k))
<1>0. b.key \in Key /\ \A c \in B : c.key \in Key
  BY DEF Ranked, Batch
<1>1. ASSUME AtOrBefore(b.key, k)
      PROVE  Cardinality(Upto(B, b.key)) <= Cardinality(Upto(B, k))
  <2>1. Upto(B, b.key) \in SUBSET Upto(B, k)
    BY <1>0, <1>1, KeyTransitive DEF Upto
  <2> QED
    BY <2>1, UptoType, FS_Subset
<1>2. ASSUME ~AtOrBefore(b.key, k)
      PROVE  Cardinality(Upto(B, k)) < Cardinality(Upto(B, b.key))
  <2>1. Before(k, b.key)
    BY <1>0, <1>2, KeyOrder
  <2>2. Upto(B, k) \in SUBSET Upto(B, b.key)
    BY <1>0, <2>1, KeyTransitive DEF Upto, AtOrBefore
  <2>3. b \in Upto(B, b.key) /\ b \notin Upto(B, k)
    BY <1>2 DEF Upto, AtOrBefore
  <2>4. Cardinality(Upto(B, k)) # Cardinality(Upto(B, b.key))
    BY <2>2, <2>3, UptoType, FS_Subset
  <2>5. Cardinality(Upto(B, k)) <= Cardinality(Upto(B, b.key))
    BY <2>2, UptoType, FS_Subset
  <2>6. Cardinality(Upto(B, k)) \in Nat /\ Cardinality(Upto(B, b.key)) \in Nat
    BY UptoType
  <2> QED
    BY <2>4, <2>5, <2>6
<1>3. Cardinality(Upto(B, k)) \in Nat /\ Cardinality(Upto(B, b.key)) \in Nat
  BY UptoType
<1> QED
  BY <1>1, <1>2, <1>3

\* Nth finds the one batch of a rank, and every batch has a rank.
LEMMA NthBatch ==
  ASSUME NEW B, Ranked(B)
  PROVE  /\ \A n \in 1..Cardinality(B) :
              Nth(B, n) \in B /\ Cardinality(Upto(B, Nth(B, n).key)) = n
         /\ \A b \in B : /\ Cardinality(Upto(B, b.key)) \in 1..Cardinality(B)
                         /\ Nth(B, Cardinality(Upto(B, b.key))) = b
<1>1. ASSUME NEW n \in 1..Cardinality(B)
      PROVE  Nth(B, n) \in B /\ Cardinality(Upto(B, Nth(B, n).key)) = n
  BY DEF Ranked, Nth
<1>2. ASSUME NEW b \in B
      PROVE  /\ Cardinality(Upto(B, b.key)) \in 1..Cardinality(B)
             /\ Nth(B, Cardinality(Upto(B, b.key))) = b
  <2> DEFINE n == Cardinality(Upto(B, b.key))
  <2>1. b \in Upto(B, b.key)
    BY DEF Upto, AtOrBefore
  <2>2. n # 0
    BY <2>1, UptoType, FS_EmptySet
  <2>3. n \in 1..Cardinality(B)
    BY <2>2, UptoType
  <2>4. Nth(B, n) \in B /\ Cardinality(Upto(B, Nth(B, n).key)) = n
    BY <1>1, <2>3
  <2> DEFINE c == Nth(B, n)
  <2> HIDE DEF c
  <2>5. c \in B /\ Cardinality(Upto(B, c.key)) = n /\ b.key \in Key /\ c.key \in Key
    BY <2>4 DEF c, Ranked, Batch
  <2>6. AtOrBefore(b.key, c.key) /\ AtOrBefore(c.key, b.key)
    BY <2>3, <2>5, RankOrder
  <2>7. c = b
    BY <2>5, <2>6, KeyOrder DEF Ranked
  <2> QED
    BY <2>3, <2>7 DEF c
<1> QED
  BY <1>1, <1>2

LEMMA StreamIsSeq ==
  ASSUME NEW B, Ranked(B)
  PROVE  /\ StreamOf(B) \in Seq(SUBSET Event)
         /\ Len(StreamOf(B)) = Cardinality(B)
         /\ \A n \in 1..Cardinality(B) : StreamOf(B)[n] = Ids(Nth(B, n).rows)
<1>1. Cardinality(B) \in Nat
  BY UptoType
<1>2. \A n \in 1..Cardinality(B) : Ids(Nth(B, n).rows) \in SUBSET Event
  BY NthBatch DEF Ranked, Batch, Row, Ids
<1>3. StreamOf(B) \in [1..Cardinality(B) -> SUBSET Event]
  BY <1>2 DEF StreamOf
<1>4. StreamOf(B) \in Seq(SUBSET Event)
  BY <1>1, <1>3, SeqDef
<1> QED
  BY <1>1, <1>3, <1>4, LenProperties DEF StreamOf

\* A batch above all others goes to the end of the stream.
LEMMA LastBatch ==
  ASSUME NEW B, Ranked(B), NEW x \in Batch,
         \A b \in B : Before(b.key, x.key)
  PROVE  /\ Ranked(B \cup {x})
         /\ \A k \in Key : Before(k, x.key) => Upto(B \cup {x}, k) = Upto(B, k)
         /\ StreamOf(B \cup {x}) = Append(StreamOf(B), Ids(x.rows))
<1> DEFINE C == B \cup {x}
           N == Cardinality(B)
<1>0. x.key \in Key /\ \A b \in B : b.key \in Key
  BY DEF Ranked, Batch
<1>1. x \notin B /\ \A b \in B : b.key # x.key
  BY <1>0, KeyOrder DEF AtOrBefore
<1>2. IsFiniteSet(C) /\ Cardinality(C) = N + 1 /\ N \in Nat
  BY <1>1, FS_AddElement, UptoType DEF Ranked
<1>3. ASSUME NEW k \in Key, Before(k, x.key) PROVE Upto(C, k) = Upto(B, k)
  <2>1. ~AtOrBefore(x.key, k)
    BY <1>0, <1>3, KeyOrder
  <2> QED
    BY <2>1 DEF Upto
<1>4. Upto(C, x.key) = C
  BY DEF Upto, AtOrBefore
<1>5. Ranked(C)
  <2>1. C \subseteq Batch /\ \A b, c \in C : b.key = c.key => b = c
    BY <1>1 DEF Ranked
  <2>2. ASSUME NEW n \in 1..Cardinality(C)
        PROVE  \E b \in C : Cardinality(Upto(C, b.key)) = n
    <3>1. CASE n = N + 1
      BY <1>2, <1>4, <3>1
    <3>2. CASE n # N + 1
      <4>1. n \in 1..N
        BY <1>2, <3>2
      <4>2. PICK b \in B : Cardinality(Upto(B, b.key)) = n
        BY <4>1 DEF Ranked
      <4> QED
        BY <1>0, <1>3, <4>2
    <3> QED
      BY <3>1, <3>2
  <2> QED
    BY <1>2, <2>1, <2>2 DEF Ranked
<1>6. Nth(C, N + 1) = x
  <2>1. \A b \in C : Nth(C, Cardinality(Upto(C, b.key))) = b
    BY <1>5, NthBatch
  <2> QED
    BY <1>2, <1>4, <2>1
<1>7. ASSUME NEW n \in 1..N PROVE Nth(C, n) = Nth(B, n)
  <2>1. Nth(B, n) \in B /\ Cardinality(Upto(B, Nth(B, n).key)) = n
    BY NthBatch
  <2>2. Cardinality(Upto(C, Nth(B, n).key)) = n
    BY <1>0, <1>3, <2>1
  <2> QED
    BY <1>5, <2>1, <2>2, NthBatch
<1>8. StreamOf(C) = Append(StreamOf(B), Ids(x.rows))
  <2> DEFINE s == StreamOf(C)
             t == Append(StreamOf(B), Ids(x.rows))
  <2>1. Ids(x.rows) \in SUBSET Event
    BY DEF Batch, Row, Ids
  <2>2. /\ t \in Seq(SUBSET Event) /\ Len(t) = N + 1
        /\ \A n \in 1..N : t[n] = StreamOf(B)[n]
        /\ t[N + 1] = Ids(x.rows)
    BY <2>1, StreamIsSeq, AppendProperties
  <2>3. /\ s \in Seq(SUBSET Event) /\ Len(s) = N + 1
        /\ \A n \in 1..N + 1 : s[n] = Ids(Nth(C, n).rows)
    BY <1>2, <1>5, StreamIsSeq
  <2>4. \A n \in 1..N + 1 : n \in 1..N \/ n = N + 1
    BY <1>2
  <2>5. \A n \in 1..N + 1 : s[n] = t[n]
    BY <1>6, <1>7, <2>2, <2>3, <2>4, StreamIsSeq
  <2> HIDE DEF s, t
  <2>6. s = t
    BY <2>2, <2>3, <2>5, SeqEqual
  <2> QED
    BY <2>6 DEF s, t
<1> QED
  BY <1>3, <1>5, <1>8

-----------------------------------------------------------------------------
(* What the mapping to streams needs of a state. *)

PrefixesRanked == \A p \in Device : Ranked(BatchesOf(p))

\* An upload is never empty.
UploadNotEmpty == \A e \in Engine : pc[e] \in {"name", "put"} => rows[e] # {}

\* Rows being applied are rows of the batch in hand.
ApplyingBatch ==
  \A e \in Engine : pc[e] = "apply" =>
    \E b \in BatchesOf(peer[e]) : b.key = key[e] /\ rows[e] \subseteq b.rows

\* A position is at or past the cursor it started from.
CursorBehind ==
  \A e \in Engine : pc[e] \in InPeer =>
    AtOrBefore(cursor[DeviceOf[e]][peer[e]], pos[e])

StreamsInv == PrefixesRanked /\ UploadNotEmpty /\ ApplyingBatch /\ CursorBehind

\* A step that does not write or read a stream.
StreamsFrame ==
  /\ UNCHANGED <<bucket, cursor>>
  /\ \A f \in Engine :
       /\ pc'[f] \in {"name", "put"} => pc[f] \in {"name", "put"} /\ rows'[f] = rows[f]
       /\ pc'[f] = "apply" =>
            pc[f] = "apply" /\ UNCHANGED <<peer[f], key[f], rows[f]>>
       /\ pc'[f] \in InPeer => pc[f] \in InPeer /\ UNCHANGED <<peer[f], pos[f]>>

LEMMA StreamsFrameStep == StreamsInv /\ StreamsFrame => StreamsInv'
<1> SUFFICES ASSUME StreamsInv, StreamsFrame PROVE StreamsInv'
  OBVIOUS
<1> USE DEF StreamsInv, StreamsFrame
<1>1. \A p : BatchesOf(p)' = BatchesOf(p)
  BY DEF BatchesOf
<1>2. PrefixesRanked'
  BY <1>1 DEF PrefixesRanked
<1>3. UploadNotEmpty' /\ ApplyingBatch'
  BY <1>1 DEF UploadNotEmpty, ApplyingBatch
<1>4. CursorBehind'
  BY DEF CursorBehind
<1> QED
  BY <1>2, <1>3, <1>4

\* The oldest rows of a queue that is not empty are not none.
LEMMA OldestNotEmpty ==
  ASSUME NEW R \in SUBSET Row, R # {}
  PROVE  Oldest(R, MaxEventsPerBatch) # {}
<1>1. Ids(R) \in SUBSET Nat /\ Ids(R) # {}
  BY SyncConstants DEF Ids, Row
<1>2. PICK n \in Ids(R) : \A m \in Ids(R) : n <= m
  BY <1>1, LeastNat
<1>3. PICK r \in R : r.id = n
  BY <1>2 DEF Ids
<1>4. {q \in R : q.id < r.id} = {}
  BY <1>1, <1>2, <1>3 DEF Ids
<1>5. Cardinality({q \in R : q.id < r.id}) = 0
  BY <1>4, FS_EmptySet
<1>6. Cardinality({q \in R : q.id < r.id}) < MaxEventsPerBatch
  BY <1>5, SyncConstants
<1> QED
  BY <1>6 DEF Oldest


\* What an upload does to the streams: its own gains a batch above all others.
LEMMA PutBatchAddsLast ==
  ASSUME TypeOK, KeysInv, NEW e \in Engine, PutBatch(e)
  PROVE  LET d == DeviceOf[e]
             new == [dev |-> d, key |-> key[e], rows |-> rows[e]]
         IN  /\ new \in Batch
             /\ \A b \in BatchesOf(d) : Before(b.key, new.key)
             /\ BatchesOf(d)' = BatchesOf(d) \cup {new}
             /\ \A p \in Device \ {d} : BatchesOf(p)' = BatchesOf(p)
<1> DEFINE d == DeviceOf[e]
           new == [dev |-> d, key |-> key[e], rows |-> rows[e]]
<1> USE DeviceOfType
<1>1. new \in Batch /\ new.dev = d /\ new.key = key[e]
  BY DEF TypeOK, Batch
<1>2. \A b \in BatchesOf(d) : b.key.ts < key[e].ts
  BY DEF PutBatch, KeysInv, UploadKey
<1>3. key[e].ts \in Nat
  BY KeyFields DEF TypeOK
<1>4. bucket' = bucket \cup {new}
  BY <1>2, <1>3 DEF PutBatch, Put, BatchesOf
<1> HIDE DEF new
<1>5. BatchesOf(d)' = BatchesOf(d) \cup {new}
  BY <1>1, <1>4 DEF BatchesOf
<1>6. \A p \in Device \ {d} : BatchesOf(p)' = BatchesOf(p)
  BY <1>1, <1>4 DEF BatchesOf
<1> QED
  BY <1>1, <1>2, <1>5, <1>6 DEF new, Before

LEMMA StreamsStep ==
  ASSUME OneEngine, TypeOK, KeysInv, ReadInv, StreamsInv, [Next]_vars
  PROVE  StreamsInv'
<1> USE DeviceOfType
<1>1. ASSUME NEW d \in Device, NEW id \in Event, AppendEvent(d, id) PROVE StreamsInv'
  <2>1. StreamsFrame
    BY <1>1 DEF AppendEvent, StreamsFrame, cloud, locals
  <2> QED
    BY <2>1, StreamsFrameStep
<1>2. ASSUME NEW e \in Engine, Push(e) PROVE StreamsInv'
  <2>1. CASE ReadQueue(e)
    <3>1. Unsynced(DeviceOf[e]) \in SUBSET Row /\ Unsynced(DeviceOf[e]) # {}
      BY <2>1 DEF ReadQueue, Unsynced, TypeOK
    <3>2. rows'[e] # {}
      BY <2>1, <3>1, OldestNotEmpty DEF ReadQueue, TypeOK
    <3>3. /\ UNCHANGED <<bucket, cursor, peer, key, pos>>
          /\ \A f \in Engine \ {e} : pc'[f] = pc[f] /\ rows'[f] = rows[f]
          /\ pc'[e] = "name"
      BY <2>1 DEF ReadQueue, TypeOK, disk, cloud
    <3>4. PrefixesRanked' /\ ApplyingBatch' /\ CursorBehind'
      BY <3>3 DEF StreamsInv, PrefixesRanked, ApplyingBatch, CursorBehind, BatchesOf, InPeer
    <3>5. UploadNotEmpty'
      BY <3>2, <3>3 DEF StreamsInv, UploadNotEmpty
    <3> QED
      BY <3>4, <3>5 DEF StreamsInv
  <2>2. CASE QueueEmpty(e) \/ NameBatch(e) \/ PutManifest(e) \/ MarkSynced(e)
    <3>1. StreamsFrame
      BY <2>2 DEF QueueEmpty, NameBatch, PutManifest, MarkSynced, StreamsFrame, InPeer,
                  TypeOK, disk, cloud, locals
    <3> QED
      BY <3>1, StreamsFrameStep
  <2>3. CASE PutBatch(e)
    <3> DEFINE d == DeviceOf[e]
               new == [dev |-> d, key |-> key[e], rows |-> rows[e]]
    <3>1. /\ new \in Batch
          /\ \A b \in BatchesOf(d) : Before(b.key, new.key)
          /\ BatchesOf(d)' = BatchesOf(d) \cup {new}
          /\ \A p \in Device \ {d} : BatchesOf(p)' = BatchesOf(p)
      BY <2>3, PutBatchAddsLast
    <3>2. /\ UNCHANGED <<cursor, rows, peer, key, pos>>
          /\ \A f \in Engine \ {e} : pc'[f] = pc[f]
          /\ pc'[e] = "publish"
      BY <2>3 DEF PutBatch, TypeOK, disk, locals
    <3> HIDE DEF new
    <3>3. Ranked(BatchesOf(d) \cup {new})
      BY <3>1, LastBatch DEF StreamsInv, PrefixesRanked
    <3>4. PrefixesRanked'
      BY <3>1, <3>3 DEF StreamsInv, PrefixesRanked
    <3>5. UploadNotEmpty' /\ CursorBehind'
      BY <3>2 DEF StreamsInv, UploadNotEmpty, CursorBehind, InPeer
    <3>6. \A p \in Device : BatchesOf(p) \subseteq BatchesOf(p)'
      BY <3>1
    <3>7. ApplyingBatch'
      BY <3>2, <3>6 DEF StreamsInv, ApplyingBatch, TypeOK
    <3> QED
      BY <3>4, <3>5, <3>7 DEF StreamsInv
  <2> QED
    BY <1>2, <2>1, <2>2, <2>3 DEF Push
<1>3. ASSUME NEW e \in Engine, Pull(e) PROVE StreamsInv'
  <2>1. CASE ListPeers(e) \/ ListBatches(e) \/ EndCycle(e)
    <3>1. StreamsFrame
      BY <2>1 DEF ListPeers, ListBatches, EndCycle, StreamsFrame, InPeer, TypeOK,
                  disk, cloud, locals
    <3> QED
      BY <3>1, StreamsFrameStep
  <2>2. ASSUME NEW p \in Device, SkipPeer(e, p) PROVE StreamsInv'
    <3>1. StreamsFrame
      BY <2>2 DEF SkipPeer, StreamsFrame, disk, cloud
    <3> QED
      BY <3>1, StreamsFrameStep
  <2>3. ASSUME NEW p \in Device, OpenPeer(e, p) PROVE StreamsInv'
    <3>1. /\ UNCHANGED <<bucket, cursor, rows, key>>
          /\ \A f \in Engine \ {e} : pc'[f] = pc[f] /\ peer'[f] = peer[f] /\ pos'[f] = pos[f]
          /\ pc'[e] = "list" /\ peer'[e] = p /\ pos'[e] = cursor[DeviceOf[e]][p]
      BY <2>3 DEF OpenPeer, TypeOK, disk, cloud
    <3>2. PrefixesRanked' /\ UploadNotEmpty' /\ ApplyingBatch'
      BY <3>1 DEF StreamsInv, PrefixesRanked, UploadNotEmpty, ApplyingBatch, BatchesOf
    <3>3. CursorBehind'
      BY <3>1 DEF StreamsInv, CursorBehind, InPeer, AtOrBefore
    <3> QED
      BY <3>2, <3>3 DEF StreamsInv
  <2>4. CASE FetchBatch(e)
    <3>1. PICK b \in BatchesOf(peer[e]) :
            key' = [key EXCEPT ![e] = b.key] /\ rows' = [rows EXCEPT ![e] = b.rows]
      BY <2>4 DEF FetchBatch
    <3>2. /\ UNCHANGED <<bucket, cursor, peer, pos>>
          /\ \A f \in Engine \ {e} : pc'[f] = pc[f] /\ key'[f] = key[f] /\ rows'[f] = rows[f]
          /\ pc[e] = "fetch" /\ pc'[e] = "apply" /\ key'[e] = b.key /\ rows'[e] = b.rows
      BY <2>4, <3>1 DEF FetchBatch, TypeOK, disk, cloud
    <3>3. PrefixesRanked' /\ UploadNotEmpty'
      BY <3>2 DEF StreamsInv, PrefixesRanked, UploadNotEmpty, BatchesOf
    <3>4. ApplyingBatch' /\ CursorBehind'
      BY <3>2 DEF StreamsInv, ApplyingBatch, CursorBehind, BatchesOf, InPeer
    <3> QED
      BY <3>3, <3>4 DEF StreamsInv
  <2>5. CASE ApplyEvent(e)
    <3>1. PICK r \in rows[e] :
            /\ rows' = [rows EXCEPT ![e] = @ \ {r}]
            /\ \/ /\ pos' = [pos EXCEPT ![e] = key[e]]
                  /\ key' = [key EXCEPT ![e] = NoKey]
                  /\ pc' = [pc EXCEPT ![e] = "fetch"]
               \/ UNCHANGED <<pos, key, pc>>
      BY <2>5 DEF ApplyEvent
    <3>2. pc[e] = "apply" /\ UNCHANGED <<bucket, cursor, peer>>
      BY <2>5 DEF ApplyEvent, cloud
    <3>3. PrefixesRanked'
      BY <3>2 DEF StreamsInv, PrefixesRanked, BatchesOf
    <3>4. /\ \A f \in Engine \ {e} :
               pc'[f] = pc[f] /\ key'[f] = key[f] /\ rows'[f] = rows[f] /\ pos'[f] = pos[f]
          /\ rows'[e] \subseteq rows[e]
          /\ \/ pc'[e] = "fetch" /\ pos'[e] = key[e]
             \/ pc'[e] = "apply" /\ pos'[e] = pos[e] /\ key'[e] = key[e]
      BY <3>1, <3>2 DEF TypeOK
    <3>5. UploadNotEmpty'
      BY <3>4 DEF StreamsInv, UploadNotEmpty
    <3>6. ApplyingBatch'
      BY <3>2, <3>4 DEF StreamsInv, ApplyingBatch, BatchesOf
    <3>7. AtOrBefore(cursor[DeviceOf[e]][peer[e]], key[e])
      <4>1. Before(pos[e], key[e])
        BY <3>2 DEF ReadInv, ListingComplete, ApplyingFirst
      <4>2. AtOrBefore(cursor[DeviceOf[e]][peer[e]], pos[e])
        BY <3>2 DEF StreamsInv, CursorBehind, InPeer
      <4>3. cursor[DeviceOf[e]][peer[e]] \in Key /\ pos[e] \in Key /\ key[e] \in Key
        BY DEF TypeOK
      <4> QED
        BY <4>1, <4>2, <4>3, KeyTransitive DEF AtOrBefore
    <3>8. CursorBehind'
      BY <3>2, <3>4, <3>7 DEF StreamsInv, CursorBehind, InPeer
    <3> QED
      BY <3>3, <3>5, <3>6, <3>8 DEF StreamsInv
  <2>6. CASE SaveCursor(e)
    <3>1. /\ UNCHANGED <<bucket, rows, key>>
          /\ \A f \in Engine \ {e} : pc'[f] = pc[f] /\ peer'[f] = peer[f] /\ pos'[f] = pos[f]
          /\ pc'[e] = "pull"
          /\ \A x \in Device \ {DeviceOf[e]} : cursor'[x] = cursor[x]
      BY <2>6 DEF SaveCursor, TypeOK, cloud
    <3>2. \A f \in Engine \ {e} : DeviceOf[f] # DeviceOf[e]
      BY DEF OneEngine
    <3>3. PrefixesRanked' /\ UploadNotEmpty' /\ ApplyingBatch'
      BY <3>1 DEF StreamsInv, PrefixesRanked, UploadNotEmpty, ApplyingBatch, BatchesOf
    <3>4. CursorBehind'
      BY <3>1, <3>2 DEF StreamsInv, CursorBehind, InPeer
    <3> QED
      BY <3>3, <3>4 DEF StreamsInv
  <2> QED
    BY <1>3, <2>1, <2>2, <2>3, <2>4, <2>5, <2>6 DEF Pull
<1>4. ASSUME NEW e \in Engine, Failure(e) PROVE StreamsInv'
  <2>1. StreamsFrame
    BY <1>4 DEF Failure, StopAtBatch, GiveUpPeer, Abort, StreamsFrame, InPeer, TypeOK,
                disk, cloud
  <2> QED
    BY <2>1, StreamsFrameStep
<1>5. CASE UNCHANGED vars
  BY <1>5, StreamsFrameStep DEF StreamsFrame, vars, disk, cloud, locals
<1> QED
  BY <1>1, <1>2, <1>3, <1>4, <1>5 DEF Next

LEMMA StreamsAlways ==
  ASSUME OneEngine, GentleFaults
  PROVE  Spec => []StreamsInv
<1>1. Init => StreamsInv
  <2> SUFFICES ASSUME Init PROVE StreamsInv
    OBVIOUS
  <2>1. Ranked({})
    BY FS_EmptySet DEF Ranked
  <2>2. \A p \in Device : BatchesOf(p) = {}
    BY DEF Init, BatchesOf
  <2>3. PrefixesRanked
    BY <2>1, <2>2 DEF PrefixesRanked
  <2> QED
    BY <2>3 DEF Init, StreamsInv, UploadNotEmpty, ApplyingBatch, CursorBehind, InPeer
<1>2. TypeOK /\ KeysInv /\ ReadInv /\ StreamsInv /\ [Next]_vars => StreamsInv'
  BY StreamsStep
<1> QED
  BY <1>1, <1>2, TypeCorrect, KeysAlways, ReadAlways, PTL DEF Spec

-----------------------------------------------------------------------------
(* The refinement, step by step. *)

\* A step that moves no event, batch or cursor is none of PeerStreams'.
LEMMA StreamsStutter ==
  ASSUME UNCHANGED <<store, bucket, cursor>>
  PROVE  UNCHANGED Streams!svars
  BY DEF Streams!svars, BatchesOf

LEMMA StreamsInit == Init => Streams!Init
<1> SUFFICES ASSUME Init PROVE Streams!Init
  OBVIOUS
<1>1. \A p \in Device : BatchesOf(p) = {}
  BY DEF Init, BatchesOf
<1>2. StreamOf({}) = <<>>
  BY FS_EmptySet DEF StreamOf
<1>3. \A k : Upto({}, k) = {}
  BY DEF Upto
<1>4. [d \in Device |-> Ids(store[d])] = [d \in Device |-> {}]
  BY DEF Init, Ids
<1>5. [p \in Device |-> StreamOf(BatchesOf(p))] = [d \in Device |-> <<>>]
  BY <1>1, <1>2
<1>6. \A d, p \in Device : Cardinality(Upto(BatchesOf(p), cursor[d][p])) = 0
  BY <1>1, <1>3, FS_EmptySet
<1> QED
  BY <1>4, <1>5, <1>6 DEF Streams!Init

LEMMA IdsOfOneMore ==
  ASSUME NEW R, NEW r
  PROVE  Ids(R \cup {r}) = Ids(R) \cup {r.id}
  BY DEF Ids

\* Recording an event is Record.
LEMMA AppendRecords ==
  ASSUME TypeOK, NEW d \in Device, NEW id \in Event, AppendEvent(d, id)
  PROVE  Streams!Record(d, id)
<1> DEFINE have == [x \in Device |-> Ids(store[x])]
<1>1. store' = [store EXCEPT ![d] = @ \cup {[id |-> id, dev |-> d]}]
  BY DEF AppendEvent
<1>2. \A x \in Device : Ids(store'[x]) = IF x = d THEN Ids(store[x]) \cup {id} ELSE Ids(store[x])
  <2>1. store'[d] = store[d] \cup {[id |-> id, dev |-> d]}
        /\ \A x \in Device \ {d} : store'[x] = store[x]
    BY <1>1 DEF TypeOK
  <2>2. Ids(store'[d]) = Ids(store[d]) \cup {[id |-> id, dev |-> d].id}
    BY <2>1, IdsOfOneMore, Zenon
  <2> QED
    BY <2>1, <2>2
<1>3. have' = [have EXCEPT ![d] = @ \cup {id}]
  BY <1>2
<1>4. id \notin have[d]
  BY DEF AppendEvent
<1>5. UNCHANGED <<bucket, cursor>>
  BY DEF AppendEvent, cloud
<1> QED
  BY <1>3, <1>4, <1>5 DEF Streams!Record, BatchesOf

\* Putting a batch is Publish: it goes to the end of its device's stream, and
\* its events are the device's own.
LEMMA PutPublishes ==
  ASSUME TypeOK, RowsInv, KeysInv, ReadInv, StreamsInv, NEW e \in Engine, PutBatch(e)
  PROVE  Streams!Publish(DeviceOf[e])
<1> DEFINE d == DeviceOf[e]
           new == [dev |-> d, key |-> key[e], rows |-> rows[e]]
           ids == Ids(rows[e])
           stream == [p \in Device |-> StreamOf(BatchesOf(p))]
           read == [x \in Device |-> [p \in Device |->
                      Cardinality(Upto(BatchesOf(p), cursor[x][p]))]]
<1> USE DeviceOfType
<1>1. /\ new \in Batch
      /\ \A b \in BatchesOf(d) : Before(b.key, new.key)
      /\ BatchesOf(d)' = BatchesOf(d) \cup {new}
      /\ \A p \in Device \ {d} : BatchesOf(p)' = BatchesOf(p)
  BY PutBatchAddsLast
<1>2. new.key = key[e] /\ new.rows = rows[e] /\ UNCHANGED <<store, cursor>>
  BY DEF PutBatch, disk
<1>3. ids \in (SUBSET Ids(store[d])) \ {{}}
  <2>1. rows[e] # {} /\ \A r \in rows[e] : r \in store[d]
    BY DEF PutBatch, RowsInv, InHand, InPush, StreamsInv, UploadNotEmpty
  <2> QED
    BY <2>1 DEF Ids
<1> HIDE DEF new
<1>4. Ranked(BatchesOf(d))
  BY DEF StreamsInv, PrefixesRanked
<1>5. stream' = [stream EXCEPT ![d] = Append(@, ids)]
  <2>1. StreamOf(BatchesOf(d) \cup {new}) = Append(StreamOf(BatchesOf(d)), ids)
    BY <1>1, <1>2, <1>4, LastBatch
  <2> QED
    BY <1>1, <2>1
<1>6. read' = read
  <2> SUFFICES ASSUME NEW x \in Device, NEW p \in Device
               PROVE  Upto(BatchesOf(p), cursor[x][p])' = Upto(BatchesOf(p), cursor[x][p])
    BY <1>2
  <2>1. CASE p # d
    BY <1>1, <1>2, <2>1 DEF Upto
  <2>2. CASE p = d
    <3>1. cursor[x][d] \in Key
      BY DEF TypeOK
    <3>2. Before(cursor[x][d], new.key)
      <4>1. cursor[x][d] = NoKey \/ \E b \in BatchesOf(d) : b.key = cursor[x][d]
        BY DEF ReadInv, CursorsRead, Read
      <4>2. Before(NoKey, new.key)
        <5>1. key[e].ts >= 1 /\ key[e].ts \in Nat
          BY KeyFields DEF PutBatch, KeysInv, UploadKey, TypeOK
        <5> QED
          BY <1>2, <5>1, NoKeyIsKey DEF Before
      <4> QED
        BY <1>1, <4>1, <4>2
    <3>3. Upto(BatchesOf(d) \cup {new}, cursor[x][d]) = Upto(BatchesOf(d), cursor[x][d])
      BY <1>1, <1>4, <3>1, <3>2, LastBatch
    <3> QED
      BY <1>1, <1>2, <2>2, <3>3 DEF Upto
  <2> QED
    BY <2>1, <2>2
<1> QED
  BY <1>2, <1>3, <1>5, <1>6 DEF Streams!Publish

\* Applying a row is Receive, out of the batch in hand, which the cursor has
\* not passed; a row already held changes nothing.
LEMMA ApplyReceives ==
  ASSUME TypeOK, ReadInv, StreamsInv, NEW e \in Engine, ApplyEvent(e)
  PROVE  \/ UNCHANGED Streams!svars
         \/ \E id \in Event : Streams!Receive(DeviceOf[e], peer[e], id)
<1> DEFINE d == DeviceOf[e]
           p == peer[e]
           B == BatchesOf(p)
           have == [x \in Device |-> Ids(store[x])]
<1> USE DeviceOfType
<1>1. PICK r \in rows[e] : store' = [store EXCEPT ![d] = Inserted(@, r)]
  BY DEF ApplyEvent
<1>2. pc[e] = "apply" /\ UNCHANGED <<bucket, cursor>> /\ p \in Device
  BY DEF ApplyEvent, cloud, TypeOK
<1>3. CASE r.id \in Ids(store[d])
  <2>1. UNCHANGED <<store, bucket, cursor>>
    BY <1>1, <1>2, <1>3 DEF Inserted, TypeOK
  <2> QED
    BY <2>1, StreamsStutter
<1>4. CASE r.id \notin Ids(store[d])
  <2>1. store' = [store EXCEPT ![d] = @ \cup {r}]
    BY <1>1, <1>4 DEF Inserted
  <2>2. have' = [have EXCEPT ![d] = @ \cup {r.id}]
    <3>1. store'[d] = store[d] \cup {r} /\ \A x \in Device \ {d} : store'[x] = store[x]
      BY <2>1 DEF TypeOK
    <3>2. Ids(store'[d]) = Ids(store[d]) \cup {r.id}
      BY <3>1, IdsOfOneMore
    <3> QED
      BY <3>1, <3>2
  <2>3. r.id \in Event
    BY DEF TypeOK, Row
  <2>4. PICK b \in B : b.key = key[e] /\ r \in b.rows
    BY <1>2 DEF StreamsInv, ApplyingBatch
  <2> DEFINE n == Cardinality(Upto(B, b.key))
             m == Cardinality(Upto(B, cursor[d][p]))
  <2>5. Ranked(B) /\ cursor[d][p] \in Key /\ pos[e] \in Key /\ key[e] \in Key
    BY <1>2 DEF StreamsInv, PrefixesRanked, TypeOK
  <2>6. ~AtOrBefore(b.key, cursor[d][p])
    <3>1. Before(pos[e], key[e])
      BY <1>2 DEF ReadInv, ListingComplete, ApplyingFirst
    <3>2. AtOrBefore(cursor[d][p], pos[e])
      BY <1>2 DEF StreamsInv, CursorBehind, InPeer
    <3>3. Before(cursor[d][p], b.key)
      BY <2>4, <2>5, <3>1, <3>2, KeyTransitive DEF AtOrBefore
    <3> QED
      BY <2>4, <2>5, <3>3, KeyOrder
  <2>7. m < n
    <3>1. ~(n <= m)
      BY <2>5, <2>6, RankOrder
    <3>2. m \in Nat /\ n \in Nat
      BY <2>5, UptoType
    <3> QED
      BY <3>1, <3>2
  <2>8. /\ n \in 1..Cardinality(B) /\ Nth(B, n) = b /\ m \in Nat
        /\ Len(StreamOf(B)) = Cardinality(B) /\ Cardinality(B) \in Nat
        /\ \A i \in 1..Cardinality(B) : StreamOf(B)[i] = Ids(Nth(B, i).rows)
    BY <2>5, NthBatch, UptoType, StreamIsSeq
  <2> HIDE DEF n, m
  <2>9. r.id \in StreamOf(B)[n] /\ n \in m + 1 .. Len(StreamOf(B))
    <3> HIDE DEF B
    <3> QED
      BY <2>4, <2>7, <2>8 DEF Ids
  <2>10. \E i \in Cardinality(Upto(BatchesOf(p), cursor[d][p])) + 1 .. Len(StreamOf(BatchesOf(p))) :
           r.id \in StreamOf(BatchesOf(p))[i]
    BY <2>9 DEF m
  <2>11. UNCHANGED <<[q \in Device |-> StreamOf(BatchesOf(q))],
                     [x \in Device |-> [q \in Device |->
                        Cardinality(Upto(BatchesOf(q), cursor[x][q]))]]>>
    BY <1>2 DEF BatchesOf
  <2>12. Streams!Receive(d, p, r.id)
    BY <1>2, <2>2, <2>10, <2>11 DEF Streams!Receive
  <2> QED
    BY <2>3, <2>12
<1> QED
  BY <1>3, <1>4

\* Saving a cursor is Advance, up to a batch all of whose predecessors are
\* held, unless nothing was read.
LEMMA SaveAdvances ==
  ASSUME TypeOK, ReadInv, StreamsInv, NEW e \in Engine, SaveCursor(e)
  PROVE  \/ UNCHANGED Streams!svars
         \/ Streams!Advance(DeviceOf[e], peer[e])
<1> DEFINE d == DeviceOf[e]
           p == peer[e]
           B == BatchesOf(p)
           n == Cardinality(Upto(B, pos[e]))
           m == Cardinality(Upto(B, cursor[d][p]))
           read == [x \in Device |-> [q \in Device |->
                      Cardinality(Upto(BatchesOf(q), cursor[x][q]))]]
<1> USE DeviceOfType
<1>1. /\ cursor' = [cursor EXCEPT ![d][p] = pos[e]] /\ UNCHANGED <<store, bucket>>
      /\ pc[e] = "fetch" /\ p \in Device
  BY DEF SaveCursor, cloud, TypeOK
<1>2. Read(d, p, pos[e]) /\ AtOrBefore(cursor[d][p], pos[e])
  BY <1>1 DEF ReadInv, PositionsRead, StreamsInv, CursorBehind, InPeer
<1>3. Ranked(B) /\ cursor[d][p] \in Key /\ pos[e] \in Key
  BY <1>1 DEF StreamsInv, PrefixesRanked, TypeOK
<1>4. CASE pos[e] = cursor[d][p]
  <2>1. cursor' = cursor
    BY <1>1, <1>4 DEF TypeOK
  <2> QED
    BY <1>1, <2>1, StreamsStutter
<1>5. CASE pos[e] # cursor[d][p]
  <2>1. Before(cursor[d][p], pos[e])
    BY <1>2, <1>5 DEF AtOrBefore
  <2>2. PICK b \in B : b.key = pos[e]
    <3>1. pos[e] # NoKey
      BY <1>3, <2>1 DEF Before, Key, NoKey
    <3> QED
      BY <1>2, <3>1 DEF Read
  <2>3. n \in m + 1 .. Cardinality(B)
    <3>1. ~AtOrBefore(b.key, cursor[d][p])
      BY <1>3, <2>1, <2>2, KeyOrder
    <3>2. ~(n <= m)
      BY <1>3, <2>2, <3>1, RankOrder
    <3>3. m \in Nat /\ n \in 0..Cardinality(B) /\ Cardinality(B) \in Nat
      BY <1>3, UptoType
    <3> QED
      BY <3>2, <3>3
  <2>4. Len(StreamOf(B)) = Cardinality(B) /\ m \in Nat /\ Cardinality(B) \in Nat
    BY <1>3, StreamIsSeq, UptoType
  <2>5. ASSUME NEW i \in 1..n PROVE StreamOf(B)[i] \subseteq Ids(store[d])
    <3>1. i \in 1..Cardinality(B) /\ i <= n
      BY <2>3, <2>4
    <3>2. Nth(B, i) \in B /\ Cardinality(Upto(B, Nth(B, i).key)) = i
      BY <1>3, <3>1, NthBatch
    <3>3. AtOrBefore(Nth(B, i).key, pos[e])
      BY <1>3, <3>1, <3>2, RankOrder
    <3>4. Ids(Nth(B, i).rows) \subseteq Ids(store[d])
      BY <1>2, <3>2, <3>3 DEF Read
    <3> QED
      BY <1>3, <3>1, <3>4, StreamIsSeq
  <2>6. read' = [read EXCEPT ![d][p] = n]
    <3>1. \A q : BatchesOf(q)' = BatchesOf(q)
      BY <1>1 DEF BatchesOf
    <3>2. \A x, q \in Device : cursor'[x][q] = IF x = d /\ q = p THEN pos[e] ELSE cursor[x][q]
      BY <1>1 DEF TypeOK
    <3>3. \A x, q \in Device :
            Cardinality(Upto(BatchesOf(q), cursor[x][q]))' =
              IF x = d /\ q = p THEN n ELSE Cardinality(Upto(BatchesOf(q), cursor[x][q]))
      BY <3>1, <3>2 DEF Upto
    <3> QED
      BY <1>1, <3>3
  <2> HIDE DEF n, m, B
  <2>7. Streams!Advance(d, p)
    BY <1>1, <2>3, <2>4, <2>5, <2>6 DEF Streams!Advance, BatchesOf, B, m
  <2> QED
    BY <2>7
<1> QED
  BY <1>4, <1>5

LEMMA StreamsNext ==
  ASSUME TypeOK, RowsInv, KeysInv, ReadInv, StreamsInv, [Next]_vars
  PROVE  [Streams!Next]_Streams!svars
<1> USE DeviceOfType
<1>1. ASSUME NEW d \in Device, NEW id \in Event, AppendEvent(d, id) PROVE Streams!Next
  BY <1>1, AppendRecords DEF Streams!Next
<1>2. ASSUME NEW e \in Engine, PutBatch(e) PROVE Streams!Next
  BY <1>2, PutPublishes DEF Streams!Next
<1>3. ASSUME NEW e \in Engine, ApplyEvent(e) \/ SaveCursor(e)
      PROVE  Streams!Next \/ UNCHANGED Streams!svars
  <2>1. peer[e] \in Device
    BY DEF TypeOK
  <2> QED
    BY <1>3, <2>1, ApplyReceives, SaveAdvances DEF Streams!Next
<1>4. CASE UNCHANGED <<store, bucket, cursor>>
  BY <1>4, StreamsStutter
<1>5. \/ \E d \in Device, id \in Event : AppendEvent(d, id)
      \/ \E e \in Engine : PutBatch(e) \/ ApplyEvent(e) \/ SaveCursor(e)
      \/ UNCHANGED <<store, bucket, cursor>>
  BY DEF Next, Push, ReadQueue, QueueEmpty, NameBatch, PutManifest, MarkSynced, Pull, ListPeers,
         SkipPeer, OpenPeer, ListBatches, FetchBatch, EndCycle, Failure, StopAtBatch, GiveUpPeer,
         Abort, vars, disk, cloud
<1> QED
  BY <1>1, <1>2, <1>3, <1>4, <1>5

\* Every behaviour of the engines, with failing cycles and with clocks that
\* step back, is a behaviour of PeerStreams: each device writes one stream that
\* only grows at its end, and no reader moves past a batch it does not hold.
THEOREM StreamsImplemented ==
  ASSUME OneEngine, GentleFaults
  PROVE  Spec => ImplementsPeerStreams
<1>1. TypeOK /\ RowsInv /\ KeysInv /\ ReadInv /\ StreamsInv /\ [Next]_vars
        => [Streams!Next]_Streams!svars
  BY StreamsNext
<1> QED
  BY <1>1, StreamsInit, TypeCorrect, RowsAlways, KeysAlways, ReadAlways, StreamsAlways, PTL
     DEF Spec, ImplementsPeerStreams, Streams!Spec

-----------------------------------------------------------------------------
(* The loop: its intervals.                                                *)

\* withDefaults leaves no interval at zero that must not be.
LEMMA CfgFacts ==
  /\ Cfg.min \in Nat /\ Cfg.min > 0 /\ Cfg.max \in Nat
  /\ Cfg.jitter \in Nat /\ Cfg.maxBackoff \in Nat /\ Cfg.maxBackoff > 0
  /\ Horizon \in Nat /\ Horizon > Cfg.max + Cfg.jitter
  /\ Horizon > Cfg.maxBackoff /\ Horizon > Cfg.min
<1>1. /\ Given.min \in Nat /\ Given.max \in Nat /\ Given.jitter \in Nat /\ Given.maxBackoff \in Nat
      /\ Default.min \in Nat /\ Default.max \in Nat /\ Default.maxBackoff \in Nat
      /\ Default.min > 0 /\ Default.maxBackoff > 0
  BY LoopConstants DEF Interval
<1>2. /\ Cfg.min = IF Given.min = 0 THEN Default.min ELSE Given.min
      /\ Cfg.max = Larger(IF Given.max = 0 THEN Default.max ELSE Given.max, Cfg.min)
      /\ Cfg.jitter = Given.jitter
      /\ Cfg.maxBackoff = IF Given.maxBackoff = 0 THEN Default.maxBackoff ELSE Given.maxBackoff
  BY DEF Cfg, WithDefaults
<1>3. Cfg.min \in Nat /\ Cfg.min > 0
  BY <1>1, <1>2
<1>4. Cfg.max \in Nat
  BY <1>1, <1>2, <1>3 DEF Larger
<1> QED
  BY <1>1, <1>2, <1>3, <1>4, LoopConstants

\* The longest the floor may be.
LongestFloor == Larger(Cfg.min, Cfg.maxBackoff)

\* The back-off stays within its cap, and a failure always leaves one.
LEMMA BackoffBounds ==
  ASSUME NEW b \in 0..LongestFloor
  PROVE  /\ NextBackoff(b) \in 0..LongestFloor
         /\ NextBackoff(b) > 0
BY CfgFacts DEF NextBackoff, LongestFloor, Larger

\* The floor is at least the back-off's and at most the longest.
LEMMA WaitBounds ==
  ASSUME NEW b \in 0..LongestFloor
  PROVE  /\ Wait(b) \in Nat /\ Wait(b) <= LongestFloor
         /\ LongestFloor \in Nat /\ LongestFloor < Horizon
BY CfgFacts DEF Wait, LongestFloor, Larger

\* What a timer set now does: it keeps the floor; when a trigger or a retry
\* waits it goes off as the floor is reached; and it keeps the ceiling.
TimerFits(tried, attempt, success, waiting, b, d) ==
  /\ d \in 0..Horizon
  /\ tried => attempt + d >= Wait(b)
  /\ tried /\ (waiting \/ b > 0) => d = 0 \/ attempt + d = Wait(b)
  /\ \/ d = 0
     \/ success + d <= Cfg.max + Cfg.jitter
     \/ attempt + d <= LongestFloor

\* delay sets such a timer (loop.go), whatever the order of the intervals.
LEMMA DelayBounds ==
  ASSUME NEW tried \in BOOLEAN, NEW attempt \in 0..Horizon, NEW success \in 0..Horizon,
         NEW waiting \in BOOLEAN, NEW b \in 0..LongestFloor, NEW j \in JitterOf
  PROVE  TimerFits(tried, attempt, success, waiting, b,
                   Delay(tried, attempt, success, waiting, b, j))
<1>1. j \in Nat /\ j <= Cfg.jitter
  BY CfgFacts DEF JitterOf
<1> DEFINE d == Delay(tried, attempt, success, waiting, b, j)
           w == Wait(b)
           floor == Until(attempt, w)
           periodic == Until(success, Cfg.max + j)
<1>2. w \in Nat /\ w <= LongestFloor /\ LongestFloor < Horizon /\ LongestFloor \in Nat
  BY WaitBounds
<1>3. /\ floor \in Nat /\ attempt + floor >= w /\ (floor = 0 \/ attempt + floor = w)
      /\ periodic \in Nat /\ (periodic = 0 \/ success + periodic = Cfg.max + j)
      /\ floor <= Horizon /\ periodic <= Horizon
  <2> HIDE DEF w
  <2> QED BY <1>1, <1>2, CfgFacts DEF Until
<1>4. d = IF ~tried THEN 0 ELSE IF waiting \/ b > 0 THEN floor ELSE Larger(periodic, floor)
  BY DEF Delay
<1> HIDE DEF d, w, floor, periodic
<1>5. /\ d \in 0..Horizon
      /\ tried => attempt + d >= w
      /\ tried /\ (waiting \/ b > 0) => d = 0 \/ attempt + d = w
  BY <1>2, <1>3, <1>4, CfgFacts DEF Larger
<1>6. d = 0 \/ success + d <= Cfg.max + Cfg.jitter \/ attempt + d <= LongestFloor
  <2>1. d = 0 \/ d = floor \/ d = periodic
    BY <1>4 DEF Larger
  <2> QED BY <2>1, <1>1, <1>2, <1>3, CfgFacts
<1> QED BY <1>5, <1>6 DEF d, w, TimerFits

----------------------------------------------------------------------------
(* The inductive invariant.                                                *)

\* Without a loop nothing is owed; and what is recorded while a cycle pulls has
\* its trigger still to come, which the end of the cycle will find.
OwedInv ==
  /\ stage = "absent" => owed = {}
  /\ stage = "pull" => \A e \in owed : e \in ringing \/ queued

LoopIInv == LoopTypeOK /\ WaitIsBounded /\ WindowCloses /\ NoTriggerForgotten /\ OwedInv

\* The conjuncts about the timer.
TimerInv == FloorKept /\ CeilingKept /\ WindowCloses

\* The conjuncts about what is owed.
DebtInv == NoTriggerForgotten /\ OwedInv

LEMMA LoopInitIInv == LoopInit => LoopIInv
<1> SUFFICES ASSUME LoopInit PROVE LoopIInv
  OBVIOUS
<1> USE DEF LoopInit
<1>1. LoopTypeOK
  <2>1. queued \in BOOLEAN
    BY Zenon
  <2>2. 0 \in 0..Larger(Cfg.min, Cfg.maxBackoff) /\ 0 \in 0..Horizon /\ Horizon \in 0..Horizon
    BY CfgFacts DEF Larger
  <2>3. 0 \in 0..MaxRestarts
    BY LoopConstants
  <2> QED BY <2>1, <2>2, <2>3 DEF LoopTypeOK
<1>2. TimerInv
  BY CfgFacts DEF TimerInv, FloorKept, CeilingKept, WindowCloses
<1>3. DebtInv
  BY DEF DebtInv, NoTriggerForgotten, OwedInv
<1> QED BY <1>1, <1>2, <1>3 DEF LoopIInv, TimerInv, DebtInv, WaitIsBounded

\* Setting the timer on the way to the select, whatever is known by then.
LEMMA SelectSets ==
  ASSUME LoopTypeOK, NEW success \in 0..Horizon, NEW waiting \in BOOLEAN,
         NEW b \in 0..LongestFloor, Select(success, waiting, b)
  PROVE  /\ stage' = "select" /\ pending' = waiting /\ backoff' = b
         /\ timer' \in 0..Horizon /\ sinceSuccess' = success
         /\ UNCHANGED <<attempted, sinceAttempt>>
         /\ TimerInv'
<1>1. PICK j \in JitterOf :
        timer' = Delay(attempted, sinceAttempt, success, waiting, b, j)
  BY DEF Select
<1>2. /\ stage' = "select" /\ pending' = waiting /\ backoff' = b /\ sinceSuccess' = success
      /\ UNCHANGED <<attempted, sinceAttempt>>
  BY DEF Select
<1>3. attempted \in BOOLEAN /\ sinceAttempt \in 0..Horizon
  BY DEF LoopTypeOK
<1>4. TimerFits(attempted, sinceAttempt, success, waiting, b, timer')
  BY <1>1, <1>3, DelayBounds, Zenon
<1>5. timer' \in 0..Horizon /\ TimerInv'
  BY <1>2, <1>4 DEF TimerFits, TimerInv, FloorKept, CeilingKept, WindowCloses, LongestFloor
<1> QED BY <1>2, <1>4, <1>5

\* Steps that leave the loop's clocks alone, or leave the select.
LEMMA TimerUnchanged ==
  ASSUME TimerInv,
         \/ stage' # "select"
         \/ UNCHANGED <<stage, pending, attempted, sinceAttempt, sinceSuccess, backoff, timer>>
  PROVE  TimerInv'
BY DEF TimerInv, FloorKept, CeilingKept, WindowCloses

\* The actions of Run that set the timer.
LEMMA LoopStep ==
  ASSUME LoopIInv, ReceiveTrigger \/ SkipCycle \/ CycleDone \/ CycleFails
  PROVE  LoopIInv'
<1> USE DEF settings, log, past, loop
<1>1. LoopTypeOK /\ NoTriggerForgotten /\ OwedInv
  BY DEF LoopIInv
<1>2. sinceSuccess \in 0..Horizon /\ backoff \in 0..LongestFloor /\ pending \in BOOLEAN /\ 0 \in 0..Horizon
  BY <1>1, CfgFacts DEF LoopTypeOK, LongestFloor
<1>3. CASE ReceiveTrigger
  <2>1. /\ stage = "select" /\ queued' = FALSE /\ Select(sinceSuccess, TRUE, backoff)
        /\ UNCHANGED <<config, saving, up, recorded, ringing, uploaded, owed, restarts>>
    BY <1>3 DEF ReceiveTrigger
  <2>2. /\ stage' = "select" /\ pending' = TRUE /\ backoff' = backoff /\ timer' \in 0..Horizon
        /\ UNCHANGED <<sinceSuccess, attempted, sinceAttempt>> /\ TimerInv'
    BY <2>1, <1>1, <1>2, SelectSets
  <2>3. LoopTypeOK'
    BY <2>1, <2>2, <1>1 DEF LoopTypeOK
  <2>4. DebtInv'
    BY <2>1, <2>2 DEF DebtInv, NoTriggerForgotten, OwedInv
  <2> QED BY <2>2, <2>3, <2>4 DEF LoopIInv, TimerInv, DebtInv, WaitIsBounded
<1>4. CASE SkipCycle
  <2>1. /\ stage = "check" /\ owed' = {} /\ Select(sinceSuccess, pending, backoff)
        /\ UNCHANGED <<config, saving, up, recorded, ringing, uploaded, queued, restarts>>
    BY <1>4 DEF SkipCycle
  <2>2. /\ stage' = "select" /\ UNCHANGED <<pending, backoff>> /\ timer' \in 0..Horizon
        /\ UNCHANGED <<sinceSuccess, attempted, sinceAttempt>> /\ TimerInv'
    BY <2>1, <1>1, <1>2, SelectSets
  <2>3. LoopTypeOK'
    BY <2>1, <2>2, <1>1 DEF LoopTypeOK
  <2>4. DebtInv'
    BY <2>1, <2>2 DEF DebtInv, NoTriggerForgotten, OwedInv
  <2> QED BY <2>2, <2>3, <2>4 DEF LoopIInv, TimerInv, DebtInv, WaitIsBounded
<1>5. CASE CycleDone
  <2>1. /\ stage = "pull" /\ Select(0, pending, 0)
        /\ UNCHANGED <<config, saving, up, recorded, ringing, uploaded, owed, queued, restarts>>
    BY <1>5 DEF CycleDone
  <2>2. 0 \in 0..LongestFloor
    BY CfgFacts DEF LongestFloor, Larger
  <2>3. /\ stage' = "select" /\ pending' = pending /\ backoff' = 0 /\ timer' \in 0..Horizon
        /\ sinceSuccess' = 0 /\ UNCHANGED <<attempted, sinceAttempt>> /\ TimerInv'
    BY <2>1, <2>2, <1>1, <1>2, SelectSets
  <2>4. LoopTypeOK'
    BY <2>1, <2>2, <2>3, <1>1, <1>2 DEF LoopTypeOK, LongestFloor
  <2>5. DebtInv'
    BY <2>1, <2>3, <1>1 DEF DebtInv, NoTriggerForgotten, OwedInv
  <2> QED BY <2>3, <2>4, <2>5 DEF LoopIInv, TimerInv, DebtInv, WaitIsBounded
<1>6. CASE CycleFails
  <2>1. /\ Select(sinceSuccess, pending, NextBackoff(backoff))
        /\ UNCHANGED <<config, saving, up, recorded, ringing, uploaded, owed, queued, restarts>>
    BY <1>6 DEF CycleFails
  <2>2. NextBackoff(backoff) \in 0..LongestFloor /\ NextBackoff(backoff) > 0
    BY <1>2, BackoffBounds
  <2>3. /\ stage' = "select" /\ pending' = pending /\ backoff' = NextBackoff(backoff)
        /\ timer' \in 0..Horizon
        /\ UNCHANGED <<sinceSuccess, attempted, sinceAttempt>> /\ TimerInv'
    BY <2>1, <2>2, <1>1, <1>2, SelectSets
  <2>4. LoopTypeOK'
    BY <2>1, <2>2, <2>3, <1>1 DEF LoopTypeOK, LongestFloor
  <2>5. DebtInv'
    BY <2>1, <2>2, <2>3 DEF DebtInv, NoTriggerForgotten, OwedInv
  <2> QED BY <2>3, <2>4, <2>5 DEF LoopIInv, TimerInv, DebtInv, WaitIsBounded
<1> QED BY <1>3, <1>4, <1>5, <1>6

\* The other actions of Run.
LEMMA RunStep ==
  ASSUME LoopIInv, TimerFires \/ StartCycle \/ PushRecorded
  PROVE  LoopIInv'
<1> USE DEF settings, log, past, loop
<1>1. LoopTypeOK /\ TimerInv /\ DebtInv
  BY DEF LoopIInv, TimerInv, DebtInv, WaitIsBounded
<1>2. stage' # "select"
  BY DEF TimerFires, StartCycle, PushRecorded
<1>3. TimerInv'
  BY <1>1, <1>2, TimerUnchanged
<1>4. LoopTypeOK' /\ DebtInv'
  <2>1. CASE TimerFires
    BY <1>1, <2>1, CfgFacts DEF TimerFires, LoopTypeOK, DebtInv, NoTriggerForgotten, OwedInv
  <2>2. CASE StartCycle
    BY <1>1, <2>2 DEF StartCycle, LoopTypeOK, DebtInv, NoTriggerForgotten, OwedInv
  <2>3. CASE PushRecorded
    BY <1>1, <2>3 DEF PushRecorded, LoopTypeOK, DebtInv, NoTriggerForgotten, OwedInv
  <2> QED BY <2>1, <2>2, <2>3
<1> QED BY <1>3, <1>4 DEF LoopIInv, TimerInv, DebtInv, WaitIsBounded

\* What is recorded, announced and configured beside the loop.
LEMMA OutsideStep ==
  ASSUME LoopIInv,
         \/ \E e \in OwnEvent : Ingest(e) \/ AppendQuietly(e) \/ Ring(e)
         \/ Nudge \/ EndSave \/ Weather
         \/ \E value \in {"on", "off"} : BeginSave(value)
  PROVE  LoopIInv'
<1> USE DEF settings, log, past, loop
<1>1. LoopTypeOK /\ TimerInv /\ DebtInv
  BY DEF LoopIInv, TimerInv, DebtInv, WaitIsBounded
<1>2. UNCHANGED <<stage, pending, attempted, sinceAttempt, sinceSuccess, backoff, timer, restarts>>
  BY DEF Ingest, AppendQuietly, Ring, Nudge, EndSave, Weather, BeginSave
<1>3. TimerInv'
  BY <1>1, <1>2, TimerUnchanged
<1>4. LoopTypeOK' /\ DebtInv'
  <2>1. ASSUME NEW e \in OwnEvent, Ingest(e) PROVE LoopTypeOK' /\ DebtInv'
    <3>1. /\ recorded' = recorded \cup {e} /\ ringing' = ringing \cup {e}
          /\ UNCHANGED <<config, saving, up, uploaded, queued>>
      BY <2>1 DEF Ingest
    <3>2. owed' \subseteq owed \cup {e} /\ (stage = "absent" => owed' = owed)
      BY <2>1 DEF Ingest
    <3>3. LoopTypeOK'
      BY <1>1, <1>2, <3>1, <3>2 DEF LoopTypeOK
    <3>4. DebtInv'
      BY <1>1, <1>2, <3>1, <3>2 DEF DebtInv, NoTriggerForgotten, OwedInv
    <3> QED BY <3>3, <3>4
  <2>2. ASSUME NEW e \in OwnEvent, AppendQuietly(e) PROVE LoopTypeOK' /\ DebtInv'
    BY <1>1, <1>2, <2>2 DEF AppendQuietly, LoopTypeOK, DebtInv, NoTriggerForgotten, OwedInv
  <2>3. ASSUME NEW e \in OwnEvent, Ring(e) PROVE LoopTypeOK' /\ DebtInv'
    <3>1. /\ ringing' = ringing \ {e} /\ queued' = (queued \/ stage # "absent")
          /\ UNCHANGED <<config, saving, up, recorded, uploaded, owed>>
      BY <2>3 DEF Ring, Trigger
    <3>2. queued' \in BOOLEAN /\ (stage # "absent" => queued') /\ (queued => queued')
      BY <3>1, Zenon
    <3>3. LoopTypeOK'
      BY <1>1, <1>2, <3>1, <3>2 DEF LoopTypeOK
    <3>4. DebtInv'
      BY <1>1, <1>2, <3>1, <3>2 DEF DebtInv, NoTriggerForgotten, OwedInv
    <3> QED BY <3>3, <3>4
  <2>4. CASE Nudge
    <3>1. /\ queued' = (queued \/ stage # "absent")
          /\ UNCHANGED <<config, saving, up, recorded, ringing, uploaded, owed>>
      BY <2>4 DEF Nudge, Trigger
    <3>2. queued' \in BOOLEAN /\ (queued => queued')
      BY <3>1, Zenon
    <3>3. LoopTypeOK'
      BY <1>1, <1>2, <3>1, <3>2 DEF LoopTypeOK
    <3>4. DebtInv'
      BY <1>1, <1>2, <3>1, <3>2 DEF DebtInv, NoTriggerForgotten, OwedInv
    <3> QED BY <3>3, <3>4
  <2>5. CASE EndSave \/ \E value \in {"on", "off"} : BeginSave(value)
    BY <1>1, <1>2, <2>5 DEF EndSave, BeginSave, LoopTypeOK, DebtInv, NoTriggerForgotten, OwedInv
  <2>6. CASE Weather
    <3>1. UNCHANGED <<config, saving, recorded, ringing, uploaded, owed, queued>> /\ up' \in BOOLEAN
      BY <2>6 DEF Weather
    <3>2. LoopTypeOK'
      BY <1>1, <1>2, <3>1 DEF LoopTypeOK
    <3>3. DebtInv'
      BY <1>1, <1>2, <3>1 DEF DebtInv, NoTriggerForgotten, OwedInv
    <3> QED BY <3>2, <3>3
  <2> QED BY <2>1, <2>2, <2>3, <2>4, <2>5, <2>6
<1> QED BY <1>3, <1>4 DEF LoopIInv, TimerInv, DebtInv, WaitIsBounded

\* Time: as the timer runs down, the moments it is measured from recede.
LEMMA TickStep ==
  ASSUME LoopIInv, Tick
  PROVE  LoopIInv'
<1> USE DEF settings, log, past, loop
<1>1. LoopTypeOK /\ TimerInv /\ DebtInv
  BY DEF LoopIInv, TimerInv, DebtInv, WaitIsBounded
<1>2. /\ UNCHANGED <<config, saving, up, recorded, ringing, uploaded, owed>>
      /\ UNCHANGED <<stage, queued, pending, attempted, backoff, restarts>>
      /\ sinceAttempt' = Older(sinceAttempt) /\ sinceSuccess' = Older(sinceSuccess)
      /\ timer' = IF stage = "select" THEN timer - 1 ELSE timer
      /\ stage = "select" => timer > 0
  BY DEF Tick
<1>3. /\ sinceAttempt \in 0..Horizon /\ sinceSuccess \in 0..Horizon /\ timer \in 0..Horizon
      /\ backoff \in 0..LongestFloor
  BY <1>1 DEF LoopTypeOK, LongestFloor
<1>4. /\ sinceAttempt' \in 0..Horizon /\ sinceSuccess' \in 0..Horizon /\ timer' \in 0..Horizon
  BY <1>2, <1>3, CfgFacts DEF Older
<1>5. LoopTypeOK'
  BY <1>1, <1>2, <1>4 DEF LoopTypeOK
<1>6. DebtInv'
  BY <1>1, <1>2 DEF DebtInv, NoTriggerForgotten, OwedInv
<1>7. TimerInv'
  <2> SUFFICES ASSUME stage = "select" PROVE TimerInv'
    BY <1>2 DEF TimerInv, FloorKept, CeilingKept, WindowCloses
  <2> DEFINE w == Wait(backoff)
  <2>1. w \in Nat /\ w < Horizon
    BY <1>3, WaitBounds, CfgFacts
  <2>2. /\ timer > 0 /\ timer' = timer - 1 /\ w' = w
    BY <1>2
  <2> HIDE DEF w
  <2>3. \/ sinceAttempt' + timer' = sinceAttempt + timer
        \/ sinceAttempt' = Horizon /\ sinceAttempt = Horizon
    BY <1>2, <1>3, <2>2, CfgFacts DEF Older
  <2>4. FloorKept' /\ WindowCloses'
    BY <1>1, <1>2, <1>3, <1>4, <2>1, <2>2, <2>3, CfgFacts DEF TimerInv, FloorKept, WindowCloses, w
  <2>5. /\ sinceAttempt' + timer' <= sinceAttempt + timer
        /\ sinceSuccess' + timer' <= sinceSuccess + timer
    BY <1>2, <1>3, <2>2, CfgFacts DEF Older
  <2>6. CeilingKept'
    BY <1>1, <1>2, <1>3, <1>4, <2>2, <2>5, CfgFacts DEF TimerInv, CeilingKept, Larger
  <2> QED BY <2>4, <2>6 DEF TimerInv
<1> QED BY <1>5, <1>6, <1>7 DEF LoopIInv, TimerInv, DebtInv, WaitIsBounded

\* A new daemon begins with nothing waited for and nothing owed that its first
\* trigger does not serve.
LEMMA RestartStep ==
  ASSUME LoopIInv, Restart
  PROVE  LoopIInv'
<1> USE DEF settings, log, past, loop
<1>1. LoopTypeOK
  BY DEF LoopIInv
<1>2. PICK state \in {"select", "absent"}, trigger \in BOOLEAN :
        /\ Begin(state, trigger)
        /\ state = "select" => trigger /\ owed' = owed
        /\ state = "absent" => owed' = {}
  BY DEF Restart
<1>3. /\ UNCHANGED <<config, saving, up, recorded, uploaded>>
      /\ ringing' = {} /\ restarts < MaxRestarts /\ restarts' = restarts + 1
  BY DEF Restart
<1>4. /\ stage' = state /\ queued' = trigger /\ pending' = FALSE /\ backoff' = 0 /\ timer' = 0
      /\ attempted' = FALSE /\ sinceAttempt' = Horizon /\ sinceSuccess' = Horizon
  BY <1>2 DEF Begin
<1>5. LoopTypeOK'
  <2>1. restarts' \in 0..MaxRestarts
    BY <1>1, <1>3, LoopConstants DEF LoopTypeOK
  <2>2. 0 \in 0..Larger(Cfg.min, Cfg.maxBackoff) /\ 0 \in 0..Horizon /\ Horizon \in 0..Horizon
    BY CfgFacts DEF Larger
  <2>3. owed' \subseteq recorded
    BY <1>1, <1>2 DEF LoopTypeOK
  <2> QED BY <1>1, <1>3, <1>4, <2>1, <2>2, <2>3 DEF LoopTypeOK
<1>6. TimerInv'
  BY <1>4 DEF TimerInv, FloorKept, CeilingKept, WindowCloses
<1>7. DebtInv'
  BY <1>2, <1>4 DEF DebtInv, NoTriggerForgotten, OwedInv
<1> QED BY <1>5, <1>6, <1>7 DEF LoopIInv, TimerInv, DebtInv, WaitIsBounded

LEMMA StutterStep ==
  ASSUME LoopIInv, UNCHANGED loopVars
  PROVE  LoopIInv'
BY DEF loopVars, settings, log, past, loop, LoopIInv, LoopTypeOK, WaitIsBounded, FloorKept, CeilingKept,
       WindowCloses, NoTriggerForgotten, OwedInv

LEMMA LoopNextIInv == LoopIInv /\ [LoopNext]_loopVars => LoopIInv'
BY LoopStep, RunStep, OutsideStep, TickStep, RestartStep, StutterStep DEF LoopNext

\* The loop's inductive invariant holds of every behaviour.
THEOREM LoopInvariance == LoopSpec => []LoopIInv
BY LoopInitIInv, LoopNextIInv, PTL DEF LoopSpec

----------------------------------------------------------------------------
\* Type correctness of SyncLoop: in particular the timer is never set past the
\* horizon, and the back-off stays within its cap.
THEOREM LoopTypeCorrect == LoopSpec => []LoopTypeOK
<1>1. LoopIInv => LoopTypeOK
  BY DEF LoopIInv
<1> QED BY <1>1, LoopInvariance, PTL

\* Attempts keep the floor, or the back-off, between them, and the loop never
\* sleeps past both the ceiling and the longest back-off (loop.go, delay):
\* whatever sequence of triggers, failures and settings it meets, and also when
\* the intervals it is given are in the wrong order.
THEOREM SleepIsBounded == LoopSpec => []WaitIsBounded
<1>1. LoopIInv => WaitIsBounded
  BY DEF LoopIInv
<1> QED BY <1>1, LoopInvariance, PTL

\* A trigger that was given to the loop is acted upon as soon as the floor
\* allows, and none is lost on its way there (loop.go, Trigger and Run;
\* daemon.go, ingest).
THEOREM TriggersServed == LoopSpec => []TriggersAreServed
<1>1. LoopIInv => TriggersAreServed
  BY DEF LoopIInv, TriggersAreServed
<1> QED BY <1>1, LoopInvariance, PTL

=============================================================================
