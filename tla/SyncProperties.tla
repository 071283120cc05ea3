--------------------------- MODULE SyncProperties ---------------------------
(***************************************************************************)
(* What replication through the bucket promises, stated over SyncEngine.   *)
(***************************************************************************)
EXTENDS SyncEngine

\* Every variable holds values of its kind.
TypeOK ==
  /\ store \in [Device -> SUBSET Row]
  /\ synced \in [Device -> SUBSET Event]
  /\ cursor \in [Device -> [Device -> Key]]
  /\ bucket \subseteq Batch
  /\ manifest \in [Device -> Key]
  /\ clock \in [Device -> Nat \ {0}]
  /\ faults \in FaultModels
  /\ pc \in [Engine -> {"idle", "push", "name", "put", "publish", "mark",
                        "peers", "pull", "list", "fetch", "apply"}]
  /\ rows \in [Engine -> SUBSET Row]
  /\ key \in [Engine -> Key]
  /\ todo \in [Engine -> SUBSET Device]
  /\ peer \in [Engine -> Device]
  /\ pos \in [Engine -> Key]
  /\ listed \in [Engine -> SUBSET Key]

\* pullPeer never loses an event to its own cursor: whatever a peer has
\* published at or below the cursor kept for it, this device holds.  A batch
\* at or below the cursor is never listed again, so one that is missing is
\* missing for good.
NoBatchSkipped ==
  \A d \in Device : \A b \in bucket :
    AtOrBefore(b.key, cursor[d][b.dev]) => Ids(b.rows) \subseteq Ids(store[d])

\* A reader that follows a manifest finds the batch it names: the manifest
\* goes up after the batch, and no batch is ever withdrawn.
ManifestNamesBatch ==
  \A p \in Device : manifest[p] # NoKey => \E b \in BatchesOf(p) : b.key = manifest[p]

\* An event this device recorded and counts as uploaded is in the bucket,
\* under its own prefix.  MarkSynced comes last, so no crash, failed upload
\* or overwritten object makes the queue forget an event nobody can read.
SyncedIsPublished ==
  \A d \in Device : \A r \in store[d] :
    r.dev = d /\ r.id \in synced[d] => \E b \in BatchesOf(d) : r \in b.rows

\* No echo: whatever is under a prefix was recorded by the device the prefix
\* belongs to, also when the same id reaches a device from two sides.
OwnEventsOnly ==
  \A b \in bucket : \A r \in b.rows :
    r.dev = b.dev /\ b.dev \in Recorders[r.id]

\* The keys a device publishes under only ever grow: a batch goes up with a
\* key that sorts after every batch already under that prefix.
BatchKeysMonotonic ==
  [][\A b \in bucket' \ bucket : \A c \in BatchesOf(b.dev) : Before(c.key, b.key)]_bucket

\* The bucket as PeerStreams sees it: a prefix is its batches in key order,
\* a cursor the number of batches at or below it.
Upto(B, k) == {b \in B : AtOrBefore(b.key, k)}

Nth(B, n) == CHOOSE b \in B : Cardinality(Upto(B, b.key)) = n

StreamOf(B) == [n \in 1..Cardinality(B) |-> Ids(Nth(B, n).rows)]

Streams ==
  INSTANCE PeerStreams WITH
    have   <- [d \in Device |-> Ids(store[d])],
    stream <- [p \in Device |-> StreamOf(BatchesOf(p))],
    read   <- [d \in Device |-> [p \in Device |->
                 Cardinality(Upto(BatchesOf(p), cursor[d][p]))]]

\* SyncEngine implements PeerStreams: an upload only ever appends to the
\* uploader's stream, also after a failed or repeated one, and no position
\* moves past what its device holds.
ImplementsPeerStreams == Streams!Spec

\* An event some device recorded reaches every device, whatever failed on the
\* way, once cycles keep running and stop failing.
EventsReachEveryDevice ==
  \A id \in Event : \A d, q \in Device :
    id \in Ids(store[d]) ~> id \in Ids(store[q])

\* The loop starts cycles for ever (loop.go) and every step of a cycle
\* returns; whatever fails does not go on failing.
Fairness ==
  /\ \A e \in Engine : WF_vars(Push(e)) /\ WF_vars(Pull(e))
  /\ <>[][\A e \in Engine : ~Failure(e)]_vars

FairSpec == Spec /\ Fairness

=============================================================================
