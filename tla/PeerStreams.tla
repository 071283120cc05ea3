---------------------------- MODULE PeerStreams -----------------------------
(***************************************************************************)
(* What sync promises, without keys, manifests, clocks or engines: every   *)
(* device writes one stream of batches that only ever grows at its end,    *)
(* and every other device reads it from the front, never moving its        *)
(* position past a batch before it holds all of that batch.                *)
(***************************************************************************)
EXTENDS Naturals, Sequences

CONSTANTS Device, Event

VARIABLES
  have,    \* the event ids each device holds
  stream,  \* the batches each device has written, as sequences of id sets
  read     \* how many batches of each peer a device is done with

svars == <<have, stream, read>>

Init ==
  /\ have = [d \in Device |-> {}]
  /\ stream = [d \in Device |-> <<>>]
  /\ read = [d \in Device |-> [p \in Device |-> 0]]

Record(d, id) ==
  /\ id \notin have[d]
  /\ have' = [have EXCEPT ![d] = @ \cup {id}]
  /\ UNCHANGED <<stream, read>>

\* A device writes ids it holds itself; writing some again is allowed.
Publish(d) ==
  /\ \E ids \in (SUBSET have[d]) \ {{}} :
       stream' = [stream EXCEPT ![d] = Append(@, ids)]
  /\ UNCHANGED <<have, read>>

\* Events arrive one by one, only out of a batch not passed yet.
Receive(d, p, id) ==
  /\ \E i \in read[d][p] + 1 .. Len(stream[p]) : id \in stream[p][i]
  /\ have' = [have EXCEPT ![d] = @ \cup {id}]
  /\ UNCHANGED <<stream, read>>

Advance(d, p) ==
  /\ \E n \in read[d][p] + 1 .. Len(stream[p]) :
       /\ \A i \in 1..n : stream[p][i] \subseteq have[d]
       /\ read' = [read EXCEPT ![d][p] = n]
  /\ UNCHANGED <<have, stream>>

Next ==
  \/ \E d \in Device, id \in Event : Record(d, id)
  \/ \E d \in Device : Publish(d)
  \/ \E d, p \in Device : \E id \in Event : Receive(d, p, id)
  \/ \E d, p \in Device : Advance(d, p)

Spec == Init /\ [][Next]_svars

=============================================================================
