--------------------------- MODULE BoundedChannel ---------------------------
(***************************************************************************)
(* What the channel of src/channel.rs promises to the two ends, with no    *)
(* thread, lock or condition variable: items are accepted into a bounded   *)
(* queue, taken out in the order in which they were accepted, and lost     *)
(* only when the queue is full and the policy names a victim.              *)
(* MpscQueue implements this specification.                                *)
(***************************************************************************)
EXTENDS Backpressure

CONSTANT Items   \* what can be sent: records with a field op in ActionOps

VARIABLES
  queue,      \* items accepted and neither received nor dropped
  accepted,   \* every item accepted so far, in order of acceptance
  received,   \* every item received so far, in order of reception
  dropped     \* the items the policy has dropped

chVars == <<queue, accepted, received, dropped>>

ChannelInit ==
  /\ queue = <<>>
  /\ accepted = <<>>
  /\ received = <<>>
  /\ dropped = {}

\* An item enters a queue that has room.
Accept(x) ==
  /\ HasRoom(queue)
  /\ queue' = Append(queue, x)
  /\ accepted' = Append(accepted, x)
  /\ UNCHANGED <<received, dropped>>

\* An item enters a full queue in which the policy found a victim.
AcceptDropping(x) ==
  /\ ~HasRoom(queue)
  /\ \E i \in Victims(queue) :
       /\ queue' = Append(RemoveAt(queue, i), x)
       /\ dropped' = dropped \cup {queue[i]}
  /\ accepted' = Append(accepted, x)
  /\ UNCHANGED received

\* The receiver takes the oldest item.
Deliver ==
  /\ queue # <<>>
  /\ received' = Append(received, Head(queue))
  /\ queue' = Tail(queue)
  /\ UNCHANGED <<accepted, dropped>>

ChannelNext ==
  \/ \E x \in Items : Accept(x) \/ AcceptDropping(x)
  \/ Deliver

ChannelSpec == ChannelInit /\ [][ChannelNext]_chVars

\* The receiver is never left asleep on a queue that holds an item.
FairChannelSpec == ChannelSpec /\ WF_chVars(Deliver)

=============================================================================
