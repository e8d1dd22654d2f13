---------------------------- MODULE Backpressure ----------------------------
(***************************************************************************)
(* The backpressure policy of src/channel.rs as operators on a queue.      *)
(*                                                                         *)
(* A queue is a sequence of items; an item is a record whose field op is   *)
(* the ActionOp it carries.  The ActionOp::Action variants are the members *)
(* of Actions, the other variants (AddSubscriber, StateFunction, Exit) are *)
(* the members of Controls.  A policy DropXIf(None) is the policy DropXIf  *)
(* whose predicate accepts every action: Predicate = Actions.              *)
(***************************************************************************)
EXTENDS Naturals, Sequences, SequencesExt

CONSTANTS
  Capacity,    \* `capacity`: how many items the queue holds
  Policy,      \* `policy`: one of Policies
  Actions,     \* the payloads of ActionOp::Action
  Controls,    \* the ActionOp variants that are not Action
  Predicate    \* the payloads the policy's predicate accepts

ActionOps == Actions \cup Controls

Policies == {"BlockOnFull", "DropOldestIf", "DropLatestIf"}

ASSUME BackpressureAssumption ==
  /\ Capacity \in Nat
  /\ Policy \in Policies
  /\ Actions \cap Controls = {}
  /\ Predicate \subseteq Actions

-----------------------------------------------------------------------------

\* Faulty HasRoom: off by one.
HasRoomForOneMore(q) == Len(q) <= Capacity

HasRoom(q) == Len(q) < Capacity

\* Faulty Droppable: the ActionOp variant is not looked at.
AnyOpDroppable(x) == x.op \in Predicate \/ x.op \notin Actions

\* `if let ActionOp::Action(action) = .. { predicate(action) } else { false }`
Droppable(x) == x.op \in Actions /\ x.op \in Predicate

\* The position the scan of a full queue stops at, if any: the scan goes from
\* the oldest item under DropOldestIf, from the newest under DropLatestIf, and
\* there is no scan under BlockOnFull.
Victims(q) ==
  { i \in DOMAIN q :
      /\ Droppable(q[i])
      /\ \/ /\ Policy = "DropOldestIf"
            /\ \A j \in 1 .. (i - 1) : ~Droppable(q[j])
         \/ /\ Policy = "DropLatestIf"
            /\ \A j \in (i + 1) .. Len(q) : ~Droppable(q[j]) }

\* A send must wait (try_send must fail): no room, and nothing to drop.
Blocks(q) == ~HasRoom(q) /\ Victims(q) = {}

=============================================================================
