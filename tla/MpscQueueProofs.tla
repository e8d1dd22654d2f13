-------------------------- MODULE MpscQueueProofs ---------------------------
(***************************************************************************)
(* Theorems about MpscQueue, for every set of senders, capacity and policy *)
(* and whatever the environment may do.                                    *)
(*                                                                         *)
(* The inductive invariant adds to the type invariant that whoever is      *)
(* asleep is in a wait, and, for exclusive senders, that at most one is    *)
(* inside a call: a notification then has at most one sleeper on each      *)
(* side to choose from, and never both.                                    *)
(***************************************************************************)
EXTENDS MpscQueue, SequenceLemmas

\* What a thread holds of the condition variable while it is asleep.
Sleepers == \A t \in waiting : pc[t] = "waiting"

IInv ==
  /\ TypeOK
  /\ Sleepers
  /\ Exclusive => OneSenderInside /\ NoLostWakeup

-----------------------------------------------------------------------------
(* The condition variable *)

\* notify_one takes one thread from a wait set that is not empty, and adds none.
LEMMA NotifyOneProperties ==
  ASSUME NotifyOne, waiting \subseteq Threads
  PROVE  /\ waiting' \subseteq waiting
         /\ waiting' \subseteq Threads
         /\ waiting # {} => \E t \in waiting : waiting' = waiting \ {t}
BY DEF NotifyOne

-----------------------------------------------------------------------------
(* Type correctness *)

\* A victim is an item of the queue that the policy may drop.
LEMMA VictimProperties ==
  ASSUME NEW S, NEW q \in Seq(S), NEW i \in Victims(q)
  PROVE  /\ i \in 1 .. Len(q)
         /\ q[i] \in S
         /\ Droppable(q[i])
BY LenProperties, ElementOfSeq DEF Victims

\* A new queue has its type.
LEMMA InitTypeOK == ASSUME Init PROVE TypeOK
<1>1. MaxSends \in Nat /\ Capacity \in Nat
  BY MpscAssumption, BackpressureAssumption
<1>2. <<>> \in Seq(Items) /\ Len(<<>>) <= Capacity
  BY <1>1, EmptySeq
<1>3. /\ pc \in [Threads -> SenderPcs \cup ReceiverPcs]
      /\ \A s \in Senders : pc[s] \in SenderPcs /\ pc[s] = "idle"
      /\ pc[Receiver] \in ReceiverPcs
  BY DEF Init, Threads, SenderPcs, ReceiverPcs
<1>4. sent \in [Senders -> 0 .. MaxSends]
  BY <1>1 DEF Init
<1> QED
  BY <1>2, <1>3, <1>4 DEF Init, TypeOK

\* What a sender in its call pushes is an item.
LEMMA ItemType ==
  ASSUME TypeOK, NEW s \in Senders, pc[s] # "idle"
  PROVE  Item(s) \in Items
<1>1. op[s] \in ActionOps
  BY DEF TypeOK
<1>2. sent[s] \in 1 .. MaxSends
  BY MpscAssumption DEF TypeOK
<1> QED
  BY <1>1, <1>2 DEF Item, Items

\* No step of a sender, of the receiver or of close breaks the type invariant.
LEMMA TypeStep == ASSUME TypeOK, [Next]_vars PROVE TypeOK'
<1> USE DEF Threads, SenderPcs, ReceiverPcs
<1>1. ASSUME NEW s \in Senders, NEW o \in ActionOps,
             NEW entry \in {"enter", "tryEnter"}, Call(s, o, entry)
      PROVE  TypeOK'
  <2>1. Receiver \notin Senders /\ MaxSends \in Nat /\ NoOp \notin ActionOps
    BY MpscAssumption
  <2>2. sent' \in [Senders -> 0 .. MaxSends] /\ sent'[s] >= 1
    BY <1>1, <2>1 DEF Call, MayCall, TypeOK
  <2>3. CASE closed
    BY <1>1, <2>1, <2>2, <2>3 DEF Call, TypeOK, history
  <2>4. CASE ~closed
    <3>1. pc' = [pc EXCEPT ![s] = entry] /\ op' = [op EXCEPT ![s] = o]
      BY <1>1, <2>4 DEF Call
    <3>2. /\ pc' \in [Threads -> SenderPcs \cup ReceiverPcs]
          /\ \A t \in Senders : pc'[t] \in SenderPcs
          /\ pc'[Receiver] \in ReceiverPcs
      BY <2>1, <3>1 DEF TypeOK
    <3>3. /\ op' \in [Senders -> ActionOps \cup {NoOp}]
          /\ \A t \in Senders : pc'[t] # "idle" => op'[t] # NoOp /\ sent'[t] >= 1
      BY <1>1, <2>1, <2>2, <3>1 DEF Call, TypeOK
    <3> QED
      BY <1>1, <2>2, <3>2, <3>3 DEF Call, TypeOK, history
  <2> QED
    BY <2>3, <2>4
<1>2. ASSUME NEW s \in Senders, Push(s) PROVE TypeOK'
  <2>1. pc[s] # "idle"
    BY <1>2 DEF Push, InBody
  <2>2. /\ Item(s) \in Items
        /\ queue' \in Seq(Items) /\ Len(queue') <= Capacity
        /\ accepted' \in Seq(Items)
    <3>1. Item(s) \in Items
      BY <2>1, ItemType
    <3>2. Len(queue) \in Nat /\ Len(queue) < Capacity
      BY <1>2, LenProperties DEF Push, HasRoom, TypeOK
    <3> QED
      BY <1>2, <3>1, <3>2, BackpressureAssumption, AppendProperties
        DEF Push, TypeOK
  <2>3. waiting' \subseteq Threads
    BY <1>2, NotifyOneProperties DEF Push, TypeOK
  <2> QED
    BY <1>2, <2>2, <2>3, MpscAssumption DEF Push, Return, TypeOK
<1>3. ASSUME NEW s \in Senders, DropAndPush(s) PROVE TypeOK'
  <2>1. pc[s] # "idle"
    BY <1>3 DEF DropAndPush, InBody
  <2>2. PICK i \in Victims(queue) :
          /\ queue' = Append(RemoveAt(queue, i), Item(s))
          /\ dropped' = dropped \cup {queue[i]}
    BY <1>3 DEF DropAndPush
  <2>3. Item(s) \in Items
    BY <2>1, ItemType
  <2>4. i \in 1 .. Len(queue) /\ queue[i] \in Items
    BY VictimProperties DEF TypeOK
  <2>5. /\ RemoveAt(queue, i) \in Seq(Items)
        /\ Len(RemoveAt(queue, i)) = Len(queue) - 1
    BY <2>4, RemoveAtProperties DEF TypeOK
  <2>6. queue' \in Seq(Items) /\ Len(queue') <= Capacity
    <3>1. /\ queue' \in Seq(Items)
          /\ Len(queue') = Len(RemoveAt(queue, i)) + 1
      BY <2>2, <2>3, <2>5, AppendProperties
    <3> QED
      BY <3>1, <2>5, LenProperties DEF TypeOK
  <2>7. accepted' \in Seq(Items)
    BY <1>3, <2>3, AppendProperties DEF DropAndPush, TypeOK
  <2>8. dropped' \subseteq Items
    BY <2>2, <2>4 DEF TypeOK
  <2>9. waiting' \subseteq Threads
    BY <1>3, NotifyOneProperties DEF DropAndPush, TypeOK
  <2> QED
    BY <1>3, <2>6, <2>7, <2>8, <2>9, MpscAssumption
      DEF DropAndPush, Return, TypeOK
<1>4. ASSUME NEW s \in Senders, Block(s) PROVE TypeOK'
  BY <1>4, MpscAssumption DEF Block, InBody, Sleep, TypeOK, history
<1>5. ASSUME NEW s \in Senders, Refuse(s) PROVE TypeOK'
  BY <1>5, MpscAssumption DEF Refuse, Return, TypeOK, history
<1>6. ASSUME NEW s \in Senders, Wake(s) PROVE TypeOK'
  <2>1. CASE closed
    <3>1. /\ pc' = [pc EXCEPT ![s] = "idle"] /\ op' = [op EXCEPT ![s] = NoOp]
          /\ lock' = NoOne
          /\ UNCHANGED <<queue, closed, waiting, sent, history>>
      BY <1>6, <2>1 DEF Wake, Return
    <3>2. "idle" \in SenderPcs
      BY DEF SenderPcs
    <3> QED
      BY <3>1, <3>2, MpscAssumption DEF TypeOK, history
  <2>2. CASE ~closed
    <3>1. pc[s] = "waiting" /\ "loop" \in SenderPcs
      BY <1>6 DEF Wake, SenderPcs
    <3>2. /\ pc' = [pc EXCEPT ![s] = "loop"] /\ lock' = s
          /\ UNCHANGED <<queue, closed, waiting, op, sent, history>>
      BY <1>6, <2>2 DEF Wake
    <3> QED
      BY <3>1, <3>2, MpscAssumption DEF TypeOK, history
  <2> QED
    BY <2>1, <2>2
<1>7. CASE Recv
  <2>1. queue' \in Seq(Items) /\ Len(queue') <= Capacity
    BY <1>7, BackpressureAssumption, LenProperties, HeadTailProperties
      DEF Recv, TypeOK
  <2>2. received' \in Seq(Items)
    BY <1>7, HeadTailProperties, AppendProperties DEF Recv, TypeOK
  <2>3. waiting' \subseteq Threads
    BY <1>7, NotifyOneProperties DEF Recv, TypeOK
  <2> QED
    BY <1>7, <2>1, <2>2, <2>3, MpscAssumption DEF Recv, AtHead, TypeOK
<1>8. CASE RecvWait
  BY <1>8, MpscAssumption DEF RecvWait, Sleep, TypeOK, history
<1>9. CASE RecvNone
  BY <1>9, MpscAssumption DEF RecvNone, TypeOK, history
<1>10. CASE Close \/ DropReceiver
  BY <1>10, MpscAssumption DEF Close, DropReceiver, SetClosed, TypeOK, history
<1>11. CASE NotifyAll
  BY <1>11, MpscAssumption DEF NotifyAll, TypeOK, history
<1>12. ASSUME NEW t \in Threads, Spurious(t) PROVE TypeOK'
  BY <1>12 DEF Spurious, TypeOK, history
<1>13. CASE UNCHANGED vars
  BY <1>13 DEF vars, TypeOK
<1> QED
  BY <1>1, <1>2, <1>3, <1>4, <1>5, <1>6, <1>7, <1>8, <1>9, <1>10, <1>11,
     <1>12, <1>13
    DEF Next, SenderStep, ReceiverStep, CallSend, CallTrySend

\* Every variable keeps its type and the queue its capacity, for any number of
\* senders, concurrent or not, any policy and any use of close().
THEOREM TypeCorrectness == Spec => []TypeOK
<1>1. Init => TypeOK
  BY InitTypeOK
<1>2. TypeOK /\ [Next]_vars => TypeOK'
  BY TypeStep
<1> QED
  BY <1>1, <1>2, PTL DEF Spec

-----------------------------------------------------------------------------
(* Who sleeps *)

LEMMA SleepersStep ==
  ASSUME TypeOK, Sleepers, [Next]_vars
  PROVE  Sleepers'
<1> USE DEF Sleepers, Threads
<1>1. ASSUME NEW s \in Senders, NEW o \in ActionOps,
             NEW entry \in {"enter", "tryEnter"}, Call(s, o, entry)
      PROVE  Sleepers'
  BY <1>1 DEF Call, MayCall, TypeOK
<1>2. ASSUME NEW s \in Senders, Push(s) \/ DropAndPush(s) PROVE Sleepers'
  <2>1. waiting' \subseteq waiting /\ pc[s] # "waiting"
    BY <1>2, NotifyOneProperties DEF Push, DropAndPush, InBody, TypeOK
  <2> QED
    BY <1>2, <2>1 DEF Push, DropAndPush, Return, TypeOK
<1>3. ASSUME NEW s \in Senders, Block(s) PROVE Sleepers'
  BY <1>3 DEF Block, Sleep, TypeOK
<1>4. ASSUME NEW s \in Senders, Refuse(s) \/ Wake(s) PROVE Sleepers'
  BY <1>4 DEF Refuse, Wake, Return, TypeOK
<1>5. CASE Recv
  <2>1. waiting' \subseteq waiting /\ Receiver \notin waiting
    BY <1>5, NotifyOneProperties DEF Recv, AtHead, TypeOK
  <2> QED
    BY <1>5, <2>1 DEF Recv, TypeOK
<1>6. CASE RecvWait
  BY <1>6 DEF RecvWait, Sleep, TypeOK
<1>7. CASE RecvNone
  BY <1>7 DEF RecvNone, AtHead, TypeOK
<1>8. CASE Close \/ DropReceiver
  BY <1>8 DEF Close, DropReceiver, SetClosed, TypeOK
<1>9. CASE NotifyAll
  BY <1>9 DEF NotifyAll
<1>10. ASSUME NEW t \in Threads, Spurious(t) PROVE Sleepers'
  BY <1>10 DEF Spurious
<1>11. CASE UNCHANGED vars
  BY <1>11 DEF vars
<1> QED
  BY <1>1, <1>2, <1>3, <1>4, <1>5, <1>6, <1>7, <1>8, <1>9, <1>10, <1>11
    DEF Next, SenderStep, ReceiverStep, CallSend, CallTrySend

\* The mutex around the calls keeps all senders but one outside.
LEMMA OneSenderStep ==
  ASSUME TypeOK, Exclusive, OneSenderInside, [Next]_vars
  PROVE  OneSenderInside'
<1> USE DEF OneSenderInside, Threads
<1>1. ASSUME NEW s \in Senders, NEW o \in ActionOps,
             NEW entry \in {"enter", "tryEnter"}, Call(s, o, entry)
      PROVE  OneSenderInside'
  BY <1>1 DEF Call, MayCall, TypeOK
<1>2. ASSUME NEW s \in Senders, SenderStep(s) PROVE OneSenderInside'
  <2>1. pc[s] # "idle"
    BY <1>2 DEF SenderStep, Push, DropAndPush, Block, Refuse, Wake, InBody
  <2>2. \A t \in Senders \ {s} : pc'[t] = pc[t]
    BY <1>2 DEF SenderStep, Push, DropAndPush, Block, Refuse, Wake, Return,
                Sleep, TypeOK
  <2> QED
    BY <2>1, <2>2
<1>3. ASSUME \A t \in Senders : pc'[t] = pc[t] PROVE OneSenderInside'
  BY <1>3
<1>4. CASE ReceiverStep \/ Close \/ DropReceiver
  <2>1. \A t \in Senders : pc'[t] = pc[t]
    BY <1>4, MpscAssumption
      DEF ReceiverStep, Recv, RecvWait, RecvNone, NotifyAll, Sleep, Close,
          DropReceiver, SetClosed, TypeOK
  <2> QED
    BY <1>3, <2>1
<1>5. CASE (\E t \in Threads : Spurious(t)) \/ UNCHANGED vars
  BY <1>3, <1>5 DEF Spurious, vars
<1> QED
  BY <1>1, <1>2, <1>4, <1>5 DEF Next, CallSend, CallTrySend

\* A sender that runs its body shares the condition variable with the receiver
\* at most, the receiver with one sender at most: either way notify_one has no
\* choice.
LEMMA OneSleeper ==
  ASSUME TypeOK, Sleepers, OneSenderInside, NotifyOne,
         \/ \E s \in Senders : pc[s] \notin {"idle", "waiting"}
         \/ Receiver \notin waiting
  PROVE  waiting' = {}
<1>1. \A t, u \in waiting : t = u
  BY DEF Sleepers, OneSenderInside, TypeOK, Threads
<1> QED
  BY <1>1 DEF NotifyOne

\* With exclusive senders no step leaves a thread asleep that has something to
\* do: each push or pop wakes the one sleeper there is.
LEMMA NoLostWakeupStep ==
  ASSUME TypeOK, Sleepers, OneSenderInside, NoLostWakeup, [Next]_vars
  PROVE  NoLostWakeup'
<1>1. ASSUME waiting' = {} PROVE NoLostWakeup'
  BY <1>1 DEF NoLostWakeup
<1>2. ASSUME waiting' \subseteq waiting, queue' = queue PROVE NoLostWakeup'
  BY <1>2 DEF NoLostWakeup, Blocks, HasRoom, Victims
<1>3. ASSUME NEW s \in Senders, Push(s) \/ DropAndPush(s)
      PROVE  NoLostWakeup'
  <2>1. NotifyOne /\ pc[s] \notin {"idle", "waiting"}
    BY <1>3 DEF Push, DropAndPush, InBody
  <2> QED
    BY <1>1, <2>1, OneSleeper
<1>4. ASSUME NEW s \in Senders, Block(s) PROVE NoLostWakeup'
  <2>1. waiting' = waiting \cup {s} /\ queue' = queue /\ Blocks(queue)
    BY <1>4 DEF Block, Sleep
  <2> QED
    BY <2>1, MpscAssumption DEF NoLostWakeup, Blocks, HasRoom, Victims
<1>5. CASE Recv
  <2>1. NotifyOne /\ Receiver \notin waiting
    BY <1>5 DEF Recv, AtHead, Sleepers
  <2> QED
    BY <1>1, <2>1, OneSleeper
<1>6. CASE RecvWait
  <2>1. waiting' = waiting \cup {Receiver} /\ queue' = queue /\ queue = <<>>
    BY <1>6 DEF RecvWait, Sleep
  <2> QED
    BY <2>1, MpscAssumption DEF NoLostWakeup, Blocks, HasRoom, Victims
<1>7. ASSUME NEW s \in Senders, NEW o \in ActionOps,
             CallSend(s, o) \/ CallTrySend(s, o)
      PROVE  NoLostWakeup'
  BY <1>2, <1>7 DEF CallSend, CallTrySend, Call
<1>8. ASSUME NEW s \in Senders, Refuse(s) \/ Wake(s) PROVE NoLostWakeup'
  BY <1>2, <1>8 DEF Refuse, Wake
<1>9. CASE RecvNone \/ Close \/ DropReceiver \/ NotifyAll
  BY <1>1, <1>2, <1>9 DEF RecvNone, Close, DropReceiver, SetClosed, NotifyAll
<1>10. ASSUME NEW t \in Threads, Spurious(t) PROVE NoLostWakeup'
  BY <1>2, <1>10 DEF Spurious
<1>11. CASE UNCHANGED vars
  BY <1>2, <1>11 DEF vars
<1> QED
  BY <1>3, <1>4, <1>5, <1>6, <1>7, <1>8, <1>9, <1>10, <1>11
    DEF Next, SenderStep, ReceiverStep

\* The inductive invariant holds of a new queue ...
LEMMA InitIInv == ASSUME Init PROVE IInv
<1>1. Sleepers /\ NoLostWakeup
  BY DEF Init, Sleepers, NoLostWakeup
<1>2. OneSenderInside
  BY DEF Init, OneSenderInside, Threads
<1> QED
  BY <1>1, <1>2, InitTypeOK DEF IInv

\* ... and every step of the queue preserves it.
LEMMA IInvStep == ASSUME IInv, [Next]_vars PROVE IInv'
<1>1. TypeOK'
  BY TypeStep DEF IInv
<1>2. Sleepers'
  BY SleepersStep DEF IInv
<1>3. Exclusive => OneSenderInside' /\ NoLostWakeup'
  BY OneSenderStep, NoLostWakeupStep DEF IInv
<1> QED
  BY <1>1, <1>2, <1>3 DEF IInv

\* The inductive invariant holds of the queue whatever its threads do.
THEOREM Invariance == Spec => []IInv
<1>1. Init => IInv
  BY InitIInv
<1>2. IInv /\ [Next]_vars => IInv'
  BY IInvStep
<1> QED
  BY <1>1, <1>2, PTL DEF Spec

\* A queue whose senders exclude each other, as the store's do, loses no
\* wake-up on its single condition variable.
THEOREM ExclusiveSendersSafe ==
  ASSUME Exclusive
  PROVE  Spec => [](OneSenderInside /\ NoLostWakeup)
<1>1. IInv => OneSenderInside /\ NoLostWakeup
  BY DEF IInv
<1> QED
  BY <1>1, Invariance, PTL

-----------------------------------------------------------------------------
(* Order *)

\* What has come out, or has still to come.
Out == received \o queue

\* The item of a call has not been accepted before, and only accepted items are
\* dropped.
Fresh ==
  /\ \A x \in ToSet(accepted) : x.no <= sent[x.by]
  /\ \A s \in Senders : pc[s] # "idle" => Item(s) \notin ToSet(accepted)
  /\ dropped \subseteq ToSet(accepted)

\* The types as the argument uses them.
LEMMA OrderTypes ==
  ASSUME TypeOK
  PROVE  /\ queue \in Seq(Items) /\ received \in Seq(Items)
         /\ accepted \in Seq(Items) /\ Out \in Seq(Items)
         /\ ToSet(accepted) \subseteq Items
         /\ DOMAIN Out = 1 .. Len(Out) /\ Len(Out) \in Nat
         /\ DOMAIN accepted = 1 .. Len(accepted) /\ Len(accepted) \in Nat
<1>1. queue \in Seq(Items) /\ received \in Seq(Items) /\ accepted \in Seq(Items)
  BY DEF TypeOK
<1>2. Out \in Seq(Items)
  BY <1>1, ConcatProperties DEF Out
<1> QED
  BY <1>1, <1>2, LenProperties, ToSetProperties

\* A victim has been accepted.
LEMMA VictimAccepted ==
  ASSUME TypeOK, InOrder, NEW i \in Victims(queue)
  PROVE  /\ i \in 1 .. Len(queue)
         /\ Len(received) + i \in 1 .. Len(Out)
         /\ Out[Len(received) + i] = queue[i]
         /\ queue[i] \in ToSet(accepted)
<1>1. i \in 1 .. Len(queue)
  BY OrderTypes, VictimProperties
<1>2. /\ Len(received) \in Nat /\ Len(queue) \in Nat
      /\ Len(Out) = Len(received) + Len(queue)
      /\ \A j \in 1 .. Len(received) + Len(queue) :
           Out[j] = IF j <= Len(received) THEN received[j]
                                          ELSE queue[j - Len(received)]
  BY OrderTypes, ConcatProperties, LenProperties DEF Out
<1>3. /\ Len(received) + i \in 1 .. Len(Out)
      /\ ~(Len(received) + i <= Len(received))
      /\ (Len(received) + i) - Len(received) = i
  BY <1>1, <1>2
<1>4. Out[Len(received) + i] = queue[i]
  BY <1>2, <1>3
<1>5. queue[i] \in ToSet(Out)
  BY <1>3, <1>4, OrderTypes DEF ToSet
<1> QED
  BY <1>1, <1>3, <1>4, <1>5 DEF InOrder, Out

\* No step accepts an item twice.
LEMMA FreshStep ==
  ASSUME TypeOK, Fresh, InOrder, [Next]_vars
  PROVE  Fresh'
<1> USE DEF Fresh
<1>1. /\ Receiver \notin Senders /\ \A s \in Senders : sent[s] \in Nat
      /\ \A x \in ToSet(accepted) : x.by \in Senders /\ x.no \in Nat
      /\ pc \in [Threads -> SenderPcs \cup ReceiverPcs]
      /\ sent \in [Senders -> 0 .. MaxSends]
      /\ op \in [Senders -> ActionOps \cup {NoOp}]
  BY OrderTypes, MpscAssumption DEF TypeOK, Items
<1>2. ASSUME NEW s \in Senders, NEW o \in ActionOps,
             NEW entry \in {"enter", "tryEnter"}, Call(s, o, entry)
      PROVE  Fresh'
  <2>1. /\ UNCHANGED <<accepted, dropped>> /\ pc[s] = "idle"
        /\ sent' = [sent EXCEPT ![s] = @ + 1]
        /\ \A t \in Senders \ {s} : pc'[t] = pc[t] /\ op'[t] = op[t]
    BY <1>1, <1>2 DEF Call, MayCall, history, Threads
  <2>2. \A t \in Senders : sent[t] <= sent'[t]
    BY <1>1, <2>1
  <2>3. \A x \in ToSet(accepted) : x.no <= sent'[x.by]
    BY <1>1, <2>1, <2>2
  <2>4. Item(s)' \notin ToSet(accepted)
    <3>1. Item(s)'.by = s /\ Item(s)'.no = sent[s] + 1
      BY <1>1, <2>1 DEF Item
    <3>2. \A x \in ToSet(accepted) : x.by = s => x.no <= sent[s]
      OBVIOUS
    <3> QED
      BY <1>1, <3>1, <3>2
  <2>5. \A t \in Senders \ {s} : Item(t)' = Item(t)
    BY <1>1, <2>1 DEF Item
  <2> QED
    BY <2>1, <2>3, <2>4, <2>5
<1>3. ASSUME NEW s \in Senders, Push(s) \/ DropAndPush(s)
      PROVE  Fresh'
  <2>1. /\ pc[s] # "idle" /\ accepted' = Append(accepted, Item(s))
        /\ UNCHANGED sent
        /\ pc' = [pc EXCEPT ![s] = "idle"] /\ op' = [op EXCEPT ![s] = NoOp]
    BY <1>3 DEF Push, DropAndPush, InBody, Return
  <2>2. Item(s) \in Items
    BY <2>1, ItemType
  <2>3. ToSet(accepted') = ToSet(accepted) \cup {Item(s)}
    BY <2>1, <2>2, OrderTypes, AppendSet
  <2>4. Item(s).by = s /\ Item(s).no = sent[s]
    BY DEF Item
  <2>5. \A x \in ToSet(accepted') : x.no <= sent'[x.by]
    BY <1>1, <2>1, <2>3, <2>4
  <2>6. ASSUME NEW t \in Senders, pc'[t] # "idle"
        PROVE  Item(t)' \notin ToSet(accepted')
    <3>1. t # s /\ pc[t] # "idle" /\ Item(t)' = Item(t)
      BY <1>1, <2>1, <2>6 DEF Item, Threads
    <3>2. Item(t).by = t
      BY DEF Item
    <3> QED
      BY <2>3, <2>4, <3>1, <3>2
  <2>7. dropped' \subseteq ToSet(accepted')
    <3>1. CASE UNCHANGED dropped
      BY <2>3, <3>1
    <3>2. CASE DropAndPush(s)
      <4>1. PICK i \in Victims(queue) : dropped' = dropped \cup {queue[i]}
        BY <3>2 DEF DropAndPush
      <4> QED
        BY <2>3, <4>1, VictimAccepted
    <3> QED
      BY <1>3, <3>1, <3>2 DEF Push
  <2> QED
    BY <2>5, <2>6, <2>7
<1>4. ASSUME UNCHANGED <<accepted, dropped, sent>>,
             \A s \in Senders : pc'[s] # "idle" => pc[s] # "idle"
                                                   /\ op'[s] = op[s]
      PROVE  Fresh'
  BY <1>4 DEF Item
<1>5. ASSUME NEW s \in Senders, Block(s) \/ Refuse(s) \/ Wake(s)
      PROVE  Fresh'
  BY <1>1, <1>4, <1>5 DEF Block, Refuse, Wake, InBody, Sleep, Return, history,
                          Threads
<1>6. CASE ReceiverStep \/ Close \/ DropReceiver
  BY <1>1, <1>4, <1>6
    DEF ReceiverStep, Recv, RecvWait, RecvNone, NotifyAll, Sleep, Close,
        DropReceiver, SetClosed, history, Threads
<1>7. CASE (\E t \in Threads : Spurious(t)) \/ UNCHANGED vars
  BY <1>4, <1>7 DEF Spurious, vars, history
<1> QED
  BY <1>2, <1>3, <1>5, <1>6, <1>7 DEF Next, SenderStep, CallSend, CallTrySend

\* An accepted item goes behind all that has come out or has to come.
LEMMA AppendOrder ==
  ASSUME NEW o \in Seq(Items), NEW a \in Seq(Items), NEW x \in Items,
         IsInjective(a), x \notin ToSet(a), ToSet(o) \subseteq ToSet(a),
         SameOrder(o, a)
  PROVE  SameOrder(Append(o, x), Append(a, x))
<1> DEFINE p == Append(o, x)
           b == Append(a, x)
<1>1. /\ Len(o) \in Nat /\ DOMAIN o = 1 .. Len(o)
      /\ Len(a) \in Nat /\ DOMAIN a = 1 .. Len(a)
  BY LenProperties
<1>2. /\ p \in Seq(Items) /\ Len(p) = Len(o) + 1
      /\ \A i \in 1 .. Len(o) : p[i] = o[i]
      /\ p[Len(o) + 1] = x
  BY AppendProperties
<1>3. /\ b \in Seq(Items) /\ Len(b) = Len(a) + 1
      /\ \A i \in 1 .. Len(a) : b[i] = a[i]
      /\ b[Len(a) + 1] = x
  BY AppendProperties
<1> HIDE DEF p, b
<1>4. DOMAIN p = 1 .. Len(o) + 1 /\ DOMAIN b = 1 .. Len(a) + 1
  BY <1>2, <1>3, LenProperties
<1>5. /\ \A i \in 1 .. Len(o) : p[i] # x
      /\ \A k \in 1 .. Len(a) : b[k] # x
  <2>1. ASSUME NEW i \in 1 .. Len(o) PROVE p[i] # x
    <3>1. o[i] \in ToSet(o)
      BY <1>1, <2>1 DEF ToSet
    <3> QED
      BY <1>2, <2>1, <3>1
  <2>2. ASSUME NEW k \in 1 .. Len(a) PROVE b[k] # x
    <3>1. a[k] \in ToSet(a)
      BY <1>1, <2>2 DEF ToSet
    <3> QED
      BY <1>3, <2>2, <3>1
  <2> QED
    BY <2>1, <2>2
<1>6. ASSUME NEW i \in DOMAIN p, NEW j \in DOMAIN p,
             NEW k \in DOMAIN b, NEW l \in DOMAIN b,
             i < j, p[i] = b[k], p[j] = b[l]
      PROVE  k < l
  <2>1. i \in 1 .. Len(o)
    BY <1>1, <1>4, <1>6
  <2>2. k \in 1 .. Len(a)
    BY <1>1, <1>3, <1>4, <1>5, <1>6, <2>1
  <2>3. CASE j \in 1 .. Len(o)
    <3>1. l \in 1 .. Len(a)
      BY <1>1, <1>3, <1>4, <1>5, <1>6, <2>3
    <3> QED
      BY <1>1, <1>2, <1>3, <1>6, <2>1, <2>2, <2>3, <3>1 DEF SameOrder
  <2>4. CASE j = Len(o) + 1
    <3>1. l = Len(a) + 1
      BY <1>1, <1>2, <1>4, <1>5, <1>6, <2>4
    <3> QED
      BY <1>1, <2>2, <3>1
  <2> QED
    BY <1>1, <1>4, <2>3, <2>4
<1> QED
  BY <1>6 DEF SameOrder, p, b

\* What the policy takes out leaves the rest in order.
LEMMA RemoveOrder ==
  ASSUME NEW o \in Seq(Items), NEW a \in Seq(Items), NEW n \in 1 .. Len(o),
         SameOrder(o, a)
  PROVE  SameOrder(RemoveAt(o, n), a)
<1> DEFINE r == RemoveAt(o, n)
<1>1. /\ Len(o) \in Nat /\ DOMAIN o = 1 .. Len(o)
      /\ r \in Seq(Items) /\ Len(r) = Len(o) - 1
      /\ \A j \in 1 .. Len(o) - 1 : r[j] = IF j < n THEN o[j] ELSE o[j + 1]
  BY LenProperties, RemoveAtProperties
<1>2. DOMAIN r = 1 .. Len(o) - 1
  BY <1>1, LenProperties
<1> HIDE DEF r
<1>3. ASSUME NEW i \in DOMAIN r, NEW j \in DOMAIN r, i < j
      PROVE  \E g, h \in DOMAIN o : g < h /\ r[i] = o[g] /\ r[j] = o[h]
  <2>1. CASE j < n
    BY <1>1, <1>2, <1>3, <2>1
  <2>2. CASE i < n /\ n <= j
    <3>1. r[i] = o[i] /\ r[j] = o[j + 1] /\ j + 1 \in DOMAIN o /\ i \in DOMAIN o
      BY <1>1, <1>2, <1>3, <2>2
    <3>2. i < j + 1
      BY <1>1, <1>2, <1>3
    <3> QED
      BY <3>1, <3>2
  <2>3. CASE n <= i
    <3>1. /\ r[i] = o[i + 1] /\ r[j] = o[j + 1]
          /\ i + 1 \in DOMAIN o /\ j + 1 \in DOMAIN o
      BY <1>1, <1>2, <1>3, <2>3
    <3> QED
      BY <1>1, <1>2, <1>3, <3>1
  <2> QED
    BY <1>1, <1>2, <1>3, <2>1, <2>2, <2>3
<1> QED
  BY <1>3 DEF SameOrder, r

\* Nothing comes out twice.
LEMMA OutInjective ==
  ASSUME TypeOK, InOrder
  PROVE  IsInjective(Out)
<1>1. \A i \in DOMAIN Out : \E k \in DOMAIN accepted : Out[i] = accepted[k]
  <2> DEFINE o == Out
  <2>1. ToSet(o) \subseteq ToSet(accepted)
    BY DEF InOrder, Out
  <2> HIDE DEF o
  <2>2. \A i \in DOMAIN o : \E k \in DOMAIN accepted : o[i] = accepted[k]
    BY <2>1 DEF ToSet
  <2> QED
    BY <2>2 DEF o
<1>2. /\ DOMAIN Out \subseteq Nat /\ DOMAIN accepted \subseteq Nat
  BY OrderTypes, LenProperties
<1>3. \A i, j \in DOMAIN Out : Out[i] = Out[j] => ~(i < j)
  <2> SUFFICES ASSUME NEW i \in DOMAIN Out, NEW j \in DOMAIN Out,
                      Out[i] = Out[j], i < j
               PROVE  FALSE
    OBVIOUS
  <2>1. PICK k \in DOMAIN accepted : Out[i] = accepted[k]
    BY <1>1
  <2>2. k < k
    BY <2>1 DEF InOrder, SameOrder, Out
  <2> QED
    BY <1>2, <2>2
<1>4. \A i, j \in DOMAIN Out : Out[i] = Out[j] => i = j
  BY <1>2, <1>3
<1> QED
  BY <1>4 DEF IsInjective

\* No step of the queue breaks the order.
LEMMA OrderStep ==
  ASSUME TypeOK, Fresh, InOrder, [Next]_vars
  PROVE  InOrder'
<1>1. ASSUME NEW s \in Senders, Push(s)
      PROVE  InOrder'
  <2> DEFINE x == Item(s)
  <2>1. /\ queue' = Append(queue, x) /\ accepted' = Append(accepted, x)
        /\ UNCHANGED <<received, dropped>> /\ pc[s] # "idle"
    BY <1>1 DEF Push, InBody
  <2>2. x \in Items /\ x \notin ToSet(accepted)
    BY <2>1, ItemType DEF Fresh
  <2> HIDE DEF x
  <2>3. Out' = Append(Out, x)
    BY <2>1, <2>2, OrderTypes, ConcatAppend DEF Out
  <2>4. /\ ToSet(Append(Out, x)) = ToSet(Out) \cup {x}
        /\ ToSet(Append(accepted, x)) = ToSet(accepted) \cup {x}
        /\ IsInjective(Append(accepted, x))
    BY <2>2, OrderTypes, AppendSet DEF InOrder
  <2>5. SameOrder(Append(Out, x), Append(accepted, x))
    BY <2>2, OrderTypes, AppendOrder DEF InOrder, Out
  <2>6. x \notin dropped
    BY <2>2 DEF Fresh
  <2> QED
    BY <2>1, <2>3, <2>4, <2>5, <2>6 DEF InOrder, Out
<1>2. ASSUME NEW s \in Senders, DropAndPush(s)
      PROVE  InOrder'
  <2> DEFINE x == Item(s)
  <2>1. PICK i \in Victims(queue) :
          /\ queue' = Append(RemoveAt(queue, i), x)
          /\ dropped' = dropped \cup {queue[i]}
    BY <1>2 DEF DropAndPush
  <2>2. /\ accepted' = Append(accepted, x) /\ UNCHANGED received
        /\ pc[s] # "idle"
    BY <1>2 DEF DropAndPush, InBody
  <2>3. x \in Items /\ x \notin ToSet(accepted)
    BY <2>2, ItemType DEF Fresh
  <2> HIDE DEF x
  <2> DEFINE n == Len(received) + i
             r == RemoveAt(Out, n)
  <2>4. /\ i \in 1 .. Len(queue) /\ n \in 1 .. Len(Out) /\ Out[n] = queue[i]
        /\ queue[i] \in ToSet(accepted)
    BY OrderTypes, VictimAccepted
  <2>5. Out' = Append(r, x)
    <3>1. RemoveAt(queue, i) \in Seq(Items)
      BY <2>4, OrderTypes, RemoveAtProperties
    <3>2. received \o Append(RemoveAt(queue, i), x)
            = Append(received \o RemoveAt(queue, i), x)
      BY <2>3, <3>1, OrderTypes, ConcatAppend
    <3>3. received \o RemoveAt(queue, i) = r
      BY <2>4, OrderTypes, ConcatRemoveAt DEF Out
    <3> QED
      BY <2>1, <2>2, <3>2, <3>3 DEF Out
  <2> HIDE DEF n
  <2>6. r \in Seq(Items) /\ ToSet(r) = ToSet(Out) \ {queue[i]}
    <3>1. Out \in Seq(Items) /\ IsInjective(Out)
      BY OrderTypes, OutInjective
    <3>2. r \in Seq(Items)
      BY <2>4, <3>1, RemoveAtProperties
    <3>3. ToSet(r) = ToSet(Out) \ {Out[n]}
      BY <2>4, <3>1, RemoveAtInjective
    <3> QED
      BY <2>4, <3>2, <3>3
  <2>7. SameOrder(r, accepted)
    BY <2>4, OrderTypes, RemoveOrder DEF InOrder, Out
  <2> HIDE DEF r
  <2>8. /\ ToSet(Append(r, x)) = ToSet(r) \cup {x}
        /\ ToSet(Append(accepted, x)) = ToSet(accepted) \cup {x}
        /\ IsInjective(Append(accepted, x))
    BY <2>3, <2>6, OrderTypes, AppendSet DEF InOrder
  <2>9. ToSet(r) = ToSet(accepted) \ dropped'
    BY <2>1, <2>6 DEF InOrder, Out
  <2>10. SameOrder(Append(r, x), Append(accepted, x))
    BY <2>3, <2>6, <2>7, <2>9, OrderTypes, AppendOrder DEF InOrder
  <2>11. x \notin dropped'
    BY <2>1, <2>3, <2>4 DEF Fresh
  <2> QED
    BY <2>2, <2>5, <2>8, <2>9, <2>10, <2>11 DEF InOrder, Out
<1>3. CASE Recv
  <2>1. /\ queue # <<>> /\ queue' = Tail(queue)
        /\ received' = Append(received, Head(queue))
        /\ UNCHANGED <<accepted, dropped>>
    BY <1>3 DEF Recv
  <2>2. Out' = Out
    BY <2>1, OrderTypes, HeadToLast DEF Out
  <2> QED
    BY <2>1, <2>2 DEF InOrder, Out
<1>4. \/ \E s \in Senders : Push(s) \/ DropAndPush(s)
      \/ Recv
      \/ UNCHANGED <<queue, accepted, received, dropped>>
  BY DEF Next, vars, history, Call, CallSend, CallTrySend, SenderStep,
         Block, Refuse, Wake, ReceiverStep, RecvWait, RecvNone,
         NotifyAll, Close, DropReceiver, SetClosed, Spurious
<1> QED
  BY <1>1, <1>2, <1>3, <1>4 DEF InOrder

\* Whatever senders, policies, close() and wake-ups do, the receiver gets the
\* accepted items, each once and in order, less those the policy dropped.
THEOREM OrderKept == Spec => []InOrder
<1>1. ASSUME Init PROVE Fresh /\ InOrder
  <2>1. /\ accepted = <<>> /\ queue = <<>> /\ received = <<>> /\ dropped = {}
        /\ \A s \in Senders : pc[s] = "idle"
    BY <1>1 DEF Init, Threads
  <2>2. <<>> \o <<>> = <<>> /\ ToSet(<<>>) = {} /\ IsInjective(<<>>)
    BY EmptySeq, ConcatEmptySeq DEF ToSet, IsInjective
  <2> QED
    BY <2>1, <2>2 DEF Fresh, InOrder, SameOrder
<1>2. TypeOK /\ Fresh /\ InOrder /\ [Next]_vars => Fresh' /\ InOrder'
  BY FreshStep, OrderStep
<1> QED
  BY <1>1, <1>2, TypeCorrectness, PTL DEF Spec

-----------------------------------------------------------------------------
(* Refinement *)

\* The operators of the abstract channel are those of the queue.
LEMMA ChannelDefs ==
  /\ \A q : Channel!HasRoom(q) <=> HasRoom(q)
  /\ \A q : Channel!Victims(q) = Victims(q)
  /\ \A q, i : Channel!RemoveAt(q, i) = RemoveAt(q, i)
BY DEF Channel!HasRoom, HasRoom, Channel!Victims, Victims,
       Channel!Droppable, Droppable, Channel!RemoveAt, RemoveAt

\* Every step of the queue is a step of the abstract channel, or none.
LEMMA StepSimulation ==
  ASSUME TypeOK, [Next]_vars
  PROVE  [Channel!ChannelNext]_(Channel!chVars)
<1> USE DEF Channel!chVars
<1>1. ASSUME NEW s \in Senders, Push(s)
      PROVE  Channel!Accept(Item(s)) /\ Item(s) \in Items
  <2>1. Item(s) \in Items
    BY <1>1, ItemType DEF Push, InBody
  <2> QED
    BY <1>1, <2>1, ChannelDefs DEF Push, Channel!Accept
<1>2. ASSUME NEW s \in Senders, DropAndPush(s)
      PROVE  Channel!AcceptDropping(Item(s)) /\ Item(s) \in Items
  <2>1. Item(s) \in Items
    BY <1>2, ItemType DEF DropAndPush, InBody
  <2>2. PICK i \in Victims(queue) :
          /\ queue' = Append(RemoveAt(queue, i), Item(s))
          /\ dropped' = dropped \cup {queue[i]}
    BY <1>2 DEF DropAndPush
  <2>3. ~Channel!HasRoom(queue) /\ i \in Channel!Victims(queue)
    BY <1>2, <2>2, ChannelDefs DEF DropAndPush
  <2>4. /\ queue' = Append(Channel!RemoveAt(queue, i), Item(s))
        /\ accepted' = Append(accepted, Item(s))
        /\ UNCHANGED received
    BY <1>2, <2>2, ChannelDefs DEF DropAndPush
  <2> QED
    BY <2>1, <2>2, <2>3, <2>4, Zenon DEF Channel!AcceptDropping
<1>3. CASE Recv
  BY <1>3 DEF Recv, Channel!Deliver, Channel!ChannelNext
<1>4. \/ \E s \in Senders : Push(s) \/ DropAndPush(s)
      \/ Recv
      \/ UNCHANGED <<queue, accepted, received, dropped>>
  BY DEF Next, vars, history, Call, CallSend, CallTrySend, SenderStep,
         Block, Refuse, Wake, ReceiverStep, RecvWait, RecvNone,
         NotifyAll, Close, DropReceiver, SetClosed, Spurious
<1> QED
  BY <1>1, <1>2, <1>3, <1>4 DEF Channel!ChannelNext

\* The threads, the mutexes and the condition variable of the queue implement
\* the abstract bounded channel, for any senders, policy and capacity.
THEOREM Refinement == Spec => ImplementsChannel
<1>1. Init => Channel!ChannelInit
  BY DEF Init, Channel!ChannelInit
<1>2. TypeOK /\ [Next]_vars => [Channel!ChannelNext]_(Channel!chVars)
  BY StepSimulation
<1> QED
  BY <1>1, <1>2, TypeCorrectness, PTL
    DEF Spec, ImplementsChannel, Channel!ChannelSpec

=============================================================================
