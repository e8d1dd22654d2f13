----------------------------- MODULE MpscQueue ------------------------------
(***************************************************************************)
(* MpscQueue<T> of src/channel.rs and the SenderChannel / ReceiverChannel  *)
(* handles over it, at the granularity of its mutexes and its condition    *)
(* variable.                                                               *)
(*                                                                         *)
(* The queue mutex makes the code between its acquisition and its release  *)
(* (or the wait that releases it) one step.  The one place where another   *)
(* thread's step matters while it is held is between the test of `closed`  *)
(* after a wake-up and what follows, because close() sets `closed` and     *)
(* notifies without taking the queue mutex: there lock names the owner.    *)
(*                                                                         *)
(* One condition variable serves both ends.  A thread in pc "waiting" is   *)
(* asleep while it is in the set waiting, and once a notification has      *)
(* taken it out it competes for the mutex.                                 *)
(*                                                                         *)
(* A definition marked "Faulty" is not part of the specification: it is an *)
(* error one could make in the code, which stands in for the definition    *)
(* after it to see that a property notices.                                *)
(***************************************************************************)
EXTENDS Backpressure

CONSTANTS
  Senders,          \* the threads that hold a SenderChannel
  Receiver,         \* the thread that owns the ReceiverChannel
  NoOne,            \* owner of a free mutex
  NoOp,             \* no ActionOp: the sender is not inside a call
  MaxSends,         \* bound on the calls of one sender
  Exclusive,        \* the senders hold a common mutex around each call, as
                    \* StoreImpl::dispatch holds dispatch_tx
  MayClose,         \* the receiver may close its end
  SpuriousWakeups   \* Condvar::wait may return without a notification

Threads == Senders \cup {Receiver}

ASSUME MpscAssumption ==
  /\ Receiver \notin Senders
  /\ NoOne \notin Threads
  /\ NoOp \notin ActionOps
  /\ MaxSends \in Nat
  /\ {Exclusive, MayClose, SpuriousWakeups} \subseteq BOOLEAN

\* An item is told apart from every other by its sender and call number.
Items == [op : ActionOps, by : Senders, no : 1 .. MaxSends]

VARIABLES
  queue,      \* the VecDeque
  closed,     \* the flag set by close()
  lock,       \* owner of the queue mutex across a wake-up, NoOne elsewhere
  waiting,    \* the threads asleep on the condition variable
  pc,         \* where each thread is in its call
  op,         \* the ActionOp each sender is sending
  sent,       \* how many calls each sender has begun
  accepted,   \* history: the items pushed, in order
  received,   \* history: the items popped, in order
  dropped     \* history: the items removed by the policy

history == <<accepted, received, dropped>>
vars == <<queue, closed, lock, waiting, pc, op, sent, accepted, received,
          dropped>>

SenderPcs == {"idle", "enter", "tryEnter", "waiting", "loop"}
ReceiverPcs == {"idle", "waiting", "closeNotify", "dropNotify", "gone"}

Init ==
  /\ queue = <<>>
  /\ closed = FALSE
  /\ lock = NoOne
  /\ waiting = {}
  /\ pc = [t \in Threads |-> "idle"]
  /\ op = [s \in Senders |-> NoOp]
  /\ sent = [s \in Senders |-> 0]
  /\ accepted = <<>>
  /\ received = <<>>
  /\ dropped = {}

Item(s) == [op |-> op[s], by |-> s, no |-> sent[s]]

-----------------------------------------------------------------------------
(* Helpers: the condition variable and the end of a call. *)

\* condvar.notify_one(): any one sleeper, whichever end it belongs to.
NotifyOne ==
  \/ waiting = {} /\ UNCHANGED waiting
  \/ \E t \in waiting : waiting' = waiting \ {t}

\* condvar.wait(queue): sleep and release the mutex in one step.
Sleep(t) ==
  /\ waiting' = waiting \cup {t}
  /\ pc' = [pc EXCEPT ![t] = "waiting"]
  /\ lock' = NoOne

\* The call of s returns and the mutex is free again.
Return(s) ==
  /\ pc' = [pc EXCEPT ![s] = "idle"]
  /\ op' = [op EXCEPT ![s] = NoOp]
  /\ lock' = NoOne

\* s owns the queue mutex when it runs the body of send's loop: it has just
\* acquired it, or has kept it since it tested `closed` after a wake-up.
InBody(s) ==
  \/ pc[s] \in {"enter", "tryEnter"} /\ lock = NoOne
  \/ pc[s] = "loop" /\ lock = s

-----------------------------------------------------------------------------
(* send and try_send *)

MayCall(s) ==
  /\ pc[s] = "idle"
  /\ sent[s] < MaxSends
  /\ Exclusive => \A t \in Senders \ {s} : pc[t] = "idle"

\* The call begins with the test of `closed`, before the queue mutex.
Call(s, o, entry) ==
  /\ MayCall(s)
  /\ sent' = [sent EXCEPT ![s] = @ + 1]
  /\ \/ /\ closed
        /\ UNCHANGED <<pc, op>>
     \/ /\ ~closed
        /\ pc' = [pc EXCEPT ![s] = entry]
        /\ op' = [op EXCEPT ![s] = o]
  /\ UNCHANGED <<queue, closed, lock, waiting, history>>

CallSend(s, o) == Call(s, o, "enter")
CallTrySend(s, o) == Call(s, o, "tryEnter")

\* Faulty Push: the receiver is not told.
PushSilently(s) ==
  /\ InBody(s)
  /\ HasRoom(queue)
  /\ queue' = Append(queue, Item(s))
  /\ accepted' = Append(accepted, Item(s))
  /\ Return(s)
  /\ UNCHANGED <<closed, waiting, sent, received, dropped>>

\* There is room: push, notify, return Ok.
Push(s) ==
  /\ InBody(s)
  /\ HasRoom(queue)
  /\ queue' = Append(queue, Item(s))
  /\ accepted' = Append(accepted, Item(s))
  /\ NotifyOne
  /\ Return(s)
  /\ UNCHANGED <<closed, sent, received, dropped>>

\* Faulty DropAndPush: the new item takes the victim's place.
DropInPlace(s) ==
  /\ InBody(s)
  /\ ~HasRoom(queue)
  /\ \E i \in Victims(queue) :
       /\ queue' = [queue EXCEPT ![i] = Item(s)]
       /\ dropped' = dropped \cup {queue[i]}
  /\ accepted' = Append(accepted, Item(s))
  /\ NotifyOne
  /\ Return(s)
  /\ UNCHANGED <<closed, sent, received>>

\* Faulty DropAndPush: the call ends without the second turn of the loop.
DropWithoutPush(s) ==
  /\ InBody(s)
  /\ ~HasRoom(queue)
  /\ \E i \in Victims(queue) :
       /\ queue' = RemoveAt(queue, i)
       /\ dropped' = dropped \cup {queue[i]}
  /\ NotifyOne
  /\ Return(s)
  /\ UNCHANGED <<closed, sent, accepted, received>>

\* The queue is full and the scan finds a victim: it is removed and the loop
\* comes back to push the new item, still under the mutex.
DropAndPush(s) ==
  /\ InBody(s)
  /\ ~HasRoom(queue)
  /\ \E i \in Victims(queue) :
       /\ queue' = Append(RemoveAt(queue, i), Item(s))
       /\ dropped' = dropped \cup {queue[i]}
  /\ accepted' = Append(accepted, Item(s))
  /\ NotifyOne
  /\ Return(s)
  /\ UNCHANGED <<closed, sent, received>>

\* send finds nothing to drop and waits for space.
Block(s) ==
  /\ InBody(s)
  /\ pc[s] # "tryEnter"
  /\ Blocks(queue)
  /\ Sleep(s)
  /\ UNCHANGED <<queue, closed, op, sent, history>>

\* try_send finds nothing to drop and returns the item.
Refuse(s) ==
  /\ InBody(s)
  /\ pc[s] = "tryEnter"
  /\ Blocks(queue)
  /\ Return(s)
  /\ UNCHANGED <<queue, closed, waiting, sent, history>>

\* A woken sender has the mutex back and tests `closed`: Err(ChannelClosed),
\* or back to the loop with the mutex held.
Wake(s) ==
  /\ pc[s] = "waiting"
  /\ s \notin waiting
  /\ lock = NoOne
  /\ \/ /\ closed
        /\ Return(s)
     \/ /\ ~closed
        /\ pc' = [pc EXCEPT ![s] = "loop"]
        /\ lock' = s
        /\ UNCHANGED op
  /\ UNCHANGED <<queue, closed, waiting, sent, history>>

-----------------------------------------------------------------------------
(* recv, try_recv, close and the drop of the receiver *)

\* The receiver has the mutex at the head of recv's loop.
AtHead ==
  /\ lock = NoOne
  /\ \/ pc[Receiver] = "idle"
     \/ pc[Receiver] = "waiting" /\ Receiver \notin waiting

\* Faulty Recv: a sender that waits for space is not told.
RecvSilently ==
  /\ AtHead
  /\ queue # <<>>
  /\ queue' = Tail(queue)
  /\ received' = Append(received, Head(queue))
  /\ pc' = [pc EXCEPT ![Receiver] = "idle"]
  /\ UNCHANGED <<closed, lock, waiting, op, sent, accepted, dropped>>

\* pop_front, notify_one.  From "idle" this is also a try_recv that returns
\* an item (a try_recv that returns None changes nothing).
Recv ==
  /\ AtHead
  /\ queue # <<>>
  /\ queue' = Tail(queue)
  /\ received' = Append(received, Head(queue))
  /\ NotifyOne
  /\ pc' = [pc EXCEPT ![Receiver] = "idle"]
  /\ UNCHANGED <<closed, lock, op, sent, accepted, dropped>>

\* The queue is empty and the channel open: sleep.
RecvWait ==
  /\ AtHead
  /\ queue = <<>>
  /\ ~closed
  /\ Sleep(Receiver)
  /\ UNCHANGED <<queue, closed, op, sent, history>>

\* The queue is empty and the channel closed: None.  Every loop over recv
\* ends there and drops the receiver, which sets `closed` once more.
RecvNone ==
  /\ AtHead
  /\ queue = <<>>
  /\ closed
  /\ pc' = [pc EXCEPT ![Receiver] = "dropNotify"]
  /\ UNCHANGED <<queue, closed, lock, waiting, op, sent, history>>

\* First half of MpscQueue::close, by ReceiverChannel::close or by its drop.
SetClosed(next) ==
  /\ MayClose
  /\ pc[Receiver] = "idle"
  /\ closed' = TRUE
  /\ pc' = [pc EXCEPT ![Receiver] = next]
  /\ UNCHANGED <<queue, lock, waiting, op, sent, history>>

Close == SetClosed("closeNotify")
DropReceiver == SetClosed("dropNotify")

\* Second half: condvar.notify_all(), without the queue mutex.
NotifyAll ==
  /\ pc[Receiver] \in {"closeNotify", "dropNotify"}
  /\ waiting' = {}
  /\ pc' = [pc EXCEPT ![Receiver] =
              IF @ = "closeNotify" THEN "idle" ELSE "gone"]
  /\ UNCHANGED <<queue, closed, lock, op, sent, history>>

\* A sleeper returns from wait without a notification.
Spurious(t) ==
  /\ SpuriousWakeups
  /\ t \in waiting
  /\ waiting' = waiting \ {t}
  /\ UNCHANGED <<queue, closed, lock, pc, op, sent, history>>

-----------------------------------------------------------------------------

SenderStep(s) ==
  Push(s) \/ DropAndPush(s) \/ Block(s) \/ Refuse(s) \/ Wake(s)

ReceiverStep == Recv \/ RecvWait \/ RecvNone \/ NotifyAll

Next ==
  \/ \E s \in Senders, o \in ActionOps : CallSend(s, o) \/ CallTrySend(s, o)
  \/ \E s \in Senders : SenderStep(s)
  \/ ReceiverStep
  \/ Close
  \/ DropReceiver
  \/ \E t \in Threads : Spurious(t)

Spec == Init /\ [][Next]_vars

\* The scheduler runs a thread that is inside send, and the loops over recv
\* call it again as soon as they have handled an item.  Nobody has to call
\* send, to close the channel or to wake up spuriously.
Fairness ==
  /\ \A s \in Senders : WF_vars(SenderStep(s))
  /\ WF_vars(ReceiverStep)

FairSpec == Spec /\ Fairness

-----------------------------------------------------------------------------
(* Properties *)

\* Every variable has its type, and the queue never outgrows its capacity,
\* whatever the senders, the policy and close() do.
TypeOK ==
  /\ queue \in Seq(Items) /\ Len(queue) <= Capacity
  /\ closed \in BOOLEAN
  /\ lock \in Senders \cup {NoOne}
  /\ waiting \subseteq Threads
  /\ pc \in [Threads -> SenderPcs \cup ReceiverPcs]
  /\ \A s \in Senders : pc[s] \in SenderPcs
  /\ pc[Receiver] \in ReceiverPcs
  /\ op \in [Senders -> ActionOps \cup {NoOp}]
  /\ \A s \in Senders : pc[s] # "idle" => op[s] # NoOp /\ sent[s] >= 1
  /\ sent \in [Senders -> 0 .. MaxSends]
  /\ accepted \in Seq(Items)
  /\ received \in Seq(Items)
  /\ dropped \subseteq Items

\* The elements of sequence out come in the order in which they are in seq.
SameOrder(out, seq) ==
  \A i, j \in DOMAIN out : \A k, l \in DOMAIN seq :
    i < j /\ out[i] = seq[k] /\ out[j] = seq[l] => k < l

\* What was received, followed by what is still queued, is exactly what was
\* accepted, in order of acceptance, less what the policy dropped: send,
\* try_send, recv and close between them neither lose, nor duplicate, nor
\* reorder an item.
InOrder ==
  /\ IsInjective(accepted)
  /\ ToSet(received \o queue) = ToSet(accepted) \ dropped
  /\ SameOrder(received \o queue, accepted)

\* At most one sender is inside a call: what the mutex dispatch_tx of the store
\* gives the queue below it.
OneSenderInside ==
  \A s, t \in Senders : pc[s] # "idle" /\ pc[t] # "idle" => s = t

\* With a single sender at a time the one condition variable is enough,
\* although notify_one does not choose between its two kinds of sleepers: the
\* receiver sleeps only on an empty queue and a sender only on a queue it can
\* do nothing about.
NoLostWakeup ==
  /\ Receiver \in waiting => queue = <<>>
  /\ \A s \in Senders \cap waiting : Blocks(queue)

\* Under any policy, a call to send that finds the queue full returns in the
\* end if the receiver goes on receiving.
SendReturns == \A s \in Senders : pc[s] # "idle" ~> pc[s] = "idle"

Channel == INSTANCE BoundedChannel

\* Threads, locks and condition variable implement the abstract channel.
ImplementsChannel == Channel!ChannelSpec

\* An item the receiver could take is in the end taken, if sends are exclusive
\* and the receiver stays: no wake-up is lost between the two ends.
ImplementsFairChannel == Channel!FairChannelSpec

\* The comment in recv, "Wait until there's an item or channel is closed": a
\* receiver asleep while there is an item does not stay so.  It is false of a
\* queue that several senders use at once.
WaitsForItemOnly ==
  Receiver \in waiting /\ queue # <<>>
    ~> Receiver \notin waiting \/ queue = <<>>

=============================================================================
