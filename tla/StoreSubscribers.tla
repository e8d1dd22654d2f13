-------------------------- MODULE StoreSubscribers --------------------------
(***************************************************************************)
(* The subscribers with a channel of their own: ChanneledSubscriber with   *)
(* its thread (src/store_impl.rs) and StateIterator with the thread that   *)
(* consumes it (src/iterator.rs), beside the clients and the reducer.      *)
(*                                                                         *)
(* Callbacks of a channeled subscriber may call the store back, and        *)
(* on_notify and on_unsubscribe may block with mutexes held: so the        *)
(* mutexes of dispatch_tx, adding_subscribers, subscribers and of each     *)
(* channeled subscriber's tx are variables.  All channels block when full. *)
(* A send into a subscriber's channel is the send of MpscQueue: a test of  *)
(* closed, then, under the queue's mutex, a push or a wait; one sender at  *)
(* a time (OneSenderPerFeed), so that a pop wakes the sender that waits.   *)
(*                                                                         *)
(* A state is its version, the number of actions reduced.  Definitions     *)
(* marked "Faulty" stand in for the one after them (see StoreImpl).        *)
(***************************************************************************)
EXTENDS Integers, Sequences, SequencesExt

CONSTANTS
  Clients,       \* threads that call the store
  Channeled,     \* subscribers with a thread of their own, and that thread
  Iterators,     \* state iterators, and the thread that consumes each
  Reducer,       \* the reducer thread
  Capacity,      \* of the dispatch channel
  FeedCapacity,  \* of each subscriber's channel
  MayCall,       \* what each client, or callback of a thread, may call
  MaxCalls,      \* bound on the calls of each of them
  NoOne

Subs == Channeled \cup Iterators
Threads == Clients \cup Subs \cup {Reducer}
Calls == {"dispatch", "subscribed", "unsubscribe", "close"}

ASSUME SubscribersAssumption ==
  /\ Clients \cap Subs = {} /\ Channeled \cap Iterators = {}
  /\ Reducer \notin Clients \cup Subs
  /\ NoOne \notin Threads
  /\ Capacity \in Nat \ {0} /\ FeedCapacity \in Nat \ {0}
  /\ MayCall \in [Clients \cup Channeled -> SUBSET Calls]
  /\ MaxCalls \in [Clients \cup Channeled -> Nat]

\* In a subscriber's channel a version stands for Action, 0 for Exit.
Exit == 0

Unlisted == -1

VARIABLES
  version,                 \* the state
  queue, txOpen, txLock,   \* the dispatch channel, dispatch_tx and its mutex
  adding, addingLock,      \* adding_subscribers and the owner of its mutex
  subscribers, subsLock,   \* subscribers and the owner of its mutex
  feed,       \* each subscriber's channel
  feedLock,   \* the owner of the mutex of each channeled subscriber's tx
  ending,     \* whose tx is taken; of iterators, to whom Exit was sent
  closed,     \* the iterators whose receiver is closed
  held,       \* the subscriptions their owners hold
  pc,         \* where each thread is
  op,         \* the ActionOp a thread sends into the dispatch channel
  target,     \* the subscriber a client or a callback deals with
  rest,       \* the subscribers the reducer has still to call
  calls,      \* how many calls each thread has begun
  base,       \* history: the version when a subscriber, its receiver still
              \* there, was listed, or Unlisted
  views       \* history: the versions each subscriber was notified of

dispatchTx == <<queue, txOpen, txLock>>
lists == <<adding, addingLock, subscribers, subsLock>>
feeds == <<feed, feedLock, ending, closed>>
locals == <<op, target, rest, calls>>
history == <<base, views>>
vars == <<version, dispatchTx, lists, feeds, held, pc, locals, history>>

Init ==
  /\ version = 0
  /\ queue = <<>> /\ txOpen = TRUE /\ txLock = NoOne
  /\ adding = <<>> /\ addingLock = NoOne
  /\ subscribers = <<>> /\ subsLock = NoOne
  /\ feed = [x \in Subs |-> <<>>]
  /\ feedLock = [x \in Channeled |-> NoOne]
  /\ ending = {} /\ closed = {} /\ held = {}
  /\ pc = [t \in Threads |-> CASE t \in Clients -> "idle"
                               [] t \in Subs    -> "unborn"
                               [] t = Reducer   -> "recv"]
  /\ op = [t \in Threads |-> "none"]
  /\ target = [t \in Clients \cup Channeled |-> NoOne]
  /\ rest = <<>>
  /\ calls = [t \in Clients \cup Channeled |-> 0]
  /\ base = [x \in Subs |-> Unlisted]
  /\ views = [x \in Subs |-> <<>>]

Goto(t, next_pc) == pc' = [pc EXCEPT ![t] = next_pc]

\* retain(|s| s.id != subscriber_id): ids are unique.
Without(seq, x) ==
  IF x \in ToSet(seq) THEN RemoveAt(seq, CHOOSE i \in DOMAIN seq : seq[i] = x)
                      ELSE seq

\* Where t goes when a call returns: a client, a callback, or the consumer,
\* which has just got its iterator.
Home(t) ==
  CASE t \in Clients -> "idle" [] t \in Channeled -> "callback"
    [] t \in Iterators -> "next"

Return(t) ==
  /\ Goto(t, Home(t))
  /\ op' = [op EXCEPT ![t] = "none"]
  /\ target' = [u \in DOMAIN target |-> IF u = t THEN NoOne ELSE target[u]]

\* The subscriber t deals with.
Target(t) ==
  CASE t = Reducer -> Head(rest) [] t \in Iterators -> t
    [] OTHER -> target[t]

\* What t sends to it: the reducer notifies, unless it clears the list with the
\* mutex held; everybody else unsubscribes.
Msg(t) == IF t = Reducer /\ subsLock # Reducer THEN version ELSE Exit

-----------------------------------------------------------------------------
(* Calls of clients and of callbacks *)

Begin(t, kind, next_pc) ==
  /\ pc[t] = Home(t)
  /\ kind \in MayCall[t] /\ calls[t] < MaxCalls[t]
  /\ calls' = [calls EXCEPT ![t] = @ + 1]
  /\ Goto(t, next_pc)

CallDispatch(t) ==
  /\ Begin(t, "dispatch", "lockTx")
  /\ op' = [op EXCEPT ![t] = "Action"]
  /\ UNCHANGED <<version, dispatchTx, lists, feeds, held, target, rest,
                 history>>

CallClose(t) ==
  /\ Begin(t, "close", "lockTx")
  /\ op' = [op EXCEPT ![t] = "Exit"]
  /\ UNCHANGED <<version, dispatchTx, lists, feeds, held, target, rest,
                 history>>

\* Subscription::unsubscribe.  A callback that unsubscribes its own subscriber
\* would join its own thread, which panics: left out.
CallUnsubscribe(t, x) ==
  /\ x \in held \cap Channeled /\ x # t
  /\ Begin(t, "unsubscribe", "lockAdding")
  /\ target' = [target EXCEPT ![t] = x]
  /\ UNCHANGED <<version, dispatchTx, lists, feeds, held, op, rest,
                 history>>

\* subscribed_with: the thread starts, then add_subscriber begins.
CallSubscribed(t, x) ==
  /\ pc[x] = "unborn"
  /\ pc[t] = Home(t)
  /\ "subscribed" \in MayCall[t] /\ calls[t] < MaxCalls[t]
  /\ calls' = [calls EXCEPT ![t] = @ + 1]
  /\ pc' = [pc EXCEPT ![t] = "push", ![x] = "recv"]
  /\ op' = [op EXCEPT ![t] = "AddSubscriber"]
  /\ target' = [target EXCEPT ![t] = x]
  /\ UNCHANGED <<version, dispatchTx, lists, feeds, held, rest, history>>

\* iter: add_subscriber by the thread that is to consume.
CallIter(x) ==
  /\ pc[x] = "unborn"
  /\ Goto(x, "push")
  /\ op' = [op EXCEPT ![x] = "AddSubscriber"]
  /\ UNCHANGED <<version, dispatchTx, lists, feeds, held, target, rest, calls,
                 history>>

\* add_subscriber: push to adding_subscribers.
PushAdding(t) ==
  /\ pc[t] = "push"
  /\ addingLock = NoOne
  /\ adding' = Append(adding, Target(t))
  /\ Goto(t, "lockTx")
  /\ UNCHANGED <<version, dispatchTx, addingLock, subscribers, subsLock,
                 feeds, held, locals, history>>

\* dispatch_tx is Some: kept locked for the send, but for close(), which takes
\* the sender and lets go.
LockTx(t) ==
  /\ pc[t] = "lockTx"
  /\ txLock = NoOne
  /\ txOpen
  /\ IF op[t] = "Exit"
       THEN txOpen' = FALSE /\ UNCHANGED txLock
       ELSE txLock' = t /\ UNCHANGED txOpen
  /\ Goto(t, "sendOp")
  /\ UNCHANGED <<version, queue, lists, feeds, held, locals, history>>

\* dispatch_tx is None: the call returns; add_subscriber first takes its
\* subscriber back, with dispatch_tx still locked.
FindClosed(t) ==
  /\ pc[t] = "lockTx"
  /\ txLock = NoOne
  /\ ~txOpen
  /\ IF op[t] = "AddSubscriber"
       THEN txLock' = t /\ Goto(t, "undo") /\ UNCHANGED <<op, target>>
       ELSE Return(t) /\ UNCHANGED txLock
  /\ UNCHANGED <<version, queue, txOpen, lists, feeds, held, rest, calls,
                 history>>

\* add_subscriber fails: nobody tells the thread of a channeled subscriber; the
\* receiver of an iterator is dropped.
UndoAdding(t) ==
  /\ pc[t] = "undo"
  /\ addingLock = NoOne
  /\ adding' = Without(adding, Target(t))
  /\ txLock' = NoOne
  /\ IF t \in Iterators
       THEN Goto(t, "failed") /\ UNCHANGED <<op, target>>
       ELSE Return(t)
  /\ UNCHANGED <<version, queue, txOpen, addingLock, subscribers, subsLock,
                 feeds, held, rest, calls, history>>

\* Faulty SendOp: a send that waits without looking for space again.
SendOpUnchecked(t) ==
  /\ pc[t] = "sendOp"
  /\ queue' = Append(queue, op[t])
  /\ txLock' = IF txLock = t THEN NoOne ELSE txLock
  /\ held' = IF op[t] = "AddSubscriber" THEN held \cup {Target(t)} ELSE held
  /\ Return(t)
  /\ UNCHANGED <<version, txOpen, lists, feeds, rest, calls, history>>

\* The send into the dispatch channel, when there is room.
SendOp(t) ==
  /\ pc[t] = "sendOp"
  /\ Len(queue) < Capacity
  /\ queue' = Append(queue, op[t])
  /\ txLock' = IF txLock = t THEN NoOne ELSE txLock
  /\ held' = IF op[t] = "AddSubscriber" THEN held \cup {Target(t)} ELSE held
  /\ Return(t)
  /\ UNCHANGED <<version, txOpen, lists, feeds, rest, calls, history>>

-----------------------------------------------------------------------------
(* unsubscribe: both mutexes are held until on_unsubscribe has returned *)

LockAdding(t) ==
  /\ pc[t] = "lockAdding" /\ t # Reducer
  /\ addingLock = NoOne
  /\ addingLock' = t
  /\ adding' = Without(adding, Target(t))
  /\ Goto(t, "lockSubs")
  /\ UNCHANGED <<version, dispatchTx, subscribers, subsLock, feeds, held,
                 locals, history>>

LockSubscribers(t) ==
  /\ pc[t] = "lockSubs" /\ t # Reducer
  /\ subsLock = NoOne
  /\ subsLock' = t
  /\ Goto(t, IF Target(t) \in ToSet(subscribers) THEN "off" ELSE "told")
  /\ UNCHANGED <<version, dispatchTx, adding, addingLock, subscribers, feeds,
                 held, locals, history>>

\* The subscriber is off the list and the mutexes are released.
Unsubscribed(t) ==
  /\ pc[t] = "told" /\ t # Reducer
  /\ subscribers' = Without(subscribers, Target(t))
  /\ addingLock' = NoOne /\ subsLock' = NoOne
  /\ IF t \in Iterators
       THEN /\ Goto(t, IF t \in closed THEN "ended" ELSE "close")
            /\ UNCHANGED <<op, target>>
       ELSE Return(t)
  /\ UNCHANGED <<version, dispatchTx, adding, feeds, held, rest, calls,
                 history>>

-----------------------------------------------------------------------------
(* on_unsubscribe, of whoever calls it *)

\* Faulty OffChanneled: the thread is joined, but not told to end.
OffWithoutExit(t) ==
  /\ pc[t] = "off"
  /\ Target(t) \in Channeled
  /\ feedLock[Target(t)] = NoOne
  /\ ending' = ending \cup {Target(t)}
  /\ Goto(t, "join")
  /\ UNCHANGED <<version, dispatchTx, lists, feed, feedLock, closed, held,
                 locals, history>>

\* ChanneledSubscriber: tx is taken under its mutex, and the mutex released
\* for the send of Exit.
OffChanneled(t) ==
  /\ pc[t] = "off"
  /\ Target(t) \in Channeled
  /\ feedLock[Target(t)] = NoOne
  /\ ending' = ending \cup {Target(t)}
  /\ Goto(t, IF Target(t) \in ending THEN "join" ELSE "send")
  /\ UNCHANGED <<version, dispatchTx, lists, feed, feedLock, closed, held,
                 locals, history>>

\* StateIteratorSubscriber: the send, which first looks at closed.
OffIterator(t) ==
  /\ pc[t] = "off"
  /\ Target(t) \in Iterators
  /\ Goto(t, IF Target(t) \in closed THEN "told" ELSE "send")
  /\ UNCHANGED <<version, dispatchTx, lists, feeds, held, locals, history>>

\* The thread of a channeled subscriber has ended.
Joined(t) ==
  /\ pc[t] = "join"
  /\ pc[Target(t)] = "ended"
  /\ Goto(t, "told")
  /\ UNCHANGED <<version, dispatchTx, lists, feeds, held, locals, history>>

-----------------------------------------------------------------------------
(* The send into a subscriber's channel, under its queue's mutex *)

\* The reducer goes on to the next of those it has to notify.
NotifyRest(seq) ==
  /\ rest' = seq
  /\ Goto(Reducer, IF seq = <<>> THEN "recv" ELSE "notify")

\* The message is out, or given up: on_notify or on_unsubscribe goes on.
AfterSend(t) ==
  IF Msg(t) # Exit
    THEN NotifyRest(Tail(rest))
    ELSE /\ Goto(t, IF Target(t) \in Channeled THEN "join" ELSE "told")
         /\ UNCHANGED rest

\* Faulty FeedPush: a notification does not wait for room, and is lost.
FeedTryPush(t) ==
  /\ pc[t] \in {"send", "wait"}
  /\ LET x == Target(t) IN
       /\ Msg(t) = Exit => Len(feed[x]) < FeedCapacity
       /\ feed' = IF Len(feed[x]) < FeedCapacity
                    THEN [feed EXCEPT ![x] = Append(@, Msg(t))] ELSE feed
       /\ feedLock' = [y \in Channeled |->
                        IF feedLock[y] = t THEN NoOne ELSE feedLock[y]]
       /\ ending' = IF Msg(t) = Exit THEN ending \cup {x} ELSE ending
  /\ AfterSend(t)
  /\ UNCHANGED <<version, dispatchTx, lists, closed, held, op, target, calls,
                 history>>

FeedPush(t) ==
  /\ pc[t] \in {"send", "wait"}
  /\ LET x == Target(t) IN
       /\ Len(feed[x]) < FeedCapacity
       /\ feed' = [feed EXCEPT ![x] = Append(@, Msg(t))]
       /\ feedLock' = [y \in Channeled |->
                        IF feedLock[y] = t THEN NoOne ELSE feedLock[y]]
       /\ ending' = IF Msg(t) = Exit THEN ending \cup {x} ELSE ending
  /\ AfterSend(t)
  /\ UNCHANGED <<version, dispatchTx, lists, closed, held, op, target, calls,
                 history>>

FeedWait(t) ==
  /\ pc[t] = "send"
  /\ Len(feed[Target(t)]) >= FeedCapacity
  /\ Goto(t, "wait")
  /\ UNCHANGED <<version, dispatchTx, lists, feeds, held, locals, history>>

\* Woken by close()'s notify_all, the sender finds the channel closed.
FeedGiveUp(t) ==
  /\ pc[t] = "giveUp"
  /\ AfterSend(t)
  /\ UNCHANGED <<version, dispatchTx, lists, feeds, held, op, target, calls,
                 history>>

-----------------------------------------------------------------------------
(* The thread of a channeled subscriber: subscribed_loop *)

LoopRecv(x) ==
  /\ pc[x] = "recv" /\ x \in Channeled
  /\ feed[x] # <<>>
  /\ feed' = [feed EXCEPT ![x] = Tail(@)]
  /\ IF Head(feed[x]) = Exit
       THEN Goto(x, "ended") /\ UNCHANGED views
       ELSE /\ views' = [views EXCEPT ![x] = Append(@, Head(feed[x]))]
            /\ Goto(x, "callback")
  /\ UNCHANGED <<version, dispatchTx, lists, feedLock, ending, closed, held,
                 locals, base>>

CallbackReturns(x) ==
  /\ pc[x] = "callback"
  /\ Goto(x, "recv")
  /\ UNCHANGED <<version, dispatchTx, lists, feeds, held, locals, history>>

-----------------------------------------------------------------------------
(* The consumer of an iterator *)

IterCallNext(x) ==
  /\ pc[x] = "next"
  /\ Goto(x, "recv")
  /\ UNCHANGED <<version, dispatchTx, lists, feeds, held, locals, history>>

\* next(): an item, or Exit, upon which it unsubscribes and closes.
IterNext(x) ==
  /\ pc[x] = "recv" /\ x \in Iterators
  /\ feed[x] # <<>>
  /\ feed' = [feed EXCEPT ![x] = Tail(@)]
  /\ IF Head(feed[x]) = Exit
       THEN Goto(x, "lockAdding") /\ held' = held \ {x} /\ UNCHANGED views
       ELSE /\ views' = [views EXCEPT ![x] = Append(@, Head(feed[x]))]
            /\ Goto(x, "next") /\ UNCHANGED held
  /\ UNCHANGED <<version, dispatchTx, lists, feedLock, ending, closed, locals,
                 base>>

\* The receiver is dropped, after Exit or, with the iterator, between two calls
\* of next() ...
IterClose(x) ==
  /\ pc[x] \in {"next", "close", "failed"}
  /\ closed' = closed \cup {x}
  /\ Goto(x, "notifyAll")
  /\ UNCHANGED <<version, dispatchTx, lists, feed, feedLock, ending, held,
                 locals, history>>

\* ... which wakes the senders that wait now, and no other; drop() goes on to
\* unsubscribe.
IterNotifyAll(x) ==
  /\ pc[x] = "notifyAll"
  /\ pc' = [t \in Threads |->
             CASE t = x -> IF x \in held THEN "lockAdding" ELSE "ended"
               [] pc[t] = "wait" /\ Target(t) = x -> "giveUp"
               [] OTHER -> pc[t]]
  /\ held' = held \ {x}
  /\ UNCHANGED <<version, dispatchTx, lists, feeds, locals, history>>

-----------------------------------------------------------------------------
(* The reducer thread *)

Recv ==
  /\ pc[Reducer] = "recv"
  /\ queue # <<>>
  /\ queue' = Tail(queue)
  /\ version' = IF Head(queue) = "Action" THEN version + 1 ELSE version
  /\ Goto(Reducer, CASE Head(queue) = "Action"        -> "snapshot"
                     [] Head(queue) = "AddSubscriber" -> "lockAdding"
                     [] Head(queue) = "Exit"          -> "clear")
  /\ UNCHANGED <<txOpen, txLock, lists, feeds, held, locals, history>>

\* do_notify clones the list.
Snapshot ==
  /\ pc[Reducer] = "snapshot"
  /\ subsLock = NoOne
  /\ NotifyRest(subscribers)
  /\ UNCHANGED <<version, dispatchTx, lists, feeds, held, op, target, calls,
                 history>>

\* Faulty NotifyChanneled: the sender is cloned and tx released for the send.
NotifyCloneTx ==
  /\ pc[Reducer] = "notify"
  /\ Head(rest) \in Channeled
  /\ feedLock[Head(rest)] = NoOne
  /\ IF Head(rest) \in ending
       THEN NotifyRest(Tail(rest))
       ELSE Goto(Reducer, "send") /\ UNCHANGED rest
  /\ UNCHANGED <<version, dispatchTx, lists, feeds, held, op, target, calls,
                 history>>

\* on_notify of a channeled subscriber locks tx, for the send if it is there.
NotifyChanneled ==
  /\ pc[Reducer] = "notify"
  /\ Head(rest) \in Channeled
  /\ feedLock[Head(rest)] = NoOne
  /\ IF Head(rest) \in ending
       THEN NotifyRest(Tail(rest)) /\ UNCHANGED feedLock
       ELSE /\ feedLock' = [feedLock EXCEPT ![Head(rest)] = Reducer]
            /\ Goto(Reducer, "send") /\ UNCHANGED rest
  /\ UNCHANGED <<version, dispatchTx, lists, feed, ending, closed, held, op,
                 target, calls, history>>

\* on_notify of an iterator's subscriber: the send first looks at closed.
NotifyIterator ==
  /\ pc[Reducer] = "notify"
  /\ Head(rest) \in Iterators
  /\ IF Head(rest) \in closed
       THEN NotifyRest(Tail(rest))
       ELSE Goto(Reducer, "send") /\ UNCHANGED rest
  /\ UNCHANGED <<version, dispatchTx, lists, feeds, held, op, target, calls,
                 history>>

\* AddSubscriber: adding_subscribers is locked ...
LockNewSubscribers ==
  /\ pc[Reducer] = "lockAdding"
  /\ addingLock = NoOne
  /\ IF adding = <<>>
       THEN Goto(Reducer, "recv") /\ UNCHANGED addingLock
       ELSE Goto(Reducer, "lockSubs") /\ addingLock' = Reducer
  /\ UNCHANGED <<version, dispatchTx, adding, subscribers, subsLock, feeds,
                 held, locals, history>>

\* ... and drained into subscribers.  on_subscribe does nothing: neither kind
\* of subscriber hands it on.
DoSubscribe ==
  /\ pc[Reducer] = "lockSubs"
  /\ subsLock = NoOne
  /\ subscribers' = subscribers \o adding
  /\ adding' = <<>> /\ addingLock' = NoOne
  /\ base' = [x \in Subs |->
               IF x \in ToSet(adding) \ closed THEN version ELSE base[x]]
  /\ Goto(Reducer, "recv")
  /\ UNCHANGED <<version, dispatchTx, subsLock, feeds, held, locals, views>>

\* Faulty ClearSubscribers: the list is cleared, and nobody told.
ClearUntold ==
  /\ pc[Reducer] = "clear"
  /\ subsLock = NoOne
  /\ subscribers' = <<>>
  /\ Goto(Reducer, "done")
  /\ UNCHANGED <<version, dispatchTx, adding, addingLock, subsLock, feeds,
                 held, locals, history>>

\* The list is locked until everybody in seq is told and it is cleared; then
\* the reducer thread ends.
ClearRest(seq) ==
  /\ rest' = seq
  /\ Goto(Reducer, IF seq = <<>> THEN "done" ELSE "off")
  /\ subsLock' = IF seq = <<>> THEN NoOne ELSE Reducer
  /\ subscribers' = IF seq = <<>> THEN <<>> ELSE subscribers
  /\ UNCHANGED <<version, dispatchTx, adding, addingLock, feeds, held, op,
                 target, calls, history>>

\* clear_subscribers: on_unsubscribe of every subscriber.
ClearSubscribers ==
  /\ pc[Reducer] = "clear"
  /\ subsLock = NoOne
  /\ ClearRest(subscribers)

ClearTold ==
  /\ pc[Reducer] = "told"
  /\ ClearRest(Tail(rest))

-----------------------------------------------------------------------------
Calling(t) ==
  \/ CallDispatch(t) \/ CallClose(t)
  \/ \E x \in Channeled : CallUnsubscribe(t, x) \/ CallSubscribed(t, x)

\* What a thread does when it can: in a call, with a message.
Step(t) ==
  \/ PushAdding(t) \/ LockTx(t) \/ FindClosed(t) \/ UndoAdding(t) \/ SendOp(t)
  \/ LockAdding(t) \/ LockSubscribers(t) \/ Unsubscribed(t)
  \/ OffChanneled(t) \/ OffIterator(t) \/ Joined(t)
  \/ FeedPush(t) \/ FeedWait(t) \/ FeedGiveUp(t)

Consume(x) ==
  \/ LoopRecv(x) \/ CallbackReturns(x)
  \/ IterCallNext(x) \/ IterNext(x) \/ IterClose(x) \/ IterNotifyAll(x)

Reduce ==
  \/ Recv \/ Snapshot \/ NotifyChanneled \/ NotifyIterator
  \/ LockNewSubscribers \/ DoSubscribe \/ ClearSubscribers \/ ClearTold

Next ==
  \/ \E t \in Clients \cup Channeled : Calling(t)
  \/ \E x \in Iterators : CallIter(x)
  \/ \E t \in Threads : Step(t)
  \/ \E x \in Subs : Consume(x)
  \/ Reduce

Spec == Init /\ [][Next]_vars

\* A thread that can go on does; a consumer goes on with next() or drops the
\* iterator.  Nobody has to call anything.
Fairness ==
  /\ \A t \in Threads : WF_vars(Step(t))
  /\ \A x \in Subs : WF_vars(Consume(x))
  /\ WF_vars(Reduce)

FairSpec == Spec /\ Fairness

-----------------------------------------------------------------------------
(* Properties *)

Steps == {"idle", "unborn", "recv", "push", "lockTx", "sendOp", "undo",
          "lockAdding", "lockSubs", "off", "send", "wait", "giveUp", "join",
          "told", "callback", "next", "close", "failed", "notifyAll",
          "snapshot", "notify", "clear", "done", "ended"}

\* Every variable has its type; the channels keep within their capacity.
TypeOK ==
  /\ version \in Nat
  /\ queue \in Seq({"Action", "AddSubscriber", "Exit"})
  /\ Len(queue) <= Capacity
  /\ txOpen \in BOOLEAN
  /\ {txLock, addingLock, subsLock} \subseteq Threads \cup {NoOne}
  /\ {adding, subscribers, rest} \subseteq Seq(Subs)
  /\ feed \in [Subs -> Seq(Nat)]
  /\ \A x \in Subs : Len(feed[x]) <= FeedCapacity
  /\ feedLock \in [Channeled -> {Reducer, NoOne}]
  /\ ending \subseteq Subs /\ closed \subseteq Iterators /\ held \subseteq Subs
  /\ pc \in [Threads -> Steps]
  /\ op \in [Threads -> {"none", "Action", "AddSubscriber", "Exit"}]
  /\ target \in [Clients \cup Channeled -> Channeled \cup {NoOne}]
  /\ calls \in [Clients \cup Channeled -> Nat]
  /\ base \in [Subs -> Nat \cup {Unlisted}]
  /\ views \in [Subs -> Seq(Nat)]

\* A subscriber's channel never has two senders inside, though on_notify runs
\* on a clone of the list while others unsubscribe: what the channel's single
\* condition variable needs (ExclusiveSendersSafe in MpscQueueProofs).
OneSenderPerFeed ==
  \A t, u \in Threads :
    /\ pc[t] \in {"send", "wait"}
    /\ pc[u] \in {"send", "wait"}
    /\ Target(t) = Target(u)
    => t = u

\* Once the reducer thread has ended, so has the thread of every channeled
\* subscriber that was ever told: those that go on for ever are the ones that
\* never were on the list, because add_subscriber failed or unsubscribe came
\* first.
EndedWithReducer ==
  pc[Reducer] = "done" =>
    /\ subscribers = <<>>
    /\ \A x \in Channeled :
         base[x] # Unlisted => pc[x] = "ended"

\* A consumer that has read Exit or dropped its iterator.
Leaving == {"lockAdding", "lockSubs", "off", "told", "close", "notifyAll",
            "ended"}

\* The subscriber's channel without what comes behind Exit, which is a stale
\* notification of an iterator and never read.
Pending(x) ==
  LET exits == {i \in DOMAIN feed[x] : feed[x][i] = Exit} IN
  IF x \in Iterators /\ pc[x] \in Leaving THEN <<>>
  ELSE IF exits = {} THEN feed[x]
  ELSE SubSeq(feed[x], 1, (CHOOSE i \in exits : \A j \in exits : i <= j) - 1)

Phase(x) ==
  CASE x \in ending \/ x \in closed \/ pc[x] = "ended" -> "off"
    [] x \notin ending \cup closed /\ x \in ToSet(subscribers) -> "on"
    [] OTHER -> "waiting"

Feeds ==
  INSTANCE SubscriberFeed WITH
    Quitters <- Iterators,
    phase <- [x \in Subs |-> Phase(x)],
    base <- [x \in Subs |-> IF base[x] = Unlisted THEN 0 ELSE base[x]],
    sent <- [x \in Subs |-> views[x] \o Pending(x)],
    seen <- [x \in Subs |-> Len(views[x])],
    over <- {x \in Subs : x \in closed \/ pc[x] = "ended"}

\* Each subscriber is served as SubscriberFeed promises: all states while it is
\* listed, in order, then its end.
ImplementsFeed == Feeds!Spec

\* A thread waits for a subscriber, for room in its channel or for its thread
\* to end, while that subscriber is inside a call of the store: a callback that
\* calls back, or iter() when another thread's AddSubscriber has listed the
\* iterator before iter() has returned.
SubscriberInside ==
  \E x \in Subs, t \in Threads :
    /\ pc[x] \in {"push", "lockTx", "sendOp", "undo", "lockAdding", "lockSubs",
                  "off", "send", "wait", "join"}
    /\ x \in Iterators => pc[x] \in {"lockTx", "sendOp", "undo"}
    /\ pc[t] \in {"wait", "join"} /\ Target(t) = x

\* A sender that had passed the test of closed waits for room in the channel of
\* an iterator that is gone.
MissedClose ==
  \E x \in Iterators, t \in Threads :
    /\ x \in closed /\ pc[x] # "notifyAll"
    /\ pc[t] = "wait" /\ Target(t) = x

InCall(t) == pc[t] \notin {"idle", "unborn", "recv", "next", "done", "ended"}

\* Every call, callback, notification and unsubscription comes to its end, with
\* the mutexes held in between: as there are boundedly many, the store comes to
\* rest with nobody inside.  There are two kinds of deadlock it cannot rule out: a
\* subscriber that is waited for while it calls the store, and an iterator
\* dropped at the wrong moment.
CallsReturn ==
  \/ <>[](SubscriberInside \/ MissedClose)
  \/ <>[](\A t \in Threads : ~InCall(t))

\* README.md: new subscribers "don't miss the current state and can start with
\* the latest information": the first state a subscriber is told of is the one
\* it found when it was listed.
StartsWithCurrentState ==
  \A x \in Channeled :
    views[x] # <<>> => Head(views[x]) <= base[x]

=============================================================================
