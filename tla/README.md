# rs-store in TLA+

rs-store is a Redux-like store for Rust: clients dispatch actions into a bounded
channel, one reducer thread turns them into states, notifies subscribers and
hands effects to a thread pool. The modules here model its concurrency (the
channel with its backpressure policies, the store around it, the subscribers
with a channel of their own, the end of a store) and what it computes
(reducers, middlewares, metrics, and the repository's examples and tests as
programs). They are checked with TLC on small instances. The safety of the channel,
of the store around it, of the subscribers with a channel of their own and of the
end of a store is proved with TLAPS for every value of the constants.

Paths are those of the repository under `src/`: `src/src/channel.rs` is the
crate's `channel.rs`.

## The system

| component | state | operations | status |
|---|---|---|---|
| bounded channel (`channel.rs`) | a queue under a mutex, a flag `closed` under another, one condition variable | send, try_send, recv, try_recv, close, drop of the receiver | modelled, proved |
| store core (`store_impl.rs`) | state, subscribers, adding_subscribers, state_functions, dispatch_tx, pool: each under its mutex | dispatch, add_subscriber, unsubscribe, query_state, close, stop, stop_timeout; the reducer thread | modelled, proved; panics under a mutex and callbacks on the reducer thread that call back excepted |
| dispatcher, effects (`dispatcher.rs`, `effect.rs`) | the pool's tasks | dispatch_thunk, dispatch_task, dispatch from a thunk, through a weak reference too | modelled with the store |
| subscribers (`subscriber.rs`) | ids from a global counter | on_subscribe, on_notify, on_unsubscribe | modelled with the store, proved |
| channeled subscriber (`store_impl.rs` 920-1138) | a channel and a thread per subscriber | subscribed_with, on_notify, on_unsubscribe, the thread's loop and its callbacks | modelled, proved to implement SubscriberFeed |
| state iterator (`iterator.rs`) | a channel per iterator | iter, next, drop, on_notify, on_unsubscribe | modelled, proved to implement SubscriberFeed |
| reducers, middleware (`reducer.rs`, `middleware.rs`) | none | reduce, chain | modelled as operators |
| metrics (`metrics.rs`) | atomics | counters, maxima, snapshots | modelled, reset() excepted; gauges and counters proved |
| lifetime (`Drop` of the store, WeakDispatcher) | reference counts | drop, upgrade | modelled, proved |
| builder (`builder.rs`) | its arguments | every method, build | modelled as operators |
| examples, unit tests | | what they call and assert | programs of Pipeline, but for performance_state_size.rs |

How they interact. A client's dispatch, add_subscriber or query_state locks
`dispatch_tx` and sends one `ActionOp` into the dispatch channel with the mutex
held; the send may block when the queue is full, and everybody else then waits
for the mutex. Subscribers and query functions do not travel in the channel:
they are pushed to `adding_subscribers` or `state_functions` before, and the
`ActionOp` only tells the reducer thread to look there. close() takes the sender
out of `dispatch_tx` and sends Exit; stop() is close() and then takes the pool
and joins it, the reducer thread being one of its tasks. The reducer thread
calls middlewares and reducers, queues the effects in the pool, writes the state
and calls a clone of the subscriber list; the pool's threads run the effects,
which may dispatch again.

A channeled subscriber and an iterator are subscribers whose on_notify sends
into a channel of their own, which another thread reads; on_unsubscribe sends
Exit into it and, for a channeled subscriber, joins that thread with the mutexes
of both lists held. The reducer thread owns a reference of the store, and so
does the task of an Effect::Function; other effects have a weak one.

What is hard. One condition variable wakes both ends of the channel. The data
of a subscription or a query and the message about it travel apart. The
subscriber list is read under a mutex and used after it. Exit is sent after the
mutex that kept senders apart is released. stop() takes away the pool that the
reducer thread may still need. Callbacks of a channeled subscriber run while
others wait for its thread with mutexes held. An iterator goes away whenever its
owner likes, in the middle of a send. Drop runs on whichever thread was last,
and joins the pool that thread may belong to. What makes the parts correct:

- channel: accepted items come out once and in order, or were dropped by the
  policy from a full queue; control operations are never dropped; nobody sleeps
  for ever on something it could do;
- store: Exit is the last item; every call returns; every subscriber sees a
  gapless sequence of states that begins with on_subscribe and ends with one
  on_unsubscribe; every accepted query runs once;
- channeled subscribers and iterators: each is told all states while it is
  listed, in order, then its end; its channel has one sender at a time; its
  thread ends with the reducer thread;
- values: the loop over the reducers is a ReducerChain, middlewares nest, the
  counters add up, and what examples and tests assert holds in every interleaving;
- end: Drop runs once, last, and has nothing to send;
- what is not true of it is recorded as findings (below).

## Modules

    SequenceLemmas        sequences that lose, gain or concatenate: for the proofs
    Backpressure          the policies as operators on a queue
      BoundedChannel      what the channel promises: the abstract specification
      MpscQueue           the channel with its threads, mutexes, condition variable
        MpscQueueProofs     theorems
        MCMpscQueue         instances for TLC
      StoreImpl           the store, over an INSTANCE of BoundedChannel
        StoreImplProofs     theorems on the channel and its senders
          StoreDeliveryProofs on subscribers and queries, and the types
        MCStoreImpl         instances for TLC
    SubscriberFeed        what a subscriber with a channel of its own is promised
      StoreSubscribers    channeled subscribers and iterators beside the store
        StoreSubscribersProofs  theorems on mutexes and threads
          SubscriberFeedProofs  the refinement of SubscriberFeed
        MCStoreSubscribers  an instance for TLC
    StoreLifetime         strong and weak references, panics, Drop
      StoreLifetimeProofs   theorems
      MCStoreLifetime       an instance for TLC
    Reducers, Metrics, Builder   pure operators
      ReducerChain        the other implementation of a list of reducers
      Pipeline            a whole store with values, run by programs
        PipelineProofs      theorems on the metrics
        ExamplePrograms     the repository's examples
        TestPrograms        its unit tests
        MCPipeline          both, and four programs of our own, for TLC

The two levels meet in BoundedChannel. MpscQueue implements it (checked and
proved), so StoreImpl can use its actions Accept, AcceptDropping and Deliver as
the dispatch channel. For liveness MpscQueue needs its senders to exclude each
other; StoreImpl shows (OneSenderInside, checked and proved) that they do. A
send that blocks is in StoreImpl a thread at "sending" whose Send is disabled.

**Backpressure.** `Droppable` is the test of one item, `Victims` the result of a
scan (at most one position), `Blocks` the case in which a send waits. A policy
`DropXIf(None)` is the case `Predicate = Actions`.

**MpscQueue.** A section under the queue mutex is one step; `lock` appears only
where `closed` is tested under it, for close() does not take it. `waiting` is the
condition variable's wait set; `NotifyOne` takes any one thread out of it.
`CallSend` and `CallTrySend` are the test of `closed` before the mutex. `Push`,
`DropAndPush`, `Block` and `Refuse` are the four ways through the loop, `Wake` the
return from a wait. `Recv`, `RecvWait`, `RecvNone` are recv; `Close` or
`DropReceiver` and then `NotifyAll` are close(). `Exclusive` says whether the
senders hold a mutex of their own around a call.

**StoreImpl.** Each client's call begins with `CallDispatch`, `CallAddSubscriber`,
`CallQueryState` or `CallClose`, which do what the code does before it locks
`dispatch_tx`; then `LockTx` and `Send`, or `FindClosed`; for close `TakeTx` and
`Send`, or `FindTaken`; for stop then `TakePool` and `Join`. `Unsubscribe` is the
closure of the subscription, one step under two mutexes. The reducer thread is
`Recv`, then `Reduce`, `IssueEffect` per effect, `UpdateState`, `Snapshot`, `Notify`
per subscriber; or `DoSubscribe`; or `DoStateFunction`; or `ClearSubscribers`, after
which the thread is done. `RunTask` lets a thread of the pool take a task. The
reducers are free: a state is the sequence of the items reduced into it and its
version the length, so that two states are equal only if the same actions made
them. What middlewares and reducers decide is the constant `Outcome`, what
effects come of it `Effects`.

**SubscriberFeed, StoreSubscribers.** SubscriberFeed is the promise: `Join`, `Send`,
`Advance` (the next action waits until everyone listed has been sent the state),
`Leave`, `Receive`, `End`. StoreSubscribers implements it (ImplementsFeed, checked and proved). Its
mutexes are variables, as on_notify and on_unsubscribe may block with them held:
`txLock`, `addingLock`, `subsLock`, and `feedLock` for the `tx` of each channeled
subscriber. A call is `PushAdding`, `LockTx`, `SendOp`, or `FindClosed` and
`UndoAdding`; unsubscribe is `LockAdding`, `LockSubscribers`, `OffChanneled` or
`OffIterator`, the send (`FeedPush`, `FeedWait`, `FeedGiveUp`), `Joined`,
`Unsubscribed`. The thread of a channeled subscriber is `LoopRecv` and, in its
callback, any call a client may make. The consumer of an iterator is
`IterCallNext`, `IterNext`, and between two calls of next() `IterClose`,
`IterNotifyAll`, then unsubscribe: the drop, at any time. The reducer thread is as
in StoreImpl with the locks visible. The subscriber's channels block when full
(the default of subscribed() and iter()); a state is its version.

**StoreLifetime.** `holding` are the threads with an Arc of the store, a queued
task of an Effect::Function holds one too (`InTasks`), and `Release` of the last
one makes the thread go through Drop: `TakeTx`, `FindTaken` or a send, `TakePool`,
and `JoinTimesOut`. A reducer, middleware or callback may `Panic`; the reducer
thread then drops the store (`ReleaseStore`) and after it the receiver
(`DropReceiver`), in the order of its parameters. `Upgrade` is WeakDispatcher's.

**Reducers, ReducerChain, Metrics, Builder, Pipeline.** `ReduceAll` is the loop of
reducer_thread, `ChainReduce` of the module ReducerChain, which holds the RECURSIVE
operators, the other implementation of it; `Decorated` the chain of
middlewares around it. Metrics are a record and one operator per counter.
Pipeline runs a program (a store made by Builder's operators and a script of
calls for each thread) against a reducer thread and a pool that compute values;
a call is one step, except for a dispatch, which sets the gauge again after its
send, and stop(). That a dispatch locks, waits and pushes at once is no loss:
StoreImpl keeps the three apart. `count` in `current` is the length of the clone of
the subscriber list, read with it and counted after the calls (`NotifyDone`). `sleep` in an example or a test is waiting until the store has
nothing left to do. What a test asserts is an `expect` in its script.

The operators marked Faulty are errors one could make in the code; each stands
in for the definition after it to see that a property notices.

## Runs

| run | instance | what it shows |
|---|---|---|
| mpsc_concurrent | 2 senders of 2 calls, capacity 2, DropLatestIf sparing one of two actions, close, drop, spurious wake-ups | no item is lost, duplicated or reordered except by the policy (InOrder); the abstract channel is implemented |
| mpsc_exclusive | 2 exclusive senders, capacity 2, DropOldestIf, fairness | no lost wake-up, sends return, the fair abstract channel is implemented |
| store_subscribers | 3 clients (2 dispatches; 3 add or unsubscribe calls; 2 add, stop or close calls), 2 subscriber ids, capacity 2, DropOldestIf, all three outcomes | gapless delivery, at most one stale notification, one on_unsubscribe each, Exit last, and nobody whose add_subscriber returned Ok is left waiting (NoneLeftWaiting), whatever is dropped |
| store_stop | 3 clients, dispatches with effects, queries, stop and stop_timeout at once, 1 pool thread, capacity 1, DropLatestIf that drops one action and waits for the rest, fairness | calls return, the reducer thread ends, accepted queries have run |
| feeds | 2 clients (2 calls of dispatch or close; 2 of subscribed or unsubscribe), a channeled subscriber whose callback may dispatch once, an iterator dropped at any time, all channels of capacity 1, fairness | each subscriber is served as SubscriberFeed promises; one sender per channel; threads end with the reducer thread; calls return, but for three deadlocks (below) |
| programs | 13 examples, 33 unit tests, 4 programs for what they leave out; 2 threads, 2 pool threads | assertions hold, ReducesLikeChain, MiddlewaresNest, the metrics add up and are exact, a difference of snapshots underflows in gauge and minima only, every program ends |
| lifetime | 2 clients of 2 calls (dispatch, close, stop), 1 pool thread, 2 effects, capacity 1, a panic, fairness | Drop runs once and last and finds the sender taken, close() fails after a panic only and never for a full queue, the store is dropped in the end |
| current_state | as feeds | violates StartsWithCurrentState |
| mpsc_two_senders | 2 senders, capacity 1, no common mutex | violates WaitsForItemOnly |
| store_late_notification | as store_subscribers | violates SilentAfterUnsubscribe |
| store_two_stops | as store_stop | violates StopWaits |
| store_lost_effects | one client dispatches, another stops | violates StopProcessesEffects |

Bounds. Every hazard of the channel needs at most two senders, a full queue and
the receiver: two senders with two calls each fill a queue of capacity 2, block,
drop with and without a victim. In the store, two subscribers, two dispatches and
a stop make every pair of operations race, with a queue that fills. Clients make
boundedly many calls and stop, so the runs do not check for deadlock; that
nobody is stuck is what SendReturns, CallsReturn and CloseEndsReducer say.
SendReturns has the receiver stay (MayClose = FALSE): with a receiver that goes
away, a sender that has passed the test of `closed` may block for ever
(`channel.rs:89`). The store's own receiver never goes while somebody sends
(NothingAfterExit). With one channeled subscriber and one iterator, notifying, a
second subscription's AddSubscriber, unsubscribe, close and the drop of the
iterator meet in channels that hold one item; capacity 1 makes every send that
can block do so. In the lifetime run two clients, the reducer thread and one
thread of the pool each can be the last. The concurrent test of `store.rs` has 2
threads of 2 dispatches here instead of 5 of 5.

CallsReturn of the feeds run admits two states that TLC finds and the code has:
`MissedClose`, a sender that passed the test of `closed` before the iterator was
dropped waits for ever on its full channel (`iterator.rs:137`, `channel.rs:89`);
`SubscriberInside`, somebody waits for a subscriber that is itself inside a call
of the store: a callback that dispatches, subscribes or unsubscribes while the
reducer thread or an unsubscribe waits for it (`store_impl.rs:1085`, 1107), or
iter(), listed by another caller's AddSubscriber before its own add_subscriber
has returned (`store_impl.rs:914`). DroppedInTheEnd of the lifetime run admits a
sender left behind by a panic (`Stuck`): one that missed the close, or the reducer
thread itself, which runs Drop before it drops its receiver and waits for room
that it would have to make (`store_impl.rs:229`).

Fairness. Weak fairness of each thread inside a call, of the reducer thread and
of the pool's threads: the scheduler of the operating system runs a thread that
can run. A timeout expires, a callback and a consumer of an iterator go on. No client
has to call anything, close the channel, let go of its handle, or be notified
spuriously. Mutexes are not assumed to be fair: a client makes boundedly many
calls, so a thread that waits for `dispatch_tx` finds it free for good in the
end, and weak fairness is enough.

## Findings

1. `channel.rs:277`, against the comment at `channel.rs:461` "Wait until there's an
   item or channel is closed". With two senders at once, a push may notify the
   other sender, blocked on a full queue, which finds it full again and sleeps;
   the receiver stays asleep beside a full queue. The store's `dispatch_tx` keeps
   this from happening to its channel.
2. `store_impl.rs:621`, against `tests/integration_test.rs:280`, "no action must be
   received after unsubscribe". unsubscribe() may return between the clone of the
   subscriber list and the call; one notification comes after on_unsubscribe, and
   never more than one (AtMostOneStale).
3. `store_impl.rs:787`, against `store_impl.rs:753` "close the store and wait for the
   dispatcher to finish". The second of two stop() calls returns at once.
4. `store_impl.rs:776`, against `effect.rs:188` "Stop store to ensure all effects are
   processed". stop() takes the pool while actions are still queued before Exit;
   their effects find no pool and are lost in silence. The repository's README
   lists the guarantee as removed, the tests' comments still state it.
5. `store_impl.rs:1102`, against `README.md:169`, a new subscriber "automatically
   receives the current state through the `on_subscribe`" method and "can start
   with the latest information". The subscribers behind subscribed() and iter()
   are not told by on_subscribe, which their wrappers do not implement; the first
   state they see is the next one.

Not a violated run, but shown by one that passes: FailsAfterPanic of the lifetime run
contradicts the docs of close() and stop(), `store_impl.rs:704` and 757, "Err(StoreError) :
if the store is not closed, this can be happened when the queue is full". close() takes
the sender and then waits for room (`store_impl.rs:712`, `channel.rs:106`), without a
limit, and so does stop_timeout, whose timeout begins after it. But for a poisoned
mutex, Err comes only when the reducer thread has panicked, and stop() ignores it
(`store_impl.rs:765`).

Not a run: the least durations of the metrics can rise (`metrics.rs:302`, against
`metrics.rs:75`, "min time spent in reducers"): 0 stands for none recorded yet and for
less than a millisecond, so that the next longer duration replaces it. It takes one
thread and two samples, and OnlyGaugesFall exempts the minima for it.

Nor is this: the doc of DropLatestIf and DropOldestIf says that send "can be Err when
all items are not droppable" (`channel.rs:20`, 25); send waits for space instead
(`Block`), as the doc of send itself says (line 86); try_send is the one to fail.
Nor are these, which a run shows or the models follow: a store dropped without
close() or stop() is not dropped at all while the reducer thread, which owns a
reference, waits for an item (`README.md:257`; DroppedInTheEnd says so in its
premise); remaining_queue is the length after the latest send and stays when
the queue empties (`metrics.rs:56`); the time since an action was received is
given to action_reduced as nothing (`store_impl.rs:289`); effects are counted as
executed when they are queued (`store_impl.rs:605`); an error is counted by StoreImpl::dispatch only, not
by the dispatcher of thunks; a middleware's error after the reducers have run
leaves action_reduced counted and the state unchanged. An `expect` on dispatch in
a thunk (`examples/calc_effect.rs:107`) panics, on a pool thread, if main stops
the store first.

## Proofs

All theorems hold for every set of threads, every capacity, policy, predicate and
number of calls, from the assumptions named in Backpressure, MpscQueue and
StoreImpl, and StoreSubscribers', StoreLifetime's or Pipeline's for theirs. SequenceLemmas has
what the proofs keep needing of sequences (the elements that are left when one
goes, and that distinct ones stay distinct).

**MpscQueueProofs.** TypeCorrectness gives the bound of the queue; Refinement that the queue implements
BoundedChannel, step by step. ExclusiveSendersSafe (OneSenderInside and
NoLostWakeup if the senders hold a common mutex) is the one that needs a
strengthening: `IInv` adds to the type invariant that a thread in the wait set is
in a wait (Sleepers). With at most one sender inside a call, a notification can
then reach only the receiver or that sender, and never has to choose between two
that both could go on: a sender sleeps on a full queue, the receiver on an empty
one, and with capacity at least 1 not both at once. (With capacity 0, which the
builder rejects but the channel does not, no item ever enters, and both may
sleep for good; the invariant says so truthfully.) OrderKept needs `Fresh`: the
item a thread is about to send has not been accepted before, so that what is
received, queued and dropped are different items, and `InOrder` can be said of
positions: of any two accepted items, those that were not dropped appear in the
same order, once, in what was received followed by what is queued.

**StoreImplProofs.** SendersExclusive and ExitIsLast are not inductive: that
nobody sends when Exit is read depends on who could have been let in before. `IInv`
has the types the argument needs (a thread at the channel carries Exit exactly
when it closes the store), `Locks` (the sender in the channel is the owner of
dispatch_tx while the sender object is there, or the single thread that has taken
it out), and `Phases`: the queue holds no Exit while the store is open or Exit is
on its way; then Exit is its last item and nobody sends; then it is read and the
queue is empty. LocksStep and PhasesStep first split the steps by what they can
touch (QuietSteps, QueueSteps), so that each action is looked at once.

**StoreDeliveryProofs.** NoGaps, OneStale and ToldOnce relate the whole sequence
of callbacks a subscriber has had, its view, to lists that three kinds of threads
change. `Delivery` says how. `Lists`: an id is on adding_subscribers or
subscribers once, and only if it has been handed out. `Views`: who waits to be
added has had no callback, who is on the list has begun and not ended, and who
do_notify has still to call has had no notification since its end; this is why one
notification may come late and not two. `States`: what the reducer thread has
computed, written and not yet announced. `Versions`: a subscriber on the list has
seen the last version to be notified, or all but that one, and then do_notify owes
it. Steps are split by what they touch (CoreSteps), and each kind of callback has
a lemma on the view it is added to (SubscribeView and those after it).

EveryQueryRuns, in the same module, is about a function and an ActionOp that
travel apart: any StateFunction runs any function. `QInv` says that a query is known
once, waiting or run (`Asked`); that it belongs to a call its client has begun and is
carried to the channel by nobody else (`Askers`); and that while the function of an
accepted query waits, a StateFunction is queued or at work (`Answers`). One is
enough, since do_state_function takes all that wait. No policy drops it, and with
`Phases` of StoreImplProofs none is behind Exit. EverySubscriberAdded is the same of
a subscriber and its AddSubscriber: `AInv` says that only an add_subscriber carries
a subscriber to the channel (`Adders`), and that while one whose add_subscriber
returned Ok waits, an AddSubscriber is queued or at work (`Additions`). Both
would be false if a policy took a control operation as its victim. StoreTypes is the type invariant of
StoreImpl, whose history variables have a type only by `Delivery` and `QInv`.

**StoreSubscribersProofs.** FeedsSafe and NoThreadLeft depend on four kinds of
mutexes that are held across sends, joins and callbacks. `SInv` has, besides the
types, `Places` (where each kind of thread may be, and for which subscriber),
`Owners` (who tells a subscriber that it is over has `subscribers` locked),
`Notifying` (the reducer thread holds the `tx` it sends into and that `tx` has not
been taken; who sends Exit has taken it: so the two never meet), `Iterating` (an
iterator unsubscribes only after it has dropped its receiver, or when the store is
ending; so it never waits for room in the channel that it alone empties), and
`Listing` (whoever has left the list has a thread that has ended, and while
clear_subscribers goes through the list, it has still to tell everybody else).
Each has a lemma for the step of any thread, with one case per action it can feel.

**SubscriberFeedProofs.** Refinement: StoreSubscribers implements SubscriberFeed, which
sees of it where a subscriber is (waiting, on the list, off), the states it was
sent, and what of them is still in its channel. What is sent is decided by the
reducer thread from a clone of the list, while the list changes under `subscribers`
and the sender goes away under another mutex; so the invariant `SInv` is not enough,
and `FInv` adds:

- `Lists`: nobody is twice on adding_subscribers, subscribers or the clone, or on
  the first two at once (or it would be sent a state twice);
- `Joining`: who waits to be added has never been listed, and its own call is the
  only one to push it;
- `Unserved`: before that it has been sent nothing and nobody has told it off;
- `Ending`: an end is on its way in a channel exactly when somebody sent it, it is
  the last item of a channeled subscriber, and an iterator that is leaving was told or
  has closed its channel;
- `Removing`: who is taken off the list, or is on the clone and not on the list any
  more, has its end on the way; while clear_subscribers holds the list, everybody
  on it is still to be told or has been;
- `UpToDate`: who is listed has been sent all states since, or all but the one that
  do_notify still owes to it (`Owes`).

What is pending in a channel are the items before the first Exit (`Upto`), which the
lemmas UptoAppend and UptoTail follow through sends and receives; the first position
is the least element of a set of naturals (LeastNatural, from the well-foundedness
theorems of the library, whose instances need no operator parameter). Every step is
then classified by what it is to each subscriber (`Serves`: nothing, or one of the
abstract steps), one lemma per group of actions, and ServesMaps turns that into a
step of SubscriberFeed or a stutter, for all subscribers at once.

**StoreLifetimeProofs.** TypeCorrectness; DropIsLast; DropHasNothingToSend;
CloseFailsAfterPanic. That Drop finds nothing to send depends on how the reducer
thread came to give up its reference, so `IInv` has `Positions` (a thread in a
call has a reference, unless the call is Drop), `References` (a store that is
being dropped has none, in a queued task neither, so that nobody can upgrade or
release again) and `Ends` (one thread at most has taken the sender; Exit in the
queue, or a reducer thread that has left its loop without a panic, means that it
has sent it). Each is preserved by a lemma per group of actions; the lemmas on
Return, AfterTx and Release say once what those leave to the other threads.

**PipelineProofs.** GaugesAreExact, NothingUncounted and OnlyGaugesMayFall, on the
metrics. StoreImpl::dispatch sets the gauge and its maximum a second time after its
send, from a length it was given; that this cannot overwrite a newer one depends on
dispatch_tx being locked in between, and on close(), which sends Exit without it,
having waited for it once. `PInv` says so: who has sent and not yet set the gauges
has dispatch_tx, nobody has it after close() (`Locked`), what such a thread remembers
is the latest length (`Latest`); the gauges are what was remembered of the queue
(`Gauges`); what has been sent is queued or counted, whether it entered an empty
place or another item's (`Counts`); and while effects are handed out those of the
outcome at work are the difference between issued and executed (`Effects`). The
proofs hold for all programs, reducers and middlewares, which are constants; only that
counters never fall needs something of them, that a list of effects is a list, whose
length is a number, and that the list of subscribers (filtered by SelectSeq, which
the provers do not know) has one: OnlyGaugesMayFall has `[]WellTyped` as its premise, a part of
TypeOK that the run checks and that Rust's types give. DurationsAssumption, that
durations are not negative, is an assumption on the programs.

MpscQueueProofs and StoreImplProofs close the circle the code relies on: the mutex
`dispatch_tx` and the take in close() keep senders apart (SendersExclusive), which
is what a channel with one condition variable needs (ExclusiveSendersSafe).

## Not modelled, and what stays with TLC

Model-checked only are the liveness properties (SendReturns, CallsReturn,
CloseEndsReducer, DroppedInTheEnd, ProgramsEnd, the fair channel of
ImplementsFairChannel), which TLAPS cannot prove for want of ENABLED, and of
Pipeline: AssertionsHold, which is about the programs at hand; MiddlewaresNest,
which is an induction over the list of middlewares (a fold), for those that keep to
`Around` and `Instead`; ReducesLikeChain, whose operators are RECURSIVE, which takes
the SMT backend away; NotificationsCounted, a sum over a set of sequences filtered
by SelectSeq, of which the provers know no definition; and TypeOK, whose lists are
filtered by it too, and whose state is of the type the reducers make it.

Left out: callbacks that call the store back on the reducer thread itself (it
then waits for itself when the queue is full), a callback that unsubscribes its
own subscription and joins its own thread, panics in a callback under a mutex,
which poison it, panics elsewhere than on the reducer thread and in the pool's
tasks of Pipeline, other policies than blocking for the channels of subscribers,
a capacity of 0 there (only the builder rejects it), dispatch_thunk and
dispatch_task through a WeakDispatcher, which nothing calls, the metrics' reset(),
action_execution_time and action_received_and_reduced_execution_time, time itself, and get_state, which reads only.
do_remove_subscriber (`store_impl.rs:652`) is never called and has no action;
try_send and try_recv are called by tests only and are in MpscQueue. The gauges of
subscribers' channels share the store's metrics; Pipeline has no such channels,
and with them remaining_queue would mix their lengths.

`examples/performance_state_size.rs` measures time. The unit tests of `channel.rs`
are calls of MpscQueue's actions one at a time, with nothing between them; those
of `subscriber.rs` and `iterator.rs`, and the integration tests, are the calls of
the feeds and store runs on larger numbers. Assertions of the repository's tests
that depend on timing are left out of TestPrograms: get_state() right after a
dispatch in `middleware.rs`, and that some action was dropped in `metrics.rs`.

The answer ChannelClosed of the store's own channel is unreachable in StoreImpl,
as NothingAfterExit shows, and needs the panic of StoreLifetime. The pool is
external: tasks start in the order queued, shutdown_join returns when all have
run, shutdown_join_timeout at any time. In StoreImpl the code sections under the
mutexes of state, subscribers, adding_subscribers, state_functions and pool are
single steps, as they neither block nor call out, callbacks apart;
StoreSubscribers has the steps in which callbacks block.

## Plan

1. Model: mutexes poisoned by a panic in a callback (a second kind of end for the
   store); the channels of subscribers with a drop policy; metrics shared by
   several channels, whose maxima then race.
2. Prove: lemmas on Builder's operators; what a fold over reducers or middlewares
   computes, by an induction on the length of the list written out with LeastNatural.
