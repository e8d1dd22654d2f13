----------------------------- MODULE StoreImpl ------------------------------
(***************************************************************************)
(* StoreImpl of src/store_impl.rs with its dispatcher (src/dispatcher.rs): *)
(* client threads that call the store, the reducer thread that owns the    *)
(* state, and the pool that runs the effects.                              *)
(*                                                                         *)
(* The dispatch channel is the abstract one of BoundedChannel, which       *)
(* MpscQueue implements; dispatch_tx keeps its senders apart.  A code      *)
(* section under the mutex of adding_subscribers, subscribers,             *)
(* state_functions, state or pool is one step; dispatch_tx, held across a  *)
(* send that may block, is a variable.  Callbacks (reducers, subscribers,  *)
(* query functions) return and do not call the store back.                 *)
(*                                                                         *)
(* The reducers are free: a state is the sequence of the items reduced     *)
(* into it, and its version is the length.                                 *)
(*                                                                         *)
(* A definition marked "Faulty" is not part of the specification: it is an *)
(* error one could make in the code, which stands in for the definition    *)
(* after it to see that a property notices.                                *)
(***************************************************************************)
EXTENDS Backpressure, FiniteSets

CONSTANTS
  Clients,        \* the threads that call the store
  Workers,        \* the pool's threads, less the one the reducer occupies
  MaxSubs,        \* bound on the subscriber ids handed out
  AddSubscriber, StateFunction, Exit,   \* the control ActionOps
  NoOne, NoOp, NoItem, NoAction,
  Outcome,        \* what middlewares and reducers make of each action:
                  \* "Dispatch", "Keep" or "Err"
  Effects,        \* the effects each action issues: the action the effect
                  \* dispatches in the end, or NoAction
  MayCall,        \* the operations each client calls
  MaxCalls        \* bound on the calls of each client

Threads == Clients \cup Workers

\* The ids generate_subscriber_id() gives out; 0 is no subscriber.
Subs == 1 .. MaxSubs
NoSub == 0

Closing == {"close", "stop", "stopTimeout"}
Calls == {"dispatch", "add", "unsubscribe", "query"} \cup Closing

ASSUME StoreAssumption ==
  /\ Clients \cap Workers = {}
  /\ NoOne \notin Threads
  /\ Controls = {AddSubscriber, StateFunction, Exit}
  /\ AddSubscriber # StateFunction
  /\ Exit \notin {AddSubscriber, StateFunction}
  /\ NoOp \notin ActionOps /\ NoAction \notin ActionOps
  /\ MaxSubs \in Nat
  /\ Outcome \in [Actions -> {"Dispatch", "Keep", "Err"}]
  /\ Effects \in [Actions -> Seq(Actions \cup {NoAction})]
  /\ MayCall \in [Clients -> SUBSET Calls]
  /\ MaxCalls \in [Clients -> Nat]

\* What is sent: an ActionOp, told apart by its sender and call number.
Items == [op : ActionOps, by : Threads, no : Nat]

ASSUME NoItemAssumption == NoItem \notin Items

VARIABLES
  state, subscribers, adding, functions,  \* the fields of StoreImpl
  nextId,       \* SUBSCRIBER_ID_COUNTER
  txOpen,       \* dispatch_tx is Some
  txLock,       \* the thread that holds the mutex dispatch_tx, or NoOne
  poolOpen,     \* pool is Some
  tasks,        \* the pool's task queue
  queue, accepted, received, dropped,     \* the dispatch channel
  rpc,          \* where the reducer thread is
  cur,          \* the item it handles
  next,         \* the state do_reduce has returned
  effects,      \* the effects do_effect has still to issue
  todo,         \* the subscribers do_notify has still to call
  pc,           \* where each thread is in its call
  call,         \* the call each thread is in
  calls,        \* how many calls each thread has begun
  views,        \* history: the callbacks each subscriber has received
  held,         \* history: the subscribers whose add_subscriber returned Ok
  ran,          \* history: the query functions run, and on which version
  queried,      \* history: the query_state calls that returned Ok
  stopped,      \* history: the clients whose stop() has returned
  discarded     \* history: the items an effect of which found no pool

channel == <<queue, accepted, received, dropped>>
fields == <<state, subscribers, adding, functions, nextId>>
gates == <<txOpen, txLock, poolOpen>>
reducer == <<rpc, cur, next, effects, todo>>
threads == <<pc, call, calls>>
history == <<views, held, ran, queried, stopped, discarded>>
vars == <<channel, fields, gates, tasks, reducer, threads, history>>

Channel == INSTANCE BoundedChannel

NoCall == [kind |-> "none", op |-> NoOp, sub |-> NoSub]

Init ==
  /\ Channel!ChannelInit
  /\ state = <<>> /\ subscribers = <<>> /\ adding = <<>> /\ functions = <<>>
  /\ nextId = 1
  /\ txOpen = TRUE /\ txLock = NoOne /\ poolOpen = TRUE
  /\ tasks = <<>>
  /\ rpc = "recv" /\ cur = NoItem
  /\ next = <<>> /\ effects = <<>> /\ todo = <<>>
  /\ pc = [t \in Threads |-> "idle"]
  /\ call = [t \in Threads |-> NoCall]
  /\ calls = [t \in Threads |-> 0]
  /\ views = [x \in Subs |-> <<>>]
  /\ held = {} /\ ran = <<>> /\ queried = {} /\ stopped = {}
  /\ discarded = {}

-----------------------------------------------------------------------------
(* Helpers *)

\* retain(|s| s.id != subscriber_id): an id is on a list once (TypeOK).
Without(seq, x) ==
  IF x \in ToSet(seq) THEN RemoveAt(seq, CHOOSE i \in DOMAIN seq : seq[i] = x)
                      ELSE seq

\* Every subscriber of set receives the callback kind, on version n.
Callback(set, kind, n) ==
  views' = [x \in Subs |->
             IF x \in set
               THEN Append(views[x], [kind |-> kind, version |-> n])
               ELSE views[x]]

Item(t) == [op |-> call[t].op, by |-> t, no |-> calls[t]]

\* t begins a call and goes to step next_pc.
Begin(t, kind, o, x, next_pc) ==
  /\ pc[t] = "idle"
  /\ call' = [call EXCEPT ![t] = [kind |-> kind, op |-> o, sub |-> x]]
  /\ calls' = [calls EXCEPT ![t] = @ + 1]
  /\ pc' = [pc EXCEPT ![t] = next_pc]

ClientBegins(c, kind, o, x) ==
  /\ kind \in MayCall[c]
  /\ calls[c] < MaxCalls[c]
  /\ Begin(c, kind, o, x, "lock")

Goto(t, next_pc) == pc' = [pc EXCEPT ![t] = next_pc]

\* The call of t returns.
Return(t) == Goto(t, "idle") /\ call' = [call EXCEPT ![t] = NoCall]

-----------------------------------------------------------------------------
(* What clients call.  A call first does what it does before dispatch_tx,   *)
(* then is at "lock", where it waits for that mutex.                        *)

CallDispatch(c, a) ==
  /\ ClientBegins(c, "dispatch", a, NoSub)
  /\ UNCHANGED <<channel, fields, gates, tasks, reducer, history>>

\* add_subscriber: a fresh id, then a push to adding_subscribers.
CallAddSubscriber(c) ==
  /\ nextId \in Subs
  /\ ClientBegins(c, "add", AddSubscriber, nextId)
  /\ nextId' = nextId + 1
  /\ adding' = Append(adding, nextId)
  /\ UNCHANGED <<channel, state, subscribers, functions, gates, tasks,
                 reducer, history>>

\* query_state: a push to state_functions.
CallQueryState(c) ==
  /\ ClientBegins(c, "query", StateFunction, NoSub)
  /\ functions' = Append(functions, [by |-> c, no |-> calls'[c]])
  /\ UNCHANGED <<channel, state, subscribers, adding, nextId, gates, tasks,
                 reducer, history>>

\* close, stop and stop_timeout begin with close().
CallClose(c, kind) ==
  /\ kind \in Closing
  /\ ClientBegins(c, kind, Exit, NoSub)
  /\ UNCHANGED <<channel, fields, gates, tasks, reducer, history>>

\* Faulty Unsubscribe: the subscriber is told, but taken off a copy of the list.
UnsubscribeOnClone(c, x) ==
  /\ pc[c] = "idle"
  /\ "unsubscribe" \in MayCall[c]
  /\ calls[c] < MaxCalls[c]
  /\ calls' = [calls EXCEPT ![c] = @ + 1]
  /\ x \in held
  /\ adding' = Without(adding, x)
  /\ Callback({x} \cap ToSet(subscribers), "unsubscribe", Len(state))
  /\ UNCHANGED <<channel, state, subscribers, functions, nextId, gates, tasks,
                 reducer, pc, call, held, ran, queried, stopped, discarded>>

\* Subscription::unsubscribe, as often as its owner likes: retain on
\* adding_subscribers and on subscribers, under both mutexes.
Unsubscribe(c, x) ==
  /\ pc[c] = "idle"
  /\ "unsubscribe" \in MayCall[c]
  /\ calls[c] < MaxCalls[c]
  /\ calls' = [calls EXCEPT ![c] = @ + 1]
  /\ x \in held
  /\ adding' = Without(adding, x)
  /\ subscribers' = Without(subscribers, x)
  /\ Callback({x} \cap ToSet(subscribers), "unsubscribe", Len(state))
  /\ UNCHANGED <<channel, state, functions, nextId, gates, tasks, reducer, pc,
                 call, held, ran, queried, stopped, discarded>>

-----------------------------------------------------------------------------
(* dispatch_tx and the send *)

\* Faulty LockTx: the sender is cloned and the mutex released before the send.
CloneTx(t) ==
  /\ pc[t] = "lock" /\ call[t].kind \notin Closing
  /\ txLock = NoOne
  /\ txOpen
  /\ Goto(t, "sending")
  /\ UNCHANGED <<channel, fields, gates, tasks, reducer, call, calls, history>>

\* dispatch_tx is Some: the mutex is kept for the send.
LockTx(t) ==
  /\ pc[t] = "lock" /\ call[t].kind \notin Closing
  /\ txLock = NoOne
  /\ txOpen
  /\ txLock' = t
  /\ Goto(t, "sending")
  /\ UNCHANGED <<channel, fields, txOpen, poolOpen, tasks, reducer, call,
                 calls, history>>

\* dispatch_tx is None: Err.  add_subscriber takes its subscriber out of
\* adding_subscribers again; query_state leaves its function behind.
FindClosed(t) ==
  /\ pc[t] = "lock" /\ call[t].kind \notin Closing
  /\ txLock = NoOne
  /\ ~txOpen
  /\ adding' = Without(adding, call[t].sub)
  /\ Return(t)
  /\ UNCHANGED <<channel, state, subscribers, functions, nextId, gates, tasks,
                 reducer, calls, history>>

\* Faulty TakeTx: the sender is taken while another thread sends through it.
TakeTxInUse(t) ==
  /\ pc[t] = "lock" /\ call[t].kind \in Closing
  /\ txOpen
  /\ txOpen' = FALSE
  /\ Goto(t, "sending")
  /\ UNCHANGED <<channel, fields, txLock, poolOpen, tasks, reducer, call,
                 calls, history>>

\* Faulty TakeTx: the sender is dropped, and no Exit sent.
DropTx(t) ==
  /\ pc[t] = "lock" /\ call[t].kind \in Closing
  /\ txLock = NoOne
  /\ txOpen
  /\ txOpen' = FALSE
  /\ IF call[t].kind = "close"
       THEN Return(t)
       ELSE Goto(t, "pool") /\ UNCHANGED call
  /\ UNCHANGED <<channel, fields, txLock, poolOpen, tasks, reducer, calls,
                 history>>

\* close(): take the sender out of dispatch_tx and let go of the mutex.
TakeTx(t) ==
  /\ pc[t] = "lock" /\ call[t].kind \in Closing
  /\ txLock = NoOne
  /\ txOpen
  /\ txOpen' = FALSE
  /\ Goto(t, "sending")
  /\ UNCHANGED <<channel, fields, txLock, poolOpen, tasks, reducer, call,
                 calls, history>>

\* close() finds the sender taken: it returns Ok, stop() goes on to the pool.
FindTaken(t) ==
  /\ pc[t] = "lock" /\ call[t].kind \in Closing
  /\ txLock = NoOne
  /\ ~txOpen
  /\ IF call[t].kind = "close"
       THEN Return(t)
       ELSE Goto(t, "pool") /\ UNCHANGED call
  /\ UNCHANGED <<channel, fields, gates, tasks, reducer, calls, history>>

\* The send succeeds, at once or after a wait for space, and the call returns
\* Ok; stop() goes on to the pool.
Send(t) ==
  /\ pc[t] = "sending"
  /\ Channel!Accept(Item(t)) \/ Channel!AcceptDropping(Item(t))
  /\ txLock' = IF txLock = t THEN NoOne ELSE txLock
  /\ IF call[t].kind \in Closing \ {"close"}
       THEN Goto(t, "pool") /\ UNCHANGED call
       ELSE Return(t)
  /\ held' = held \cup ({call[t].sub} \ {NoSub})
  /\ queried' = IF call[t].kind = "query"
                  THEN queried \cup {[by |-> t, no |-> calls[t]]}
                  ELSE queried
  /\ UNCHANGED <<fields, txOpen, poolOpen, tasks, reducer, calls, views, ran,
                 stopped, discarded>>

-----------------------------------------------------------------------------
(* stop: the pool *)

StopReturns(c) ==
  /\ Return(c)
  /\ stopped' = IF call[c].kind = "stop" THEN stopped \cup {c} ELSE stopped

\* pool.take(): whoever finds it gone returns at once.
TakePool(c) ==
  /\ pc[c] = "pool"
  /\ IF poolOpen
       THEN Goto(c, "join") /\ UNCHANGED <<call, stopped>>
       ELSE StopReturns(c)
  /\ poolOpen' = FALSE
  /\ UNCHANGED <<channel, fields, txOpen, txLock, tasks, reducer, calls,
                 views, held, ran, queried, discarded>>

\* shutdown_join returns once the pool has run every task it holds, the
\* reducer thread among them; shutdown_join_timeout whenever it likes.
Join(c) ==
  /\ pc[c] = "join"
  /\ \/ call[c].kind = "stopTimeout"
     \/ /\ rpc = "done"
        /\ tasks = <<>>
        /\ \A w \in Workers : pc[w] = "idle"
  /\ StopReturns(c)
  /\ UNCHANGED <<channel, fields, gates, tasks, reducer, calls, views, held,
                 ran, queried, discarded>>

-----------------------------------------------------------------------------
(* The pool's other threads *)

\* A free thread takes the oldest task: one that dispatches an action goes on
\* like a client's dispatch, any other leaves no trace.
RunTask(w) ==
  /\ pc[w] = "idle"
  /\ tasks # <<>>
  /\ tasks' = Tail(tasks)
  /\ IF Head(tasks) = NoAction
       THEN UNCHANGED threads
       ELSE Begin(w, "dispatch", Head(tasks), NoSub, "lock")
  /\ UNCHANGED <<channel, fields, gates, reducer, history>>

-----------------------------------------------------------------------------
(* The reducer thread *)

\* Where the reducer goes with an item.
Handler(o) ==
  CASE o \in Actions       -> "reduce"
    [] o = AddSubscriber   -> "subscribe"
    [] o = StateFunction   -> "query"
    [] o = Exit            -> "clear"

Recv ==
  /\ rpc = "recv"
  /\ Channel!Deliver
  /\ cur' = Head(queue)
  /\ rpc' = Handler(Head(queue).op)
  /\ UNCHANGED <<fields, gates, tasks, next, effects, todo, threads, history>>

\* do_reduce: middlewares and reducers compute from the current state.
Reduce ==
  /\ rpc = "reduce"
  /\ IF Outcome[cur.op] = "Err"
       THEN rpc' = "recv" /\ UNCHANGED <<next, effects>>
       ELSE /\ next' = Append(state, cur)
            /\ effects' = Effects[cur.op]
            /\ rpc' = "effects"
  /\ UNCHANGED <<channel, fields, gates, tasks, cur, todo, threads, history>>

\* do_effect, one effect: without a pool it is lost without a word.
IssueEffect ==
  /\ rpc = "effects"
  /\ effects # <<>>
  /\ effects' = Tail(effects)
  /\ IF poolOpen
       THEN tasks' = Append(tasks, Head(effects)) /\ UNCHANGED discarded
       ELSE discarded' = discarded \cup {cur} /\ UNCHANGED tasks
  /\ UNCHANGED <<channel, fields, gates, rpc, cur, next, todo, threads, views,
                 held, ran, queried, stopped>>

\* The effects are out: the new state is written, whether or not subscribers
\* are to be notified.
UpdateState ==
  /\ rpc = "effects"
  /\ effects = <<>>
  /\ state' = next
  /\ rpc' = IF Outcome[cur.op] = "Dispatch" THEN "snapshot" ELSE "recv"
  /\ UNCHANGED <<channel, subscribers, adding, functions, nextId, gates,
                 tasks, cur, next, effects, todo, threads, history>>

NotifyRest(seq) ==
  /\ todo' = seq
  /\ rpc' = IF seq = <<>> THEN "recv" ELSE "notify"

\* Faulty Snapshot: whoever waits to be added is notified too.
SnapshotWithAdding ==
  /\ rpc = "snapshot"
  /\ NotifyRest(subscribers \o adding)
  /\ UNCHANGED <<channel, fields, gates, tasks, cur, next, effects, threads,
                 history>>

\* do_notify clones the list of subscribers ...
Snapshot ==
  /\ rpc = "snapshot"
  /\ NotifyRest(subscribers)
  /\ UNCHANGED <<channel, fields, gates, tasks, cur, next, effects, threads,
                 history>>

\* ... and calls each of the clone, with the state just written.
Notify ==
  /\ rpc = "notify"
  /\ Callback({Head(todo)}, "notify", Len(next))
  /\ NotifyRest(Tail(todo))
  /\ UNCHANGED <<channel, fields, gates, tasks, cur, next, effects, threads,
                 held, ran, queried, stopped, discarded>>

\* Faulty DoSubscribe: iter() where the code says drain(..).
SubscribeWithoutDrain ==
  /\ rpc = "subscribe"
  /\ Callback(ToSet(adding), "subscribe", Len(state))
  /\ subscribers' = subscribers \o adding
  /\ rpc' = "recv"
  /\ UNCHANGED <<channel, state, adding, functions, nextId, gates, tasks, cur,
                 next, effects, todo, threads, held, ran, queried, stopped,
                 discarded>>

\* AddSubscriber: whoever waits in adding_subscribers gets the current state
\* and joins the list.
DoSubscribe ==
  /\ rpc = "subscribe"
  /\ Callback(ToSet(adding), "subscribe", Len(state))
  /\ subscribers' = subscribers \o adding
  /\ adding' = <<>>
  /\ rpc' = "recv"
  /\ UNCHANGED <<channel, state, functions, nextId, gates, tasks, cur, next,
                 effects, todo, threads, held, ran, queried, stopped,
                 discarded>>

\* Faulty DoStateFunction: one StateFunction, one function.
RunOldestFunction ==
  /\ rpc = "query"
  /\ functions # <<>>
  /\ ran' = Append(ran, [query |-> Head(functions), version |-> Len(state)])
  /\ functions' = Tail(functions)
  /\ rpc' = "recv"
  /\ UNCHANGED <<channel, state, subscribers, adding, nextId, gates, tasks,
                 cur, next, effects, todo, threads, views, held, queried,
                 stopped, discarded>>

\* StateFunction: every waiting function runs on the current state.
DoStateFunction ==
  /\ rpc = "query"
  /\ ran' = ran \o [i \in DOMAIN functions |->
                      [query |-> functions[i], version |-> Len(state)]]
  /\ functions' = <<>>
  /\ rpc' = "recv"
  /\ UNCHANGED <<channel, state, subscribers, adding, nextId, gates, tasks,
                 cur, next, effects, todo, threads, views, held, queried,
                 stopped, discarded>>

\* Faulty ClearSubscribers: the list is not emptied.
ClearWithoutForgetting ==
  /\ rpc = "clear"
  /\ Callback(ToSet(subscribers), "unsubscribe", Len(state))
  /\ rpc' = "done"
  /\ UNCHANGED <<channel, fields, gates, tasks, cur, next, effects, todo,
                 threads, held, ran, queried, stopped, discarded>>

\* Exit: the loop ends, clear_subscribers, and the receiver is dropped.
ClearSubscribers ==
  /\ rpc = "clear"
  /\ Callback(ToSet(subscribers), "unsubscribe", Len(state))
  /\ subscribers' = <<>>
  /\ rpc' = "done"
  /\ UNCHANGED <<channel, state, adding, functions, nextId, gates, tasks, cur,
                 next, effects, todo, threads, held, ran, queried, stopped,
                 discarded>>

-----------------------------------------------------------------------------

ClientCalls(c) ==
  \/ \E a \in Actions : CallDispatch(c, a)
  \/ CallAddSubscriber(c)
  \/ CallQueryState(c)
  \/ \E kind \in Closing : CallClose(c, kind)
  \/ \E x \in Subs : Unsubscribe(c, x)

ThreadStep(t) ==
  LockTx(t) \/ FindClosed(t) \/ TakeTx(t) \/ FindTaken(t) \/ Send(t)

PoolStep(c) == TakePool(c) \/ Join(c)

ReducerStep ==
  \/ Recv \/ Reduce \/ IssueEffect \/ UpdateState \/ Snapshot \/ Notify
  \/ DoSubscribe \/ DoStateFunction \/ ClearSubscribers

Next ==
  \/ \E c \in Clients : ClientCalls(c) \/ PoolStep(c)
  \/ \E t \in Threads : ThreadStep(t)
  \/ \E w \in Workers : RunTask(w)
  \/ ReducerStep

Spec == Init /\ [][Next]_vars

\* The scheduler runs every thread that has begun a call, the reducer and the
\* pool; nobody has to call the store.  Each client calls boundedly often, so
\* that a waiting thread in the end has dispatch_tx to itself: weak fairness
\* asks nothing of the mutex's queue.
Fairness ==
  /\ \A t \in Threads : WF_vars(ThreadStep(t))
  /\ \A c \in Clients : WF_vars(PoolStep(c))
  /\ \A w \in Workers : WF_vars(RunTask(w))
  /\ WF_vars(ReducerStep)

FairSpec == Spec /\ Fairness

-----------------------------------------------------------------------------
(* Properties *)

Queries == [by : Clients, no : Nat]
Events == [kind : {"subscribe", "notify", "unsubscribe"}, version : Nat]
Pcs == {"idle", "lock", "sending", "pool", "join"}
ReducerPcs == {"recv", "reduce", "effects", "snapshot", "notify", "subscribe",
               "query", "clear", "done"}

\* Every variable has its type; in particular a subscriber waits or is
\* subscribed under one id at most once, and dispatch_tx is locked exactly by
\* the thread that sends through it.
TypeOK ==
  /\ state \in Seq(Items) /\ next \in Seq(Items)
  /\ subscribers \o adding \in Seq(1 .. nextId - 1)
  /\ IsInjective(subscribers \o adding)
  /\ functions \in Seq(Queries)
  /\ nextId \in Nat
  /\ txOpen \in BOOLEAN /\ poolOpen \in BOOLEAN
  /\ txLock \in Threads \cup {NoOne}
  /\ \A t \in Threads :
       txLock = t <=> pc[t] = "sending" /\ call[t].kind \notin Closing
  /\ tasks \in Seq(Actions \cup {NoAction})
  /\ queue \in Seq(Items) /\ Len(queue) <= Capacity
  /\ accepted \in Seq(Items) /\ received \in Seq(Items)
  /\ dropped \subseteq Items
  /\ rpc \in ReducerPcs
  /\ cur \in Items \cup {NoItem}
  /\ effects \in Seq(Actions \cup {NoAction})
  /\ todo \in Seq(Subs)
  /\ pc \in [Threads -> Pcs]
  /\ call \in [Threads -> [kind : Calls \cup {"none"},
                           op : ActionOps \cup {NoOp},
                           sub : Subs \cup {NoSub}]]
  /\ calls \in [Threads -> Nat]
  /\ views \in [Subs -> Seq(Events)]
  /\ held \subseteq Subs
  /\ ran \in Seq([query : Queries, version : Nat])
  /\ queried \subseteq Queries
  /\ stopped \subseteq Clients
  /\ discarded \subseteq Items

\* At most one thread is inside the dispatch channel's send, although close()
\* sends Exit without holding dispatch_tx: what MpscQueue needs of its senders.
OneSenderInside ==
  \A t, u \in Threads : pc[t] = "sending" /\ pc[u] = "sending" => t = u

\* Exit is the last item: when the reducer thread reads it, the channel is
\* empty and nobody can send any more.  So whatever dispatch accepted before
\* close() is reduced or dropped by the policy, and none of it is left in a
\* queue that nobody reads.
NothingAfterExit ==
  rpc \in {"clear", "done"} =>
    queue = <<>> /\ \A t \in Threads : pc[t] # "sending"

\* The versions the subscribers are to see.
Dispatched == { i \in DOMAIN state : Outcome[state[i].op] = "Dispatch" }

\* Those of a set of versions that come after m, up to n.
Between(set, m, n) == { i \in set : m < i /\ i <= n }

\* Where the callbacks of a subscriber tell it of a state.
Seen(view) == { i \in DOMAIN view : view[i].kind # "unsubscribe" }

\* A subscriber's view of the states: it begins with on_subscribe, every
\* notification is of a newer version than the last, and no dispatched version
\* in between is skipped; between two items a subscriber on the list has seen
\* them all.  So on_subscribe and the first on_notify fit together whatever was
\* dispatched while the subscriber waited to be added.
GaplessDelivery ==
  \A x \in Subs :
    LET version(i) == views[x][i].version
        seen == Seen(views[x])
    IN  /\ views[x] # <<>> => views[x][1].kind = "subscribe"
        /\ \A j, k \in seen :
             j < k /\ (\A i \in seen : i <= j \/ k <= i) =>
               /\ views[x][k].kind = "notify"
               /\ Between(Dispatched, version(j), version(k)) = {version(k)}
        /\ rpc = "recv" /\ x \in ToSet(subscribers) =>
             \E k \in seen : Between(Dispatched, version(k), Len(state)) = {}

\* unsubscribe() races with do_notify, which calls a clone of the list: at most
\* the one notification that is under way arrives after on_unsubscribe.
AtMostOneStale ==
  \A x \in Subs : \A i \in DOMAIN views[x] :
    views[x][i].kind = "unsubscribe" =>
      Cardinality({ j \in DOMAIN views[x] : i < j }) <= 1

\* unsubscribe(), called once or more often, races with clear_subscribers at
\* the end of the reducer thread: between them every subscriber that had
\* on_subscribe has on_unsubscribe exactly once.
UnsubscribedOnce ==
  \A x \in Subs :
    LET count(kind) ==
          Cardinality({ i \in DOMAIN views[x] : views[x][i].kind = kind })
    IN  /\ count("unsubscribe") <= count("subscribe")
        /\ count("subscribe") <= 1
        /\ rpc = "done" => count("unsubscribe") = count("subscribe")

\* The function of a query is queued apart from its StateFunction, and any
\* StateFunction runs all that wait: still none runs twice, and one whose
\* query_state returned Ok has run when the reducer thread ends.
QueriesRun ==
  /\ \A i, j \in DOMAIN ran : ran[i].query = ran[j].query => i = j
  /\ rpc = "done" => queried \subseteq { ran[i].query : i \in DOMAIN ran }

\* A subscriber waits in adding_subscribers apart from its AddSubscriber, and any
\* AddSubscriber adds all that wait.  Still nobody whose add_subscriber returned
\* Ok is left waiting there when the reducer thread ends, whatever the policy
\* drops: it has been added, or it has unsubscribed.
NoneLeftWaiting == rpc = "done" => held \cap ToSet(adding) = {}

\* Every call to the store returns: dispatch, add_subscriber and query_state,
\* which may wait in the channel for space with dispatch_tx locked, and close
\* and stop, which need dispatch_tx to begin with.
CallsReturn == \A t \in Threads : pc[t] # "idle" ~> pc[t] = "idle"

\* Once the store is closed the reducer thread ends.
CloseEndsReducer == ~txOpen ~> rpc = "done"

\* tests/integration_test.rs: "no action must be received after unsubscribe".
\* False: a notification under way arrives later.
SilentAfterUnsubscribe ==
  \A x \in Subs : \A i, j \in DOMAIN views[x] :
    views[x][i].kind = "unsubscribe" /\ i < j => views[x][j].kind # "notify"

\* stop(): "close the store and wait for the dispatcher to finish".  False: a
\* second stop() finds the pool taken and does not wait.
StopWaits == stopped # {} => rpc = "done"

\* "Stop store to ensure all effects are processed" (src/effect.rs, tests).
\* False: stop() takes the pool while actions are queued, and the effects they
\* issue later find none.
StopProcessesEffects == stopped # {} => discarded = {}

=============================================================================
