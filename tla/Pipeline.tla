------------------------------ MODULE Pipeline ------------------------------
(***************************************************************************)
(* An action on its way through a whole store: programs that dispatch it,  *)
(* the channel with its policy, middlewares and reducers, the effects in   *)
(* the pool, the notified subscribers, and the metrics everybody keeps     *)
(* (src/store_impl.rs with reducer.rs, middleware.rs, effect.rs,           *)
(* metrics.rs, builder.rs).                                                *)
(*                                                                         *)
(* StoreImpl has the finer interleavings of the store's mutexes; here a    *)
(* call is one step, but for a dispatch, which updates the metrics after   *)
(* its send, and stop().  States are values, and reducers compute them.    *)
(*                                                                         *)
(* A program is a record: the store it makes, and a script of calls for    *)
(* each of its threads.  A thread that sleeps does so until the store has  *)
(* nothing left to do, which is what the programs sleep for.               *)
(***************************************************************************)
EXTENDS Reducers, Metrics, Builder, FiniteSets

CONSTANTS
  Programs,   \* the programs
  Threads,    \* the threads a program may have
  Workers     \* the threads of the pool beside the reducer thread

ASSUME DurationsAssumption == \A p \in Programs : p.durations \subseteq Nat

VARIABLES
  program,      \* the program
  state,
  queue, txOpen, txLock,   \* the dispatch channel, dispatch_tx and its mutex
  adding, subscribers, functions,
  running,      \* whether the reducer thread runs, which keeps the channel open
  rpc,          \* where it is
  current,      \* the action it has taken, with the outcome and the count of
                \* the subscribers to be notified
  effects,      \* the effects still to be handed to the pool
  rest,         \* the subscribers still to be notified
  pool, poolOpen,   \* the tasks queued in the pool
  task,         \* what each worker runs: a sequence of one task or none
  pc, line,     \* where each thread is, and at which line of its script
  remains,      \* what a thread's send has returned
  metrics,
  errors,       \* history: how many calls of each thread returned Err
  panics,       \* history: how many tasks have panicked
  thunks,       \* history: how many tasks have started
  sent,         \* history: how many operations have entered the channel
  longest,      \* history: the greatest length the queue has had
  latest,       \* history: the length the queue had after the latest send
  views,        \* history: what each subscriber was called with
  answers       \* history: what each query saw

channel == <<queue, txOpen, txLock, sent, longest, latest>>
lists == <<adding, subscribers, functions>>
reducer == <<running, rpc, current, effects, rest>>
poolVars == <<pool, poolOpen, task, panics, thunks>>
threads == <<pc, line, remains, errors>>
seen == <<views, answers>>
vars == <<program, state, channel, lists, reducer, poolVars, threads, metrics,
          seen>>

Store == program.store

\* What travels in the channel besides actions.
Control(op) == Act(op, 0)
Controls == {Control(op) : op \in {"AddSubscriber", "StateFunction", "Exit"}}

Channel ==
  INSTANCE Backpressure WITH
    Capacity <- Store.capacity, Policy <- Store.policy.kind,
    Actions <- [type : STRING, n : Int] \ Controls, Controls <- Controls,
    Predicate <- IF Store.policy.any THEN [type : STRING, n : Int] \ Controls
                 ELSE Store.policy.drops

Init ==
  /\ program \in Programs
  /\ state = Store.state
  /\ queue = <<>> /\ txOpen = TRUE /\ txLock = {}
  /\ adding = <<>> /\ subscribers = <<>> /\ functions = <<>>
  /\ running = TRUE /\ rpc = "recv" /\ effects = <<>> /\ rest = <<>>
  /\ current = [action |-> NoAction, before |-> Store.state,
                outcome |-> Outcome("none", Keep(Store.state, <<>>), <<>>, <<>>),
                count |-> 0]
  /\ pool = <<>> /\ poolOpen = TRUE
  /\ task = [w \in Workers |-> <<>>]
  /\ pc = [t \in Threads |-> "run"]
  /\ line = [t \in Threads |-> 1]
  /\ remains = [t \in Threads |-> 0]
  /\ metrics = NoMetrics
  /\ errors = [t \in Threads |-> 0]
  /\ panics = 0 /\ thunks = 0 /\ sent = 0 /\ longest = 0 /\ latest = 0
  /\ views = [s \in program.subscribers |-> <<>>]
  /\ answers = <<>>

-----------------------------------------------------------------------------
(* Scripts *)

Ended(t) == line[t] > Len(program.scripts[t])

Call(t) == program.scripts[t][line[t]]

\* t is about to make a call of this kind.
Calls(t, kind) == pc[t] = "run" /\ ~Ended(t) /\ Call(t)[1] = kind

Arg(t) == Call(t)[2]

Returns(t) ==
  /\ line' = [line EXCEPT ![t] = @ + 1]
  /\ pc' = [pc EXCEPT ![t] = "run"]

\* Nothing left to do, for as long as nobody calls.
Quiet ==
  /\ running => queue = <<>> /\ rpc = "recv"
  /\ pool = <<>>
  /\ \A w \in Workers : task[w] = <<>>

-----------------------------------------------------------------------------
(* The dispatch channel *)

\* What the queue and the metrics are when op has entered; the policy may drop
\* one action.
QueueWith(op) ==
  LET kept == IF Channel!HasRoom(queue) THEN queue
              ELSE RemoveAt(queue, CHOOSE i \in Channel!Victims(queue) :
                                     TRUE)
  IN Append(kept, [op |-> op])

\* Faulty Counted: what is dropped is not counted.
CountedUndropped(m, op) == QueueSize(m, Len(QueueWith(op)))

Counted(m, op) ==
  QueueSize(IF Channel!HasRoom(queue) THEN m ELSE ActionDropped(m),
            Len(QueueWith(op)))

\* The send of op is through, when the receiver is there.
Enters(op) ==
  /\ running
  /\ ~Channel!Blocks(queue)
  /\ queue' = QueueWith(op)
  /\ metrics' = Counted(metrics, op)
  /\ sent' = sent + 1
  /\ latest' = Len(queue')
  /\ longest' = IF Len(queue') > longest THEN Len(queue') ELSE longest

\* Nothing enters: there is no sender, or no receiver.
Refused ==
  /\ ~txOpen \/ ~running
  /\ UNCHANGED <<queue, sent, longest, latest>>

-----------------------------------------------------------------------------
(* Calls of the programs *)

\* Faulty DispatchSend: dispatch_tx is released before the metrics are updated.
DispatchSendUnlocked(t) ==
  /\ Calls(t, "dispatch")
  /\ txLock = {} /\ txOpen
  /\ Enters(Arg(t))
  /\ remains' = [remains EXCEPT ![t] = Len(queue')]
  /\ pc' = [pc EXCEPT ![t] = "dispatched"]
  /\ UNCHANGED <<program, state, txOpen, txLock, lists, reducer, poolVars, line,
                 errors, seen>>

\* dispatch of StoreImpl: with dispatch_tx locked, the send, and the metrics
\* once more.
DispatchSend(t) ==
  /\ Calls(t, "dispatch")
  /\ txLock = {} /\ txOpen
  /\ Enters(Arg(t))
  /\ txLock' = {t}
  /\ remains' = [remains EXCEPT ![t] = Len(queue')]
  /\ pc' = [pc EXCEPT ![t] = "dispatched"]
  /\ UNCHANGED <<program, state, txOpen, lists, reducer, poolVars, line, errors,
                 seen>>

DispatchReturns(t) ==
  /\ pc[t] = "dispatched"
  /\ metrics' = QueueSize(metrics, remains[t])
  /\ txLock' = txLock \ {t}
  /\ Returns(t)
  /\ UNCHANGED <<program, state, queue, txOpen, sent, longest, latest, lists,
                 reducer, poolVars, remains, errors, seen>>

DispatchFails(t) ==
  /\ Calls(t, "dispatch")
  /\ txLock = {}
  /\ Refused
  /\ metrics' = ErrorOccurred(metrics)
  /\ errors' = [errors EXCEPT ![t] = @ + 1]
  /\ Returns(t)
  /\ UNCHANGED <<program, state, txOpen, txLock, lists, reducer, poolVars,
                 remains, seen>>

\* dispatch of Dispatcher for Arc<StoreImpl>: no metrics of its own.
Send(t) ==
  /\ Calls(t, "send")
  /\ txLock = {}
  /\ \/ txOpen /\ Enters(Arg(t)) /\ UNCHANGED errors
     \/ /\ Refused
        /\ errors' = [errors EXCEPT ![t] = @ + 1]
        /\ UNCHANGED metrics
  /\ Returns(t)
  /\ UNCHANGED <<program, state, txOpen, txLock, lists, reducer, poolVars,
                 remains, seen>>

\* add_subscriber; the name of the subscriber stands for its id.
AddSubscriber(t) ==
  /\ Calls(t, "subscribe")
  /\ txLock = {}
  /\ \/ /\ txOpen /\ Enters(Control("AddSubscriber"))
        /\ adding' = Append(adding, Arg(t))
        /\ UNCHANGED errors
     \/ /\ Refused
        /\ errors' = [errors EXCEPT ![t] = @ + 1]
        /\ UNCHANGED <<adding, metrics>>
  /\ Returns(t)
  /\ UNCHANGED <<program, state, txOpen, txLock, subscribers, functions, reducer,
                 poolVars, remains, seen>>

Unsubscribe(t) ==
  /\ Calls(t, "unsubscribe")
  /\ adding' = SelectSeq(adding, LAMBDA s : s # Arg(t))
  /\ subscribers' = SelectSeq(subscribers, LAMBDA s : s # Arg(t))
  /\ Returns(t)
  /\ UNCHANGED <<program, state, channel, functions, reducer, poolVars, remains,
                 errors, metrics, seen>>

QueryState(t) ==
  /\ Calls(t, "query")
  /\ txLock = {}
  /\ functions' = Append(functions, Arg(t))
  /\ \/ txOpen /\ Enters(Control("StateFunction")) /\ UNCHANGED errors
     \/ /\ Refused
        /\ errors' = [errors EXCEPT ![t] = @ + 1]
        /\ UNCHANGED metrics
  /\ Returns(t)
  /\ UNCHANGED <<program, state, txOpen, txLock, adding, subscribers, reducer,
                 poolVars, remains, seen>>

\* dispatch_thunk, dispatch_task
DispatchTask(t) ==
  /\ Calls(t, "thunk")
  /\ pool' = IF poolOpen THEN Append(pool, Arg(t)) ELSE pool
  /\ Returns(t)
  /\ UNCHANGED <<program, state, channel, lists, reducer, poolOpen, task, panics,
                 thunks, remains, errors, metrics, seen>>

\* Faulty Close: the sender is dropped without an Exit.
CloseWithoutExit(t) ==
  /\ Calls(t, "stop")
  /\ txLock = {}
  /\ txOpen' = FALSE
  /\ pc' = [pc EXCEPT ![t] = "pool"]
  /\ UNCHANGED <<program, state, queue, txLock, sent, longest, latest, lists,
                 reducer, poolVars, line, remains, errors, metrics, seen>>

\* stop: close() takes the sender ...
Close(t) ==
  /\ Calls(t, "stop")
  /\ txLock = {}
  /\ txOpen' = FALSE
  /\ pc' = [pc EXCEPT ![t] = IF txOpen THEN "exit" ELSE "pool"]
  /\ UNCHANGED <<program, state, queue, txLock, sent, longest, latest, lists,
                 reducer, poolVars, line, remains, errors, metrics, seen>>

\* ... and sends Exit; that the channel is closed is no matter ...
SendExit(t) ==
  /\ pc[t] = "exit"
  /\ \/ Enters(Control("Exit"))
     \/ ~running /\ UNCHANGED <<queue, sent, longest, latest, metrics>>
  /\ pc' = [pc EXCEPT ![t] = "pool"]
  /\ UNCHANGED <<program, state, txOpen, txLock, lists, reducer, poolVars, line,
                 remains, errors, seen>>

\* ... the pool is taken, unless another stop has it ...
TakePool(t) ==
  /\ pc[t] = "pool"
  /\ poolOpen' = FALSE
  /\ IF poolOpen THEN pc' = [pc EXCEPT ![t] = "join"] /\ UNCHANGED line
                 ELSE Returns(t)
  /\ UNCHANGED <<program, state, channel, lists, reducer, pool, task, panics,
                 thunks, remains, errors, metrics, seen>>

\* ... and joined: its tasks have run, the reducer thread among them.
JoinPool(t) ==
  /\ pc[t] = "join"
  /\ ~running /\ Quiet
  /\ Returns(t)
  /\ UNCHANGED <<program, state, channel, lists, reducer, poolVars, remains,
                 errors, metrics, seen>>

\* What a thread waits for: another one's end or its n-th line, a thunk's
\* signal, or for time to pass; and the assertions.
May(t) ==
  \/ Calls(t, "sleep") /\ Quiet
  \/ Calls(t, "join") /\ Ended(Arg(t))
  \/ Calls(t, "spawned") /\ line[Arg(t)] > Call(t)[3]
  \/ Calls(t, "signalled") /\ thunks > 0
  \/ Calls(t, "expect")

Goes(t) ==
  /\ May(t)
  /\ Returns(t)
  /\ UNCHANGED <<program, state, channel, lists, reducer, poolVars, remains,
                 errors, metrics, seen>>

-----------------------------------------------------------------------------
(* The reducer thread *)

\* do_reduce, which reads the state, and the begin of do_effect; d and e are the
\* time the reducers and the middlewares take.
Reduce(action, d, e) ==
  LET outcome == Decorated(Store.middlewares, Store.reducers, state, action)
      received == ActionReceived(metrics)
      reduced == IF outcome.reduced = <<>> THEN received
                 ELSE ActionReduced(received, d)
      time == IF outcome.reduced = <<>> THEN e ELSE d + e
  IN
  /\ current' = [action |-> action, before |-> state, outcome |-> outcome,
                 count |-> 0]
  /\ CASE outcome.returns = "Ok" ->
            /\ metrics' = EffectIssued(MiddlewareExecuted(reduced, time),
                                       Len(outcome.result.effects))
            /\ effects' = outcome.result.effects
            /\ rpc' = "effects"
            /\ UNCHANGED running
       [] outcome.returns = "Err" ->
            /\ metrics' = reduced
            /\ UNCHANGED <<effects, rpc, running>>
       [] OTHER -> \* a panic
            /\ metrics' = reduced
            /\ running' = FALSE /\ rpc' = "dead"
            /\ UNCHANGED effects

RecvAction ==
  /\ running /\ rpc = "recv" /\ queue # <<>>
  /\ Head(queue).op \notin Controls
  /\ queue' = Tail(queue)
  /\ \E d, e \in program.durations : Reduce(Head(queue).op, d, e)
  /\ UNCHANGED <<program, state, txOpen, txLock, sent, longest, latest, lists,
                 rest, poolVars, threads, seen>>

View(by, s, action) == [by |-> by, state |-> s, action |-> action]

\* AddSubscriber: do_subscribe.
RecvAddSubscriber ==
  /\ running /\ rpc = "recv" /\ queue # <<>>
  /\ Head(queue).op = Control("AddSubscriber")
  /\ queue' = Tail(queue)
  /\ metrics' = ActionReceived(metrics)
  /\ views' = [s \in DOMAIN views |->
                views[s] \o IF s \notin ToSet(adding) THEN <<>>
                            ELSE <<View("subscribe", state, NoAction)>>]
  /\ subscribers' = subscribers \o adding
  /\ adding' = <<>>
  /\ UNCHANGED <<program, state, txOpen, txLock, sent, longest, latest, functions,
                 reducer, poolVars, threads, answers>>

\* StateFunction: do_state_function.
RecvStateFunction ==
  /\ running /\ rpc = "recv" /\ queue # <<>>
  /\ Head(queue).op = Control("StateFunction")
  /\ queue' = Tail(queue)
  /\ metrics' = ActionReceived(metrics)
  /\ answers' = answers \o [i \in DOMAIN functions |->
                             [query |-> functions[i], state |-> state]]
  /\ functions' = <<>>
  /\ UNCHANGED <<program, state, txOpen, txLock, sent, longest, latest, adding,
                 subscribers, reducer, poolVars, threads, views>>

\* Exit: on_close, clear_subscribers, and the receiver is dropped.
RecvExit ==
  /\ running /\ rpc = "recv" /\ queue # <<>>
  /\ Head(queue).op = Control("Exit")
  /\ queue' = Tail(queue)
  /\ metrics' = ActionReceived(metrics)
  /\ subscribers' = <<>>
  /\ running' = FALSE /\ rpc' = "ended"
  /\ UNCHANGED <<program, state, txOpen, txLock, sent, longest, latest, adding,
                 functions, current, effects, rest, poolVars, threads, seen>>

\* do_effect: the next effect becomes a task of the pool, if it is there.
IssueEffect ==
  /\ rpc = "effects" /\ effects # <<>>
  /\ effects' = Tail(effects)
  /\ pool' = IF poolOpen THEN Append(pool, Head(effects)) ELSE pool
  /\ UNCHANGED <<program, state, channel, lists, running, rpc, current, rest,
                 poolOpen, task, panics, thunks, threads, metrics, seen>>

\* Faulty UpdateState: a Keep leaves the state as it was.
UpdateStateOnDispatch ==
  /\ rpc = "effects" /\ effects = <<>>
  /\ LET result == current.outcome.result
         executed == EffectExecuted(metrics, Len(result.effects)) IN
     IF result.op = "Dispatch"
       THEN /\ metrics' = StateNotified(executed)
            /\ rest' = subscribers
            /\ current' = [current EXCEPT !.count = Len(subscribers)]
            /\ rpc' = "notify"
            /\ state' = result.state
       ELSE /\ metrics' = executed
            /\ rpc' = "recv"
            /\ UNCHANGED <<state, current, rest>>
  /\ UNCHANGED <<program, channel, lists, running, effects, poolVars, threads,
                 seen>>

\* The end of do_effect; the new state is written, and do_notify clones the list
\* and takes its length.
UpdateState ==
  /\ rpc = "effects" /\ effects = <<>>
  /\ LET result == current.outcome.result
         executed == EffectExecuted(metrics, Len(result.effects)) IN
     /\ state' = result.state
     /\ IF result.op = "Dispatch"
          THEN /\ metrics' = StateNotified(executed)
               /\ rest' = subscribers
               /\ current' = [current EXCEPT !.count = Len(subscribers)]
               /\ rpc' = "notify"
          ELSE /\ metrics' = executed
               /\ rpc' = "recv"
               /\ UNCHANGED <<current, rest>>
  /\ UNCHANGED <<program, channel, lists, running, effects, poolVars, threads,
                 seen>>

\* on_notify of the next subscriber.
Notify ==
  /\ rpc = "notify" /\ rest # <<>>
  /\ views' = [views EXCEPT ![Head(rest)] =
                Append(@, View("notify", state, current.action))]
  /\ rest' = Tail(rest)
  /\ UNCHANGED <<program, state, channel, lists, running, rpc, current, effects,
                 poolVars, threads, metrics, answers>>

\* Faulty NotifyDone: what is counted is the list as it is by now.
NotifyDoneNow ==
  /\ rpc = "notify" /\ rest = <<>>
  /\ \E d \in program.durations :
        metrics' = SubscriberNotified(metrics, Len(subscribers), d)
  /\ rpc' = "recv"
  /\ UNCHANGED <<program, state, channel, lists, running, current, effects, rest,
                 poolVars, threads, seen>>

\* The end of do_notify, which counts as many as the clone had.
NotifyDone ==
  /\ rpc = "notify" /\ rest = <<>>
  /\ \E d \in program.durations :
        metrics' = SubscriberNotified(metrics, current.count, d)
  /\ rpc' = "recv"
  /\ UNCHANGED <<program, state, channel, lists, running, current, effects, rest,
                 poolVars, threads, seen>>

-----------------------------------------------------------------------------
(* The threads of the pool *)

\* A worker takes the next task.
StartTask(w) ==
  /\ task[w] = <<>> /\ pool # <<>>
  /\ task' = [task EXCEPT ![w] = <<Head(pool)>>]
  /\ pool' = Tail(pool)
  /\ thunks' = thunks + IF Head(pool).kind = "Thunk" THEN 1 ELSE 0
  /\ UNCHANGED <<program, state, channel, lists, reducer, poolOpen, panics,
                 threads, metrics, seen>>

\* A task that dispatches nothing ends.
EndTask(w) ==
  /\ task[w] # <<>> /\ Head(task[w]).action = NoAction
  /\ task' = [task EXCEPT ![w] = <<>>]
  /\ UNCHANGED <<program, state, channel, lists, reducer, pool, poolOpen, panics,
                 thunks, threads, metrics, seen>>

\* The others dispatch, which a WeakDispatcher passes on to the store's Arc.
TaskDispatches(w) ==
  /\ task[w] # <<>> /\ Head(task[w]).action # NoAction
  /\ txLock = {}
  /\ \/ txOpen /\ Enters(Head(task[w]).action) /\ UNCHANGED panics
     \/ /\ Refused
        /\ panics' = panics + IF Head(task[w]).expects THEN 1 ELSE 0
        /\ UNCHANGED metrics
  /\ task' = [task EXCEPT ![w] = <<>>]
  /\ UNCHANGED <<program, state, txOpen, txLock, lists, reducer, pool, poolOpen,
                 thunks, threads, seen>>

-----------------------------------------------------------------------------
(* The specification *)

Thread(t) ==
  \/ DispatchSend(t) \/ DispatchReturns(t) \/ DispatchFails(t)
  \/ Send(t) \/ AddSubscriber(t) \/ Unsubscribe(t) \/ QueryState(t)
  \/ DispatchTask(t) \/ Close(t) \/ SendExit(t) \/ TakePool(t)
  \/ JoinPool(t) \/ Goes(t)

Reducer ==
  \/ RecvAction \/ RecvAddSubscriber \/ RecvStateFunction \/ RecvExit
  \/ IssueEffect \/ UpdateState \/ Notify \/ NotifyDone

Worker(w) == StartTask(w) \/ EndTask(w) \/ TaskDispatches(w)

Next ==
  \/ \E t \in Threads : Thread(t)
  \/ Reducer
  \/ \E w \in Workers : Worker(w)

\* Threads run; a mutex or a condition variable is theirs when it has been free
\* for long enough.
Fairness ==
  /\ \A t \in Threads : WF_vars(Thread(t))
  /\ WF_vars(Reducer)
  /\ \A w \in Workers : WF_vars(Worker(w))

Spec == Init /\ [][Next]_vars /\ Fairness

-----------------------------------------------------------------------------
(* What the programs expect *)

Notified(s) == SelectSeq(views[s], LAMBDA v : v.by = "notify")

\* An expectation: what is looked at, of which subscriber, query or counter, and
\* the value it has.
Holds(t, e) ==
  CASE e.what = "state"    -> state = e.is
    [] e.what = "errors"   -> errors[t] = e.is
    [] e.what = "states"   -> e.is = [i \in DOMAIN Notified(e.of) |->
                                       Notified(e.of)[i].state.value]
    [] e.what = "last"     -> Last(Notified(e.of)).state.value = e.is
    [] e.what = "actions"  -> e.is \subseteq
                                {v.action : v \in ToSet(Notified(e.of))}
    [] e.what = "start"    -> \E v \in ToSet(views[e.of]) :
                                v.by = "subscribe" /\ v.state.value = e.is
    [] e.what = "answers"  -> e.is = SelectSeq(answers, LAMBDA a : a.query = e.of)
    [] e.what = "trace"    -> current.outcome.trace = e.is
    [] e.what = "count"    -> metrics[e.of] = e.is
    [] e.what = "at most"  -> metrics[e.of] <= e.is
    [] e.what = "took"     -> metrics[e.of].total >= e.is
    [] e.what = "no less"  -> metrics[e.of].total >= metrics[e.is].total

-----------------------------------------------------------------------------
(* Properties *)

\* What reducers and middlewares return has the types they have in Rust, and a
\* list has a length.
WellTyped ==
  /\ current.outcome.returns \in {"none", "Ok", "Err", "Panic"}
  /\ current.outcome.result.op \in {"Dispatch", "Keep"}
  /\ current.count \in Nat
  /\ current.outcome.result.effects \in
       Seq([kind : {"Action", "Task", "Thunk", "Function"},
            action : [type : STRING, n : Int], expects : BOOLEAN])

\* Every variable has its type; the channel keeps within its capacity.
TypeOK ==
  /\ WellTyped
  /\ program \in Programs
  /\ state \in [value : Int, log : Seq(Int)]
  /\ Len(queue) <= Store.capacity /\ txOpen \in BOOLEAN
  /\ txLock \subseteq Threads /\ Cardinality(txLock) <= 1
  /\ ToSet(adding) \cup ToSet(subscribers) \cup ToSet(rest)
       \subseteq program.subscribers
  /\ running \in BOOLEAN
  /\ rpc \in {"recv", "effects", "notify", "ended", "dead"}
  /\ poolOpen \in BOOLEAN
  /\ \A w \in Workers : Len(task[w]) <= 1
  /\ \A t \in Threads :
       /\ pc[t] \in {"run", "dispatched", "exit", "pool", "join"}
       /\ line[t] \in 1 .. Len(program.scripts[t]) + 1
  /\ \A c \in Counters : metrics[c] \in Nat
  /\ \A d \in Times : metrics[d].max \in Nat /\ metrics[d].min \in Nat
                      /\ metrics[d].total \in Nat

\* The middlewares are entered in the order they were given in, as far as the
\* action gets, and left in the reverse order, as far as nobody panics.
MiddlewaresNest ==
  LET passed(way) == LET steps == SelectSeq(current.outcome.trace,
                                            LAMBDA e : e[1] = way)
                     IN [i \in DOMAIN steps |-> steps[i][2]]
  IN /\ IsPrefix(passed("in"), Store.middlewares)
     /\ current.outcome.returns # "Panic" =>
          passed("out") = Reverse(passed("in"))

\* The assertions of the repository's examples and tests hold whenever a thread
\* comes to them, in every interleaving of the store's threads.
AssertionsHold ==
  \A t \in Threads : Calls(t, "expect") => Holds(t, Arg(t))

\* What has been sent has been received or dropped, or is in the queue; what has
\* been issued has been executed, once the reducer thread is done with the
\* action.
CountersAddUp ==
  /\ sent = metrics.action_received + metrics.action_dropped + Len(queue)
  /\ rpc = "recv" => metrics.effect_issued = metrics.effect_executed

\* Once the reducer thread is done with an action, as many notifications have
\* been counted as subscribers have received, though the length of the list is
\* read before the first is called, and subscribers leave it meanwhile.
NotificationsCounted ==
  rpc # "notify" =>
    metrics.subscriber_notified =
      FoldSet(LAMBDA s, n : n + Len(Notified(s)), 0, program.subscribers)

\* The gauge shows how long the queue was after the latest send, and its maximum
\* is the longest the queue has ever been, though StoreImpl::dispatch sets both
\* once more after its send.  So it is as long as the store's own channel alone
\* has these metrics: those of channeled subscribers and iterators share them.
GaugesExact ==
  /\ metrics.remaining_queue = latest
  /\ metrics.remaining_queue_max = longest

\* A snapshot minus an earlier one underflows in the gauge and in the minima
\* alone.
OnlyGaugesFall ==
  [][Underflows(metrics', metrics) \subseteq
       ({<<"remaining_queue", "count">>} \cup (Times \X {"min"}))]_vars

\* Every program comes to its end: stop() and the sleeping, joining and
\* dispatching calls of its threads return.
ProgramsEnd == <>(\A t \in Threads : Ended(t))

=============================================================================
