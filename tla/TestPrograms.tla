---------------------------- MODULE TestPrograms ----------------------------
(***************************************************************************)
(* The tests in src/reducer.rs, effect.rs, middleware.rs, metrics.rs,      *)
(* store.rs and store_impl.rs that run a store without channeled           *)
(* subscribers or iterators (those are StoreSubscribers), as records for   *)
(* Pipeline.  Their assertions are its expectations.                       *)
(***************************************************************************)
EXTENDS ExamplePrograms, FiniteSets

-----------------------------------------------------------------------------
(* Reducers and middlewares *)

\* catch_unwind turns the panic into a Keep.
PanicOnValueReducer(s, a) ==
  IF a.n = 42 THEN Keep(s, <<>>) ELSE Dispatch([s EXCEPT !.value = @ + a.n], <<>>)

PanicReducer(s, a) == Keep(s, <<>>)

AddWithEffectReducer(s, a) ==
  Dispatch([s EXCEPT !.value = @ + a.n],
           IF a.type = "AddWithEffect" THEN <<ActionEffect(Add(40))>> ELSE <<>>)

KeepNegativeReducer(s, a) ==
  IF a.n < 0 THEN Keep(s, <<>>) ELSE Dispatch([s EXCEPT !.value = @ + a.n], <<>>)

DoubleReducer(s, a) == Dispatch([s EXCEPT !.value = @ * 2], <<>>)

\* TestReducer of effect.rs; a message is told by the value it is about.
EffectsReducer(s, a) ==
  CASE a.type = "SetValue" ->
         Dispatch([s EXCEPT !.value = a.n],
                  <<ActionEffect(Act("AddMessage", a.n))>>)
    [] a.type = "AddValue"   -> Dispatch([s EXCEPT !.value = @ + a.n], <<>>)
    [] a.type = "AddMessage" -> Dispatch([s EXCEPT !.log = Append(@, a.n)], <<>>)
    [] a.type = "AsyncTask"  -> Dispatch(s, <<Task>>)
    [] a.type = "ThunkTask"  -> Dispatch(s, <<Thunk(Act("AddValue", a.n))>>)
    [] a.type = "FunctionTask" -> Dispatch(s, <<Function(NoAction)>>)

\* TestEffectMiddleware: functions become tasks.
TestEffectMiddleware(m, s, a, inner) ==
  LET out == Around(m, inner)
      asTask(e) == IF e.kind = "Function" THEN Task ELSE e
  IN IF out.returns # "Ok" THEN out
     ELSE [out EXCEPT !.result.effects = [i \in DOMAIN @ |-> asTask(@[i])]]

\* TestReducer and MiddlewareReducer of middleware.rs
SetReducer(s, a) == Dispatch([s EXCEPT !.value = a.n], <<>>)

\* MiddlewareBeforeDispatch answers a request with an effect.
BeforeDispatch(m, s, a, inner) ==
  IF a.type = "ReqThisAction"
    THEN Instead(m, "Ok",
                 Keep(s, <<ActionEffect(Act("ResponseAsThis", a.n + 1))>>))
    ELSE Around(m, inner)

\* EffectReducer: the function returns an action.
FunctionReducer(s, a) ==
  Dispatch([s EXCEPT !.value = a.n],
           IF a.type = "ActionProduceEffectFunction"
             THEN <<Function(Act("ResponseForTheEffect", a.n + 1))>> ELSE <<>>)

\* EffectMiddleware passes a result on, and an error (`?`).
EffectMiddleware(m, s, a, inner) == Around(m, inner)

\* TestLoggerMiddleware, whose trace is what it logs, and the same with its
\* mutex poisoned: it panics before it gets to inner.
Logger(m, s, a, inner) == Around(m, inner)
PoisonedLogger(m, s, a, inner) == Instead(m, "Panic", Keep(s, <<>>))

\* TestReducer of store.rs
CounterReducer(s, a) ==
  CASE a.type = "Increment"  -> Dispatch([s EXCEPT !.value = @ + 1], <<>>)
    [] a.type = "Decrement"  -> Dispatch([s EXCEPT !.value = @ - 1], <<>>)
    [] a.type = "SetMessage" -> Dispatch([s EXCEPT !.log = <<a.n>>], <<>>)

-----------------------------------------------------------------------------
(* builder.rs *)

IsOk(store) == "error" \notin DOMAIN store

\* The builder's tests: what they build is a store.  A builder without reducer,
\* name or capacity builds none, nor does StoreImpl::new_with without a reducer.
Builds ==
  LET b == WithReducer(Builder(Value(0)), "sum") IN
  /\ IsOk(Build(b)) /\ IsOk(Build(WithName(b, "test")))
  /\ IsOk(Build(WithReducers(Builder(Value(0)), <<"sum", "sum">>)))
  /\ IsOk(Build(WithCapacity(b, 100))) /\ IsOk(Build(WithMiddleware(b, "logger")))
  /\ Build(AddReducer(b, "double")).reducers = <<"sum", "double">>
  /\ \A bad \in {Builder(Value(0)), WithName(b, ""), WithCapacity(b, 0)} :
       ~IsOk(Build(bad))
  /\ ~IsOk(NewWith(Value(0), <<>>, "test", 1, BlockOnFull, <<>>))

ASSUME BuilderTests == Builds

-----------------------------------------------------------------------------
(* reducer.rs *)

\* The first reducer by with_reducer, the others by add_reducer.
ReducerTest(reducers, actions, script, subscribers) ==
  NewProgram(Build(FoldLeft(AddReducer,
                            BuilderWithReducer(Value(0), Head(reducers)),
                            Tail(reducers))),
          [i \in 1 .. Cardinality(subscribers) |-> Subscribe("s1")]
            \o Each("dispatch", actions) \o script,
          subscribers)

Numbers(ns) == [i \in DOMAIN ns |-> Plain(ns[i])]

ContinuesAfterReducerPanic ==
  ReducerTest(<<"panic_on_42">>, Numbers(<<1, 42, 2>>),
              <<Stop, State(3), Expect("states", "s1", <<1, 3>>)>>, {"s1"})

MultipleReducersContinueAfterPanic ==
  ReducerTest(<<"panic", "sum">>, Numbers(<<1, 2>>), <<Stop, State(3)>>, {})

FnReducerBasic ==
  ReducerTest(<<"sum">>, Numbers(<<5, 3>>), <<Stop, State(8)>>, {})

FnReducerWithEffect ==
  ReducerTest(<<"add_with_effect">>, <<Act("AddWithEffect", 2)>>,
              <<Sleep, Stop, State(42)>>, {})

FnReducerKeepState ==
  ReducerTest(<<"keep_negative">>, Numbers(<<5, -3, 2>>),
              <<Stop, State(7), Expect("states", "s1", <<5, 7>>)>>, {"s1"})

MultipleFnReducers ==
  ReducerTest(<<"sum", "double">>, Numbers(<<3, 15>>), <<Stop, State(42)>>, {})

-----------------------------------------------------------------------------
(* effect.rs *)

EffectTest(middlewares, actions, expected) ==
  NewProgram(Build(WithMiddlewares(BuilderWithReducer(Value(0), "effects"),
                                middlewares)),
          <<Subscribe("s1")>> \o Each("dispatch", actions)
            \o <<Sleep, Stop>> \o expected,
          {"s1"})

EffectAction ==
  EffectTest(<<>>, <<Act("SetValue", 42)>>,
             <<Expect("last", "s1", 42),
               Expect("actions", "s1",
                      {Act("SetValue", 42), Act("AddMessage", 42)})>>)

EffectTask ==
  EffectTest(<<>>, <<Act("AsyncTask", 0)>>,
             <<Expect("actions", "s1", {Act("AsyncTask", 0)})>>)

EffectThunk ==
  EffectTest(<<>>, <<Act("ThunkTask", 10)>>,
             <<Expect("actions", "s1",
                      {Act("ThunkTask", 10), Act("AddValue", 10)}),
               Expect("last", "s1", 10)>>)

EffectFunction ==
  EffectTest(<<"functions">>, <<Act("FunctionTask", 0)>>,
             <<Expect("actions", "s1", {Act("FunctionTask", 0)})>>)

EffectChain ==
  LET actions == <<Act("SetValue", 5), Act("ThunkTask", 3), Act("AsyncTask", 0)>>
  IN EffectTest(<<>>, actions,
                <<Expect("actions", "s1",
                         {actions[i] : i \in DOMAIN actions}
                           \cup {Act("AddValue", 3), Act("AddMessage", 5)})>>)

-----------------------------------------------------------------------------
(* middleware.rs *)

MiddlewareTest(reducer, middleware, script) ==
  NewProgram(NewWith(Value(0), <<reducer>>, "test", 2, BlockOnFull, <<middleware>>),
          script, {})

LoggerMiddlewareTest ==
  MiddlewareTest("set", "logger",
    <<<<"dispatch", Plain(1)>>, Stop,
      Expect("trace", "logger", <<<<"in", "logger">>, <<"out", "logger">>>>)>>)

\* assert_eq!(store.get_state(), 0) right after the dispatch is left out: it
\* races with the effect.
MiddlewareBeforeReduce ==
  MiddlewareTest("set", "before",
    <<<<"dispatch", Act("ReqThisAction", 42)>>, Sleep, Stop, State(43)>>)

EffectMiddlewareTest ==
  MiddlewareTest("function", "effect",
    <<<<"dispatch", Act("ActionProduceEffectFunction", 42)>>, Sleep, Stop,
      State(43)>>)

MiddlewarePoisoned ==
  MiddlewareTest("set", "poisoned",
    <<<<"dispatch", Plain(1)>>, Stop,
      Expect("trace", "poisoned", <<<<"in", "poisoned">>>>)>>)

-----------------------------------------------------------------------------
(* metrics.rs *)

\* Durations are 1 or 2 ms instead of 10.
MetricsTest(capacity, middlewares, actions, durations, expected) ==
  [NewProgram(NewWith(Value(0), <<"sum">>, "test", capacity, DropOldest,
                      middlewares),
              Each("send", Numbers(actions)) \o <<Stop>> \o expected, {})
     EXCEPT !.durations = durations]

CountMetricsBasic ==
  MetricsTest(5, <<>>, <<1, 2, 3>>, {1, 2},
              <<Expect("count", "action_received", 3 + 1),
                Expect("count", "action_reduced", 3),
                Expect("took", "reducer_time", 1)>>)

\* assert!(action_dropped > 0) is left out: it needs a reducer that is slower
\* than five dispatches.
CountMetricsDropped ==
  MetricsTest(2, <<>>, <<0, 1, 2, 3, 4>>, {1},
              <<Expect("at most", "remaining_queue_max", 2)>>)

CountMetricsWithMiddleware ==
  MetricsTest(5, <<"metrics">>, <<1>>, {1, 2},
              <<Expect("count", "action_received", 1 + 1),
                Expect("count", "action_reduced", 1),
                Expect("count", "state_notified", 1),
                Expect("count", "subscriber_notified", 0),
                Expect("took", "middleware_time", 1),
                Expect("took", "reducer_time", 1),
                Expect("no less", "middleware_time", "reducer_time")>>)

-----------------------------------------------------------------------------
(* store.rs *)

\* create_test_store
StoreTest(main) ==
  NewProgram(NewWith(Value(0), <<"counter">>, "test-store", 16, BlockOnFull, <<>>),
          main, {})

Increment == Act("Increment", 0)
Decrement == Act("Decrement", 0)

StoreDispatch ==
  StoreTest(<<<<"dispatch", Increment>>, Sleep, State(1),
              <<"dispatch", Act("SetMessage", 7)>>, Sleep,
              Expect("state", "store", [value |-> 1, log |-> <<7>>]), Stop>>)

StoreMultipleActions ==
  StoreTest(Each("dispatch", <<Increment, Increment, Act("SetMessage", 7),
                               Decrement>>)
              \o <<Sleep, Expect("state", "store", [value |-> 1, log |-> <<7>>]),
                   Stop>>)

\* also test_store_error_handling
StoreAfterStop ==
  StoreTest(<<Stop, <<"dispatch", Increment>>, Expect("errors", "main", 1),
              State(0)>>)

\* Two calls of each thread instead of five.
StoreConcurrentAccess ==
  AndThread(StoreTest(Each("dispatch", <<Decrement, Decrement>>)
                        \o <<Join, Sleep, State(0), Stop>>),
            <<Spawned(0)>> \o Each("dispatch", <<Increment, Increment>>))

StoreBuilderConfigurations ==
  NewProgram(Build(WithPolicy(WithCapacity(WithName(
            WithReducer(Builder(Value(0)), "counter"), "custom-store"), 32),
            DropLatest)),
          <<<<"dispatch", Increment>>, Sleep, State(1), Stop>>, {})

-----------------------------------------------------------------------------
(* store_impl.rs *)

SumTest(script, subscribers) ==
  NewProgram(NewStore(Value(0), "sum"), script, subscribers)

NewSubscriberReceivesLatestState ==
  SumTest(<<Subscribe("s1")>> \o Each("send", Numbers(<<5, 10>>))
            \o <<Sleep, Subscribe("s2"), Sleep, <<"send", Plain(20)>>, Sleep,
                 Expect("states", "s1", <<5, 15, 35>>),
                 Expect("states", "s2", <<35>>)>>,
          {"s1", "s2"})

\* also test_subscriber_modifies_state_in_on_subscribe
OnSubscribeCalled ==
  SumTest(<<<<"send", Plain(5)>>, Subscribe("s1"), Sleep,
            Expect("start", "s1", 5), Expect("states", "s1", <<>>), State(5)>>,
          {"s1"})

MultipleSubscribersAdded ==
  SumTest(Each("send", Numbers(<<10, 20>>))
            \o <<Sleep, Subscribe("s1"), Subscribe("s2"), Subscribe("s3"), Sleep,
                 <<"send", Plain(30)>>, Sleep>>
            \o [i \in 1 .. 3 |->
                 Expect("states", <<"s1", "s2", "s3">>[i], <<60>>)],
          {"s1", "s2", "s3"})

UnsubscribeAfterAdd ==
  SumTest(<<<<"send", Plain(5)>>, Subscribe("s1"), Sleep,
            <<"unsubscribe", "s1">>, <<"send", Plain(10)>>, Sleep,
            Expect("states", "s1", <<>>)>>,
          {"s1"})

AddSubscriberAfterStop ==
  SumTest(<<Stop, Subscribe("s1"), Expect("errors", "main", 1)>>, {"s1"})

ConsecutiveAdds ==
  SumTest(<<Subscribe("s1"), Sleep, Subscribe("s2"), Sleep, Subscribe("s3"),
            Sleep, <<"send", Plain(10)>>, Sleep>>
            \o [i \in 1 .. 3 |->
                 Expect("states", <<"s1", "s2", "s3">>[i], <<10>>)],
          {"s1", "s2", "s3"})

Answer(q, n) ==
  Expect("answers", q, <<[query |-> q, state |-> Value(n)]>>)

QueryStateBasic ==
  SumTest(Each("send", Numbers(<<5, 10>>))
            \o <<Sleep, Query("value"), Stop, Answer("value", 15)>>, {})

\* SetName has no value of its own here.
QueryStateComplex ==
  SumTest(Each("send", Numbers(<<10, 0, 5>>))
            \o <<Query("value"), Stop, Answer("value", 15)>>, {})

QueryStateMultiple ==
  SumTest(Each("send", Numbers(<<5, 10>>))
            \o <<Sleep, Query("first"), <<"send", Plain(20)>>, Sleep,
                 Query("second"), Stop,
                 Answer("first", 15), Answer("second", 35)>>, {})

\* It does not wait for the answer.
QueryStateErrorHandling ==
  SumTest(<<Query("value"), Expect("errors", "main", 0)>>, {})

=============================================================================
