----------------------------- MODULE MCPipeline -----------------------------
(***************************************************************************)
(* Pipeline with the repository's examples and tests, and a few programs   *)
(* of our own for what those leave out: two threads that stop the store,   *)
(* dispatching threads and effects on a channel of one or two places, a    *)
(* reducer that keeps behind one that dispatches, effects of two reducers, *)
(* two middlewares, and one that returns an error.                         *)
(***************************************************************************)
EXTENDS Pipeline, ReducerChain, TestPrograms

\* Dispatches nothing, but passes on what the reducer before it has made.
Keeper(s, a) == Keep(s, <<Task>>)

\* A middleware that lets inner run, and refuses what is negative.
Refuser(m, s, a, inner) ==
  IF a.n < 0 THEN [Around(m, inner) EXCEPT !.returns = "Err"]
             ELSE Around(m, inner)

MCApply(r, s, a) ==
  CASE r = "calc"            -> CalcReducer(s, a)
    [] r = "calc_effect"     -> EffectCalcReducer(s, a)
    [] r = "calc_history"    -> HistoryCalcReducer(s, a)
    [] r = "sum"             -> SumReducer(s, a)
    [] r = "concat"          -> ConcatReducer(s, a)
    [] r = "panic_on_42"     -> PanicOnValueReducer(s, a)
    [] r = "panic"           -> PanicReducer(s, a)
    [] r = "add_with_effect" -> AddWithEffectReducer(s, a)
    [] r = "keep_negative"   -> KeepNegativeReducer(s, a)
    [] r = "double"          -> DoubleReducer(s, a)
    [] r = "effects"         -> EffectsReducer(s, a)
    [] r = "set"             -> SetReducer(s, a)
    [] r = "function"        -> FunctionReducer(s, a)
    [] r = "counter"         -> CounterReducer(s, a)
    [] r = "keeper"          -> Keeper(s, a)

MCWrap(m, s, a, inner) ==
  CASE m = "metrics"   -> MetricsMiddleware(m, s, a, inner)
    [] m = "functions" -> TestEffectMiddleware(m, s, a, inner)
    [] m = "before"    -> BeforeDispatch(m, s, a, inner)
    [] m = "effect"    -> EffectMiddleware(m, s, a, inner)
    [] m = "logger"    -> Logger(m, s, a, inner)
    [] m = "poisoned"  -> PoisonedLogger(m, s, a, inner)
    [] m = "refuser"   -> Refuser(m, s, a, inner)

\* The state of a Keep is written, and nobody is told.
KeepBehindDispatch ==
  NewProgram(Build(WithReducers(Builder(Value(0)), <<"add_with_effect", "keeper">>)),
          <<Subscribe("s1"), <<"dispatch", Act("AddWithEffect", 2)>>, Sleep,
            State(42), Expect("states", "s1", <<>>), Stop>>,
          {"s1"})

TwoMiddlewares ==
  NewProgram(Build(AddMiddleware(WithMiddlewares(BuilderWithReducer(Value(0), "sum"),
                                              <<"logger", "before">>),
                              "refuser")),
          Each("dispatch", <<Plain(1), Plain(-1), Act("ReqThisAction", 1)>>)
            \o <<Sleep, Stop>>, {})

\* The loser of two stops is left with calls to a stopped store.
TwoStops ==
  AndThread(
    NewProgram(Build(WithCapacity(BuilderWithReducer(Value(0), "sum"), 1)),
            <<Subscribe("s1"), <<"dispatch", Plain(1)>>, Stop, Query("late"),
              <<"thunk", Thunk(Plain(1))>>, <<"send", Plain(1)>>>>, {"s1"}),
    <<Spawned(1), <<"dispatch", Plain(1)>>, <<"unsubscribe", "s1">>, Stop>>)

SmallChannel ==
  AndThread(
    NewProgram(Build(WithPolicy(WithCapacity(
                 BuilderWithReducer(Value(0), "add_with_effect"), 1),
                 DropLatestIf({Add(1)}))),
               Each("dispatch", <<Act("AddWithEffect", 1), Add(1)>>)
                 \o <<Join, Stop>>, {}),
    <<Spawned(0), <<"thunk", ExpectingThunk(Add(1))>>, <<"dispatch", Add(2)>>>>)

Examples ==
  {CalcBasic, CalcBasicBuilder, CalcConcurrent, CalcEffect, CalcFnBasic,
   CalcNewSubscriber, CalcQueryState, CalcThunk, CalcUnsubscribe,
   DropOldestIfProgram, MiddlewareProgram, Simple, StoreTrait}

Tests ==
  {ContinuesAfterReducerPanic, MultipleReducersContinueAfterPanic,
   FnReducerBasic, FnReducerWithEffect, FnReducerKeepState, MultipleFnReducers,
   EffectAction, EffectTask, EffectThunk, EffectFunction, EffectChain,
   LoggerMiddlewareTest, MiddlewareBeforeReduce, EffectMiddlewareTest,
   MiddlewarePoisoned, CountMetricsBasic, CountMetricsDropped,
   CountMetricsWithMiddleware, StoreDispatch, StoreMultipleActions,
   StoreAfterStop, StoreConcurrentAccess, StoreBuilderConfigurations,
   NewSubscriberReceivesLatestState, OnSubscribeCalled,
   MultipleSubscribersAdded, UnsubscribeAfterAdd, AddSubscriberAfterStop,
   ConsecutiveAdds, QueryStateBasic, QueryStateComplex, QueryStateMultiple,
   QueryStateErrorHandling}

Corners == {KeepBehindDispatch, TwoMiddlewares, TwoStops, SmallChannel}

MCPrograms == Examples \cup Tests \cup Corners
MCThreads  == {"main", "thread"}
MCWorkers  == {"w1", "w2"}

-----------------------------------------------------------------------------

\* What the loop of reducer_thread makes of an action is what a ReducerChain of
\* the same reducers makes of it, the order of the effects included.
ReducesLikeChain ==
  \A result \in ToSet(current.outcome.reduced) :
    result = ChainReduce(FromVec(Store.reducers), current.before,
                         current.action)

=============================================================================
