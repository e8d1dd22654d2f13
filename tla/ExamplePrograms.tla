--------------------------- MODULE ExamplePrograms ---------------------------
(***************************************************************************)
(* The programs of examples/, as records for Pipeline, with the functions  *)
(* they give to the store.  What they print is left out; sleeping is       *)
(* waiting until the store is quiet, and a sleep that only spaces calls    *)
(* out is left out.  performance_state_size.rs, a benchmark, is not here.  *)
(***************************************************************************)
EXTENDS Reducers, Builder

-----------------------------------------------------------------------------
(* Scripts *)

\* The state of every program: a number, and a list of numbers for what a state
\* lists or strings together.
Value(n) == [value |-> n, log |-> <<>>]

Add(n)      == Act("Add", n)
Subtract(n) == Act("Subtract", n)
Plain(n)    == Act("i32", n)   \* an action that is a number

\* Dispatching is "dispatch" through an Arc<dyn Store>, which gets to
\* StoreImpl::dispatch, and "send" through Dispatcher for Arc<StoreImpl>.
Each(call, actions) == [i \in DOMAIN actions |-> <<call, actions[i]>>]

Subscribe(s) == <<"subscribe", s>>
Query(q)     == <<"query", q>>
Sleep        == <<"sleep">>
Stop         == <<"stop">>
Expect(what, of, is) == <<"expect", [what |-> what, of |-> of, is |-> is]>>
State(n)     == Expect("state", "store", Value(n))

NewProgram(store, main, subscribers) ==
  [store |-> store, scripts |-> [main |-> main, thread |-> <<>>],
   subscribers |-> subscribers, durations |-> {0}]

\* A second thread; its script begins by waiting for main to spawn it.
AndThread(prog, script) ==
  [prog EXCEPT !.scripts.thread = script]

Spawned(line) == <<"spawned", "main", line>>
Join          == <<"join", "thread">>

-----------------------------------------------------------------------------
(* Reducers and middlewares *)

CalcReducer(s, a) ==
  Dispatch([s EXCEPT !.value = IF a.type = "Add" THEN @ + a.n ELSE @ - a.n],
           <<>>)

\* AddWillProduceThunk, SubtractWillProduceEffectFunction; the function returns
\* a CalcState, which is not an action.
EffectCalcReducer(s, a) ==
  IF a.type = "Add"
    THEN Dispatch([s EXCEPT !.value = @ + a.n],
                  <<ExpectingThunk(Subtract(a.n))>>)
    ELSE Dispatch([s EXCEPT !.value = @ - a.n], <<Function(NoAction)>>)

\* An entry of the history is told by the count it leads to.
HistoryCalcReducer(s, a) ==
  LET count == CASE a.type = "Add"      -> s.value + a.n
                 [] a.type = "Subtract" -> s.value - a.n
                 [] a.type = "Multiply" -> s.value * a.n
                 [] a.type = "Reset"    -> 0
  IN Dispatch([value |-> count, log |-> Append(s.log, count)], <<>>)

SumReducer(s, a) == Dispatch([s EXCEPT !.value = @ + a.n], <<>>)

\* format!("{} + {}", state, action)
ConcatReducer(s, a) == Dispatch([s EXCEPT !.log = Append(@, a.n)], <<>>)

\* MetricsMiddleware passes everything on.
MetricsMiddleware(m, s, a, inner) == Around(m, inner)

-----------------------------------------------------------------------------
(* Programs *)

CalcBasic ==
  NewProgram(NewStore(Value(0), "calc"),
          <<Subscribe("s1")>> \o Each("send", <<Add(1), Subtract(1)>>)
            \o <<Stop, Expect("errors", "main", 0), State(0)>>,
          {"s1"})

CalcBasicBuilder ==
  NewProgram(Build(WithName(BuilderWithReducer(Value(0), "calc"), "calc")),
          <<Subscribe("s1"), <<"dispatch", Add(1)>>,
            Expect("errors", "main", 0), Sleep,
            Subscribe("s2"), <<"dispatch", Subtract(1)>>, Stop, State(0)>>,
          {"s1", "s2"})

CalcConcurrent ==
  AndThread(
    NewProgram(Build(WithName(BuilderWithReducer(Value(0), "calc"),
                           "store-concurrent")),
            <<Subscribe("s1"), <<"dispatch", Add(1)>>, Join, Stop>>,
            {"s1", "s2"}),
    <<Spawned(2), Sleep, Subscribe("s2"), <<"dispatch", Subtract(1)>>>>)

CalcEffect ==
  NewProgram(Build(WithName(BuilderWithReducer(Value(0), "calc_effect"),
                         "store-effect")),
          <<Subscribe("s1"), <<"dispatch", Add(1)>>, Stop>>, {"s1"})

CalcFnBasic ==
  NewProgram(Build(WithName(BuilderWithReducer(Value(0), "calc"),
                         "store-reduce-fn")),
          <<Subscribe("s1"), <<"dispatch", Add(1)>>, Sleep, Subscribe("s2"),
            <<"dispatch", Subtract(1)>>, Stop>>,
          {"s1", "s2"})

\* What it prints of subscribe_state and last is expected here.
CalcNewSubscriber ==
  NewProgram(Build(WithName(BuilderWithReducer(Value(0), "calc"),
                         "calc-new-subscriber")),
          <<Subscribe("s1")>> \o Each("dispatch", <<Add(5), Add(10)>>)
            \o <<Sleep, Subscribe("s2"), Sleep>>
            \o Each("dispatch", <<Subtract(3), Add(7)>>)
            \o <<Sleep, State(19),
                 Expect("start", "s1", 0), Expect("last", "s1", 19),
                 Expect("start", "s2", 15), Expect("last", "s2", 19), Stop>>,
          {"s1", "s2"})

CalcQueryState ==
  NewProgram(NewStore([value |-> 0, log |-> <<0>>], "calc_history"),
          Each("send", <<Add(10), Act("Multiply", 2), Subtract(5)>>)
            \o <<Sleep, Query("count"), Sleep, Query("history length"), Sleep,
                 Query("history"), Query("is even"), Sleep,
                 Query("last operation"), Sleep>>
            \o Each("send", <<Add(100), Act("Reset", 0)>>)
            \o <<Sleep, Query("final count"), Sleep, Query("final history"),
                 Stop>>,
          {})

CalcThunk ==
  NewProgram(NewWith(Value(0), <<"calc">>, "store-thunk", DEFAULT_CAPACITY,
                  BlockOnFull, <<>>),
          <<Subscribe("s1"), <<"send", Add(1)>>, Expect("errors", "main", 0),
            <<"thunk", ExpectingThunk(Subtract(1))>>, <<"signalled">>, Stop>>,
          {"s1"})

CalcUnsubscribe ==
  AndThread(
    NewProgram(Build(WithName(BuilderWithReducer(Value(0), "calc"),
                           "store-unsubscribe")),
            <<Subscribe("s1"), <<"dispatch", Add(1)>>, Join,
              <<"unsubscribe", "s2">>, <<"dispatch", Add(42)>>, Stop>>,
            {"s1", "s2"}),
    <<Spawned(2), Sleep, Subscribe("s2"), <<"dispatch", Subtract(1)>>>>)

DropOldestIfProgram ==
  NewProgram(Build(WithPolicy(WithCapacity(WithReducer(Builder(Value(0)), "sum"),
                                        2),
                           DropOldestIf({Plain(n) : n \in 1 .. 4}))),
          <<Subscribe("s1")>> \o Each("dispatch", [i \in 1 .. 10 |-> Plain(i)])
            \o <<Stop>>,
          {"s1"})

MiddlewareProgram ==
  NewProgram(Build(WithMiddleware(WithReducer(Builder(Value(0)), "concat"),
                               "metrics")),
          <<<<"dispatch", Plain(1)>>, Expect("errors", "main", 0), Stop>>, {})

Simple ==
  NewProgram(Build(WithReducer(Builder(Value(0)), "sum")),
          <<Subscribe("s1")>> \o Each("dispatch", <<Plain(41), Plain(1)>>)
            \o <<Expect("errors", "main", 0), Stop, State(42)>>,
          {"s1"})

StoreTrait ==
  NewProgram(Build(WithReducer(Builder(Value(0)), "sum")),
          Each("dispatch", <<Plain(41), Plain(1)>>) \o <<Stop, State(42)>>, {})

=============================================================================
