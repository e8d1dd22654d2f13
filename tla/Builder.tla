------------------------------- MODULE Builder -------------------------------
(***************************************************************************)
(* StoreBuilder of src/builder.rs, and StoreImpl::new_with, which makes    *)
(* the store: a builder and a store are records of their arguments.        *)
(***************************************************************************)
EXTENDS Naturals, Sequences

DEFAULT_CAPACITY == 16

\* A policy: how a full queue is scanned, and for which actions the predicate
\* is true.
DropPolicy(kind, any, drops) == [kind |-> kind, any |-> any, drops |-> drops]

BlockOnFull         == DropPolicy("BlockOnFull", FALSE, {})
DropOldestIf(drops) == DropPolicy("DropOldestIf", FALSE, drops)
DropLatestIf(drops) == DropPolicy("DropLatestIf", FALSE, drops)

\* Without a predicate: DropOldestIf(None), DropLatestIf(None).
DropOldest == DropPolicy("DropOldestIf", TRUE, {})
DropLatest == DropPolicy("DropLatestIf", TRUE, {})

InitError(why) == [error |-> why]

NewWith(state, reducers, name, capacity, policy, middlewares) ==
  IF reducers = <<>> THEN InitError("At least one reducer is required")
  ELSE [state |-> state, reducers |-> reducers, name |-> name,
        capacity |-> capacity, policy |-> policy, middlewares |-> middlewares]

\* StoreImpl::new_with_reducer
NewStore(state, reducer) ==
  NewWith(state, <<reducer>>, "store", DEFAULT_CAPACITY, BlockOnFull, <<>>)

Builder(state) ==
  [state |-> state, reducers |-> <<>>, name |-> "store",
   capacity |-> DEFAULT_CAPACITY, policy |-> BlockOnFull,
   middlewares |-> <<>>]

WithName(b, name) == [b EXCEPT !.name = name]

WithReducers(b, reducers) == [b EXCEPT !.reducers = reducers]
WithReducer(b, reducer) == WithReducers(b, <<reducer>>)
AddReducer(b, reducer)  == [b EXCEPT !.reducers = Append(@, reducer)]

BuilderWithReducer(state, reducer) == WithReducer(Builder(state), reducer)

WithCapacity(b, capacity) == [b EXCEPT !.capacity = capacity]
WithPolicy(b, policy) == [b EXCEPT !.policy = policy]

WithMiddlewares(b, middlewares) == [b EXCEPT !.middlewares = middlewares]
WithMiddleware(b, middleware)   == WithMiddlewares(b, <<middleware>>)
AddMiddleware(b, middleware) == [b EXCEPT !.middlewares = Append(@, middleware)]

\* without_reducer is never set.
Build(b) ==
  IF b.reducers = <<>> THEN InitError("reducers are empty")
  ELSE IF b.name = ""  THEN InitError("name is empty")
  ELSE IF b.capacity = 0 THEN InitError("capacity is 0")
  ELSE NewWith(b.state, b.reducers, b.name, b.capacity, b.policy, b.middlewares)

=============================================================================
