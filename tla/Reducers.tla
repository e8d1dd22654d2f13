------------------------------ MODULE Reducers ------------------------------
(***************************************************************************)
(* What an action goes through: middlewares around a list of reducers      *)
(* (src/reducer.rs, src/middleware.rs, and the closure reducer_middleware  *)
(* of src/store_impl.rs), with the effects they return (src/effect.rs).    *)
(*                                                                         *)
(* The list of reducers is the loop of reducer_thread; ReducerChain, the   *)
(* other implementation of one, is in a module of its own.  Reducers and   *)
(* middlewares are names; what each of them does is given by the           *)
(* constants.  Definitions marked "Faulty" stand in for the one after them *)
(* (see StoreImpl).                                                        *)
(***************************************************************************)
EXTENDS Integers, Sequences, SequencesExt

CONSTANTS
  Apply(_, _, _),  \* Apply(reducer, state, action): a DispatchOp
  Wrap(_, _, _, _) \* Wrap(middleware, state, action, inner): an outcome, inner
                   \* being the outcome of the function it decorates

-----------------------------------------------------------------------------
(* Actions, effects and DispatchOp *)

Act(type, n) == [type |-> type, n |-> n]

NoAction == Act("none", 0)

\* An effect is told by the action its closure comes to dispatch: a task none,
\* a function the one its result is, if it is one.  expects: the closure panics
\* when its dispatch fails.
Effect(kind, action, expects) ==
  [kind |-> kind, action |-> action, expects |-> expects]

ActionEffect(action) == Effect("Action", action, FALSE)
Task                 == Effect("Task", NoAction, FALSE)
Thunk(action)        == Effect("Thunk", action, FALSE)
ExpectingThunk(action) == Effect("Thunk", action, TRUE)
Function(result)     == Effect("Function", result, FALSE)

DispatchOp(op, state, effects) ==
  [op |-> op, state |-> state, effects |-> effects]

Dispatch(state, effects) == DispatchOp("Dispatch", state, effects)
Keep(state, effects)     == DispatchOp("Keep", state, effects)

-----------------------------------------------------------------------------
(* A list of reducers *)

\* e.extend(current_effects): earlier effects go behind.
Behind(result, effects) == [result EXCEPT !.effects = @ \o effects]

\* Faulty ReduceAll: earlier effects go first.
ReduceAllInOrder(reducers, state, action) ==
  FoldLeft(LAMBDA result, r :
             LET next == Apply(r, result.state, action) IN
             [next EXCEPT !.effects = result.effects \o @],
           Apply(Head(reducers), state, action), Tail(reducers))

\* The loop of reducer_thread: each reducer gets the state of the one before;
\* whether to notify is up to the last.
ReduceAll(reducers, state, action) ==
  FoldLeft(LAMBDA result, r :
             Behind(Apply(r, result.state, action), result.effects),
           Apply(Head(reducers), state, action), Tail(reducers))

-----------------------------------------------------------------------------
(* Middlewares *)

\* The outcome of a MiddlewareFn: how it returns, "Ok" with a DispatchOp, "Err"
\* or "Panic"; what the reducers made of the action, if they were called; and
\* who was entered (<<"in", m>>) and left (<<"out", m>>) on the way.
Outcome(returns, result, reduced, trace) ==
  [returns |-> returns, result |-> result, reduced |-> reduced,
   trace |-> trace]

\* The innermost function: the reducers, which always return Ok.
ReducerMiddleware(reducers, state, action) ==
  LET result == ReduceAll(reducers, state, action) IN
  Outcome("Ok", result, <<result>>, <<>>)

\* Faulty Decorated: the middlewares are chained in their order.
DecoratedForwards(middlewares, reducers, state, action) ==
  FoldLeft(LAMBDA inner, m : Wrap(m, state, action, inner),
           ReducerMiddleware(reducers, state, action), middlewares)

\* "chain middlewares in REVERSE order": the first is the outermost.
Decorated(middlewares, reducers, state, action) ==
  FoldRight(LAMBDA m, inner : Wrap(m, state, action, inner),
            middlewares, ReducerMiddleware(reducers, state, action))

\* For Wrap: m calls inner in between ...
Around(m, inner) ==
  [inner EXCEPT !.trace = <<<<"in", m>>>> \o @ \o
                          IF inner.returns = "Panic" THEN <<>>
                          ELSE <<<<"out", m>>>>]

\* ... or returns by itself.
Instead(m, returns, result) ==
  Outcome(returns, result, <<>>,
          <<<<"in", m>>>> \o IF returns = "Panic" THEN <<>>
                             ELSE <<<<"out", m>>>>)

=============================================================================
