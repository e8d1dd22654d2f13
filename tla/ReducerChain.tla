---------------------------- MODULE ReducerChain ----------------------------
(***************************************************************************)
(* ReducerChain of src/reducer.rs, the second implementation of a list of  *)
(* reducers beside the loop of reducer_thread (ReduceAll of Reducers).     *)
(***************************************************************************)
EXTENDS Reducers

\* A reducer and the chain behind it, if any.
NewChain(reducer) == [reducer |-> reducer, next |-> <<>>]

RECURSIVE Chain(_, _)
Chain(chain, reducer) ==
  [chain EXCEPT !.next = <<IF @ = <<>> THEN NewChain(reducer)
                                       ELSE Chain(Head(@), reducer)>>]

FromVec(reducers) ==
  FoldLeft(Chain, NewChain(Head(reducers)), Tail(reducers))

RECURSIVE ChainReduce(_, _, _)
ChainReduce(chain, state, action) ==
  LET result == Apply(chain.reducer, state, action) IN
  IF chain.next = <<>> THEN result
  ELSE Behind(ChainReduce(Head(chain.next), result.state, action),
              result.effects)

=============================================================================
