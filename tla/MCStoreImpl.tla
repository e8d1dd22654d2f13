---------------------------- MODULE MCStoreImpl -----------------------------
(* Small instances of StoreImpl for TLC: three clients, each with its part,  *)
(* and the other threads of the pool.                                        *)
EXTENDS StoreImpl, TLC

CONSTANTS c1, c2, c3, w1,
          show,    \* reduced to Dispatch, with an effect that dispatches keep
          keep,    \* reduced to Keep, with an effect that dispatches nothing
          fail     \* a middleware returns Err

MCActions == {show, keep, fail}
TwoActions == {show, keep}
MCControls == {AddSubscriber, StateFunction, Exit}
MCClients == {c1, c2, c3}

\* The policy spares show.
MCPredicate == Actions \ {show}

MCOutcome ==
  [a \in Actions |->
    CASE a = show -> "Dispatch" [] a = keep -> "Keep" [] a = fail -> "Err"]
MCEffects ==
  [a \in Actions |->
    CASE a = show -> <<keep>> [] a = keep -> <<NoAction>> [] a = fail -> <<>>]
NoEffects == [a \in Actions |-> <<>>]

\* Subscribers come and go while another client dispatches and a third stops.
SubscribeCalls ==
  (c1 :> {"dispatch"}) @@ (c2 :> {"add", "unsubscribe"})
    @@ (c3 :> {"add", "stop", "close"})

\* Queries, effects and concurrent stops.
StopCalls ==
  (c1 :> {"dispatch", "query"}) @@ (c2 :> {"query", "stop"})
    @@ (c3 :> {"stopTimeout", "stop"})

\* One client dispatches, then another stops the store.
OneStopCalls == (c1 :> {"dispatch"}) @@ (c2 :> {"stop"}) @@ (c3 :> {})

SubscribeBounds == (c1 :> 2) @@ (c2 :> 3) @@ (c3 :> 2)
StopBounds == (c1 :> 2) @@ (c2 :> 1) @@ (c3 :> 1)

=============================================================================
