------------------------- MODULE MCStoreSubscribers -------------------------
(* A small instance of StoreSubscribers for TLC: a client that dispatches    *)
(* and closes, one that subscribes and unsubscribes, a channeled subscriber  *)
(* whose callback may dispatch, and a state iterator.                        *)
EXTENDS StoreSubscribers, TLC

CONSTANTS c1, c2, s1, i1

MCClients == {c1, c2}
MCChanneled == {s1}
MCIterators == {i1}

ClientCalls ==
  (c1 :> {"dispatch", "close"}) @@ (c2 :> {"subscribed", "unsubscribe"})
    @@ (s1 :> {"dispatch"})
ClientBounds == (c1 :> 2) @@ (c2 :> 2) @@ (s1 :> 1)

=============================================================================
