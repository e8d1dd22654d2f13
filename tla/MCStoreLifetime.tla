-------------------------- MODULE MCStoreLifetime --------------------------
(***************************************************************************)
(* Two clients and a worker beside the reducer thread, on a channel of one *)
(* place: enough for a sender that waits while another closes, and for a   *)
(* last reference in each kind of thread.                                  *)
(***************************************************************************)
EXTENDS StoreLifetime

CONSTANTS c1, c2, w1

MCClients == {c1, c2}
MCWorkers == {w1}
=============================================================================
