----------------------------- MODULE MCHuntService -----------------------------
(* A small instance of HuntService for TLC: two datasets that compete for one *)
(* place in the cache, two requests in flight and room for one conversation.  *)
EXTENDS HuntService, TLC

\* Which slot a request takes does not matter.
Slots == Permutations(Request)
=============================================================================
