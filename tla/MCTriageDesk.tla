----------------------------- MODULE MCTriageDesk -----------------------------
(* A small instance of TriageDesk for TLC: one incident with a critical and a *)
(* minor finding, two requests in flight, and one write that goes wrong.      *)
EXTENDS TriageDesk, TLC

\* Which slot a request takes does not matter.
Slots == Permutations(Slot)
=============================================================================
