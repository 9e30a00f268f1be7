---------------------------- MODULE MCTokenBudget ----------------------------
(* A small instance of TokenBudget for TLC: two sessions, a clock that runs *)
(* through two budget periods, requests, and a price above their cap.       *)
EXTENDS TokenBudget
=============================================================================
