---------------------------- MODULE MCTriageStore ----------------------------
(* A small instance of TriageStore for TLC: two incidents of two findings, one *)
(* place in the store, and two writes that go wrong.                           *)
EXTENDS TriageStore
=============================================================================
