---------------------------- MODULE MCSessionStore ----------------------------
(* A small instance of SessionStore for TLC: more sessions than fit, and a  *)
(* clock that runs past the TTL of every session.                           *)
EXTENDS SessionStore
=============================================================================
