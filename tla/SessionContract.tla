--------------------------- MODULE SessionContract ---------------------------
(***************************************************************************)
(* What the session cache promises its callers, whatever its bookkeeping:  *)
(* a session whose id was handed out can be forgotten only when it has     *)
(* been idle for longer than Ttl, or when Capacity other sessions were     *)
(* created or used no earlier than it was.  An analyst who keeps working   *)
(* on one of the Capacity most recent datasets never gets a 410.           *)
(*                                                                         *)
(* SessionStore implements this specification.                             *)
(***************************************************************************)
EXTENDS Integers, FiniteSets

CONSTANTS
    Session,    \* every session id that is ever handed out
    Capacity,   \* how many sessions the cache can hold
    Ttl         \* how long an unused session is kept

VARIABLES
    now,        \* the clock
    known,      \* the sessions a request can still reach
    lastUse     \* when each session was last created or used, Never before that

vars == <<now, known, lastUse>>

Never == -1

Init ==
    /\ now = 0
    /\ known = {}
    /\ lastUse = [s \in Session |-> Never]

(***************************************************************************)
(* May s be forgotten at the current time, given these times of last use?  *)
(***************************************************************************)
Forgettable(s, use) ==
    \/ now - use[s] > Ttl
    \/ Cardinality({u \in Session \ {s} : use[u] >= use[s]}) >= Capacity

(***************************************************************************)
(* Every operation may forget sessions on the side, but only forgettable   *)
(* ones: those of S that are not known afterwards.                         *)
(***************************************************************************)
KeepAllBut(S) ==
    /\ known' \subseteq S
    /\ \A s \in S \ known' : Forgettable(s, lastUse')

Create(s) ==
    /\ lastUse[s] = Never
    /\ lastUse' = [lastUse EXCEPT ![s] = now]
    /\ s \in known'
    /\ KeepAllBut(known \cup {s})
    /\ UNCHANGED now

Use(s) ==
    /\ s \in known'
    /\ lastUse' = [lastUse EXCEPT ![s] = now]
    /\ KeepAllBut(known)
    /\ UNCHANGED now

Forget ==
    /\ UNCHANGED <<now, lastUse>>
    /\ KeepAllBut(known)

Tick ==
    /\ now' \in Nat
    /\ now' > now
    /\ UNCHANGED <<known, lastUse>>

Next ==
    \/ \E s \in Session : Create(s) \/ Use(s)
    \/ Forget
    \/ Tick

Spec == Init /\ [][Next]_vars
=============================================================================
