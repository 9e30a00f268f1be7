----------------------------- MODULE SessionStore -----------------------------
(***************************************************************************)
(* The bounded, expiring cache of parsed datasets (session_store.py).      *)
(*                                                                         *)
(* Session ids are minted at random by put and never reused by a caller    *)
(* (main.py always calls put without a session_id), so the n-th minted     *)
(* session is the number n: the order of the ids is the insertion order of *)
(* the Python dict, which decides ties between equal access times.  Every  *)
(* method holds one lock for its whole body, so each is one action.        *)
(***************************************************************************)
EXTENDS Integers, FiniteSets

CONSTANTS
    MaxMinted,      \* bound of the model: how many sessions are ever minted
    MaxTime,        \* bound of the model: the last instant of the clock
    MaxSessions,    \* BLUEHOUND_MAX_SESSIONS
    MaxEvents,      \* BLUEHOUND_MAX_SESSION_EVENTS
    Ttl,            \* BLUEHOUND_SESSION_TTL
    Sizes           \* the numbers of events an upload may hold

ASSUME SessionStoreAssumption ==
    /\ MaxMinted \in Nat
    /\ MaxTime \in Nat
    /\ MaxSessions \in Nat
    /\ MaxEvents \in Nat
    /\ Ttl \in Nat
    /\ Sizes \subseteq Nat

VARIABLES
    now,            \* time.monotonic(), in ticks
    minted,         \* how many session ids were handed out
    live,           \* the keys of _store
    accessed,       \* "accessed" of each record; keeps its value when popped
    size,           \* number of cached events of each record
    hasFindings     \* does the record hold cached findings (not None)?

vars == <<now, minted, live, accessed, size, hasFindings>>

Session == 1..MaxMinted

Never == -1

TypeOK ==
    /\ now \in 0..MaxTime
    /\ minted \in 0..MaxMinted
    /\ live \subseteq 1..minted
    /\ accessed \in [Session -> -1..MaxTime]
    /\ \A s \in Session : IF s <= minted THEN accessed[s] \in 0..now
                                         ELSE accessed[s] = Never
    /\ size \in [Session -> 0..MaxEvents]
    /\ hasFindings \in [Session -> BOOLEAN]

Init ==
    /\ now = 0
    /\ minted = 0
    /\ live = {}
    /\ accessed = [s \in Session |-> Never]
    /\ size = [s \in Session |-> 0]
    /\ hasFindings = [s \in Session |-> FALSE]

(***************************************************************************)
(* Eviction of idle sessions, run first by every method.                   *)
(***************************************************************************)

\* Variant with a planted error: the idle sweep is left out.
NeverExpired == live

\* The records that survive _evict_expired.
Unexpired == {s \in live : now - accessed[s] <= Ttl}

(***************************************************************************)
(* Eviction of the least recently used sessions, run by put.               *)
(***************************************************************************)

\* Variant with a planted error: the most recently used session goes first.
OlderThan(acc, u, t) == acc[u] < acc[t] \/ (acc[u] = acc[t] /\ u > t)

\* min(..., key=accessed) takes t before u: t was accessed earlier, or at the
\* same time and inserted earlier.
NewerThan(acc, u, t) == acc[u] > acc[t] \/ (acc[u] = acc[t] /\ u > t)

\* Variant with a planted error: one session too many is kept.
SurvivorsPlusOne(kept, acc, s) ==
    {t \in kept : t = s \/ Cardinality({u \in kept : NewerThan(acc, u, t)}) <= MaxSessions}

\* The loop pops the oldest session until at most MaxSessions are left, and
\* stops rather than pop the session s that was just inserted.
Survivors(kept, acc, s) ==
    {t \in kept : t = s \/ Cardinality({u \in kept : NewerThan(acc, u, t)}) < MaxSessions}

(***************************************************************************)
(* Operations.                                                             *)
(***************************************************************************)

\* put: cache an upload of n events under a fresh id; an empty list of
\* findings is stored as None.
Put(n, anyFinding) ==
    LET s   == minted + 1
        acc == [accessed EXCEPT ![s] = now]
    IN  /\ minted < MaxMinted
        /\ minted' = s
        /\ accessed' = acc
        /\ size' = [size EXCEPT ![s] = IF n > MaxEvents THEN MaxEvents ELSE n]
        /\ hasFindings' = [hasFindings EXCEPT ![s] = anyFinding]
        /\ live' = Survivors(Unexpired \cup {s}, acc, s)
        /\ UNCHANGED now

\* Variant with a planted error: an unknown id is treated as a record.
AlwaysHit(s) == s \in Session

\* Would a lookup of s answer now?
Hit(s) == s \in Unexpired

\* get, get_findings and exists: answer for a live session and refresh it,
\* None otherwise.  s is any id a client may send.
Get(s) ==
    /\ live' = Unexpired
    /\ accessed' = IF Hit(s) THEN [accessed EXCEPT ![s] = now] ELSE accessed
    /\ UNCHANGED <<now, minted, size, hasFindings>>

\* len(store): sweeps, and refreshes nothing.
Length ==
    /\ live' = Unexpired
    /\ UNCHANGED <<now, minted, accessed, size, hasFindings>>

Tick ==
    /\ now < MaxTime
    /\ now' = now + 1
    /\ UNCHANGED <<minted, live, accessed, size, hasFindings>>

Next ==
    \/ \E n \in Sizes, anyFinding \in BOOLEAN : Put(n, anyFinding)
    \/ \E s \in Session : Get(s)
    \/ Length
    \/ Tick

Spec == Init /\ [][Next]_vars

(***************************************************************************)
(* Properties.                                                             *)
(***************************************************************************)

\* The bound the loop really keeps: with a cap of 0 the session just inserted
\* stays, because the loop never evicts it.
Capacity == IF MaxSessions = 0 THEN 1 ELSE MaxSessions

\* After any sequence of uploads, lookups and pauses the cache holds at most
\* MAX_SESSIONS sessions (session_store.py:8), although put pops only while it
\* inserts and lookups pop only what expired.
AtMostMaxSessions == Cardinality(live) <= Capacity

\* A session that was idle for longer than the TTL (session_store.py:10) is
\* never answered, and never brought back to life, by a later lookup.
IdleStaysGone ==
    [][\A s \in 1..minted :
          accessed'[s] # accessed[s] => s \in live /\ now - accessed[s] <= Ttl]_vars

\* A session is only ever lost to idleness or to Capacity sessions that were
\* created or used no earlier: what put and the sweep pop is never a session
\* its analyst is still entitled to.
Contract == INSTANCE SessionContract WITH known <- live, lastUse <- accessed

KeepsItsPromise == Contract!Spec
=============================================================================
