------------------------------ MODULE TokenBudget ------------------------------
(***************************************************************************)
(* The per-session token budget that guards the model-backed endpoints     *)
(* (model_governance.py).  A session's account is opened by its first      *)
(* charge and closed again once it was not charged for longer than Ttl.    *)
(* charge holds one lock for its whole body, so it is one action; its only *)
(* callers are the hunt and hypothesis handlers.                           *)
(***************************************************************************)
EXTENDS Integers

CONSTANTS
    Session,        \* the session ids requests carry
    MaxTime,        \* bound of the model: the last instant of the clock
    PerRequest,     \* BLUEHOUND_MAX_TOKENS_PER_REQUEST
    PerSession,     \* BLUEHOUND_MAX_TOKENS_PER_SESSION
    Ttl,            \* BLUEHOUND_SESSION_BUDGET_TTL
    Costs,          \* the token estimates of the requests that arrive
    Prices          \* flat prices, charged without a look at the request cap

ASSUME TokenBudgetAssumption ==
    /\ MaxTime \in Nat
    /\ PerRequest \in Nat
    /\ PerSession \in Nat
    /\ Ttl \in Nat
    /\ Costs \cup Prices \subseteq Nat \ {0}

VARIABLES
    now,            \* time.monotonic(), in ticks
    open,           \* the keys of _sessions
    tokens,         \* "tokens" of each record, 0 while there is none
    chargedAt,      \* "ts" of each record, 0 while there is none
    total,          \* history: all the tokens ever granted to each session
    before          \* history: what total was when each instant began, else 0

history == <<total, before>>
vars == <<now, open, tokens, chargedAt, total, before>>

TypeOK ==
    /\ now \in 0..MaxTime
    /\ open \subseteq Session
    /\ tokens \in [Session -> 0..PerSession]
    /\ chargedAt \in [Session -> 0..MaxTime]
    /\ \A s \in Session : chargedAt[s] <= now
    /\ \A s \in Session \ open : tokens[s] = 0 /\ chargedAt[s] = 0
    /\ total \in [Session -> Nat]
    /\ before \in [Session -> [0..MaxTime -> Nat]]

Init ==
    /\ now = 0
    /\ open = {}
    /\ tokens = [s \in Session |-> 0]
    /\ chargedAt = [s \in Session |-> 0]
    /\ total = [s \in Session |-> 0]
    /\ before = [s \in Session |-> [t \in 0..MaxTime |-> 0]]

\* The accounts that survive _evict.
Fresh == {s \in open : now - chargedAt[s] <= Ttl}

\* check_request: is a single request small enough?
WithinRequestCap(cost) == cost <= PerRequest

\* setdefault after the eviction: what the account of s holds.
Balance(s) == IF s \in Fresh THEN tokens[s] ELSE 0

\* Variant with a planted error: the charge itself is not counted in.
NotYetExhausted(s, cost) == Balance(s) <= PerSession

\* Does charge grant this request?
Grants(s, cost) == Balance(s) + cost <= PerSession

\* Variant with a planted error: a granted charge does not refresh "ts".
OpenedAt(s, cost) == IF s \in Fresh THEN chargedAt[s] ELSE now

\* "ts" afterwards: only a granted charge, or opening the account, sets it.
ChargedAt(s, cost) == IF s \in Fresh /\ ~Grants(s, cost) THEN chargedAt[s] ELSE now

\* charge: sweep, open the account if need be, and add the cost if it fits.
Charge(s, cost) ==
    LET kept == Fresh \cup {s} IN
    /\ open' = kept
    /\ tokens' = [t \in Session |->
                    IF t = s THEN Balance(s) + (IF Grants(s, cost) THEN cost ELSE 0)
                    ELSE IF t \in kept THEN tokens[t] ELSE 0]
    /\ chargedAt' = [t \in Session |->
                    IF t = s THEN ChargedAt(s, cost)
                    ELSE IF t \in kept THEN chargedAt[t] ELSE 0]
    /\ total' = IF Grants(s, cost) THEN [total EXCEPT ![s] = @ + cost] ELSE total
    /\ UNCHANGED <<now, before>>

\* A handler checks the request cap first, and charges nothing if it is exceeded.
Submit(s, cost) == WithinRequestCap(cost) /\ Charge(s, cost)

Tick ==
    /\ now < MaxTime
    /\ now' = now + 1
    /\ before' = [s \in Session |-> [before[s] EXCEPT ![now + 1] = total[s]]]
    /\ UNCHANGED <<open, tokens, chargedAt, total>>

Next ==
    \/ \E s \in Session, cost \in Costs : Submit(s, cost)
    \/ \E s \in Session, price \in Prices : Charge(s, price)
    \/ Tick

Spec == Init /\ [][Next]_vars

(***************************************************************************)
(* Properties.                                                             *)
(***************************************************************************)

\* What session s was granted from the start of instant t to the end of instant u.
Granted(s, t, u) == (IF u = now THEN total[s] ELSE before[s][u + 1]) - before[s][t]

\* However the charges, refusals and evictions fall, no window of Ttl ticks sees
\* more than PerSession tokens granted to one session: closing an idle account
\* never lets a busy one start over.
WindowBudget ==
    \A s \in Session, t, u \in 0..now :
        t <= u /\ u - t <= Ttl => Granted(s, t, u) <= PerSession

(***************************************************************************)
(* Why WindowBudget holds: the invariant its proof needs.                  *)
(***************************************************************************)

\* Nothing is granted after the last charge of an open account, and nothing of
\* the last Ttl ticks predates a closed one.
QuietSince ==
    \A s \in Session, t \in 0..now :
        (IF s \in open THEN t > chargedAt[s] ELSE now - t <= Ttl) => before[s][t] = total[s]

\* An open account counts at least what was granted since Ttl ticks before its
\* last charge.
AccountCovers ==
    \A s \in open, t \in 0..now :
        t + Ttl >= chargedAt[s] => total[s] - before[s][t] <= tokens[s]

BudgetInv == TypeOK /\ QuietSince /\ AccountCovers /\ WindowBudget
=============================================================================
