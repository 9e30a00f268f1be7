--------------------------- MODULE TokenBudget_proofs ---------------------------
(***************************************************************************)
(* WindowBudget for every set of sessions, cap, TTL and set of costs.  The *)
(* inductive invariant BudgetInv relates an open account to the grants of  *)
(* the past: the account covers everything since Ttl ticks before its last *)
(* charge, so a charge it still admits keeps every window that ends now    *)
(* within the cap.                                                         *)
(***************************************************************************)
EXTENDS TokenBudget, TLAPS

LEMMA InitInv == Init => BudgetInv
BY TokenBudgetAssumption
   DEF Init, BudgetInv, TypeOK, QuietSince, AccountCovers, WindowBudget, Granted

(***************************************************************************)
(* A charge.                                                               *)
(***************************************************************************)

LEMMA ChargeType ==
  ASSUME TypeOK, NEW s \in Session, NEW cost \in Costs \cup Prices, Charge(s, cost)
  PROVE  TypeOK'
<1> USE TokenBudgetAssumption
<1>1. cost \in Nat /\ Fresh \subseteq open /\ Balance(s) \in 0..PerSession /\ now \in 0..MaxTime
  BY DEF TypeOK, Fresh, Balance
<1>2. Balance(s) + (IF Grants(s, cost) THEN cost ELSE 0) \in 0..PerSession
  BY <1>1 DEF Grants
<1>3. open' \subseteq Session /\ tokens' \in [Session -> 0..PerSession]
  BY <1>1, <1>2 DEF Charge, TypeOK
<1>4. ChargedAt(s, cost) \in 0..now
  BY <1>1 DEF ChargedAt, TypeOK, Fresh
<1>5. chargedAt' \in [Session -> 0..MaxTime] /\ \A t \in Session : chargedAt'[t] <= now'
  BY <1>1, <1>4 DEF Charge, TypeOK
<1>6. \A t \in Session \ open' : tokens'[t] = 0 /\ chargedAt'[t] = 0
  BY DEF Charge
<1>7. total' \in [Session -> Nat]
  <2>1. total \in [Session -> Nat] /\ total[s] + cost \in Nat
    BY <1>1 DEF TypeOK
  <2>2. total' = [total EXCEPT ![s] = total[s] + cost] \/ total' = total
    BY DEF Charge
  <2> QED
    BY <2>1, <2>2
<1>8. now' = now /\ before' = before
  BY DEF Charge
<1> QED
  BY <1>1, <1>3, <1>5, <1>6, <1>7, <1>8 DEF TypeOK

\* What a charge does to the account of its own session.
LEMMA ChargeOwn ==
  ASSUME TypeOK, NEW s \in Session, NEW cost \in Costs \cup Prices, Charge(s, cost)
  PROVE  /\ s \in open'
         /\ tokens'[s] = Balance(s) + (total'[s] - total[s])
         /\ total'[s] - total[s] = (IF Grants(s, cost) THEN cost ELSE 0)
         /\ chargedAt'[s] = ChargedAt(s, cost)
         /\ now' = now /\ before' = before
<1>1. cost \in Nat /\ total[s] \in Nat
  BY TokenBudgetAssumption DEF TypeOK
<1>2. total'[s] - total[s] = (IF Grants(s, cost) THEN cost ELSE 0)
  BY <1>1 DEF Charge, TypeOK
<1> QED
  BY <1>2 DEF Charge

\* What it does to the others: their accounts are swept or left alone.
LEMMA ChargeOthers ==
  ASSUME TypeOK, NEW s \in Session, NEW cost \in Costs \cup Prices, Charge(s, cost),
         NEW r \in Session \ {s}
  PROVE  /\ total'[r] = total[r]
         /\ r \in open' => r \in Fresh /\ tokens'[r] = tokens[r] /\ chargedAt'[r] = chargedAt[r]
         /\ r \in open /\ r \notin open' => now - chargedAt[r] > Ttl
<1>1. total'[r] = total[r]
  BY DEF Charge, TypeOK
<1>2. r \in open' => r \in Fresh /\ tokens'[r] = tokens[r] /\ chargedAt'[r] = chargedAt[r]
  BY DEF Charge
<1>3. r \in open /\ r \notin open' => now - chargedAt[r] > Ttl
  BY TokenBudgetAssumption DEF Charge, Fresh, TypeOK
<1> QED
  BY <1>1, <1>2, <1>3

LEMMA ChargeInv ==
  ASSUME BudgetInv, NEW s \in Session, NEW cost \in Costs \cup Prices, Charge(s, cost)
  PROVE  BudgetInv'
<1> USE TokenBudgetAssumption
<1>0. TypeOK /\ TypeOK' /\ now' = now /\ before' = before
  BY ChargeType, ChargeOwn DEF BudgetInv
<1>a. /\ now \in Nat
      /\ \A r \in Session, t \in 0..now : before[r][t] \in Nat
      /\ \A r \in Session : total[r] \in Nat /\ total'[r] \in Nat
      /\ \A r \in Session : tokens[r] \in 0..PerSession /\ tokens'[r] \in 0..PerSession
      /\ \A r \in Session : chargedAt[r] \in 0..now /\ chargedAt'[r] \in 0..now
  <2>1. now \in Nat /\ 0..now \subseteq 0..MaxTime
    BY <1>0 DEF TypeOK
  <2>2. before \in [Session -> [0..MaxTime -> Nat]] /\ total \in [Session -> Nat]
        /\ total' \in [Session -> Nat]
    BY <1>0 DEF TypeOK
  <2>3. \A r \in Session : tokens[r] \in 0..PerSession /\ tokens'[r] \in 0..PerSession
    BY <1>0 DEF TypeOK
  <2>4. \A r \in Session : chargedAt[r] \in 0..now
    BY <1>0, <2>1 DEF TypeOK
  <2>5. \A r \in Session : chargedAt'[r] \in 0..now
    BY <1>0, <2>1 DEF TypeOK
  <2> QED
    BY <2>1, <2>2, <2>3, <2>4, <2>5
<1>1. QuietSince'
  <2> SUFFICES ASSUME NEW r \in Session, NEW t \in 0..now,
                      IF r \in open' THEN t > chargedAt'[r] ELSE now - t <= Ttl
               PROVE  before[r][t] = total'[r]
    BY <1>0 DEF QuietSince
  <2>1. CASE r # s
    <3>1. total'[r] = total[r]
      BY <1>0, <2>1, ChargeOthers
    <3>2. IF r \in open THEN t > chargedAt[r] ELSE now - t <= Ttl
      <4>1. CASE r \in open'
        BY <1>0, <2>1, <4>1, ChargeOthers DEF Fresh
      <4>2. CASE r \notin open' /\ r \in open
        <5>1. now - chargedAt[r] > Ttl /\ now - t <= Ttl
          BY <1>0, <2>1, <4>2, ChargeOthers
        <5> QED
          BY <1>a, <4>2, <5>1
      <4>3. CASE r \notin open' /\ r \notin open
        BY <4>3
      <4> QED
        BY <4>1, <4>2, <4>3
    <3> QED
      BY <3>1, <3>2 DEF BudgetInv, QuietSince
  <2>2. CASE r = s
    <3>1. t > ChargedAt(s, cost)
      BY <1>0, <2>2, ChargeOwn
    <3>2. s \in Fresh /\ ~Grants(s, cost) /\ t > chargedAt[s]
      BY <1>a, <3>1 DEF ChargedAt
    <3>3. total'[s] = total[s] /\ s \in open
      <4>1. total'[s] - total[s] = 0
        BY <1>0, <3>2, ChargeOwn
      <4> QED
        BY <1>a, <3>2, <4>1 DEF Fresh
    <3> QED
      BY <2>2, <3>2, <3>3 DEF BudgetInv, QuietSince
  <2> QED
    BY <2>1, <2>2
<1>2. AccountCovers'
  <2> SUFFICES ASSUME NEW r \in open', NEW t \in 0..now, t + Ttl >= chargedAt'[r]
               PROVE  total'[r] - before[r][t] <= tokens'[r]
    BY <1>0 DEF AccountCovers
  <2>0. r \in Session
    BY <1>0 DEF TypeOK
  <2>1. CASE r # s
    BY <1>0, <2>0, <2>1, ChargeOthers DEF BudgetInv, AccountCovers, Fresh
  <2>2. CASE r = s /\ s \in Fresh
    <3>0. tokens'[s] = tokens[s] + (total'[s] - total[s]) /\ chargedAt'[s] = ChargedAt(s, cost)
      BY <1>0, <2>2, ChargeOwn DEF Balance
    <3>1. t + Ttl >= chargedAt[s] /\ s \in open
      <4>1. ChargedAt(s, cost) >= chargedAt[s] /\ ChargedAt(s, cost) \in Nat
        BY <1>a DEF ChargedAt
      <4> QED
        BY <1>a, <2>2, <3>0, <4>1 DEF Fresh
    <3>2. total[s] - before[s][t] <= tokens[s]
      BY <3>1 DEF BudgetInv, AccountCovers
    <3>3. /\ total[s] \in Nat /\ total'[s] \in Nat /\ tokens[s] \in Nat
          /\ before[s][t] \in Nat
      BY <1>a
    <3> QED
      BY <2>2, <3>0, <3>2, <3>3
  <2>3. CASE r = s /\ s \notin Fresh
    <3>1. t + Ttl >= now /\ tokens'[s] = total'[s] - total[s]
      BY <1>0, <1>a, <2>3, ChargeOwn DEF ChargedAt, Balance
    <3>2. IF s \in open THEN t > chargedAt[s] ELSE now - t <= Ttl
      BY <1>a, <2>3, <3>1 DEF Fresh
    <3>3. before[s][t] = total[s]
      BY <3>2 DEF BudgetInv, QuietSince
    <3> QED
      BY <1>a, <2>3, <3>1, <3>3
  <2> QED
    BY <2>1, <2>2, <2>3
<1>3. WindowBudget'
  <2> SUFFICES ASSUME NEW r \in Session, NEW t \in 0..now, NEW u \in 0..now,
                      t <= u, u - t <= Ttl
               PROVE  Granted(r, t, u)' <= PerSession
    BY <1>0 DEF WindowBudget
  <2>1. Granted(r, t, u) <= PerSession
    BY DEF BudgetInv, WindowBudget
  <2>2. CASE u # now \/ r # s
    <3>1. Granted(r, t, u)' = Granted(r, t, u)
      BY <1>0, <2>2, ChargeOthers DEF Granted
    <3> QED
      BY <2>1, <3>1
  <2>3. CASE u = now /\ r = s /\ Grants(s, cost)
    <3>1. s \in open' /\ chargedAt'[s] = now
      BY <1>0, <2>3, ChargeOwn DEF ChargedAt
    <3>2. total'[s] - before[s][t] <= tokens'[s]
      BY <1>0, <1>a, <1>2, <2>3, <3>1 DEF AccountCovers
    <3>3. Granted(r, t, u)' = total'[s] - before[s][t]
      BY <1>0, <2>3 DEF Granted
    <3>4. tokens'[s] \in 0..PerSession /\ total'[s] \in Nat /\ before[s][t] \in Nat
      BY <1>a
    <3> QED
      BY <3>2, <3>3, <3>4
  <2>4. CASE u = now /\ r = s /\ ~Grants(s, cost)
    <3>1. total'[s] = total[s]
      BY <1>0, <1>a, <2>4, ChargeOwn
    <3> QED
      BY <1>0, <2>1, <2>4, <3>1 DEF Granted
  <2> QED
    BY <2>2, <2>3, <2>4
<1> QED
  BY <1>0, <1>1, <1>2, <1>3 DEF BudgetInv

(***************************************************************************)
(* The passing of time.                                                    *)
(***************************************************************************)

LEMMA TickInv ==
  ASSUME BudgetInv, Tick
  PROVE  BudgetInv'
<1> USE TokenBudgetAssumption
<1>1. TypeOK /\ now \in Nat /\ now + 1 \in 0..MaxTime /\ now' = now + 1
      /\ open' = open /\ tokens' = tokens /\ chargedAt' = chargedAt /\ total' = total
      /\ \A s \in Session : chargedAt[s] <= now /\ total[s] \in Nat /\ chargedAt[s] \in Nat
  BY DEF BudgetInv, TypeOK, Tick
<1>2. ASSUME NEW s \in Session, NEW t \in 0..now'
      PROVE  before'[s][t] = IF t = now' THEN total[s] ELSE before[s][t]
  BY <1>1 DEF Tick, TypeOK
<1>3. TypeOK'
  <2>1. before' \in [Session -> [0..MaxTime -> Nat]]
    BY <1>1 DEF Tick, TypeOK
  <2> QED
    BY <1>1, <2>1 DEF TypeOK
<1>4. QuietSince'
  <2> SUFFICES ASSUME NEW s \in Session, NEW t \in 0..now',
                      IF s \in open THEN t > chargedAt[s] ELSE now' - t <= Ttl
               PROVE  before'[s][t] = total[s]
    BY <1>1 DEF QuietSince
  <2>1. CASE t # now'
    BY <1>1, <1>2, <2>1 DEF BudgetInv, QuietSince
  <2> QED
    BY <1>2, <2>1
<1>5. AccountCovers'
  <2> SUFFICES ASSUME NEW s \in open, NEW t \in 0..now', t + Ttl >= chargedAt[s]
               PROVE  total[s] - before'[s][t] <= tokens[s]
    BY <1>1 DEF AccountCovers
  <2>0. s \in Session /\ tokens[s] \in Nat
    BY <1>1 DEF TypeOK
  <2>1. CASE t # now'
    BY <1>1, <1>2, <2>0, <2>1 DEF BudgetInv, AccountCovers
  <2> QED
    BY <1>1, <1>2, <2>0, <2>1
<1>6. WindowBudget'
  <2> SUFFICES ASSUME NEW s \in Session, NEW t \in 0..now', NEW u \in 0..now',
                      t <= u, u - t <= Ttl
               PROVE  Granted(s, t, u)' <= PerSession
    BY <1>1 DEF WindowBudget
  <2>0. before \in [Session -> [0..MaxTime -> Nat]]
    BY <1>1 DEF TypeOK
  <2>1. CASE t = now'
    BY <1>1, <1>2, <2>1 DEF Granted
  <2>2. CASE t # now' /\ u # now'
    <3>1. t \in 0..now /\ u \in 0..now /\ u + 1 \in 0..now'
      BY <1>1, <2>2
    <3>2. Granted(s, t, u)' = Granted(s, t, u)
      BY <1>1, <1>2, <2>2, <3>1 DEF Granted
    <3> QED
      BY <3>1, <3>2 DEF BudgetInv, WindowBudget
  <2>3. CASE t # now' /\ u = now'
    <3>1. t \in 0..now /\ now \in 0..now /\ t <= now /\ now - t <= Ttl
      BY <1>1, <2>3
    <3>2. Granted(s, t, u)' = Granted(s, t, now)
      BY <1>1, <1>2, <2>3, <3>1 DEF Granted
    <3> QED
      BY <3>1, <3>2 DEF BudgetInv, WindowBudget
  <2> QED
    BY <2>1, <2>2, <2>3
<1> QED
  BY <1>3, <1>4, <1>5, <1>6 DEF BudgetInv

LEMMA InvInductive == BudgetInv /\ [Next]_vars => BudgetInv'
<1> SUFFICES ASSUME BudgetInv, [Next]_vars PROVE BudgetInv'
  OBVIOUS
<1>1. ASSUME NEW s \in Session, NEW cost \in Costs, Submit(s, cost) PROVE BudgetInv'
  BY <1>1, ChargeInv DEF Submit
<1>3. ASSUME NEW s \in Session, NEW price \in Prices, Charge(s, price) PROVE BudgetInv'
  BY <1>3, ChargeInv
<1>2. CASE UNCHANGED vars
  BY <1>2 DEF vars, BudgetInv, TypeOK, QuietSince, AccountCovers, WindowBudget, Granted
<1> QED
  BY <1>1, <1>2, <1>3, TickInv DEF Next

\* The accounts, their clocks and the history stay in their ranges; in particular
\* no account ever holds more than the session cap.
THEOREM TypeCorrect == Spec => []TypeOK
<1>1. BudgetInv => TypeOK
  BY DEF BudgetInv
<1> QED
  BY <1>1, InitInv, InvInductive, PTL DEF Spec

\* No session is granted more than PerSession tokens in any window of Ttl ticks.
THEOREM BudgetHolds == Spec => []WindowBudget
<1>1. BudgetInv => WindowBudget
  BY DEF BudgetInv
<1> QED
  BY <1>1, InitInv, InvInductive, PTL DEF Spec
=============================================================================
