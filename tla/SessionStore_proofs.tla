-------------------------- MODULE SessionStore_proofs --------------------------
(***************************************************************************)
(* Proofs about SessionStore, for every cap, TTL and length of the run:    *)
(* type correctness, the bound on the number of sessions, the finality of  *)
(* expiry, and that the store implements SessionContract.                  *)
(***************************************************************************)
EXTENDS SessionStore, FiniteSetTheorems, WellFoundedInduction, TLAPS

(***************************************************************************)
(* Facts about the two evictions.                                          *)
(***************************************************************************)

LEMMA SessionFinite == IsFiniteSet(Session)
BY SessionStoreAssumption, FS_Interval DEF Session

\* The sweep only removes sessions.
LEMMA UnexpiredIsLive == Unexpired \subseteq live
BY DEF Unexpired

\* The LRU loop only removes sessions, and never the one just inserted.
LEMMA SurvivorsAreKept ==
  ASSUME NEW kept, NEW acc, NEW s \in kept
  PROVE  Survivors(kept, acc, s) \subseteq kept /\ s \in Survivors(kept, acc, s)
BY DEF Survivors

\* A session popped by the LRU loop leaves at least MaxSessions newer ones behind
\* it in the order of the loop.
LEMMA PoppedIsOld ==
  ASSUME NEW kept, NEW acc, NEW s, IsFiniteSet(kept),
         NEW t \in kept, t \notin Survivors(kept, acc, s)
  PROVE  Cardinality({u \in kept : NewerThan(acc, u, t)}) >= MaxSessions /\ t # s
<1>1. Cardinality({u \in kept : NewerThan(acc, u, t)}) \in Nat
  BY FS_Subset, FS_CardinalityType
<1> QED
  BY <1>1, SessionStoreAssumption DEF Survivors

LEMMA LeastNatural ==
  ASSUME NEW S \in SUBSET Nat, S # {}
  PROVE  \E m \in S : \A n \in S : m <= n
<1>1. PICK m \in S : \A n \in S : ~ (<<n, m>> \in OpToRel(<, Nat))
  BY NatLessThanWellFounded, WFMin
<1>2. ASSUME NEW n \in S PROVE m <= n
  <2>1. m \in Nat /\ n \in Nat
    OBVIOUS
  <2>2. ~ (n < m)
    BY <1>1, <2>1 DEF OpToRel
  <2> QED
    BY <2>1, <2>2
<1> QED
  BY <1>2

\* The order of the LRU loop has a least element in every nonempty set of
\* sessions with access times.
LEMMA OldestExists ==
  ASSUME NEW T \in SUBSET Nat, T # {}, NEW acc, \A t \in T : acc[t] \in Nat
  PROVE  \E m \in T : \A t \in T \ {m} : NewerThan(acc, t, m)
<1> DEFINE Times == {acc[t] : t \in T}
<1>1. PICK a \in Times : \A b \in Times : a <= b
  BY LeastNatural
<1> DEFINE First == {t \in T : acc[t] = a}
<1>2. First \in SUBSET Nat /\ First # {}
  BY <1>1
<1>3. PICK m \in First : \A t \in First : m <= t
  BY <1>2, LeastNatural
<1>4. ASSUME NEW t \in T \ {m} PROVE NewerThan(acc, t, m)
  <2>1. acc[t] \in Times /\ acc[t] \in Nat /\ acc[m] = a /\ m \in T /\ a \in Nat
    BY <1>1, <1>3
  <2>2. a <= acc[t]
    BY <1>1, <2>1
  <2>3. acc[t] = a => m <= t
    BY <1>3
  <2> QED
    BY <2>1, <2>2, <2>3 DEF NewerThan
<1> QED
  BY <1>3, <1>4

\* The loop leaves at most Capacity sessions when the one just inserted is the
\* newest of all: the oldest survivor m has all the others newer than itself,
\* and survived because fewer than MaxSessions are.
LEMMA SurvivorsFit ==
  ASSUME NEW kept \in SUBSET Session, NEW acc, NEW s \in kept,
         \A t \in kept : acc[t] \in Nat,
         \A t \in kept \ {s} : NewerThan(acc, s, t)
  PROVE  Cardinality(Survivors(kept, acc, s)) <= Capacity
<1> DEFINE T == Survivors(kept, acc, s)
<1>0. T \subseteq kept /\ s \in T
  BY SurvivorsAreKept
<1>1. IsFiniteSet(kept) /\ IsFiniteSet(T)
  BY <1>0, SessionFinite, FS_Subset
<1>2. T \in SUBSET Nat /\ \A t \in T : acc[t] \in Nat
  <2>1. Session \subseteq Nat
    BY SessionStoreAssumption DEF Session
  <2> HIDE DEF T
  <2> QED
    BY <1>0, <2>1
<1>3. PICK m \in T : \A t \in T \ {m} : NewerThan(acc, t, m)
  BY <1>0, <1>2, OldestExists
<1>4. CASE m = s
  <2>1. T = {s}
    <3> SUFFICES ASSUME NEW t \in T, t # s PROVE FALSE
      BY <1>0
    <3>1. NewerThan(acc, t, s) /\ NewerThan(acc, s, t)
      BY <1>0, <1>3, <1>4
    <3> QED
      BY <3>1, <1>0, <1>2 DEF NewerThan
  <2>2. Cardinality(T) = 1
    BY <2>1, FS_Singleton
  <2>3. Capacity >= 1 /\ Capacity \in Nat
    BY SessionStoreAssumption DEF Capacity
  <2> QED
    BY <2>2, <2>3
<1>5. CASE m # s
  <2> DEFINE N == {u \in kept : NewerThan(acc, u, m)}
  <2>1. Cardinality(N) < MaxSessions
    BY <1>5, <1>3 DEF Survivors
  <2>2. T \ {m} \in SUBSET N /\ IsFiniteSet(N)
    BY <1>0, <1>1, <1>3, FS_Subset
  <2>3. Cardinality(T \ {m}) <= Cardinality(N)
    BY <2>2, FS_Subset
  <2>4. Cardinality(T \ {m}) = Cardinality(T) - 1
    BY <1>1, <1>3, FS_RemoveElement
  <2>5. Cardinality(T) \in Nat /\ Cardinality(N) \in Nat
    BY <1>1, <2>2, FS_CardinalityType
  <2> QED
    BY <2>1, <2>3, <2>4, <2>5, SessionStoreAssumption DEF Capacity
<1> QED
  BY <1>4, <1>5

(***************************************************************************)
(* Type correctness.                                                       *)
(***************************************************************************)

LEMMA PutType ==
  ASSUME TypeOK, NEW n \in Sizes, NEW anyFinding \in BOOLEAN, Put(n, anyFinding)
  PROVE  TypeOK'
<1> USE SessionStoreAssumption
<1>1. minted' \in 0..MaxMinted /\ now' \in 0..MaxTime /\ minted' = minted + 1
      /\ minted \in Nat /\ minted' \in Session
  BY DEF Put, TypeOK, Session
<1>2. live' \subseteq live \cup {minted'}
  <2> DEFINE s    == minted + 1
             acc  == [accessed EXCEPT ![s] = now]
             kept == Unexpired \cup {s}
  <2>1. live' = Survivors(kept, acc, s) /\ minted' = s
    BY DEF Put
  <2>2. Survivors(kept, acc, s) \subseteq kept
    <3>1. s \in kept
      OBVIOUS
    <3> HIDE DEF kept, acc, s
    <3> QED
      BY <3>1, SurvivorsAreKept
  <2> QED
    BY <2>1, <2>2, UnexpiredIsLive
<1>3. live' \subseteq 1..minted'
  BY <1>1, <1>2 DEF TypeOK
<1>4. accessed' \in [Session -> -1..MaxTime]
  <2>1. accessed' = [accessed EXCEPT ![minted + 1] = now] /\ now \in -1..MaxTime
    BY DEF Put, TypeOK
  <2> QED
    BY <2>1 DEF TypeOK
<1>5. ASSUME NEW s \in Session
      PROVE  IF s <= minted' THEN accessed'[s] \in 0..now' ELSE accessed'[s] = Never
  BY <1>1 DEF Put, TypeOK, Session
<1>6. size' \in [Session -> 0..MaxEvents]
  <2> DEFINE kept == IF n > MaxEvents THEN MaxEvents ELSE n
  <2>1. kept \in 0..MaxEvents
    OBVIOUS
  <2>2. size' = [size EXCEPT ![minted + 1] = kept]
    BY DEF Put
  <2> HIDE DEF kept
  <2> QED
    BY <2>1, <2>2 DEF TypeOK
<1>7. hasFindings' \in [Session -> BOOLEAN]
  BY DEF Put, TypeOK
<1> QED
  BY <1>1, <1>3, <1>4, <1>5, <1>6, <1>7 DEF TypeOK

LEMMA GetType ==
  ASSUME TypeOK, NEW s \in Session, Get(s)
  PROVE  TypeOK'
<1>1. live' \subseteq 1..minted'
  BY UnexpiredIsLive DEF Get, TypeOK
<1>2. CASE s \in Unexpired
  <2>1. s <= minted /\ accessed' = [accessed EXCEPT ![s] = now]
    BY <1>2, UnexpiredIsLive DEF Get, Hit, TypeOK, Session
  <2>2. accessed' \in [Session -> -1..MaxTime]
    BY <2>1, SessionStoreAssumption DEF TypeOK
  <2>3. \A t \in Session : IF t <= minted THEN accessed'[t] \in 0..now
                                           ELSE accessed'[t] = Never
    BY <2>1, SessionStoreAssumption DEF TypeOK
  <2> QED
    BY <1>1, <2>2, <2>3 DEF Get, TypeOK
<1>3. CASE s \notin Unexpired
  BY <1>1, <1>3 DEF Get, Hit, TypeOK
<1> QED
  BY <1>2, <1>3

\* Put, the sweep and lookups keep every variable in its range, and no session
\* was accessed in the future.
THEOREM TypeCorrect == Spec => []TypeOK
<1>1. Init => TypeOK
  BY SessionStoreAssumption DEF Init, TypeOK, Session, Never
<1>2. TypeOK /\ [Next]_vars => TypeOK'
  <2> SUFFICES ASSUME TypeOK, [Next]_vars PROVE TypeOK'
    OBVIOUS
  <2>1. CASE Length
    BY <2>1, UnexpiredIsLive DEF Length, TypeOK
  <2>2. CASE Tick
    BY <2>2, SessionStoreAssumption DEF Tick, TypeOK, Session
  <2>3. CASE UNCHANGED vars
    BY <2>3 DEF vars, TypeOK
  <2> QED
    BY <2>1, <2>2, <2>3, PutType, GetType DEF Next
<1> QED
  BY <1>1, <1>2, PTL DEF Spec

(***************************************************************************)
(* The bound on the number of sessions.                                    *)
(***************************************************************************)

\* Whatever is uploaded and looked up, at most MAX_SESSIONS datasets are held in
\* memory (one, if the cap is set to 0).
THEOREM Bounded == Spec => []AtMostMaxSessions
<1>1. Init => AtMostMaxSessions
  BY FS_EmptySet, SessionStoreAssumption DEF Init, AtMostMaxSessions, Capacity
<1>2. TypeOK /\ AtMostMaxSessions /\ [Next]_vars => AtMostMaxSessions'
  <2> SUFFICES ASSUME TypeOK, AtMostMaxSessions, [Next]_vars PROVE AtMostMaxSessions'
    OBVIOUS
  <2>0. live \in SUBSET Session /\ IsFiniteSet(live)
    <3>1. live \in SUBSET Session
      BY SessionStoreAssumption DEF TypeOK, Session
    <3> QED
      BY <3>1, SessionFinite, FS_Subset
  <2>1. Capacity' = Capacity
    BY DEF Capacity
  <2>2. CASE live' \subseteq live
    <3>1. Cardinality(live') <= Cardinality(live)
          /\ Cardinality(live') \in Nat /\ Cardinality(live) \in Nat
      BY <2>0, <2>2, FS_Subset, FS_CardinalityType
    <3> QED
      BY <2>1, <3>1, SessionStoreAssumption DEF AtMostMaxSessions, Capacity
  <2>3. ASSUME NEW n \in Sizes, NEW anyFinding \in BOOLEAN, Put(n, anyFinding)
        PROVE  AtMostMaxSessions'
    <3> DEFINE s    == minted + 1
               acc  == [accessed EXCEPT ![s] = now]
               kept == Unexpired \cup {s}
    <3>1. s \in Session /\ minted \in Nat /\ live' = Survivors(kept, acc, s)
      BY <2>3, SessionStoreAssumption DEF Put, TypeOK, Session
    <3>2. kept \in SUBSET Session /\ s \in kept
      BY <2>0, <3>1, UnexpiredIsLive
    <3>3. ASSUME NEW t \in kept PROVE acc[t] \in Nat /\ (t # s => NewerThan(acc, s, t))
      <4>0. now \in Nat /\ accessed \in [Session -> -1..MaxTime]
        BY SessionStoreAssumption DEF TypeOK
      <4>1. CASE t = s
        BY <3>1, <4>0, <4>1
      <4>2. CASE t # s
        <5>1. t \in live /\ t \in Session /\ t \in 1..minted
          BY <4>2, UnexpiredIsLive, <2>0 DEF TypeOK
        <5>2. accessed[t] \in 0..now
          BY <3>1, <5>1 DEF TypeOK
        <5>3. acc[t] = accessed[t] /\ acc[s] = now
          BY <3>1, <4>0, <4>2, <5>1
        <5> QED
          BY <3>1, <4>0, <5>1, <5>2, <5>3 DEF NewerThan
      <4> QED
        BY <4>1, <4>2
    <3>4. Cardinality(Survivors(kept, acc, s)) <= Capacity
      <4> HIDE DEF kept, acc, s
      <4> QED
        BY <3>2, <3>3, SurvivorsFit
    <3> QED
      BY <2>1, <3>1, <3>4 DEF AtMostMaxSessions
  <2>4. ASSUME NEW s \in Session, Get(s) PROVE live' \subseteq live
    BY <2>4, UnexpiredIsLive DEF Get
  <2>5. Length \/ Tick \/ UNCHANGED vars => live' \subseteq live
    BY UnexpiredIsLive DEF Length, Tick, vars
  <2> QED
    BY <2>2, <2>3, <2>4, <2>5 DEF Next
<1> QED
  BY <1>1, <1>2, TypeCorrect, PTL DEF Spec

(***************************************************************************)
(* Expiry is final.                                                        *)
(***************************************************************************)

\* No lookup answers from, or revives, a session that sat idle for more than the
\* TTL, because every lookup sweeps before it reads.
THEOREM ExpiryIsFinal == Spec => IdleStaysGone
<1>1. TypeOK /\ [Next]_vars =>
        [\A s \in 1..minted :
            accessed'[s] # accessed[s] => s \in live /\ now - accessed[s] <= Ttl]_vars
  <2> SUFFICES ASSUME TypeOK, Next, NEW s \in 1..minted, accessed'[s] # accessed[s]
               PROVE  s \in live /\ now - accessed[s] <= Ttl
    BY DEF vars
  <2>0. s \in Session /\ minted \in Nat /\ s # minted + 1 /\ accessed \in [Session -> -1..MaxTime]
    BY SessionStoreAssumption DEF TypeOK, Session
  <2>1. ASSUME NEW n \in Sizes, NEW anyFinding \in BOOLEAN, Put(n, anyFinding)
        PROVE  FALSE
    BY <2>0, <2>1 DEF Put
  <2>2. ASSUME NEW t \in Session, Get(t) PROVE s \in Unexpired
    BY <2>0, <2>2 DEF Get, Hit
  <2>3. ASSUME Length \/ Tick PROVE FALSE
    BY <2>3 DEF Length, Tick
  <2> QED
    BY <2>1, <2>2, <2>3 DEF Next, Unexpired
<1> QED
  BY <1>1, TypeCorrect, PTL DEF Spec, IdleStaysGone

(***************************************************************************)
(* Refinement: SessionStore implements SessionContract.                    *)
(***************************************************************************)

\* The sweep forgets only idle sessions.
LEMMA SweptIsForgettable ==
  ASSUME TypeOK, NEW s \in live \ Unexpired, NEW use, use[s] = accessed[s]
  PROVE  Contract!Forgettable(s, use)
BY SessionStoreAssumption DEF Unexpired, Contract!Forgettable, TypeOK, Session

LEMMA PutImplements ==
  ASSUME TypeOK, NEW n \in Sizes, NEW anyFinding \in BOOLEAN, Put(n, anyFinding)
  PROVE  \E s \in Session : Contract!Create(s)
<1> DEFINE s    == minted + 1
           acc  == [accessed EXCEPT ![s] = now]
           kept == Unexpired \cup {s}
<1>1. s \in Session /\ minted \in Nat /\ accessed' = acc /\ live' = Survivors(kept, acc, s)
      /\ now' = now
  BY SessionStoreAssumption DEF Put, TypeOK, Session
<1>2. accessed[s] = Never /\ acc \in [Session -> Int] /\ accessed \in [Session -> Int]
  BY <1>1, SessionStoreAssumption DEF TypeOK, Session
<1>3. s \notin live /\ live \subseteq Session
  BY <1>1, SessionStoreAssumption DEF TypeOK, Session
<1>4. kept \in SUBSET Session /\ s \in kept /\ IsFiniteSet(kept)
  <2>1. kept \in SUBSET Session /\ s \in kept
    BY <1>1, <1>3, UnexpiredIsLive
  <2> QED
    BY <2>1, SessionFinite, FS_Subset
<1>5. live' \subseteq kept /\ s \in live'
  <2> HIDE DEF kept, acc, s
  <2> QED
    BY <1>1, <1>4, SurvivorsAreKept
<1>6. ASSUME NEW t \in (live \cup {s}) \ live' PROVE Contract!Forgettable(t, acc)
  <2>1. t \in live /\ t # s /\ t \in Session /\ acc[t] = accessed[t]
    BY <1>2, <1>3, <1>5
  <2>2. CASE t \notin Unexpired
    BY <2>1, <2>2, SweptIsForgettable
  <2>3. CASE t \in Unexpired
    <3> DEFINE N == {u \in kept : NewerThan(acc, u, t)}
               U == {u \in Session \ {t} : acc[u] >= acc[t]}
    <3>1. Cardinality(N) >= MaxSessions
      <4>1. t \in kept /\ t \notin Survivors(kept, acc, s)
        BY <1>1, <2>3
      <4> HIDE DEF kept, acc, s
      <4> QED
        BY <1>4, <4>1, PoppedIsOld
    <3>2. N \subseteq U
      <4> SUFFICES ASSUME NEW u \in kept, NewerThan(acc, u, t)
                   PROVE  u \in Session /\ u # t /\ acc[u] >= acc[t]
        OBVIOUS
      <4>1. u \in Session /\ acc[u] \in Int /\ acc[t] \in Int /\ t \in Int
        BY <1>2, <1>4, <2>1 DEF Session
      <4> QED
        BY <4>1 DEF NewerThan
    <3>3. s \in U
      <4>1. acc[s] = now /\ accessed[t] \in 0..now /\ now \in Nat
        BY <1>1, <1>2, <2>1, SessionStoreAssumption DEF TypeOK, Session
      <4> QED
        BY <1>1, <2>1, <4>1
    <3>4. IsFiniteSet(U) /\ Cardinality(U) >= Cardinality(N) /\ Cardinality(U) >= 1
      <4>1. IsFiniteSet(U) /\ {s} \in SUBSET U /\ N \in SUBSET U
        BY <3>2, <3>3, SessionFinite, FS_Subset
      <4>2. Cardinality({s}) = 1
        BY FS_Singleton
      <4>3. Cardinality({s}) <= Cardinality(U) /\ Cardinality(N) <= Cardinality(U)
            /\ Cardinality(U) \in Nat /\ IsFiniteSet(N)
        <5> HIDE DEF U, N, s
        <5> QED
          BY <4>1, FS_Subset, FS_CardinalityType
      <4>4. Cardinality(N) \in Nat
        BY <4>3, FS_CardinalityType
      <4> HIDE DEF U, N, s
      <4> QED
        BY <4>1, <4>2, <4>3, <4>4
    <3>5. Cardinality(U) \in Nat /\ Cardinality(N) \in Nat
      <4>1. IsFiniteSet(N)
        BY <1>4, FS_Subset
      <4> HIDE DEF U, N
      <4> QED
        BY <3>4, <4>1, FS_CardinalityType
    <3>6. Cardinality(U) >= Capacity
      <4> HIDE DEF U, N
      <4> QED
        BY <3>1, <3>4, <3>5, SessionStoreAssumption DEF Capacity
    <3>7. Contract!Cardinality(U) = Cardinality(U)
      <4> HIDE DEF U
      <4> QED
        BY DEF Contract!Cardinality, Cardinality
    <3> QED
      BY <3>6, <3>7 DEF Contract!Forgettable
  <2> QED
    BY <2>2, <2>3
<1>7. Contract!KeepAllBut(live \cup {s})
  BY <1>1, <1>5, <1>6, UnexpiredIsLive DEF Contract!KeepAllBut
<1>8. Contract!Create(s)
  BY <1>1, <1>2, <1>5, <1>7 DEF Contract!Create, Contract!Never, Never
<1> QED
  BY <1>1, <1>8

LEMMA SweepImplements ==
  ASSUME TypeOK, live' = Unexpired, now' = now,
         NEW s \in Session, accessed' = accessed \/ (Hit(s) /\ accessed' = [accessed EXCEPT ![s] = now])
  PROVE  Contract!KeepAllBut(live)
<1>1. ASSUME NEW t \in live \ live' PROVE Contract!Forgettable(t, accessed')
  <2>1. t \in live \ Unexpired /\ t \in Session /\ accessed'[t] = accessed[t]
    BY SessionStoreAssumption DEF Hit, TypeOK, Session
  <2> QED
    BY <2>1, SweptIsForgettable
<1> QED
  BY <1>1, UnexpiredIsLive DEF Contract!KeepAllBut

\* Every behaviour of the store is one its callers were promised: uploads create
\* a session, hits use one, and whatever is forgotten on the way was idle for
\* longer than the TTL or had Capacity sessions used no earlier.
THEOREM ImplementsContract == Spec => KeepsItsPromise
<1>1. Init => Contract!Init
  BY DEF Init, Contract!Init, Never, Contract!Never
<1>2. TypeOK /\ [Next]_vars => [Contract!Next]_(Contract!vars)
  <2> SUFFICES ASSUME TypeOK, [Next]_vars PROVE [Contract!Next]_(Contract!vars)
    OBVIOUS
  <2>1. ASSUME NEW n \in Sizes, NEW anyFinding \in BOOLEAN, Put(n, anyFinding)
        PROVE  Contract!Next
    BY <2>1, PutImplements DEF Contract!Next
  <2>2. ASSUME NEW s \in Session, Get(s) PROVE Contract!Next
    <3>1. Contract!KeepAllBut(live)
      BY <2>2, SweepImplements DEF Get
    <3>2. CASE Hit(s)
      <4>1. Contract!Use(s)
        BY <2>2, <3>1, <3>2 DEF Get, Hit, Contract!Use
      <4> QED
        BY <4>1 DEF Contract!Next
    <3>3. CASE ~Hit(s)
      <4>1. Contract!Forget
        BY <2>2, <3>1, <3>3 DEF Get, Contract!Forget
      <4> QED
        BY <4>1 DEF Contract!Next
    <3> QED
      BY <3>2, <3>3
  <2>3. CASE Length
    <3>1. ASSUME NEW t \in live \ live' PROVE Contract!Forgettable(t, accessed')
      BY <2>3, SweptIsForgettable DEF Length
    <3>2. Contract!Forget
      BY <2>3, <3>1, UnexpiredIsLive DEF Length, Contract!Forget, Contract!KeepAllBut
    <3> QED
      BY <3>2 DEF Contract!Next
  <2>4. CASE Tick
    BY <2>4, SessionStoreAssumption DEF Tick, Contract!Next, Contract!Tick, TypeOK
  <2>5. CASE UNCHANGED vars
    BY <2>5 DEF vars, Contract!vars
  <2> QED
    BY <2>1, <2>2, <2>3, <2>4, <2>5 DEF Next
<1> QED
  BY <1>1, <1>2, TypeCorrect, PTL DEF Spec, KeepsItsPromise, Contract!Spec
=============================================================================
