---------------------------- MODULE Analysis_proofs -----------------------------
(***************************************************************************)
(* What is proved about an upload, for any files, playbook and caps: the   *)
(* union-find of triage.py by itself, then the findings of the rule        *)
(* engine, the graph and the pipeline of main.py that composes them; then  *)
(* the tables, the end of the loops and the events of JSON and record      *)
(* files that the parsers of ingest.py give.                               *)
(***************************************************************************)
EXTENDS Analysis, FiniteSetTheorems, NaturalsInduction, WellFoundedInduction, TLAPS

(***************************************************************************)
(* The union-find finds the connected groups of the linked findings.       *)
(***************************************************************************)

\* Pair (i, j) has been visited.
Visited(i, j) == i < j /\ (i < left \/ (i = left /\ j < right))

CorrelationType ==
    /\ Len(group) \in Nat
    /\ parent \in [Member -> Member]
    /\ left \in Nat \ {0} /\ right \in Nat /\ left < right
    /\ PairsLeft => right \in Member /\ a \in Member /\ b \in Member

\* No tree mixes closed sets.
NoStrangers == \A S \in SUBSET Member : Closed(S) => IsTrees(S)

\* find stays in the tree it started in.
CursorsInTheirTrees == PairsLeft => Together(left, a) /\ Together(right, b)

VisitedAreTogether ==
    \A i, j \in Member : Visited(i, j) /\ Linked(group[i], group[j]) => Together(i, j)

\* Every way up ends: a set of findings that it does not leave has a root.
Acyclic ==
    \A S \in SUBSET Member :
        S # {} /\ (\A k \in S : parent[k] \in S) => \E k \in S : parent[k] = k

CorrelationInv ==
    /\ CorrelationType
    /\ Acyclic
    /\ NoStrangers
    /\ CursorsInTheirTrees
    /\ VisitedAreTogether

-----------------------------------------------------------------------------

\* Which of two findings is named first does not matter (_linked).
LEMMA LinkedSymmetric == \A f, g : Linked(f, g) => Linked(g, f)
BY DEF Linked, Near

\* A pair that _linked accepts is in one bucket (correlate_findings).
LEMMA PairLinkedIsLinked == \A i, j : PairLinked(i, j) <=> Linked(group[i], group[j])
BY DEF PairLinked, Linked, Bucket

\* Being in one tree is an equivalence.
LEMMA TogetherEquivalence ==
    /\ \A i : Together(i, i)
    /\ \A i, j : Together(i, j) => Together(j, i)
    /\ \A i, j, k : Together(i, j) /\ Together(j, k) => Together(i, k)
BY DEF Together

\* Turns of find and union only make trees grow: a set of whole trees after the
\* turn was one before.
LEMMA HalvingKeepsTrees ==
    ASSUME CorrelationType, group' = group, NEW x \in Member,
           parent' = [parent EXCEPT ![x] = parent[parent[x]]]
    PROVE  \A S \in SUBSET Member : IsTrees(S)' <=> IsTrees(S)
<1> SUFFICES ASSUME NEW S \in SUBSET Member PROVE IsTrees(S)' <=> IsTrees(S)
  OBVIOUS
<1> DEFINE p == parent[x]
<1>1. Member' = Member /\ p \in Member /\ parent[p] \in Member
  BY DEF CorrelationType, Member
<1>2. parent'[x] = parent[p] /\ \A i \in Member \ {x} : parent'[i] = parent[i]
  BY DEF CorrelationType
<1>3. ASSUME IsTrees(S) PROVE IsTrees(S)'
  BY <1>1, <1>2, <1>3 DEF IsTrees
<1>4. ASSUME IsTrees(S)' PROVE IsTrees(S)
  <2>1. \A i \in Member : i \in S <=> parent'[i] \in S
    BY <1>1, <1>4 DEF IsTrees
  <2>2. CASE p = x
    BY <1>1, <1>2, <2>1, <2>2 DEF IsTrees
  <2>3. CASE p # x
    <3>1. parent'[p] = parent[p]
      BY <1>1, <1>2, <2>3
    <3>2. x \in S <=> p \in S
      BY <1>1, <1>2, <2>1, <3>1
    <3> QED
      BY <1>1, <1>2, <2>1, <3>2 DEF IsTrees
  <2> QED
    BY <2>2, <2>3
<1> QED
  BY <1>3, <1>4

\* union(a, b) puts the trees of both ends together and leaves the others.
LEMMA JoiningKeepsTrees ==
    ASSUME CorrelationType, group' = group, a \in Member, b \in Member, parent[b] = b,
           parent' = [parent EXCEPT ![b] = a]
    PROVE  \A S \in SUBSET Member :
              IsTrees(S)' <=> IsTrees(S) /\ (a \in S <=> b \in S)
<1> SUFFICES ASSUME NEW S \in SUBSET Member
             PROVE  IsTrees(S)' <=> IsTrees(S) /\ (a \in S <=> b \in S)
  OBVIOUS
<1>1. Member' = Member
  BY DEF Member
<1>2. parent'[b] = a /\ \A i \in Member \ {b} : parent'[i] = parent[i]
  BY DEF CorrelationType
<1> QED
  BY <1>1, <1>2 DEF IsTrees

\* Neither turn closes a circle.
LEMMA HalvingEnds ==
    ASSUME CorrelationType, Acyclic, group' = group, NEW x \in Member,
           parent' = [parent EXCEPT ![x] = parent[parent[x]]]
    PROVE  Acyclic'
<1> SUFFICES ASSUME NEW S \in SUBSET Member, S # {}, \A k \in S : parent'[k] \in S
             PROVE  \E k \in S : parent'[k] = k
  BY DEF Acyclic, Member
<1> DEFINE p == parent[x]
           T == IF x \in S THEN S \cup {p} ELSE S
<1>1. p \in Member /\ parent[p] \in Member
  BY DEF CorrelationType
<1>2. parent'[x] = parent[p] /\ \A i \in Member \ {x} : parent'[i] = parent[i]
  BY DEF CorrelationType
<1>3. \A k \in T : parent[k] \in T
  BY <1>1, <1>2
<1>4. PICK k \in T : parent[k] = k
  BY <1>1, <1>3 DEF Acyclic
<1> QED
  BY <1>1, <1>2, <1>4

LEMMA JoiningEnds ==
    ASSUME CorrelationType, Acyclic, group' = group, a \in Member, b \in Member,
           parent[a] = a, parent[b] = b, parent' = [parent EXCEPT ![b] = a]
    PROVE  Acyclic'
<1> SUFFICES ASSUME NEW S \in SUBSET Member, S # {}, \A k \in S : parent'[k] \in S
             PROVE  \E k \in S : parent'[k] = k
  BY DEF Acyclic, Member
<1>1. parent'[b] = a /\ \A i \in Member \ {b} : parent'[i] = parent[i]
  BY DEF CorrelationType
<1>2. CASE b \in S
  BY <1>1, <1>2
<1>3. CASE b \notin S
  BY <1>1, <1>3 DEF Acyclic
<1> QED
  BY <1>2, <1>3

\* Fewer sets of whole trees: what was in one tree still is.
LEMMA TogetherGrows ==
    ASSUME group' = group, \A S \in SUBSET Member : IsTrees(S)' => IsTrees(S)
    PROVE  \A i, j : Together(i, j) => Together(i, j)'
<1>1. Member' = Member
  BY DEF Member
<1> QED
  BY <1>1 DEF Together

\* The next pair of the loops is a pair, and only the present one was visited meanwhile.
LEMMA NextPairVisits ==
    ASSUME CorrelationType, PairsLeft, NextPair, group' = group
    PROVE  /\ left' \in Nat \ {0} /\ right' \in Nat /\ left' < right'
           /\ PairsLeft' => right' \in Member' /\ a' \in Member' /\ b' \in Member'
           /\ a' = left' /\ b' = right'
           /\ \A i, j \in Member : Visited(i, j)' => Visited(i, j) \/ (i = left /\ j = right)
BY DEF CorrelationType, PairsLeft, NextPair, Member, Visited

-----------------------------------------------------------------------------

LEMMA CorrelationInitially == CorrelationInit => CorrelationInv
<1> SUFFICES ASSUME CorrelationInit PROVE CorrelationInv
  OBVIOUS
<1>1. CorrelationType
  BY DEF CorrelationInit, CorrelationType, PairsLeft, Member
<1>2. NoStrangers
  BY DEF CorrelationInit, NoStrangers, IsTrees, Member
<1>3. CursorsInTheirTrees
  BY DEF CorrelationInit, CursorsInTheirTrees, Together
<1>4. VisitedAreTogether
  BY DEF CorrelationInit, VisitedAreTogether, Visited, Member
<1>5. Acyclic
  BY DEF CorrelationInit, Acyclic, Member
<1> QED
  BY <1>1, <1>2, <1>3, <1>4, <1>5 DEF CorrelationInv

LEMMA CorrelationStep ==
    ASSUME CorrelationInv, [Correlate]_corrVars
    PROVE  CorrelationInv'
<1> USE DEF CorrelationInv
<1>1. ASSUME SkipPair PROVE CorrelationInv'
  <2>1. /\ group' = group /\ parent' = parent /\ Member' = Member /\ PairsLeft /\ NextPair
        /\ ~Linked(group[left], group[right])
    BY <1>1, PairLinkedIsLinked DEF SkipPair, Member
  <2>2. CorrelationType'
    BY <2>1, NextPairVisits DEF CorrelationType
  <2>3. NoStrangers'
    BY <2>1 DEF NoStrangers, Closed, IsTrees
  <2>4. \A i, j : Together(i, j) => Together(i, j)'
    BY <2>1 DEF Together, IsTrees
  <2>5. CursorsInTheirTrees'
    BY <2>1, <2>4, NextPairVisits, TogetherEquivalence DEF CursorsInTheirTrees
  <2>6. VisitedAreTogether'
    BY <2>1, <2>4, NextPairVisits DEF VisitedAreTogether
  <2>7. Acyclic'
    BY <2>1 DEF Acyclic
  <2> QED
    BY <2>2, <2>3, <2>5, <2>6, <2>7
<1>2. ASSUME HalveLeft PROVE CorrelationInv'
  <2>1. /\ group' = group /\ Member' = Member /\ UNCHANGED <<left, right, b>>
        /\ PairsLeft /\ PairsLeft' /\ a \in Member
        /\ parent' = [parent EXCEPT ![a] = parent[parent[a]]] /\ a' = parent[parent[a]]
    BY <1>2 DEF HalveLeft, Member, CorrelationType, PairsLeft
  <2>2. parent[a] \in Member /\ a' \in Member
    BY <2>1 DEF CorrelationType
  <2>3. \A S \in SUBSET Member : IsTrees(S)' <=> IsTrees(S)
    BY <2>1, HalvingKeepsTrees
  <2>4. \A i, j : Together(i, j) => Together(i, j)'
    BY <2>1, <2>3, TogetherGrows
  <2>5. CorrelationType'
    BY <2>1, <2>2 DEF CorrelationType
  <2>6. NoStrangers'
    BY <2>1, <2>3 DEF NoStrangers, Closed
  <2>7. Together(a, a')
    BY <2>1, <2>2 DEF Together, IsTrees
  <2>8. Together(left, a')
    BY <2>1, <2>7, TogetherEquivalence DEF CursorsInTheirTrees
  <2>9. \A S \in SUBSET Member' : IsTrees(S)' => (left' \in S <=> a' \in S)
    BY <2>1, <2>3, <2>8 DEF Together
  <2>10. CursorsInTheirTrees'
    BY <2>1, <2>4, <2>9 DEF CursorsInTheirTrees, Together
  <2>11. VisitedAreTogether'
    BY <2>1, <2>4 DEF VisitedAreTogether, Visited
  <2>12. Acyclic'
    BY <2>1, HalvingEnds
  <2> QED
    BY <2>5, <2>6, <2>10, <2>11, <2>12
<1>3. ASSUME HalveRight PROVE CorrelationInv'
  <2>1. /\ group' = group /\ Member' = Member /\ UNCHANGED <<left, right, a>>
        /\ PairsLeft /\ PairsLeft' /\ b \in Member
        /\ parent' = [parent EXCEPT ![b] = parent[parent[b]]] /\ b' = parent[parent[b]]
    BY <1>3 DEF HalveRight, Member, CorrelationType, PairsLeft
  <2>2. parent[b] \in Member /\ b' \in Member
    BY <2>1 DEF CorrelationType
  <2>3. \A S \in SUBSET Member : IsTrees(S)' <=> IsTrees(S)
    BY <2>1, HalvingKeepsTrees
  <2>4. \A i, j : Together(i, j) => Together(i, j)'
    BY <2>1, <2>3, TogetherGrows
  <2>5. CorrelationType'
    BY <2>1, <2>2 DEF CorrelationType
  <2>6. NoStrangers'
    BY <2>1, <2>3 DEF NoStrangers, Closed
  <2>7. Together(b, b')
    BY <2>1, <2>2 DEF Together, IsTrees
  <2>8. Together(right, b')
    BY <2>1, <2>7, TogetherEquivalence DEF CursorsInTheirTrees
  <2>9. \A S \in SUBSET Member' : IsTrees(S)' => (right' \in S <=> b' \in S)
    BY <2>1, <2>3, <2>8 DEF Together
  <2>10. CursorsInTheirTrees'
    BY <2>1, <2>4, <2>9 DEF CursorsInTheirTrees, Together
  <2>11. VisitedAreTogether'
    BY <2>1, <2>4 DEF VisitedAreTogether, Visited
  <2>12. Acyclic'
    BY <2>1, HalvingEnds
  <2> QED
    BY <2>5, <2>6, <2>10, <2>11, <2>12
<1>4. ASSUME Join PROVE CorrelationInv'
  <2>1. /\ group' = group /\ Member' = Member /\ PairsLeft /\ NextPair
        /\ a \in Member /\ b \in Member /\ left \in Member /\ right \in Member
        /\ parent[a] = a /\ parent[b] = b /\ parent' = [parent EXCEPT ![b] = a]
        /\ Linked(group[left], group[right])
    BY <1>4, PairLinkedIsLinked DEF Join, Member, CorrelationType, PairsLeft
  <2>2. \A S \in SUBSET Member : IsTrees(S)' <=> IsTrees(S) /\ (a \in S <=> b \in S)
    BY <2>1, JoiningKeepsTrees
  <2>3. \A i, j : Together(i, j) => Together(i, j)'
    BY <2>1, <2>2, TogetherGrows
  <2>4. CorrelationType'
    BY <2>1, NextPairVisits DEF CorrelationType
  <2>5. NoStrangers'
    <3> SUFFICES ASSUME NEW S \in SUBSET Member, Closed(S) PROVE IsTrees(S)'
      BY <2>1 DEF NoStrangers, Closed
    <3>1. IsTrees(S)
      BY DEF NoStrangers
    <3>2. left \in S <=> right \in S
      BY <2>1, LinkedSymmetric DEF Closed
    <3>3. (left \in S <=> a \in S) /\ (right \in S <=> b \in S)
      BY <2>1, <3>1 DEF CursorsInTheirTrees, Together
    <3> QED
      BY <2>2, <3>1, <3>2, <3>3
  <2>6. CursorsInTheirTrees'
    BY <2>1, <2>3, NextPairVisits, TogetherEquivalence DEF CursorsInTheirTrees
  <2>7. ASSUME NEW i, NEW j, i = left, j = right PROVE Together(i, j)'
    <3>1. Together(i, a) /\ Together(j, b)
      BY <2>1, <2>7 DEF CursorsInTheirTrees
    <3>2. \A S \in SUBSET Member' : IsTrees(S)' => (i \in S <=> j \in S)
      BY <2>1, <2>2, <3>1 DEF Together
    <3> QED
      BY <3>2 DEF Together
  <2>8. VisitedAreTogether'
    BY <2>1, <2>3, <2>7, NextPairVisits DEF VisitedAreTogether
  <2>9. Acyclic'
    BY <2>1, JoiningEnds
  <2> QED
    BY <2>4, <2>5, <2>6, <2>8, <2>9
<1>5. ASSUME UNCHANGED corrVars PROVE CorrelationInv'
  <2>1. CorrelationType'
    BY <1>5 DEF corrVars, CorrelationType, Member, PairsLeft
  <2>2. NoStrangers'
    BY <1>5 DEF corrVars, NoStrangers, Closed, IsTrees, Member
  <2>3. CursorsInTheirTrees' /\ VisitedAreTogether'
    BY <1>5 DEF corrVars, CursorsInTheirTrees, VisitedAreTogether, Visited, Together, IsTrees,
                Member, PairsLeft
  <2>4. Acyclic'
    BY <1>5 DEF corrVars, Acyclic, Member
  <2> QED
    BY <2>1, <2>2, <2>3, <2>4
<1> QED
  BY <1>1, <1>2, <1>3, <1>4, <1>5 DEF Correlate

\* The invariant of the loops over the pairs (triage.py:159-162).
THEOREM CorrelationInvariant == CorrelationSpec => []CorrelationInv
BY CorrelationInitially, CorrelationStep, PTL DEF CorrelationSpec

\* When the loops are through, all linked findings are together.
LEMMA AllVisited ==
    ASSUME CorrelationInv, ~PairsLeft, NEW x \in Member, NEW y \in Member,
           Linked(group[x], group[y])
    PROVE  Together(x, y)
<1>1. x = y \/ x < y \/ y < x
  BY DEF Member, CorrelationInv, CorrelationType
<1>2. x < y => Visited(x, y)
  BY DEF Visited, PairsLeft, Member, CorrelationInv, CorrelationType
<1>3. y < x => Visited(y, x)
  BY DEF Visited, PairsLeft, Member, CorrelationInv, CorrelationType
<1>4. x < y => Together(x, y)
  BY <1>2 DEF CorrelationInv, VisitedAreTogether
<1>5. y < x => Together(y, x)
  BY <1>3, LinkedSymmetric DEF CorrelationInv, VisitedAreTogether
<1> QED
  BY <1>1, <1>4, <1>5, TogetherEquivalence

LEMMA TogetherIsConnected ==
    ASSUME CorrelationInv, ~PairsLeft, NEW i \in Member, NEW j \in Member
    PROVE  Together(i, j) <=> Connected(i, j)
<1>1. Together(i, j) => Connected(i, j)
  BY DEF CorrelationInv, NoStrangers, Together, Connected
<1>2. ASSUME NEW S \in SUBSET Member, IsTrees(S) PROVE Closed(S)
  <2> SUFFICES ASSUME NEW x \in S, NEW y \in Member \ S, Linked(group[x], group[y])
               PROVE  FALSE
    BY DEF Closed
  <2>1. Together(x, y)
    BY AllVisited
  <2> QED
    BY <1>2, <2>1 DEF Together
<1>3. Connected(i, j) => Together(i, j)
  BY <1>2 DEF Together, Connected
<1> QED
  BY <1>1, <1>3

(***************************************************************************)
(* From trees to clusters.                                                 *)
(***************************************************************************)

Roots(i) == {j \in Above(i) : parent[j] = j}

\* The way up from a finding stays in its tree, and ends.
LEMMA RootIsTogether ==
    ASSUME CorrelationInv, NEW i \in Member
    PROVE  Root(i) \in Member /\ Together(i, Root(i))
<1>1. Above(i) \subseteq Member /\ i \in Above(i)
  BY DEF Above
<1>2. \A k \in Above(i) : parent[k] \in Above(i)
  BY DEF Above, CorrelationInv, CorrelationType
<1>3. Roots(i) # {}
  BY <1>1, <1>2 DEF Roots, CorrelationInv, Acyclic
<1>4. Root(i) \in Roots(i)
  BY <1>3 DEF Root, Roots
<1>5. Root(i) \in Above(i)
  BY <1>4 DEF Roots
<1> HIDE DEF Roots
<1>6. ASSUME NEW S \in SUBSET Member, IsTrees(S), i \in S PROVE Root(i) \in S
  <2>1. \A k \in S : parent[k] \in S
    BY <1>6 DEF IsTrees
  <2> QED
    BY <1>5, <1>6, <2>1 DEF Above
<1>7. ASSUME NEW S \in SUBSET Member, IsTrees(S), i \notin S PROVE Root(i) \notin S
  <2>1. IsTrees(Member \ S) /\ i \in Member \ S
    BY <1>7 DEF IsTrees, CorrelationInv, CorrelationType
  <2>2. Root(i) \in Member \ S
    BY <1>6, <2>1
  <2> QED
    BY <2>2
<1>8. Together(i, Root(i))
  BY <1>6, <1>7 DEF Together
<1> QED
  BY <1>1, <1>5, <1>8

\* One turn up does not change where the way ends.
LEMMA RootOfParent ==
    ASSUME CorrelationInv, NEW i \in Member
    PROVE  Root(parent[i]) = Root(i)
<1>1. CASE parent[i] = i
  BY <1>1
<1>2. CASE parent[i] # i
  <2> DEFINE p == parent[i]
  <2>1. p \in Member
    BY DEF CorrelationInv, CorrelationType
  <2>2. ASSUME NEW j \in Above(p) PROVE j \in Above(i)
    BY DEF Above
  <2>3. ASSUME NEW j \in Above(i), j # i PROVE j \in Above(p)
    <3> SUFFICES ASSUME NEW S \in SUBSET Member, p \in S, \A k \in S : parent[k] \in S
                 PROVE  j \in S
      BY DEF Above
    <3>1. i \in S \cup {i} /\ \A k \in S \cup {i} : parent[k] \in S \cup {i}
      OBVIOUS
    <3>2. j \in S \cup {i}
      BY <3>1, S \cup {i} \in SUBSET Member DEF Above
    <3> QED
      BY <2>3, <3>2
  <2>4. Roots(p) = Roots(i)
    BY <1>2, <2>2, <2>3 DEF Roots
  <2> QED
    BY <2>4 DEF Root, Roots
<1> QED
  BY <1>1, <1>2

\* So two findings are in one cluster exactly when they are in one tree.
LEMMA ClustersAreTrees ==
    ASSUME CorrelationInv, NEW i \in Member, NEW j \in Member
    PROVE  j \in ClusterOf(i) <=> Together(i, j)
<1>1. Root(j) = Root(i) => Together(i, j)
  <2>1. Together(i, Root(i)) /\ Together(j, Root(j))
    BY RootIsTogether
  <2> QED
    BY <2>1, TogetherEquivalence
<1>2. Together(i, j) => Root(j) = Root(i)
  <2> DEFINE S == {x \in Member : Root(x) = Root(i)}
  <2>1. \A x \in Member : parent[x] \in Member
    BY DEF CorrelationInv, CorrelationType
  <2>2. IsTrees(S)
    BY <2>1, RootOfParent DEF IsTrees
  <2>3. S \in SUBSET Member /\ i \in S
    OBVIOUS
  <2>4. Together(i, j) => j \in S
    BY <2>2, <2>3 DEF Together
  <2> QED
    BY <2>4
<1> QED
  BY <1>1, <1>2 DEF ClusterOf

LEMMA CorrelationIsRight == CorrelationInv => TreesAreComponents
BY ClustersAreTrees, TogetherIsConnected DEF TreesAreComponents

\* Once every pair was visited, the clusters of correlate_findings are the
\* connected groups of linked findings: they neither mix nor split them.
THEOREM UnionFindIsCorrect == CorrelationSpec => []TreesAreComponents
BY CorrelationIsRight, CorrelationInvariant, PTL

(***************************************************************************)
(* Orders of finite sets.                                                  *)
(***************************************************************************)

\* R orders S strictly and totally.
Orders(R, S) ==
    /\ \A x \in S : <<x, x>> \notin R
    /\ \A x, y, z \in S : <<x, y>> \in R /\ <<y, z>> \in R => <<x, z>> \in R
    /\ \A x, y \in S : x = y \/ <<x, y>> \in R \/ <<y, x>> \in R

Below(R, S, x) == {y \in S : <<y, x>> \in R}

\* As many elements come before one as its place says, and there is one for each place.
LEMMA Places ==
  ASSUME NEW S, IsFiniteSet(S), NEW R, Orders(R, S)
  PROVE  LET rank == [x \in S |-> Cardinality(Below(R, S, x))] IN
         /\ rank \in Bijection(S, 0..(Cardinality(S) - 1))
         /\ Cardinality(S) \in Nat
<1> DEFINE n == Cardinality(S)
           rank == [x \in S |-> Cardinality(Below(R, S, x))]
<1>1. n \in Nat
  BY FS_CardinalityType
<1>2. ASSUME NEW x \in S
      PROVE  /\ IsFiniteSet(Below(R, S, x)) /\ rank[x] \in 0..(n - 1)
  <2>1. Below(R, S, x) \subseteq S \ {x}
    BY DEF Below, Orders
  <2>2. IsFiniteSet(S \ {x}) /\ Cardinality(S \ {x}) = n - 1
    BY FS_RemoveElement
  <2>3. IsFiniteSet(Below(R, S, x)) /\ Cardinality(Below(R, S, x)) <= n - 1
    BY <2>1, <2>2, FS_Subset
  <2>4. Cardinality(Below(R, S, x)) \in Nat
    BY <2>3, FS_CardinalityType
  <2> QED
    BY <1>1, <2>3, <2>4
<1>3. ASSUME NEW x \in S, NEW y \in S, <<x, y>> \in R
      PROVE  rank[x] # rank[y]
  <2>1. Below(R, S, x) \subseteq Below(R, S, y)
    BY <1>3 DEF Below, Orders
  <2>2. x \in Below(R, S, y) /\ x \notin Below(R, S, x)
    BY <1>3 DEF Below, Orders
  <2>3. IsFiniteSet(Below(R, S, y))
    BY <1>2
  <2>4. Cardinality(Below(R, S, x)) # Cardinality(Below(R, S, y))
    BY <2>1, <2>2, <2>3, FS_Subset
  <2> QED
    BY <2>4
<1>4. rank \in [S -> 0..(n - 1)]
  BY <1>2
<1>5. \A x, y \in S : rank[x] = rank[y] => x = y
  BY <1>3 DEF Orders
<1> HIDE DEF rank
<1>6. rank \in Injection(S, 0..(n - 1))
  BY <1>4, <1>5 DEF Injection, IsInjective
<1>7. IsFiniteSet(0..(n - 1)) /\ Cardinality(0..(n - 1)) = n
  <2>1. 0 \in Int /\ n - 1 \in Int
    BY <1>1
  <2>2. IsFiniteSet(0..(n - 1)) /\ Cardinality(0..(n - 1)) = IF 0 > n - 1 THEN 0 ELSE n - 1 - 0 + 1
    BY <2>1, FS_Interval
  <2> QED
    BY <1>1, <2>2
<1>8. rank \in Surjection(S, 0..(n - 1))
  BY <1>6, <1>7, FS_Injection
<1> QED
  BY <1>1, <1>6, <1>8 DEF Bijection, rank

\* A set that has elements has a first one.
LEMMA FirstExists ==
  ASSUME NEW S, IsFiniteSet(S), S # {}, NEW R, Orders(R, S)
  PROVE  \E x \in S : \A y \in S : <<y, x>> \notin R
<1> DEFINE rank == [x \in S |-> Cardinality(Below(R, S, x))]
<1>1. rank \in Bijection(S, 0..(Cardinality(S) - 1)) /\ Cardinality(S) \in Nat
  BY Places
<1>2. Cardinality(S) # 0
  BY FS_EmptySet
<1>3. 0 \in 0..(Cardinality(S) - 1)
  BY <1>1, <1>2
<1>4. PICK x \in S : rank[x] = 0
  BY <1>1, <1>3 DEF Bijection, Surjection
<1>5. Below(R, S, x) \subseteq S /\ Cardinality(Below(R, S, x)) = 0
  BY <1>4 DEF Below
<1>6. IsFiniteSet(Below(R, S, x))
  BY <1>5, FS_Subset
<1>7. Below(R, S, x) = {}
  BY <1>5, <1>6, FS_EmptySet
<1> QED
  BY <1>7 DEF Below

\* The first k elements are k, if there are so many, and come before the others.
LEMMA FirstOnes ==
  ASSUME NEW S, IsFiniteSet(S), NEW R, Orders(R, S), NEW k \in Nat
  PROVE  LET first == {x \in S : Cardinality(Below(R, S, x)) < k} IN
         /\ IsFiniteSet(first) /\ Cardinality(first) <= k
         /\ \A x \in S \ first : /\ Cardinality(first) = k
                                 /\ \A y \in first : <<y, x>> \in R
<1> DEFINE n == Cardinality(S)
           rank == [x \in S |-> Cardinality(Below(R, S, x))]
           first == {x \in S : Cardinality(Below(R, S, x)) < k}
           place == [x \in first |-> rank[x]]
<1>1. rank \in Bijection(S, 0..(n - 1)) /\ n \in Nat
  BY Places
<1>2. \A x \in S : rank[x] = Cardinality(Below(R, S, x))
  OBVIOUS
<1>3. first \subseteq S /\ \A x \in S : x \in first <=> rank[x] < k
  BY <1>2
<1> HIDE DEF rank, first
<1>4. /\ \A x \in S : rank[x] \in 0..(n - 1)
      /\ \A x, y \in S : rank[x] = rank[y] => x = y
      /\ \A i \in 0..(n - 1) : \E x \in S : rank[x] = i
  BY <1>1 DEF Bijection, Injection, IsInjective, Surjection
<1>5. IsFiniteSet(0..(k - 1)) /\ Cardinality(0..(k - 1)) = k
  <2>1. 0 \in Int /\ k - 1 \in Int
    OBVIOUS
  <2>2. IsFiniteSet(0..(k - 1)) /\ Cardinality(0..(k - 1)) = IF 0 > k - 1 THEN 0 ELSE k - 1 - 0 + 1
    BY <2>1, FS_Interval
  <2> QED
    BY <2>2
<1>6. place \in Injection(first, 0..(k - 1))
  <2>1. \A x \in first : place[x] \in 0..(k - 1)
    BY <1>1, <1>3, <1>4
  <2>2. \A x, y \in first : place[x] = place[y] => x = y
    BY <1>3, <1>4
  <2> QED
    BY <2>1, <2>2 DEF Injection, IsInjective
<1>7. IsFiniteSet(first) /\ Cardinality(first) <= k
  <2> HIDE DEF place
  <2> QED
    BY <1>5, <1>6, FS_Injection
<1>8. ASSUME NEW x \in S, x \notin first PROVE Cardinality(first) = k
  <2>1. rank[x] >= k /\ rank[x] <= n - 1 /\ rank[x] \in Nat
    BY <1>1, <1>3, <1>4, <1>8
  <2>2. \A i \in 0..(k - 1) : i \in 0..(n - 1)
    BY <1>1, <2>1
  <2>3. ASSUME NEW i \in 0..(k - 1) PROVE \E y \in first : place[y] = i
    <3>1. PICK y \in S : rank[y] = i
      BY <1>4, <2>2, <2>3
    <3>2. y \in first
      BY <1>3, <3>1
    <3> QED
      BY <3>1, <3>2
  <2>4. place \in Surjection(first, 0..(k - 1))
    BY <1>6, <2>3 DEF Surjection, Injection
  <2> HIDE DEF place
  <2>5. Cardinality(first) = Cardinality(0..(k - 1))
    BY <1>5, <1>6, <2>4, FS_Injection
  <2> QED
    BY <1>5, <2>5
<1>9. ASSUME NEW x \in S, x \notin first, NEW y \in first PROVE <<y, x>> \in R
  <2>1. y \in S /\ rank[y] < k /\ ~(rank[x] < k) /\ rank[y] \in Nat /\ rank[x] \in Nat
    BY <1>1, <1>3, <1>4, <1>9
  <2>2. CASE <<x, y>> \in R
    <3>1. Below(R, S, x) \subseteq Below(R, S, y)
      BY <2>1, <2>2 DEF Below, Orders
    <3>2. Below(R, S, y) \subseteq S
      BY DEF Below
    <3>3. Cardinality(Below(R, S, x)) <= Cardinality(Below(R, S, y))
      BY <3>1, <3>2, FS_Subset
    <3> QED
      BY <1>2, <2>1, <3>3
  <2> QED
    BY <2>1, <2>2 DEF Orders
<1> QED
  BY <1>7, <1>8, <1>9 DEF first

(***************************************************************************)
(* Findings.                                                               *)
(***************************************************************************)

\* A list of events, as far as the rules care.
Dataset(evs) == Len(evs) \in Nat /\ DOMAIN evs = 1..Len(evs)

\* A list of findings: each has a place, and no two the same.
Placed(fs) ==
    /\ \A f \in fs : f.place \in Int \X Int
    /\ \A f, g \in fs : f.place = g.place => f = g

FirstLogin(evs, s) == CHOOSE i \in Logins(evs, s) : \A j \in Logins(evs, s) : i <= j

LEMMA LeastNatural ==
  ASSUME NEW S \in SUBSET Nat, S # {}
  PROVE  \E m \in S : \A n \in S : m <= n
<1>1. PICK m \in S : \A n \in S : ~ (<<n, m>> \in OpToRel(<, Nat))
  BY NatLessThanWellFounded, WFMin
<1>2. ASSUME NEW n \in S PROVE m <= n
  <2>1. m \in Nat /\ n \in Nat
    OBVIOUS
  <2>2. ~ (n < m)
    BY <1>1, <2>1 DEF OpToRel
  <2> QED
    BY <2>1, <2>2
<1> QED
  BY <1>2

LEMMA FirstLoginIs ==
  ASSUME NEW evs, Dataset(evs), NEW s, Logins(evs, s) # {}
  PROVE  FirstLogin(evs, s) \in 1..Len(evs) /\ evs[FirstLogin(evs, s)].src = {s}
<1>1. Logins(evs, s) \in SUBSET Nat
  BY DEF Logins, Dataset
<1>2. FirstLogin(evs, s) \in Logins(evs, s)
  BY <1>1, LeastNatural DEF FirstLogin
<1> QED
  BY <1>2 DEF Logins, Dataset

\* What is reported about the logins from a source.
LEMMA LoginFindingIs ==
  ASSUME NEW evs, NEW s, NEW f \in LoginFindings(evs, s)
  PROVE  /\ Logins(evs, s) # {}
         /\ f.rule \in LoginRule /\ f.src = {s}
         /\ \E n \in 1..3 : f.place = LoginPlace(evs, s, n)
         /\ \A g \in LoginFindings(evs, s) : f.place = g.place => f = g
<1> DEFINE invalid == InvalidFailures(evs, s)
           real == RealFailures(evs, s)
           success == Successes(evs, s)
           f1 == LoginFinding(evs, s, 1, "TH-CORR-001", "critical", Accounts(evs, success), success)
           f2 == LoginFinding(evs, s, 2, "TH-CORR-002", "high", Accounts(evs, real), real)
           f3 == LoginFinding(evs, s, 3, "TH-CORR-003", "medium", {}, invalid)
<1>1. ~ (Cardinality(invalid) < EnumerationSize)
  BY DEF LoginFindings
<1>2. invalid # {}
  <2>1. Cardinality({}) = 0
    BY FS_EmptySet
  <2>2. 0 < EnumerationSize
    BY ThreatRulesAssumption
  <2> QED
    BY <1>1, <2>1, <2>2
<1>3. Logins(evs, s) # {}
  BY <1>2 DEF InvalidFailures
<1>4. LoginFindings(evs, s) \subseteq {f1, f2, f3}
  BY <1>1 DEF LoginFindings
<1>5. /\ f1.rule \in LoginRule /\ f1.src = {s} /\ f1.place = LoginPlace(evs, s, 1)
      /\ f2.rule \in LoginRule /\ f2.src = {s} /\ f2.place = LoginPlace(evs, s, 2)
      /\ f3.rule \in LoginRule /\ f3.src = {s} /\ f3.place = LoginPlace(evs, s, 3)
  BY DEF LoginFinding, LoginRule
<1>6. \A m, n : LoginPlace(evs, s, m) = LoginPlace(evs, s, n) => m = n
  BY DEF LoginPlace
<1>7. f1.place # f2.place /\ f1.place # f3.place /\ f2.place # f3.place
  BY <1>5, <1>6
<1> HIDE DEF f1, f2, f3
<1>8. f \in {f1, f2, f3}
  BY <1>4
<1>9. \E n \in 1..3 : f.place = LoginPlace(evs, s, n)
  BY <1>5, <1>8
<1>10. \A g \in LoginFindings(evs, s) : f.place = g.place => f = g
  BY <1>4, <1>7, <1>8
<1> QED
  BY <1>3, <1>5, <1>8, <1>9, <1>10

LEMMA RuleFindingIs ==
  ASSUME NEW evs, NEW i, NEW f \in FindingsOfEvent(evs, i)
  PROVE  \E k \in Loaded : f = FindingOf(evs[i], Playbook[k], <<i, k>>) /\ Matches(evs[i], Playbook[k])
BY DEF FindingsOfEvent

LEMMA RawFindingsAre ==
  ASSUME NEW evs
  PROVE  RawFindings(evs) = RuleFindings(evs) \cup BruteForce(evs)
BY DEF RawFindings

\* A raw finding is about an event and a rule, or about a source.
LEMMA RawFindingIs ==
  ASSUME NEW evs, NEW f \in RawFindings(evs)
  PROVE  \/ \E i \in DOMAIN evs, k \in Loaded :
               f = FindingOf(evs[i], Playbook[k], <<i, k>>) /\ Matches(evs[i], Playbook[k])
         \/ \E s : f \in LoginFindings(evs, s)
<1>1. CASE f \in RuleFindings(evs)
  <2>1. PICK i \in DOMAIN evs : f \in FindingsOfEvent(evs, i)
    BY <1>1 DEF RuleFindings
  <2> QED
    BY <2>1, RuleFindingIs
<1>2. CASE f \in BruteForce(evs)
  <2>1. PICK s \in UNION {evs[i].src : i \in DOMAIN evs} : f \in LoginFindings(evs, s)
    BY <1>2 DEF BruteForce
  <2> QED
    BY <2>1
<1>3. \/ f \in RuleFindings(evs)
      \/ f \in BruteForce(evs)
  BY RawFindingsAre
<1> QED
  BY <1>1, <1>2, <1>3

LEMMA RulePlaces ==
  ASSUME NEW evs, Dataset(evs), NEW i \in DOMAIN evs, NEW k \in Loaded,
         NEW f, f = FindingOf(evs[i], Playbook[k], <<i, k>>)
  PROVE  /\ f.place = <<i, k>>
         /\ i \in Nat /\ i >= 1 /\ i <= Len(evs) /\ Len(evs) \in Nat
         /\ k \in Nat /\ k >= 1 /\ k <= Len(Playbook)
BY ThreatRulesAssumption DEF FindingOf, Loaded, Dataset

LEMMA LoginPlaces ==
  ASSUME NEW evs, Dataset(evs), NEW s, NEW f \in LoginFindings(evs, s)
  PROVE  \E n \in 1..3 : /\ f.place = <<Len(evs) + FirstLogin(evs, s), n>>
                         /\ FirstLogin(evs, s) \in 1..Len(evs) /\ Len(evs) \in Nat
<1>1. Logins(evs, s) # {} /\ \E n \in 1..3 : f.place = LoginPlace(evs, s, n)
  BY LoginFindingIs
<1> QED
  BY <1>1, FirstLoginIs DEF LoginPlace, FirstLogin, Dataset

\* The places tell the raw findings apart.
LEMMA RawPlaced ==
  ASSUME NEW evs, Dataset(evs)
  PROVE  Placed(RawFindings(evs)) /\ IsFiniteSet(RawFindings(evs))
<1> DEFINE Raw == RawFindings(evs)
           P == (0..(2 * Len(evs))) \X (0..(Len(Playbook) + 3))
           place == [f \in Raw |-> f.place]
<1> Len(evs) \in Nat /\ Len(Playbook) \in Nat
  BY ThreatRulesAssumption DEF Dataset
<1>1. ASSUME NEW f \in Raw PROVE f.place \in P
  <2>1. CASE \E i \in DOMAIN evs, k \in Loaded : f = FindingOf(evs[i], Playbook[k], <<i, k>>)
    <3>1. PICK i \in DOMAIN evs, k \in Loaded : f = FindingOf(evs[i], Playbook[k], <<i, k>>)
      BY <2>1
    <3>2. /\ f.place = <<i, k>>
          /\ i \in Nat /\ i <= Len(evs) /\ k \in Nat /\ k <= Len(Playbook)
      BY <3>1, RulePlaces
    <3>3. i \in 0..(2 * Len(evs)) /\ k \in 0..(Len(Playbook) + 3)
      BY <3>2
    <3> QED
      BY <3>2, <3>3
  <2>2. CASE \E s : f \in LoginFindings(evs, s)
    <3>1. PICK s : f \in LoginFindings(evs, s)
      BY <2>2
    <3>2. PICK n \in 1..3 : /\ f.place = <<Len(evs) + FirstLogin(evs, s), n>>
                            /\ FirstLogin(evs, s) \in 1..Len(evs)
      BY <3>1, LoginPlaces
    <3>3. Len(evs) + FirstLogin(evs, s) \in 0..(2 * Len(evs)) /\ n \in 0..(Len(Playbook) + 3)
      BY <3>2
    <3> QED
      BY <3>2, <3>3
  <2> QED
    BY <2>1, <2>2, RawFindingIs
<1>2. ASSUME NEW f \in Raw, NEW g \in Raw, f.place = g.place PROVE f = g
  <2>1. ASSUME NEW i \in DOMAIN evs, NEW k \in Loaded, f = FindingOf(evs[i], Playbook[k], <<i, k>>),
               NEW j \in DOMAIN evs, NEW l \in Loaded, g = FindingOf(evs[j], Playbook[l], <<j, l>>)
        PROVE  f = g
    <3>1. f.place = <<i, k>> /\ g.place = <<j, l>>
      BY <2>1 DEF FindingOf
    <3>2. <<i, k>> = <<j, l>>
      BY <1>2, <3>1
    <3>3. i = j /\ k = l
      BY <3>2
    <3> QED
      BY <2>1, <3>3
  <2>2. ASSUME NEW i \in Nat, i <= Len(evs), NEW k, NEW s, NEW x, NEW y,
               x.place = <<i, k>>, y \in LoginFindings(evs, s), x.place = y.place
        PROVE  FALSE
    <3>1. PICK n \in 1..3 : /\ y.place = <<Len(evs) + FirstLogin(evs, s), n>>
                            /\ FirstLogin(evs, s) \in 1..Len(evs)
      BY <2>2, LoginPlaces
    <3>2. <<i, k>> = <<Len(evs) + FirstLogin(evs, s), n>>
      BY <2>2, <3>1
    <3>3. i = Len(evs) + FirstLogin(evs, s)
      BY <3>2
    <3> QED
      BY <2>2, <3>1, <3>3
  <2>3. ASSUME NEW s, f \in LoginFindings(evs, s), NEW t, g \in LoginFindings(evs, t)
        PROVE  f = g
    <3>1. PICK m \in 1..3 : /\ f.place = <<Len(evs) + FirstLogin(evs, s), m>>
                            /\ FirstLogin(evs, s) \in 1..Len(evs)
      BY <2>3, LoginPlaces
    <3>2. PICK n \in 1..3 : /\ g.place = <<Len(evs) + FirstLogin(evs, t), n>>
                            /\ FirstLogin(evs, t) \in 1..Len(evs)
      BY <2>3, LoginPlaces
    <3>0. <<Len(evs) + FirstLogin(evs, s), m>> = <<Len(evs) + FirstLogin(evs, t), n>>
      BY <1>2, <3>1, <3>2
    <3>3. Len(evs) + FirstLogin(evs, s) = Len(evs) + FirstLogin(evs, t)
      BY <3>0
    <3>4. FirstLogin(evs, s) = FirstLogin(evs, t)
      BY <3>1, <3>2, <3>3
    <3>5. evs[FirstLogin(evs, s)].src = {s} /\ evs[FirstLogin(evs, t)].src = {t}
      BY <2>3, LoginFindingIs, FirstLoginIs
    <3>6. s = t
      BY <3>4, <3>5
    <3> QED
      BY <1>2, <2>3, <3>6, LoginFindingIs
  <2>4. CASE \E i \in DOMAIN evs, k \in Loaded : f = FindingOf(evs[i], Playbook[k], <<i, k>>)
    <3>1. PICK i \in DOMAIN evs, k \in Loaded : f = FindingOf(evs[i], Playbook[k], <<i, k>>)
      BY <2>4
    <3>2. f.place = <<i, k>> /\ i \in Nat /\ i <= Len(evs)
      BY <3>1, RulePlaces
    <3> QED
      <4>1. CASE \E j \in DOMAIN evs, l \in Loaded : g = FindingOf(evs[j], Playbook[l], <<j, l>>)
        BY <4>1, <2>1, <3>1
      <4>2. CASE \E s : g \in LoginFindings(evs, s)
        BY <4>2, <1>2, <2>2, <3>2
      <4> QED
        BY <4>1, <4>2, RawFindingIs
  <2>5. CASE \E s : f \in LoginFindings(evs, s)
    <3>1. ASSUME NEW j \in DOMAIN evs, NEW l \in Loaded, g = FindingOf(evs[j], Playbook[l], <<j, l>>)
          PROVE  FALSE
      <4>1. g.place = <<j, l>> /\ j \in Nat /\ j <= Len(evs)
        BY <3>1, RulePlaces
      <4>2. PICK s : f \in LoginFindings(evs, s)
        BY <2>5
      <4> QED
        <5>1. g.place = f.place
          BY <1>2
        <5> QED
          BY <2>2, <4>1, <4>2, <5>1
    <3> QED
      <4>1. PICK s : f \in LoginFindings(evs, s)
        BY <2>5
      <4>2. \E t : g \in LoginFindings(evs, t)
        BY <3>1, RawFindingIs
      <4> QED
        BY <2>3, <4>1, <4>2
  <2> QED
    BY <2>4, <2>5, RawFindingIs
<1>3. IsFiniteSet(P)
  <2>1. 0 \in Int /\ 2 * Len(evs) \in Int /\ Len(Playbook) + 3 \in Int
    OBVIOUS
  <2>2. IsFiniteSet(0..(2 * Len(evs))) /\ IsFiniteSet(0..(Len(Playbook) + 3))
    BY <2>1, FS_Interval
  <2> QED
    BY <2>2, FS_Product
<1>4. place \in Injection(Raw, P)
  <2> HIDE DEF P
  <2>1. \A f \in Raw : place[f] = f.place
    OBVIOUS
  <2>2. place \in [Raw -> P]
    BY <1>1
  <2>3. \A f, g \in Raw : place[f] = place[g] => f = g
    BY <1>2, <2>1
  <2> HIDE DEF place
  <2> QED
    BY <2>2, <2>3 DEF Injection, IsInjective
<1>5. IsFiniteSet(Raw)
  <2> HIDE DEF P, place, Raw
  <2> QED
    BY <1>3, <1>4, FS_Injection
<1>6. P \subseteq Int \X Int
  OBVIOUS
<1> HIDE DEF P
<1> QED
  BY <1>1, <1>2, <1>5, <1>6 DEF Placed

(***************************************************************************)
(* Lists of findings.                                                      *)
(***************************************************************************)

\* Pairs of findings, the earlier one first.
Earlier(fs) == {p \in fs \X fs : Precedes(p[1].place, p[2].place)}

LEMMA EarlierIs ==
  ASSUME NEW fs, NEW x \in fs, NEW y \in fs
  PROVE  <<x, y>> \in Earlier(fs) <=> Precedes(x.place, y.place)
BY DEF Earlier

\* The places order the findings.
LEMMA PlacesOrder ==
  ASSUME NEW fs, Placed(fs)
  PROVE  Orders(Earlier(fs), fs)
<1>1. \A x \in fs : /\ x.place = <<x.place[1], x.place[2]>>
                   /\ x.place[1] \in Int /\ x.place[2] \in Int
  BY DEF Placed
<1>2. ASSUME NEW x \in fs PROVE <<x, x>> \notin Earlier(fs)
  BY <1>1, EarlierIs DEF Precedes
<1>3. ASSUME NEW x \in fs, NEW y \in fs, NEW z \in fs,
             <<x, y>> \in Earlier(fs), <<y, z>> \in Earlier(fs)
      PROVE  <<x, z>> \in Earlier(fs)
  <2>1. Precedes(x.place, y.place) /\ Precedes(y.place, z.place)
    BY <1>3, EarlierIs
  <2>2. Precedes(x.place, z.place)
    BY <1>1, <2>1 DEF Precedes
  <2> QED
    BY <2>2, EarlierIs
<1>4. ASSUME NEW x \in fs, NEW y \in fs, x # y
      PROVE  <<x, y>> \in Earlier(fs) \/ <<y, x>> \in Earlier(fs)
  <2>1. x.place # y.place
    BY <1>4 DEF Placed
  <2>2. Precedes(x.place, y.place) \/ Precedes(y.place, x.place)
    BY <1>1, <2>1 DEF Precedes
  <2> QED
    BY <2>2, EarlierIs
<1> QED
  BY <1>2, <1>3, <1>4 DEF Orders

\* What Dedupe drops, a finding with the same key stands for; and only one.
LEMMA DedupeKeeps ==
  ASSUME NEW fs, Placed(fs), IsFiniteSet(fs)
  PROVE  /\ Dedupe(fs) \subseteq fs /\ IsFiniteSet(Dedupe(fs)) /\ Placed(Dedupe(fs))
         /\ \A f \in fs : \E g \in Dedupe(fs) : ThreatKey(g) = ThreatKey(f)
         /\ \A f, g \in Dedupe(fs) : ThreatKey(f) = ThreatKey(g) => f = g
<1>1. Dedupe(fs) \subseteq fs
  BY DEF Dedupe
<1>2. IsFiniteSet(Dedupe(fs)) /\ Placed(Dedupe(fs))
  BY <1>1, FS_Subset DEF Placed
<1>3. ASSUME NEW f \in fs
      PROVE  \E g \in Dedupe(fs) : ThreatKey(g) = ThreatKey(f)
  <2> DEFINE same == {h \in fs : ThreatKey(h) = ThreatKey(f)}
  <2>1. f \in same /\ same \subseteq fs
    OBVIOUS
  <2>2. IsFiniteSet(same) /\ Orders(Earlier(fs), same)
    <3>1. Orders(Earlier(fs), fs)
      BY PlacesOrder
    <3> QED
      BY <2>1, <3>1, FS_Subset DEF Orders
  <2>3. PICK g \in same : \A y \in same : <<y, g>> \notin Earlier(fs)
    BY <2>1, <2>2, FirstExists
  <2>4. \A h \in fs : Precedes(h.place, g.place) => ThreatKey(h) # ThreatKey(g)
    BY <2>3, EarlierIs
  <2> QED
    BY <2>3, <2>4 DEF Dedupe
<1>4. ASSUME NEW f \in Dedupe(fs), NEW g \in Dedupe(fs), ThreatKey(f) = ThreatKey(g)
      PROVE  f = g
  <2>1. ~Precedes(f.place, g.place) /\ ~Precedes(g.place, f.place)
    BY <1>4 DEF Dedupe
  <2>2. <<f, g>> \notin Earlier(fs) /\ <<g, f>> \notin Earlier(fs)
    BY <1>1, <2>1, EarlierIs
  <2> QED
    BY <1>1, <2>2, PlacesOrder DEF Orders
<1> QED
  BY <1>1, <1>2, <1>3, <1>4

\* InOrder lists every finding once.
LEMMA InOrderLists ==
  ASSUME NEW fs, Placed(fs), IsFiniteSet(fs)
  PROVE  LET list == InOrder(fs) IN
         /\ Len(list) = Cardinality(fs) /\ Len(list) \in Nat
         /\ \A n \in 1..Len(list) : list[n] \in fs
         /\ \A f \in fs : \E n \in 1..Len(list) : list[n] = f
         /\ \A m, n \in 1..Len(list) : list[m] = list[n] => m = n
<1> DEFINE R == Earlier(fs)
           c == Cardinality(fs)
           list == InOrder(fs)
           rank == [x \in fs |-> Cardinality(Below(R, fs, x))]
<1>1. rank \in Bijection(fs, 0..(c - 1)) /\ c \in Nat
  BY PlacesOrder, Places
<1>2. \A x \in fs : rank[x] = Cardinality({g \in fs : Precedes(g.place, x.place)})
  <2> SUFFICES ASSUME NEW x \in fs
               PROVE  Below(R, fs, x) = {g \in fs : Precedes(g.place, x.place)}
    OBVIOUS
  <2> QED
    BY EarlierIs DEF Below
<1> HIDE DEF rank
<1>3. /\ \A x \in fs : rank[x] \in 0..(c - 1)
      /\ \A x, y \in fs : rank[x] = rank[y] => x = y
      /\ \A i \in 0..(c - 1) : \E x \in fs : rank[x] = i
  BY <1>1 DEF Bijection, Injection, IsInjective, Surjection
<1>4. ASSUME NEW n \in 1..c PROVE list[n] \in fs /\ rank[list[n]] = n - 1
  <2>1. n - 1 \in 0..(c - 1)
    BY <1>1
  <2>2. PICK x \in fs : rank[x] = n - 1
    BY <1>3, <2>1
  <2>3. list[n] = CHOOSE f \in fs : Cardinality({g \in fs : Precedes(g.place, f.place)}) = n - 1
    BY DEF InOrder
  <2> QED
    BY <1>2, <2>2, <2>3
<1>5. Len(list) = c
  BY <1>1 DEF InOrder
<1> HIDE DEF list
<1>6. \A m, n \in 1..c : list[m] = list[n] => m = n
  <2> SUFFICES ASSUME NEW m \in 1..c, NEW n \in 1..c, list[m] = list[n] PROVE m = n
    OBVIOUS
  <2>1. m - 1 = n - 1
    BY <1>4
  <2> QED
    BY <1>1, <2>1
<1>7. ASSUME NEW f \in fs PROVE \E n \in 1..c : list[n] = f
  <2>1. rank[f] \in 0..(c - 1)
    BY <1>3
  <2>2. rank[f] + 1 \in 1..c /\ (rank[f] + 1) - 1 = rank[f]
    BY <1>1, <2>1
  <2>3. PICK n \in 1..c : n - 1 = rank[f]
    BY <2>2
  <2>4. list[n] \in fs /\ rank[list[n]] = rank[f]
    BY <1>4, <2>3
  <2>5. list[n] = f
    BY <1>3, <2>4
  <2> QED
    BY <2>5
<1> QED
  BY <1>1, <1>4, <1>5, <1>6, <1>7 DEF list

\* A finding about a match, or one that stands for it, is of that rule.
LEMMA FindingsOfOneRule ==
  ASSUME NEW evs, NEW f \in RawFindings(evs), NEW k \in Loaded, f.rule = Playbook[k].id
  PROVE  f.severity = Playbook[k].severity
<1>1. ASSUME NEW i \in DOMAIN evs, NEW l \in Loaded, f = FindingOf(evs[i], Playbook[l], <<i, l>>)
      PROVE  f.severity = Playbook[k].severity
  <2>1. f.rule = Playbook[l].id /\ f.severity = Playbook[l].severity
    BY <1>1 DEF FindingOf
  <2>2. l = k
    BY <2>1, ThreatRulesAssumption DEF Loaded
  <2> QED
    BY <2>1, <2>2
<1>2. ASSUME NEW s, f \in LoginFindings(evs, s) PROVE FALSE
  BY <1>2, LoginFindingIs, ThreatRulesAssumption DEF Loaded
<1> QED
  BY <1>1, <1>2, RawFindingIs

\* The finding about a source that guessed names and then logged in is critical.
LEMMA LoginFindingIsCritical ==
  ASSUME NEW evs, NEW f \in RawFindings(evs), f.rule = "TH-CORR-001"
  PROVE  f.severity = "critical"
<1>1. ASSUME NEW i \in DOMAIN evs, NEW l \in Loaded, f = FindingOf(evs[i], Playbook[l], <<i, l>>)
      PROVE  FALSE
  BY <1>1, ThreatRulesAssumption DEF FindingOf, Loaded, LoginRule
<1>2. ASSUME NEW s, f \in LoginFindings(evs, s) PROVE f.severity = "critical"
  BY <1>2 DEF LoginFindings, LoginFinding
<1> QED
  BY <1>1, <1>2, RawFindingIs

LEMMA CompromiseIsFound ==
  ASSUME NEW evs, NEW i \in DOMAIN evs, NEW s \in evs[i].src,
         ~ (Cardinality(InvalidFailures(evs, s)) < EnumerationSize), Successes(evs, s) # {}
  PROVE  \E f \in RawFindings(evs) : /\ f.rule = "TH-CORR-001" /\ f.src = {s}
                                    /\ f.user = Accounts(evs, Successes(evs, s))
<1> DEFINE success == Successes(evs, s)
           f == LoginFinding(evs, s, 1, "TH-CORR-001", "critical", Accounts(evs, success), success)
<1>1. f \in LoginFindings(evs, s)
  BY DEF LoginFindings
<1>2. f.rule = "TH-CORR-001" /\ f.src = {s} /\ f.user = Accounts(evs, success)
  BY DEF LoginFinding
<1> HIDE DEF f
<1>3. f \in BruteForce(evs)
  BY <1>1 DEF BruteForce
<1>4. f \in RawFindings(evs)
  BY <1>3, RawFindingsAre
<1> QED
  BY <1>2, <1>4

(***************************************************************************)
(* The loop of build_graph.                                                *)
(***************************************************************************)

Known == {"benign", "low", "medium", "high", "critical"}

Drawable(ns) == \E S : ns \in Seq([id : S, severity : Known])

OneEach(ns) == \A i, j \in 1..Len(ns) : ns[i].id = ns[j].id => i = j

\* There is a node for id, at least that severe.
HasNode(ns, id, rank) == \E i \in 1..Len(ns) : ns[i].id = id /\ NodeRank(ns[i].severity) >= rank

\* Every node of ns is still there, and no less severe.
Grown(ns, ms) ==
    /\ Len(ns) <= Len(ms)
    /\ \A i \in 1..Len(ns) : ms[i].id = ns[i].id /\ NodeRank(ms[i].severity) >= NodeRank(ns[i].severity)

AtMostOne(S) == \A x, y \in S : x = y

LEMMA ListIs ==
  ASSUME NEW T, NEW s \in Seq(T)
  PROVE  Len(s) \in Nat /\ DOMAIN s = 1..Len(s) /\ \A i \in 1..Len(s) : s[i] \in T
OBVIOUS

LEMMA ListWidens ==
  ASSUME NEW T, NEW U, T \subseteq U, NEW s \in Seq(T)
  PROVE  s \in Seq(U)
OBVIOUS

LEMMA ListAppends ==
  ASSUME NEW T, NEW s \in Seq(T), NEW x \in T
  PROVE  LET t == Append(s, x) IN
         /\ t \in Seq(T) /\ Len(t) = Len(s) + 1 /\ t[Len(s) + 1] = x
         /\ \A i \in 1..Len(s) : t[i] = s[i]
OBVIOUS

LEMMA NodeRanks ==
  /\ \A s : NodeRank(s) \in 0..4
  /\ \A s : NodeRank(s) > 0 => s \in Known
  /\ \A s : NodeRank(s) = Rank(s)
BY DEF NodeRank, Known, Rank, SeverityRank

LEMMA DrawableNodes ==
  ASSUME NEW ns, Drawable(ns)
  PROVE  /\ Len(ns) \in Nat /\ DOMAIN ns = 1..Len(ns)
         /\ \A i \in 1..Len(ns) : /\ ns[i] = [id |-> ns[i].id, severity |-> ns[i].severity]
                                  /\ ns[i].severity \in Known
         /\ \A id : id \in Ids(ns) <=> \E i \in 1..Len(ns) : ns[i].id = id
<1>1. PICK S : ns \in Seq([id : S, severity : Known])
  BY DEF Drawable
<1>2. Len(ns) \in Nat /\ DOMAIN ns = 1..Len(ns) /\ \A i \in 1..Len(ns) : ns[i] \in [id : S, severity : Known]
  BY <1>1, ListIs
<1> QED
  BY <1>2 DEF Ids

LEMMA GrownTrans ==
  ASSUME NEW ns, NEW ms, NEW os, Drawable(ns), Drawable(ms), Drawable(os), Grown(ns, ms), Grown(ms, os)
  PROVE  Grown(ns, os)
<1>1. Len(ns) \in Nat /\ Len(ms) \in Nat /\ Len(os) \in Nat
  BY DrawableNodes
<1> QED
  BY <1>1, NodeRanks DEF Grown

LEMMA GrownKeepsNodes ==
  ASSUME NEW ns, NEW ms, Drawable(ns), Drawable(ms), Grown(ns, ms),
         NEW id, NEW rank \in Int, HasNode(ns, id, rank)
  PROVE  HasNode(ms, id, rank)
<1>1. Len(ns) \in Nat /\ Len(ms) \in Nat
  BY DrawableNodes
<1>2. PICK i \in 1..Len(ns) : ns[i].id = id /\ NodeRank(ns[i].severity) >= rank
  BY DEF HasNode
<1>3. i \in 1..Len(ms) /\ ms[i].id = id /\ NodeRank(ms[i].severity) >= NodeRank(ns[i].severity)
  BY <1>1, <1>2 DEF Grown
<1>4. NodeRank(ms[i].severity) >= rank
  BY <1>2, <1>3, NodeRanks
<1> QED
  BY <1>3, <1>4 DEF HasNode

\* ensure_node adds what is missing.
LEMMA EnsureAdds ==
  ASSUME NEW ns, Drawable(ns), OneEach(ns), NEW ids, AtMostOne(ids), NEW sev \in Known
  PROVE  LET ms == Ensure(ns, ids, sev) IN
         Drawable(ms) /\ OneEach(ms) /\ Ids(ms) = Ids(ns) \cup ids /\ Grown(ns, ms)
<1> DEFINE ms == Ensure(ns, ids, sev)
<1>1. CASE ids \subseteq Ids(ns)
  <2>1. ms = ns
    BY <1>1 DEF Ensure
  <2> QED
    BY <1>1, <2>1, NodeRanks, DrawableNodes DEF Grown
<1>2. CASE ~(ids \subseteq Ids(ns))
  <2>1. PICK id \in ids : id \notin Ids(ns)
    BY <1>2
  <2>2. ids = {id}
    BY <2>1 DEF AtMostOne
  <2> DEFINE new == [id |-> id, severity |-> sev]
  <2>3. ms = Append(ns, new)
    BY <1>2, <2>2 DEF Ensure
  <2>4. PICK S : ns \in Seq([id : S, severity : Known])
    BY DEF Drawable
  <2> DEFINE T == [id : S \cup {id}, severity : Known]
  <2>5. ns \in Seq(T) /\ new \in T
    <3>1. [id : S, severity : Known] \subseteq T /\ new \in T
      OBVIOUS
    <3> QED
      BY <2>4, <3>1, ListWidens
  <2> HIDE DEF T, new
  <2>6. ms \in Seq(T)
    BY <2>3, <2>5, ListAppends
  <2>7. Drawable(ms)
    BY <2>6 DEF Drawable, T
  <2>8. /\ Len(ns) \in Nat /\ Len(ms) = Len(ns) + 1 /\ ms[Len(ns) + 1] = new
        /\ \A i \in 1..Len(ns) : ms[i] = ns[i]
    BY <2>3, <2>5, ListIs, ListAppends
  <2>9. new.id = id /\ new.severity = sev
    BY DEF new
  <2> HIDE DEF ms
  <2>10. \A i \in 1..Len(ns) : ns[i].id # id
    BY <2>1, DrawableNodes
  <2>11. \A i \in 1..Len(ms) : i \in 1..Len(ns) \/ i = Len(ns) + 1
    BY <2>8
  <2>12. OneEach(ms)
    BY <2>8, <2>9, <2>10, <2>11 DEF OneEach
  <2>13. \A x : x \in Ids(ms) <=> x \in Ids(ns) \/ x = id
    <3>1. \A x : x \in Ids(ms) <=> \E i \in 1..Len(ms) : ms[i].id = x
      BY <2>7, DrawableNodes
    <3>2. \A x : x \in Ids(ns) <=> \E i \in 1..Len(ns) : ns[i].id = x
      BY DrawableNodes
    <3>3. Len(ns) + 1 \in 1..Len(ms) /\ \A i \in 1..Len(ns) : i \in 1..Len(ms)
      BY <2>8
    <3> QED
      BY <2>8, <2>9, <2>11, <3>1, <3>2, <3>3
  <2>14. Ids(ms) = Ids(ns) \cup ids
    BY <2>2, <2>13
  <2>15. Grown(ns, ms)
    BY <2>8, NodeRanks DEF Grown
  <2> QED
    BY <2>7, <2>12, <2>14, <2>15 DEF ms
<1> QED
  BY <1>1, <1>2

LEMMA RaiseRaises ==
  ASSUME NEW ns, Drawable(ns), OneEach(ns), NEW id \in Ids(ns), NEW sev \in Known
  PROVE  LET ms == Raise(ns, id, sev) IN
         /\ Drawable(ms) /\ OneEach(ms) /\ Ids(ms) = Ids(ns) /\ Grown(ns, ms)
         /\ HasNode(ms, id, NodeRank(sev))
<1> DEFINE ms == Raise(ns, id, sev)
<1>1. PICK S : ns \in Seq([id : S, severity : Known])
  BY DEF Drawable
<1> DEFINE T == [id : S, severity : Known]
<1>2. Len(ns) \in Nat /\ DOMAIN ns = 1..Len(ns) /\ \A i \in 1..Len(ns) : ns[i] \in T
  BY <1>1, ListIs
<1>3. ASSUME NEW i \in 1..Len(ns)
      PROVE  /\ ms[i] \in T /\ ms[i].id = ns[i].id
             /\ NodeRank(ms[i].severity) >= NodeRank(ns[i].severity)
             /\ ns[i].id = id => NodeRank(ms[i].severity) >= NodeRank(sev)
  <2> DEFINE worse == ns[i].id = id /\ NodeRank(sev) > NodeRank(ns[i].severity)
  <2>1. ms[i] = IF worse THEN [ns[i] EXCEPT !.severity = sev] ELSE ns[i]
    BY <1>2 DEF Raise
  <2>2. ns[i] \in T
    BY <1>2
  <2>3. CASE worse
    <3>1. /\ ms[i] \in T /\ ms[i].id = ns[i].id /\ ms[i].severity = sev
      BY <2>1, <2>2, <2>3
    <3> QED
      BY <2>3, <3>1, NodeRanks
  <2>4. CASE ~worse
    <3>1. ms[i] = ns[i]
      BY <2>1, <2>4
    <3> QED
      BY <2>2, <2>4, <3>1, NodeRanks
  <2> QED
    BY <2>3, <2>4
<1>4. ms = [i \in 1..Len(ns) |-> ms[i]]
  BY <1>2 DEF Raise
<1> HIDE DEF ms
<1>5. ms \in Seq(T) /\ Len(ms) = Len(ns)
  BY <1>2, <1>3, <1>4
<1>6. Drawable(ms)
  BY <1>5 DEF Drawable
<1> HIDE DEF T
<1>7. OneEach(ms) /\ Grown(ns, ms)
  BY <1>2, <1>3, <1>5 DEF OneEach, Grown
<1>8. Ids(ms) = Ids(ns)
  <2>1. \A x : x \in Ids(ms) <=> \E i \in 1..Len(ms) : ms[i].id = x
    BY <1>6, DrawableNodes
  <2>2. \A x : x \in Ids(ns) <=> \E i \in 1..Len(ns) : ns[i].id = x
    BY DrawableNodes
  <2>3. \A x : x \in Ids(ms) <=> x \in Ids(ns)
    BY <1>3, <1>5, <2>1, <2>2
  <2> QED
    BY <2>3
<1>9. HasNode(ms, id, NodeRank(sev))
  BY <1>3, <1>5, DrawableNodes DEF HasNode
<1> QED
  BY <1>6, <1>7, <1>8, <1>9 DEF ms

LEMMA ParentsAtMostOne ==
  ASSUME NEW ev, AtMostOne(ev.parent), AtMostOne(ev.dst)
  PROVE  AtMostOne(Parents(ev)) /\ AtMostOne(Peers(ev))
<1>1. AtMostOne(Parents(ev))
  BY DEF AtMostOne, Parents
<1>2. AtMostOne(Peers(ev))
  BY DEF AtMostOne, Peers
<1> QED
  BY <1>1, <1>2

\* The worst finding about a process is one of a severity that the page knows.
LEMMA WorstIsWorst ==
  ASSUME NEW fs, NEW g
  PROVE  /\ WorstFinding(fs, g) \in Known
         /\ \A f \in fs : f.guid = g => NodeRank(f.severity) <= NodeRank(WorstFinding(fs, g))
<1> DEFINE about == {f.severity : f \in {h \in fs : h.guid = g}}
           S == {"benign"} \cup {s \in about : NodeRank(s) > 0}
<1>1. S \subseteq Known /\ "benign" \in S
  BY NodeRanks DEF Known
<1>2. /\ NodeRank("benign") = 0 /\ NodeRank("low") = 1 /\ NodeRank("medium") = 2
      /\ NodeRank("high") = 3 /\ NodeRank("critical") = 4
  BY DEF NodeRank
<1>3. WorstFinding(fs, g) = CHOOSE s \in S : \A t \in S : NodeRank(t) <= NodeRank(s)
  BY DEF WorstFinding
<1>4. \A f \in fs : f.guid = g => f.severity \in about
  OBVIOUS
<1>5. \A f \in fs : f.guid = g => f.severity \in S \/ NodeRank(f.severity) = 0
  BY <1>4, NodeRanks
<1> HIDE DEF S, about
<1>6. \E s \in S : \A t \in S : NodeRank(t) <= NodeRank(s)
  BY <1>1, <1>2 DEF Known
<1>7. WorstFinding(fs, g) \in S /\ \A t \in S : NodeRank(t) <= NodeRank(WorstFinding(fs, g))
  BY <1>3, <1>6
<1> QED
  BY <1>1, <1>5, <1>7, NodeRanks

\* One turn of the loop, for the nodes.
LEMMA NodesAfterOneEvent ==
  ASSUME NEW ns, Drawable(ns), OneEach(ns), NEW ev, AtMostOne(ev.parent), AtMostOne(ev.dst),
         NEW sev \in Known
  PROVE  LET ms == NodesAfter(ns, ev, sev) IN
         /\ Drawable(ms) /\ OneEach(ms) /\ Grown(ns, ms)
         /\ Ids(ms) = Ids(ns) \cup {Process(ev.guid)} \cup Parents(ev) \cup Peers(ev)
         /\ HasNode(ms, Process(ev.guid), NodeRank(sev))
<1> DEFINE id == Process(ev.guid)
           n1 == Ensure(ns, {id}, sev)
           n2 == Raise(n1, id, sev)
           n3 == Ensure(n2, Parents(ev), "benign")
           n4 == Ensure(n3, Peers(ev), "benign")
<1>0. AtMostOne({id}) /\ "benign" \in Known
  BY DEF AtMostOne, Known
<1>1. NodesAfter(ns, ev, sev) = n4
  BY DEF NodesAfter
<1>2. Drawable(n1) /\ OneEach(n1) /\ Ids(n1) = Ids(ns) \cup {id} /\ Grown(ns, n1)
  BY <1>0, EnsureAdds
<1> HIDE DEF n1
<1>3. id \in Ids(n1)
  BY <1>2
<1>4. Drawable(n2) /\ OneEach(n2) /\ Ids(n2) = Ids(n1) /\ Grown(n1, n2) /\ HasNode(n2, id, NodeRank(sev))
  BY <1>2, <1>3, RaiseRaises
<1> HIDE DEF n2
<1>5. Drawable(n3) /\ OneEach(n3) /\ Ids(n3) = Ids(n2) \cup Parents(ev) /\ Grown(n2, n3)
  BY <1>0, <1>4, ParentsAtMostOne, EnsureAdds
<1> HIDE DEF n3
<1>6. Drawable(n4) /\ OneEach(n4) /\ Ids(n4) = Ids(n3) \cup Peers(ev) /\ Grown(n3, n4)
  BY <1>0, <1>5, ParentsAtMostOne, EnsureAdds
<1> HIDE DEF n4
<1>7. Grown(n2, n4) /\ Grown(ns, n4)
  BY <1>2, <1>4, <1>5, <1>6, GrownTrans
<1>8. NodeRank(sev) \in Int
  BY NodeRanks
<1>9. HasNode(n4, id, NodeRank(sev))
  BY <1>4, <1>6, <1>7, <1>8, GrownKeepsNodes
<1>10. Ids(n4) = Ids(ns) \cup {id} \cup Parents(ev) \cup Peers(ev)
  BY <1>2, <1>4, <1>5, <1>6
<1> QED
  BY <1>1, <1>6, <1>7, <1>9, <1>10

\* And for the edges.
EdgeSet(es) == {es[k] : k \in DOMAIN es}

LEMMA LinkAdds ==
  ASSUME NEW T, NEW es \in Seq(T), NEW links, AtMostOne(links), links \subseteq T
  PROVE  LET fs == Link(es, links) IN
         /\ fs \in Seq(T) /\ EdgeSet(fs) = EdgeSet(es) \cup links
<1> DEFINE fs == Link(es, links)
<1>1. CASE links \subseteq EdgeSet(es)
  <2>1. fs = es
    BY <1>1 DEF Link, EdgeSet
  <2> QED
    BY <1>1, <2>1
<1>2. CASE ~(links \subseteq EdgeSet(es))
  <2>1. PICK e \in links : e \notin EdgeSet(es)
    BY <1>2
  <2>2. links = {e} /\ e \in T
    BY <2>1 DEF AtMostOne
  <2>3. fs = Append(es, e)
    BY <1>2, <2>2 DEF Link, EdgeSet
  <2> HIDE DEF fs
  <2>4. /\ fs \in Seq(T) /\ Len(fs) = Len(es) + 1 /\ fs[Len(es) + 1] = e
        /\ \A i \in 1..Len(es) : fs[i] = es[i]
    BY <2>2, <2>3, ListAppends
  <2>5. Len(es) \in Nat /\ DOMAIN es = 1..Len(es) /\ DOMAIN fs = 1..Len(fs)
    BY <2>4, ListIs
  <2>6. \A i \in 1..Len(fs) : i \in 1..Len(es) \/ i = Len(es) + 1
    BY <2>4, <2>5
  <2>7. Len(es) + 1 \in 1..Len(fs) /\ \A i \in 1..Len(es) : i \in 1..Len(fs)
    BY <2>4, <2>5
  <2>8. \A x : x \in EdgeSet(fs) <=> \E i \in 1..Len(fs) : fs[i] = x
    BY <2>5 DEF EdgeSet
  <2>9. \A x : x \in EdgeSet(es) <=> \E i \in 1..Len(es) : es[i] = x
    BY <2>5 DEF EdgeSet
  <2>10. \A x : x \in EdgeSet(fs) <=> x \in EdgeSet(es) \/ x = e
    BY <2>4, <2>6, <2>7, <2>8, <2>9
  <2>11. EdgeSet(fs) = EdgeSet(es) \cup links
    BY <2>2, <2>10
  <2> QED
    BY <2>4, <2>11 DEF fs
<1> QED
  BY <1>1, <1>2

LEMMA EdgesAfterOneEvent ==
  ASSUME NEW T, NEW es \in Seq(T), NEW ev, AtMostOne(ev.parent), AtMostOne(ev.dst),
         Parents(ev) \X {Process(ev.guid)} \subseteq T, {Process(ev.guid)} \X Peers(ev) \subseteq T
  PROVE  /\ EdgesAfter(es, ev) \in Seq(T)
         /\ EdgeSet(EdgesAfter(es, ev)) = EdgeSet(es) \cup Parents(ev) \X {Process(ev.guid)}
                                                      \cup {Process(ev.guid)} \X Peers(ev)
<1> DEFINE up == Parents(ev) \X {Process(ev.guid)}
           across == {Process(ev.guid)} \X Peers(ev)
           e1 == Link(es, up)
<1>1. AtMostOne(up) /\ AtMostOne(across)
  BY ParentsAtMostOne DEF AtMostOne
<1>2. up \subseteq T /\ across \subseteq T
  OBVIOUS
<1>3. EdgesAfter(es, ev) = Link(e1, across)
  BY DEF EdgesAfter
<1> HIDE DEF up, across
<1>5. e1 \in Seq(T) /\ EdgeSet(e1) = EdgeSet(es) \cup up
  BY <1>1, <1>2, LinkAdds
<1> HIDE DEF e1
<1>6. Link(e1, across) \in Seq(T) /\ EdgeSet(Link(e1, across)) = EdgeSet(e1) \cup across
  BY <1>1, <1>2, <1>5, LinkAdds
<1> QED
  BY <1>3, <1>5, <1>6 DEF up, across

(***************************************************************************)
(* The invariant of the loop.                                              *)
(***************************************************************************)

\* The process of an event is there, as severe as its findings, with its links.
Drawn(ev, fs, ns, es) ==
    /\ HasNode(ns, Process(ev.guid), NodeRank(WorstFinding(fs, ev.guid)))
    /\ Parents(ev) \X {Process(ev.guid)} \subseteq EdgeSet(es)
    /\ {Process(ev.guid)} \X Peers(ev) \subseteq EdgeSet(es)

EventsAreWellFormed ==
    /\ Dataset(events)
    /\ \A i \in 1..Len(events) : AtMostOne(events[i].parent) /\ AtMostOne(events[i].dst)

DrawingInv ==
    /\ Drawable(nodes) /\ OneEach(nodes)
    /\ edges \in Seq(Ids(nodes) \X Ids(nodes))
    /\ cursor \in 0..Len(events)
    /\ \A i \in 1..cursor : Drawn(events[i], findings, nodes, edges)

\* What an event has drawn stays.
LEMMA StaysDrawn ==
  ASSUME NEW ev, NEW fs, NEW ns, NEW es, Drawn(ev, fs, ns, es),
         NEW ms, NEW ds, Drawable(ns), Drawable(ms), Grown(ns, ms), EdgeSet(es) \subseteq EdgeSet(ds)
  PROVE  Drawn(ev, fs, ms, ds)
<1>1. NodeRank(WorstFinding(fs, ev.guid)) \in Int
  BY NodeRanks
<1>2. HasNode(ms, Process(ev.guid), NodeRank(WorstFinding(fs, ev.guid)))
  BY <1>1, GrownKeepsNodes DEF Drawn
<1> QED
  BY <1>2 DEF Drawn

LEMMA DrawingStarts ==
  ASSUME EventsAreWellFormed, StartGraph, events' = events
  PROVE  DrawingInv'
<1>1. cursor' = 0 /\ nodes' = <<>> /\ edges' = <<>>
  BY DEF StartGraph
<1>2. Drawable(nodes') /\ OneEach(nodes')
  <2>1. nodes' \in Seq([id : {}, severity : Known])
    BY <1>1
  <2>2. Len(nodes') = 0
    BY <1>1
  <2> QED
    BY <2>1, <2>2 DEF Drawable, OneEach
<1>3. edges' \in Seq(Ids(nodes') \X Ids(nodes'))
  BY <1>1
<1>4. cursor' \in 0..Len(events')
  BY <1>1 DEF EventsAreWellFormed, Dataset
<1>5. \A i \in 1..cursor' : Drawn(events'[i], findings', nodes', edges')
  BY <1>1
<1> QED
  BY <1>2, <1>3, <1>4, <1>5 DEF DrawingInv

LEMMA DrawingGoesOn ==
  ASSUME EventsAreWellFormed, DrawingInv, AddEvent(events, findings), UNCHANGED <<events, findings>>
  PROVE  DrawingInv'
<1> DEFINE ev == events[cursor + 1]
           sev == WorstFinding(findings, ev.guid)
<1>1. /\ cursor \in Nat /\ cursor < Len(events) /\ cursor' = cursor + 1 /\ Len(events) \in Nat
      /\ nodes' = NodesAfter(nodes, ev, sev) /\ edges' = EdgesAfter(edges, ev)
  BY DEF AddEvent, MoreEvents, DrawingInv, EventsAreWellFormed, Dataset
<1>2. cursor + 1 \in 1..Len(events)
  BY <1>1
<1>3. AtMostOne(ev.parent) /\ AtMostOne(ev.dst) /\ sev \in Known
  BY <1>2, WorstIsWorst DEF EventsAreWellFormed
<1>4. Drawable(nodes) /\ OneEach(nodes) /\ edges \in Seq(Ids(nodes) \X Ids(nodes))
  BY DEF DrawingInv
<1> HIDE DEF ev, sev
<1>5. /\ Drawable(nodes') /\ OneEach(nodes') /\ Grown(nodes, nodes')
      /\ Ids(nodes') = Ids(nodes) \cup {Process(ev.guid)} \cup Parents(ev) \cup Peers(ev)
      /\ HasNode(nodes', Process(ev.guid), NodeRank(sev))
  BY <1>1, <1>3, <1>4, NodesAfterOneEvent
<1> DEFINE T == Ids(nodes') \X Ids(nodes')
<1>6. /\ edges \in Seq(T)
      /\ Parents(ev) \X {Process(ev.guid)} \subseteq T /\ {Process(ev.guid)} \X Peers(ev) \subseteq T
  <2>1. Ids(nodes) \X Ids(nodes) \subseteq T
    BY <1>5
  <2>2. edges \in Seq(T)
    BY <1>4, <2>1, ListWidens
  <2> QED
    BY <1>5, <2>2
<1> HIDE DEF T
<1>7. /\ edges' \in Seq(T)
      /\ EdgeSet(edges') = EdgeSet(edges) \cup Parents(ev) \X {Process(ev.guid)}
                                          \cup {Process(ev.guid)} \X Peers(ev)
  <2>1. /\ EdgesAfter(edges, ev) \in Seq(T)
        /\ EdgeSet(EdgesAfter(edges, ev)) = EdgeSet(edges) \cup Parents(ev) \X {Process(ev.guid)}
                                                          \cup {Process(ev.guid)} \X Peers(ev)
    BY <1>3, <1>6, EdgesAfterOneEvent
  <2> QED
    BY <1>1, <2>1
<1>8. cursor' \in 0..Len(events')
  BY <1>1
<1>9. Drawn(ev, findings, nodes', edges')
  BY <1>5, <1>7 DEF Drawn, sev
<1>10. ASSUME NEW i \in 1..cursor' PROVE Drawn(events[i], findings, nodes', edges')
  <2>1. CASE i = cursor + 1
    BY <1>9, <2>1 DEF ev
  <2>2. CASE i # cursor + 1
    <3>1. i \in 1..cursor
      BY <1>1, <2>2
    <3>2. Drawn(events[i], findings, nodes, edges) /\ EdgeSet(edges) \subseteq EdgeSet(edges')
      BY <1>7, <3>1 DEF DrawingInv
    <3> QED
      BY <1>4, <1>5, <3>2, StaysDrawn
  <2> QED
    BY <2>1, <2>2
<1> QED
  BY <1>5, <1>7, <1>8, <1>10 DEF DrawingInv, T

(***************************************************************************)
(* The cut.                                                                *)
(***************************************************************************)

CutInv ==
    /\ ~MoreEvents(events)
    /\ passed \in 0..Len(edges)
    /\ TooMany => /\ TopNodes \subseteq kept
                  /\ \A k \in 1..passed : edges[k][2] \in TopNodes => edges[k][1] \in kept
    /\ ~TooMany => kept = Ids(nodes)

\* The properties of Analysis about what is returned, for any cut.
ShowsAll(sh) ==
    ~sh.truncated =>
        \A i \in DOMAIN events :
            LET ev == events[i] IN
            /\ \E n \in sh.nodes : /\ n.id = Process(ev.guid)
                                   /\ \A f \in findings :
                                         f.guid = ev.guid => Rank(f.severity) <= Rank(n.severity)
            /\ \A p \in ev.parent \ {ev.guid} : <<Process(p), Process(ev.guid)>> \in sh.edges
            /\ \A d \in ev.dst : <<Process(ev.guid), Peer(d)>> \in sh.edges

CrowdedIn(sh, id, sev) ==
    Cardinality({n \in sh.nodes : n.id # id /\ NodeRank(n.severity) >= NodeRank(sev)}) >= MaxNodes

ShowsWorst(sh) ==
    \A i \in DOMAIN nodes :
        nodes[i] \notin sh.nodes =>
            /\ CrowdedIn(sh, nodes[i].id, nodes[i].severity)
            /\ \A k \in DOMAIN edges :
                  edges[k][1] = nodes[i].id
                  => CrowdedIn(sh, edges[k][2], NodeOf(nodes, edges[k][2]).severity)

TopPlaces ==
    {k \in DOMAIN nodes : Cardinality({j \in DOMAIN nodes : Before(j, k)}) < MaxNodes}

LEMMA IntervalIsFinite ==
  ASSUME NEW n \in Nat
  PROVE  IsFiniteSet(1..n) /\ Cardinality(1..n) = n
<1>1. 1 \in Int /\ n \in Int
  OBVIOUS
<1>2. IsFiniteSet(1..n) /\ Cardinality(1..n) = IF 1 > n THEN 0 ELSE n - 1 + 1
  BY <1>1, FS_Interval
<1> QED
  BY <1>2

\* What does not fit comes after as many others as fit.
LEMMA OthersAreWorse ==
  ASSUME Drawable(nodes), NEW i \in 1..Len(nodes), nodes[i].id \notin TopNodes
  PROVE  /\ IsFiniteSet(TopPlaces) /\ Cardinality(TopPlaces) = MaxNodes
         /\ TopPlaces \subseteq 1..Len(nodes)
         /\ \A k \in TopPlaces : /\ nodes[k].id \in TopNodes
                                 /\ NodeRank(nodes[k].severity) >= NodeRank(nodes[i].severity)
<1> DEFINE D == 1..Len(nodes)
           R == {p \in D \X D : Before(p[1], p[2])}
<1>1. Len(nodes) \in Nat /\ DOMAIN nodes = D
  BY DrawableNodes
<1>2. IsFiniteSet(D) /\ D \subseteq Nat
  BY <1>1, IntervalIsFinite
<1>3. \A x, y \in D : <<x, y>> \in R <=> Before(x, y)
  OBVIOUS
<1>4. TopPlaces = {k \in D : Cardinality({j \in D : Before(j, k)}) < MaxNodes}
  BY <1>1 DEF TopPlaces
<1>5. TopNodes = {nodes[k].id : k \in TopPlaces}
  BY DEF TopNodes, TopPlaces
<1> HIDE DEF D, R
<1>6. Orders(R, D)
  <2>1. \A x \in D : ~Before(x, x)
    BY <1>2, NodeRanks DEF Before
  <2>2. ASSUME NEW x \in D, NEW y \in D, NEW z \in D, Before(x, y), Before(y, z) PROVE Before(x, z)
    BY <1>2, <2>2, NodeRanks DEF Before
  <2>3. ASSUME NEW x \in D, NEW y \in D PROVE x = y \/ Before(x, y) \/ Before(y, x)
    BY <1>2, NodeRanks DEF Before
  <2> QED
    BY <1>3, <2>1, <2>2, <2>3 DEF Orders
<1>7. ASSUME NEW k \in D PROVE {j \in D : Before(j, k)} = Below(R, D, k)
  BY <1>3 DEF Below
<1>8. TopPlaces = {k \in D : Cardinality(Below(R, D, k)) < MaxNodes}
  BY <1>4, <1>7
<1>9. MaxNodes \in Nat
  BY ProcessGraphAssumption
<1>10. /\ IsFiniteSet(TopPlaces)
       /\ \A x \in D \ TopPlaces : /\ Cardinality(TopPlaces) = MaxNodes
                                   /\ \A y \in TopPlaces : <<y, x>> \in R
  <2> DEFINE F == {x \in D : Cardinality(Below(R, D, x)) < MaxNodes}
  <2>1. /\ IsFiniteSet(F) /\ Cardinality(F) <= MaxNodes
        /\ \A x \in D \ F : /\ Cardinality(F) = MaxNodes
                             /\ \A y \in F : <<y, x>> \in R
    BY <1>2, <1>6, <1>9, FirstOnes
  <2> QED
    BY <1>8, <2>1
<1>11. i \in D \ TopPlaces
  BY <1>5 DEF D
<1>12. TopPlaces \subseteq D
  BY <1>4
<1>13. \A k \in TopPlaces : Before(k, i)
  BY <1>3, <1>10, <1>11, <1>12
<1>14. \A k \in TopPlaces : NodeRank(nodes[k].severity) >= NodeRank(nodes[i].severity)
  BY <1>13, NodeRanks DEF Before
<1> QED
  BY <1>5, <1>10, <1>11, <1>12, <1>14 DEF D

LEMMA DroppedAreCrowded ==
  ASSUME Drawable(nodes), OneEach(nodes), NEW i \in 1..Len(nodes), nodes[i].id \notin TopNodes,
         TopNodes \subseteq kept,
         NEW sh, sh.nodes = {nodes[k] : k \in {l \in DOMAIN nodes : nodes[l].id \in kept}}
  PROVE  CrowdedIn(sh, nodes[i].id, nodes[i].severity)
<1> DEFINE D == 1..Len(nodes)
           C == {n \in sh.nodes : n.id # nodes[i].id /\ NodeRank(n.severity) >= NodeRank(nodes[i].severity)}
           node == [k \in TopPlaces |-> nodes[k]]
           every == {nodes[k] : k \in D}
           all == [k \in D |-> nodes[k]]
<1>1. Len(nodes) \in Nat /\ DOMAIN nodes = D
  BY DrawableNodes
<1>2. /\ IsFiniteSet(TopPlaces) /\ Cardinality(TopPlaces) = MaxNodes /\ TopPlaces \subseteq D
      /\ \A k \in TopPlaces : /\ nodes[k].id \in TopNodes
                              /\ NodeRank(nodes[k].severity) >= NodeRank(nodes[i].severity)
  BY OthersAreWorse
<1>3. IsFiniteSet(C)
  <2>1. all \in Surjection(D, every)
    BY DEF Surjection
  <2>2. IsFiniteSet(D)
    BY <1>1, IntervalIsFinite
  <2>3. C \subseteq every
    BY <1>1
  <2> HIDE DEF all, every, C, D
  <2>4. IsFiniteSet(every)
    BY <2>1, <2>2, FS_Surjection
  <2> QED
    BY <2>3, <2>4, FS_Subset
<1>4. ASSUME NEW k \in TopPlaces PROVE nodes[k] \in C
  <2>1. nodes[k] \in sh.nodes /\ nodes[k].id # nodes[i].id
    BY <1>1, <1>2
  <2> QED
    BY <1>2, <2>1
<1>5. \A k, l \in TopPlaces : nodes[k] = nodes[l] => k = l
  BY <1>2 DEF OneEach
<1> HIDE DEF C, D
<1>6. node \in Injection(TopPlaces, C)
  BY <1>4, <1>5 DEF Injection, IsInjective
<1> HIDE DEF node
<1>7. Cardinality(TopPlaces) <= Cardinality(C)
  BY <1>3, <1>6, FS_Injection
<1>8. Cardinality(C) \in Nat /\ MaxNodes \in Nat
  BY <1>3, FS_CardinalityType, ProcessGraphAssumption
<1>9. Cardinality(C) >= MaxNodes
  BY <1>2, <1>7, <1>8
<1> QED
  BY <1>9 DEF CrowdedIn, C

LEMMA CutStarts ==
  ASSUME DrawingInv, passed = 0, StartCut(events), UNCHANGED <<events, findings>>
  PROVE  DrawingInv' /\ CutInv'
<1>1. UNCHANGED <<cursor, nodes, edges, passed, shown>> /\ ~MoreEvents(events)
      /\ kept' = IF TooMany THEN TopNodes ELSE Ids(nodes)
  BY DEF StartCut
<1>2. DrawingInv'
  BY <1>1 DEF DrawingInv
<1>3. TooMany' = TooMany /\ TopNodes' = TopNodes /\ Ids(nodes)' = Ids(nodes) /\ MoreEvents(events)' = MoreEvents(events)
  BY <1>1 DEF TooMany, TopNodes, Before, Ids, MoreEvents
<1>4. passed' = 0 /\ 0 \in 0..Len(edges')
  <2>1. Len(edges) \in Nat
    BY ListIs DEF DrawingInv
  <2> QED
    BY <1>1, <2>1
<1>5. CutInv'
  BY <1>1, <1>3, <1>4 DEF CutInv
<1> QED
  BY <1>2, <1>5

LEMMA CutGoesOn ==
  ASSUME DrawingInv, CutInv, KeepSource, UNCHANGED <<events, findings>>
  PROVE  DrawingInv' /\ CutInv'
<1> DEFINE e == edges[passed + 1]
<1>1. /\ UNCHANGED <<cursor, nodes, edges, shown>> /\ TooMany /\ passed < Len(edges)
      /\ kept' = (IF e[2] \in kept THEN kept \cup {e[1]} ELSE kept) /\ passed' = passed + 1
  BY DEF KeepSource
<1>2. DrawingInv'
  BY <1>1 DEF DrawingInv
<1>3. TooMany' = TooMany /\ TopNodes' = TopNodes /\ MoreEvents(events)' = MoreEvents(events)
  BY <1>1 DEF TooMany, TopNodes, Before, MoreEvents
<1>4. /\ passed \in Nat /\ Len(edges) \in Nat /\ TopNodes \subseteq kept
      /\ \A k \in 1..passed : edges[k][2] \in TopNodes => edges[k][1] \in kept
  BY <1>1, ListIs DEF CutInv, DrawingInv
<1>5. passed' \in 0..Len(edges')
  BY <1>1, <1>4
<1>6. ASSUME NEW k \in 1..passed', edges[k][2] \in TopNodes PROVE edges[k][1] \in kept'
  <2>1. CASE k = passed + 1
    BY <1>1, <1>4, <1>6, <2>1
  <2>2. CASE k # passed + 1
    <3>1. k \in 1..passed
      BY <1>1, <1>4, <2>2
    <3> QED
      BY <1>1, <1>4, <1>6, <3>1
  <2> QED
    BY <2>1, <2>2
<1>7. TopNodes \subseteq kept'
  BY <1>1, <1>4
<1> HIDE DEF e
<1>8. CutInv'
  BY <1>1, <1>3, <1>5, <1>6, <1>7 DEF CutInv
<1> QED
  BY <1>2, <1>8

\* What FinishGraph returns.
IsCut(sh) ==
    LET within == {k \in DOMAIN edges : {edges[k][1], edges[k][2]} \subseteq kept}
        first == {k \in within : Cardinality({l \in within : l < k}) < MaxEdges}
    IN sh = [nodes |-> {nodes[i] : i \in {k \in DOMAIN nodes : nodes[k].id \in kept}},
             edges |-> {edges[k] : k \in first},
             truncated |-> TooMany \/ within # first]

LEMMA CutShowsWorst ==
  ASSUME DrawingInv, CutInv, TooMany => passed = Len(edges), NEW sh, IsCut(sh)
  PROVE  ShowsWorst(sh)
<1>1. sh.nodes = {nodes[k] : k \in {l \in DOMAIN nodes : nodes[l].id \in kept}}
  BY DEF IsCut
<1>2. Drawable(nodes) /\ OneEach(nodes) /\ edges \in Seq(Ids(nodes) \X Ids(nodes))
  BY DEF DrawingInv
<1>3. Len(nodes) \in Nat /\ DOMAIN nodes = 1..Len(nodes) /\ Len(edges) \in Nat /\ DOMAIN edges = 1..Len(edges)
  BY <1>2, DrawableNodes, ListIs
<1> SUFFICES ASSUME NEW i \in 1..Len(nodes), nodes[i] \notin sh.nodes
             PROVE  /\ CrowdedIn(sh, nodes[i].id, nodes[i].severity)
                    /\ \A k \in 1..Len(edges) :
                          edges[k][1] = nodes[i].id
                          => CrowdedIn(sh, edges[k][2], NodeOf(nodes, edges[k][2]).severity)
  BY <1>3 DEF ShowsWorst
<1>4. nodes[i].id \notin kept
  BY <1>1, <1>3
<1>5. TooMany
  BY <1>2, <1>4, DrawableNodes DEF CutInv
<1>6. /\ TopNodes \subseteq kept
      /\ \A k \in 1..Len(edges) : edges[k][2] \in TopNodes => edges[k][1] \in kept
  BY <1>5 DEF CutInv
<1>7. CrowdedIn(sh, nodes[i].id, nodes[i].severity)
  <2>1. nodes[i].id \notin TopNodes
    BY <1>4, <1>6
  <2> QED
    BY <1>1, <1>2, <1>6, <2>1, DroppedAreCrowded
<1>8. ASSUME NEW k \in 1..Len(edges), edges[k][1] = nodes[i].id
      PROVE  CrowdedIn(sh, edges[k][2], NodeOf(nodes, edges[k][2]).severity)
  <2> DEFINE id == edges[k][2]
  <2>1. id \notin TopNodes
    BY <1>4, <1>6, <1>8
  <2>2. id \in Ids(nodes)
    <3> DEFINE I == Ids(nodes)
    <3>1. edges \in Seq(I \X I)
      BY <1>2
    <3> HIDE DEF I
    <3>2. edges[k] \in I \X I
      BY <3>1, ListIs
    <3> QED
      BY <3>2 DEF I
  <2> HIDE DEF id
  <2>3. PICK j \in 1..Len(nodes) : nodes[j].id = id
    BY <1>2, <2>2, DrawableNodes
  <2>4. NodeOf(nodes, id) = nodes[j]
    <3>1. \A l \in DOMAIN nodes : nodes[l].id = id => l = j
      BY <1>2, <1>3, <2>3 DEF OneEach
    <3>2. j \in DOMAIN nodes
      BY <1>3
    <3> QED
      BY <2>3, <3>1, <3>2 DEF NodeOf
  <2>5. CrowdedIn(sh, nodes[j].id, nodes[j].severity)
    BY <1>1, <1>2, <1>6, <2>1, <2>3, DroppedAreCrowded
  <2>6. CrowdedIn(sh, id, NodeOf(nodes, id).severity)
    BY <2>3, <2>4, <2>5
  <2> QED
    BY <2>6 DEF id
<1> QED
  BY <1>7, <1>8

LEMMA CutShowsAll ==
  ASSUME EventsAreWellFormed, DrawingInv, CutInv, NEW sh, IsCut(sh)
  PROVE  ShowsAll(sh)
<1> DEFINE within == {k \in DOMAIN edges : {edges[k][1], edges[k][2]} \subseteq kept}
           first == {k \in within : Cardinality({l \in within : l < k}) < MaxEdges}
<1>1. /\ sh.nodes = {nodes[k] : k \in {l \in DOMAIN nodes : nodes[l].id \in kept}}
      /\ sh.edges = {edges[k] : k \in first}
      /\ sh.truncated = (TooMany \/ within # first)
  BY DEF IsCut
<1>2. Drawable(nodes) /\ OneEach(nodes) /\ edges \in Seq(Ids(nodes) \X Ids(nodes))
  BY DEF DrawingInv
<1>3. Len(nodes) \in Nat /\ DOMAIN nodes = 1..Len(nodes) /\ Len(edges) \in Nat /\ DOMAIN edges = 1..Len(edges)
  BY <1>2, DrawableNodes, ListIs
<1>4. Dataset(events) /\ Len(events) \in Nat /\ DOMAIN events = 1..Len(events)
  BY DEF EventsAreWellFormed, Dataset
<1> HIDE DEF first
<1> SUFFICES ASSUME ~sh.truncated, NEW i \in 1..Len(events)
             PROVE  LET ev == events[i] IN
                    /\ \E n \in sh.nodes : /\ n.id = Process(ev.guid)
                                           /\ \A f \in findings :
                                                 f.guid = ev.guid => Rank(f.severity) <= Rank(n.severity)
                    /\ \A p \in ev.parent \ {ev.guid} : <<Process(p), Process(ev.guid)>> \in sh.edges
                    /\ \A d \in ev.dst : <<Process(ev.guid), Peer(d)>> \in sh.edges
  BY <1>4 DEF ShowsAll
<1> DEFINE ev == events[i]
<1>5. ~TooMany /\ within = first
  BY <1>1
<1>6. kept = Ids(nodes)
  BY <1>5 DEF CutInv
<1>7. cursor = Len(events)
  <2>1. MaxNodes \in Nat /\ Len(nodes) <= MaxNodes
    BY <1>3, <1>5, ProcessGraphAssumption DEF TooMany
  <2>2. ~(cursor < Len(events))
    BY <1>3, <2>1 DEF CutInv, MoreEvents
  <2>3. cursor \in 0..Len(events)
    BY DEF DrawingInv
  <2>4. Len(events) \in Nat
    BY <1>4
  <2> QED
    BY <2>2, <2>3, <2>4
<1>8. Drawn(ev, findings, nodes, edges)
  BY <1>7 DEF DrawingInv
<1>9. \A k \in 1..Len(edges) : k \in within
  <2> DEFINE I == Ids(nodes)
  <2>1. edges \in Seq(I \X I) /\ kept = I
    BY <1>2, <1>6
  <2> HIDE DEF I
  <2>2. \A k \in 1..Len(edges) : edges[k] \in I \X I
    BY <2>1, ListIs
  <2> QED
    BY <1>3, <2>1, <2>2
<1>10. EdgeSet(edges) \subseteq sh.edges
  BY <1>1, <1>3, <1>5, <1>9 DEF EdgeSet
<1>11. \A k \in 1..Len(nodes) : nodes[k] \in sh.nodes
  BY <1>1, <1>2, <1>3, <1>6, DrawableNodes
<1> HIDE DEF within, ev
<1>12. PICK k \in 1..Len(nodes) : /\ nodes[k].id = Process(ev.guid)
                                 /\ NodeRank(nodes[k].severity) >= NodeRank(WorstFinding(findings, ev.guid))
  BY <1>8 DEF Drawn, HasNode
<1>13. ASSUME NEW f \in findings, f.guid = ev.guid PROVE Rank(f.severity) <= Rank(nodes[k].severity)
  <2>1. NodeRank(f.severity) <= NodeRank(WorstFinding(findings, ev.guid))
    BY <1>13, WorstIsWorst
  <2> QED
    BY <1>12, <2>1, NodeRanks
<1>14. ASSUME NEW p \in ev.parent \ {ev.guid} PROVE <<Process(p), Process(ev.guid)>> \in sh.edges
  <2>1. <<Process(p), Process(ev.guid)>> \in Parents(ev) \X {Process(ev.guid)}
    BY DEF Parents
  <2> QED
    BY <1>8, <1>10, <2>1 DEF Drawn
<1>15. ASSUME NEW d \in ev.dst PROVE <<Process(ev.guid), Peer(d)>> \in sh.edges
  <2>1. <<Process(ev.guid), Peer(d)>> \in {Process(ev.guid)} \X Peers(ev)
    BY DEF Peers
  <2> QED
    BY <1>8, <1>10, <2>1 DEF Drawn
<1>16. \E n \in sh.nodes : /\ n.id = Process(ev.guid)
                           /\ \A f \in findings : f.guid = ev.guid => Rank(f.severity) <= Rank(n.severity)
  BY <1>11, <1>12, <1>13
<1> QED
  BY <1>14, <1>15, <1>16 DEF ev

LEMMA CutShowsFewEdges ==
  ASSUME DrawingInv, NEW sh, IsCut(sh)
  PROVE  Cardinality(sh.edges) <= MaxEdges
<1> DEFINE within == {k \in DOMAIN edges : {edges[k][1], edges[k][2]} \subseteq kept}
           first == {k \in within : Cardinality({l \in within : l < k}) < MaxEdges}
           R == {p \in within \X within : p[1] < p[2]}
<1>1. sh.edges = {edges[k] : k \in first}
  BY DEF IsCut
<1>2. Len(edges) \in Nat /\ DOMAIN edges = 1..Len(edges)
  BY ListIs DEF DrawingInv
<1>3. IsFiniteSet(within) /\ within \subseteq Nat
  BY <1>2, IntervalIsFinite, FS_Subset
<1> HIDE DEF within
<1>4. \A x, y \in within : <<x, y>> \in R <=> x < y
  OBVIOUS
<1> HIDE DEF R
<1>5. Orders(R, within)
  BY <1>3, <1>4 DEF Orders
<1>6. ASSUME NEW k \in within PROVE {l \in within : l < k} = Below(R, within, k)
  BY <1>4 DEF Below
<1>7. first = {k \in within : Cardinality(Below(R, within, k)) < MaxEdges}
  BY <1>6
<1> HIDE DEF first
<1>8. MaxEdges \in Nat
  BY ProcessGraphAssumption
<1>9. IsFiniteSet(first) /\ Cardinality(first) <= MaxEdges
  BY <1>3, <1>5, <1>7, <1>8, FirstOnes
<1> DEFINE edge == [k \in first |-> edges[k]]
<1>10. edge \in Surjection(first, sh.edges)
  BY <1>1 DEF Surjection
<1> HIDE DEF edge
<1>11. IsFiniteSet(sh.edges) /\ Cardinality(sh.edges) <= Cardinality(first)
  BY <1>9, <1>10, FS_Surjection
<1>12. Cardinality(sh.edges) \in Nat /\ Cardinality(first) \in Nat
  BY <1>9, <1>11, FS_CardinalityType
<1> QED
  BY <1>8, <1>9, <1>11, <1>12

(***************************************************************************)
(* The parsers: what they make of a file can be normalized.                *)
(***************************************************************************)

Source == Normal \cup {"raw", "row"}

ParsedFrom(seq) == \E S : seq \in Seq(S) /\ \A e \in S : e.what \in Source

Modes == {"idle", "probe", "ndjson", "peek", "load", "array", "concat", ".csv",
          "parsed", "rejected"} \cup RecordFormats

Accepted == {".json", ".csv"} \cup RecordFormats

LEMMA MadeIs ==
  /\ \A v \in Normal : Made(v).what \in Source
  /\ Object \subseteq Normal
  /\ Made("raw").what \in Source
BY DEF Made, Source, Normal

LEMMA ParsedMore ==
  ASSUME NEW seq, ParsedFrom(seq), NEW e, e.what \in Source
  PROVE  ParsedFrom(Append(seq, e))
<1>1. PICK S : seq \in Seq(S) /\ \A x \in S : x.what \in Source
  BY DEF ParsedFrom
<1> DEFINE T == S \cup {e}
<1>2. S \subseteq T /\ e \in T /\ \A x \in T : x.what \in Source
  BY <1>1
<1> HIDE DEF T
<1>3. seq \in Seq(T)
  BY <1>1, <1>2, ListWidens
<1>4. Append(seq, e) \in Seq(T)
  BY <1>2, <1>3, ListAppends
<1> QED
  BY <1>2, <1>4 DEF ParsedFrom

LEMMA ParsedNothing == ParsedFrom(<<>>)
<1> DEFINE S == {}
<1>1. <<>> \in Seq(S) /\ \A e \in S : e.what \in Source
  OBVIOUS
<1> HIDE DEF S
<1> QED
  BY <1>1 DEF ParsedFrom

LEMMA OpenReads ==
  ASSUME NEW m \in Modes, NEW flags, Open(m, flags)
  PROVE  mode' \in Modes /\ ParsedFrom(parsed') /\ file' = file
BY ParsedNothing DEF Open

LEMMA FinishReads ==
  ASSUME NEW m \in Modes, Finish(m), UNCHANGED parsed, ParsedFrom(parsed)
  PROVE  mode' \in Modes /\ ParsedFrom(parsed') /\ file' = file
BY DEF Finish

\* The caps of the parsers.
LEMMA CapsAre == Cap \in Nat /\ Cap > 0 /\ Chunk \in Nat /\ Chunk > 0
<1>1. Cap \in Nat \ {0} /\ Chunk \in Nat \ {0}
  BY IngestAssumption
<1> QED
  BY <1>1

LEMMA ListedReads ==
  ASSUME NEW X, NEW values \in Seq(X), ParsedFrom(parsed), Listed(values)
  PROVE  mode' \in Modes /\ ParsedFrom(parsed') /\ file' = file
<1> DEFINE n == Min2(Cap, Len(values))
           taken == SubSeq(values, 1, n)
<1>1. "parsed" \in Modes /\ "rejected" \in Modes
  BY DEF Modes
<1>2. Len(values) \in Nat /\ n \in Nat /\ n <= Len(values)
  BY CapsAre, ListIs DEF Min2
<1>3. CASE \A i \in DOMAIN taken : taken[i] \in Normal
  <2>1. parsed' = [i \in DOMAIN taken |-> Made(taken[i])] /\ Finish("parsed")
    BY <1>3 DEF Listed
  <2>2. DOMAIN taken = 1..n
    BY <1>2
  <2> DEFINE S == {Made(v) : v \in Normal}
  <2>3. \A e \in S : e.what \in Source
    BY MadeIs
  <2>4. \A i \in 1..n : Made(taken[i]) \in S
    BY <1>3, <2>2
  <2> HIDE DEF S, taken, n
  <2>5. parsed' = [i \in 1..n |-> Made(taken[i])]
    BY <2>1, <2>2
  <2>6. parsed' \in Seq(S)
    BY <1>2, <2>4, <2>5
  <2>7. ParsedFrom(parsed')
    BY <2>3, <2>6 DEF ParsedFrom
  <2> QED
    BY <1>1, <2>1, <2>7 DEF Finish
<1>4. CASE ~ \A i \in DOMAIN taken : taken[i] \in Normal
  <2>1. Finish("rejected") /\ UNCHANGED parsed
    BY <1>4 DEF Listed
  <2> QED
    BY <1>1, <2>1, FinishReads
<1> QED
  BY <1>3, <1>4

LEMMA ParsingReads ==
  ASSUME mode \in Modes, ParsedFrom(parsed), file \in Files, file.fmt \in Accepted, Parse
  PROVE  mode' \in Modes /\ ParsedFrom(parsed') /\ file' = file
<1>0. /\ {"probe", "ndjson", "peek", "load", "array", "concat", "parsed", "rejected", ".csv"} \subseteq Modes
      /\ RecordFormats \subseteq Modes
  BY DEF Modes
<1>1. CASE ParseFile
  <2>1. CASE file.fmt = ".json"
    BY <1>0, <1>1, <2>1, OpenReads DEF ParseFile
  <2>2. CASE file.fmt # ".json"
    <3>1. mode' = file.fmt /\ UNCHANGED <<file, parsed>>
      BY <1>1, <2>2 DEF ParseFile
    <3> QED
      BY <1>0, <2>2, <3>1 DEF Accepted
  <2> QED
    BY <2>1, <2>2
<1>2. CASE Probe
  BY <1>0, <1>2, OpenReads DEF Probe
<1>3. CASE TakeLine
  <2> DEFINE line == Line(rest)
  <2>1. CASE UNCHANGED <<file, mode, parsed>>
    BY <2>1
  <2>2. CASE \E v \in Loads(line) \cap Normal : parsed' = Append(parsed, Made(v)) /\ UNCHANGED <<file, mode>>
    BY <2>2, MadeIs, ParsedMore
  <2>3. CASE Finish("rejected") /\ UNCHANGED parsed
    BY <1>0, <2>3, FinishReads
  <2>4. CASE Open("peek", <<>>)
    BY <1>0, <2>4, OpenReads
  <2> QED
    BY <1>3, <2>1, <2>2, <2>3, <2>4 DEF TakeLine
<1>4. CASE Peek
  <2>1. \E m \in {"concat", "array", "load"} : \E flags : Open(m, flags)
    BY <1>4 DEF Peek
  <2> QED
    BY <1>0, <2>1, OpenReads
<1>5. CASE Load
  <2>1. CASE WholeArray /\ Listed(file.parts)
    <3>1. file.parts \in Seq(Range(file.parts))
      BY AnalysisAssumption DEF IsFile
    <3> QED
      BY <2>1, <3>1, ListedReads
  <2>2. ASSUME NEW v \in Decodes(LStrip(rest)),
               IF ~Blank(After(v, LStrip(rest))) THEN Open("concat", Concat)
               ELSE IF v \in DOMAIN Records THEN Listed(Records[v])
               ELSE Listed(<<v>>)
        PROVE  mode' \in Modes /\ ParsedFrom(parsed') /\ file' = file
    <3>1. CASE Open("concat", Concat)
      BY <1>0, <3>1, OpenReads
    <3>2. CASE v \in DOMAIN Records /\ Listed(Records[v])
      <4>1. Records[v] \in Seq(Range(Records[v]))
        BY <3>2, AnalysisAssumption
      <4> QED
        BY <3>2, <4>1, ListedReads
    <3>3. CASE Listed(<<v>>)
      <4>1. <<v>> \in Seq({v})
        OBVIOUS
      <4> QED
        BY <3>3, <4>1, ListedReads
    <3> QED
      BY <2>2, <3>1, <3>2, <3>3
  <2>3. CASE Finish("rejected") /\ UNCHANGED parsed
    BY <1>0, <2>3, FinishReads
  <2> QED
    BY <1>5, <2>1, <2>2, <2>3 DEF Load
<1>6. CASE ReadChunk
  <2>1. CASE scan.eof \/ Full
    BY <1>0, <1>6, <2>1, FinishReads DEF ReadChunk
  <2>2. CASE ~(scan.eof \/ Full)
    BY <1>6, <2>2 DEF ReadChunk
  <2> QED
    BY <2>1, <2>2
<1>7. CASE TakeElement
  <2>1. CASE UNCHANGED <<file, mode, parsed>>
    BY <2>1
  <2>2. CASE Finish("parsed") /\ UNCHANGED parsed
    BY <1>0, <2>2, FinishReads
  <2>3. CASE Finish("rejected") /\ UNCHANGED parsed
    BY <1>0, <2>3, FinishReads
  <2>4. CASE \E v \in Object : parsed' = Append(parsed, Made(v)) /\ UNCHANGED <<file, mode>>
    BY <2>4, MadeIs, ParsedMore
  <2> QED
    BY <1>7, <2>1, <2>2, <2>3, <2>4 DEF TakeElement
<1>8. CASE TakeCharacter
  <2>1. UNCHANGED <<file, mode>>
    BY <1>8 DEF TakeCharacter
  <2>2. \/ UNCHANGED parsed
        \/ \E v \in Object : parsed' = Append(parsed, Made(v))
    BY <1>8 DEF TakeCharacter, Complete
  <2> QED
    BY <2>1, <2>2, MadeIs, ParsedMore
<1>9. CASE TakeRow
  <2>1. PICK e : e.what = "row" /\ parsed' = Append(parsed, e) /\ UNCHANGED <<file, mode>>
    BY <1>9 DEF TakeRow
  <2>2. e.what \in Source
    BY <2>1 DEF Source
  <2> QED
    BY <2>1, <2>2, ParsedMore
<1>10. CASE TakeRecord
  <2>1. CASE Finish("rejected") /\ UNCHANGED parsed
    BY <1>0, <2>1, FinishReads
  <2>2. CASE UNCHANGED <<file, mode, parsed>>
    BY <2>2
  <2>3. CASE \E v \in Normal \cup {"raw"} : parsed' = Append(parsed, Made(v)) /\ UNCHANGED <<file, mode>>
    BY <2>3, MadeIs, ParsedMore
  <2> QED
    BY <1>10, <2>1, <2>2, <2>3 DEF TakeRecord, Normal
<1>11. CASE EndOfInput
  BY <1>0, <1>11, FinishReads DEF EndOfInput
<1> QED
  BY <1>1, <1>2, <1>3, <1>4, <1>5, <1>6, <1>7, <1>8, <1>9, <1>10, <1>11 DEF Parse

\* An event names at most one parent and one peer.
LEMMA NormalizeKeeps ==
  ASSUME NEW x \in Source
  PROVE  LET ev == Normalize(Content[x]) IN AtMostOne(ev.parent) /\ AtMostOne(ev.dst)
<1> DEFINE raw == Content[x]
           ev == Normalize(raw)
<1>1. /\ {"parent", "dst"} \subseteq DOMAIN raw
      /\ \A p, q \in raw.parent : p = q
      /\ \A d, e \in raw.dst : d = e
  BY AnalysisAssumption DEF Source
<1> HIDE DEF raw
<1>2. ev.dst = raw.dst
  BY <1>1 DEF Normalize
<1>3. ev.parent = (IF raw.parent # {} THEN {<<"guid", p>> : p \in raw.parent}
                   ELSE IF raw.parent_process_name = "" THEN {}
                   ELSE {<<"uuid", raw.host, raw.parent_process_name, "parent">>})
  BY <1>1 DEF Normalize
<1> HIDE DEF ev
<1>4. AtMostOne(ev.parent)
  BY <1>1, <1>3 DEF AtMostOne
<1>5. AtMostOne(ev.dst)
  BY <1>1, <1>2 DEF AtMostOne
<1> QED
  BY <1>4, <1>5 DEF ev, raw

LEMMA ParsedAreWellFormed ==
  ASSUME ParsedFrom(parsed), events' = [i \in DOMAIN parsed |-> Normalize(Content[parsed[i].what])]
  PROVE  EventsAreWellFormed' /\ Len(events') = Len(parsed)
<1>1. PICK S : parsed \in Seq(S) /\ \A e \in S : e.what \in Source
  BY DEF ParsedFrom
<1>2. Len(parsed) \in Nat /\ DOMAIN parsed = 1..Len(parsed) /\ \A i \in 1..Len(parsed) : parsed[i] \in S
  BY <1>1, ListIs
<1>3. events' = [i \in 1..Len(parsed) |-> Normalize(Content[parsed[i].what])]
  BY <1>2
<1>4. DOMAIN events' = 1..Len(parsed) /\ Len(events') = Len(parsed)
  BY <1>2, <1>3
<1>5. ASSUME NEW i \in 1..Len(events') PROVE AtMostOne(events'[i].parent) /\ AtMostOne(events'[i].dst)
  <2> DEFINE x == parsed[i].what
  <2>1. x \in Source /\ events'[i] = Normalize(Content[x])
    BY <1>1, <1>2, <1>3, <1>4
  <2> HIDE DEF x
  <2> QED
    BY <2>1, NormalizeKeeps
<1> QED
  BY <1>2, <1>4, <1>5 DEF EventsAreWellFormed, Dataset

(***************************************************************************)
(* The pipeline.                                                           *)
(***************************************************************************)

Early == {"received", "parsing", "refused"}
Drawing == {"drawing", "cutting"}
Late == {"correlating", "answered"}
AllStages == Early \cup {"parsed"} \cup Drawing \cup Late

NoGraph == cursor = 0 /\ nodes = <<>> /\ edges = <<>>

FileInv ==
    /\ stage \in AllStages /\ mode \in Modes /\ file \in Files
    /\ stage = "parsing" => file.fmt \in Accepted
    /\ ParsedFrom(parsed)

EventsInv ==
    /\ EventsAreWellFormed
    /\ stage \in Early => events = <<>>
    /\ stage \notin Early => Len(events) = Len(parsed)
    /\ stage \in Drawing \cup Late => findings = EvaluateAll(events)

GraphInv ==
    /\ stage \in Early \cup {"parsed"} => NoGraph
    /\ stage \in Drawing \cup Late => DrawingInv
    /\ stage = "drawing" => passed = 0
    /\ stage = "cutting" => CutInv
    /\ Cardinality(shown.edges) <= MaxEdges
    /\ stage \in Late => ShowsAll(shown) /\ ShowsWorst(shown)

AnswerInv ==
    /\ CorrelationInv
    /\ stage \in Late => group = InOrder(Actionable(findings))
    /\ stage = "answered" => /\ ~PairsLeft
                             /\ answer.counts = SeverityCounts
                             /\ answer.incidents = Incidents

PipelineInv == FileInv /\ EventsInv /\ GraphInv /\ AnswerInv

LEMMA StagesAre ==
  /\ Early \cap ({"parsed"} \cup Drawing \cup Late) = {}
  /\ "received" \in Early /\ "parsing" \in Early /\ "refused" \in Early
  /\ "parsed" \notin Early /\ "parsed" \notin Drawing \cup Late
  /\ "drawing" \in Drawing /\ "cutting" \in Drawing /\ Drawing \cap Late = {}
  /\ "correlating" \in Late /\ "answered" \in Late
  /\ {"received", "parsing", "refused", "parsed", "drawing", "cutting", "correlating", "answered"} = AllStages
BY DEF Early, Drawing, Late, AllStages

LEMMA NothingShown == Cardinality(NotBuilt.edges) <= MaxEdges
<1>1. NotBuilt.edges = {} /\ Cardinality({}) = 0
  BY FS_EmptySet DEF NotBuilt
<1> QED
  BY <1>1, ProcessGraphAssumption

LEMMA NoEvents ==
  ASSUME events = <<>>
  PROVE  EventsAreWellFormed
<1>1. Len(events) = 0 /\ DOMAIN events = 1..0
  OBVIOUS
<1> QED
  BY <1>1 DEF EventsAreWellFormed, Dataset

LEMMA PipelineInitially == Init => PipelineInv
<1> SUFFICES ASSUME Init PROVE PipelineInv
  OBVIOUS
<1>1. /\ stage = "received" /\ file \in Files /\ mode = "idle" /\ parsed = <<>> /\ events = <<>>
      /\ findings = {} /\ NoGraph /\ passed = 0 /\ shown = NotBuilt
      /\ group = <<>> /\ parent = <<>> /\ left = 1 /\ right = 2 /\ a = 1 /\ b = 2
  BY DEF Init, IngestInit, NoGraph
<1>2. FileInv
  <2>1. ParsedFrom(parsed) /\ mode \in Modes
    BY <1>1, ParsedNothing DEF Modes
  <2> QED
    BY <1>1, <2>1, StagesAre DEF FileInv
<1>3. EventsInv
  BY <1>1, NoEvents, StagesAre DEF EventsInv
<1>4. GraphInv
  BY <1>1, NothingShown, StagesAre DEF GraphInv
<1>5. CorrelationInv
  <2>1. Len(group) = 0 /\ Member = {}
    BY <1>1 DEF Member
  <2>2. parent = [i \in Member |-> i]
    BY <1>1, <2>1
  <2>3. CorrelationInit
    BY <1>1, <2>1, <2>2 DEF CorrelationInit
  <2> QED
    BY <2>3, CorrelationInitially
<1>6. AnswerInv
  BY <1>1, <1>5, StagesAre DEF AnswerInv
<1> QED
  BY <1>2, <1>3, <1>4, <1>6 DEF PipelineInv

-----------------------------------------------------------------------------

\* Each part of the invariant is about a few variables.
LEMMA FileStutters ==
  ASSUME FileInv, UNCHANGED ingestVars, stage' \in AllStages, stage' = "parsing" => file.fmt \in Accepted
  PROVE  FileInv'
BY DEF FileInv, ingestVars

LEMMA EventsStutter ==
  ASSUME EventsAreWellFormed, UNCHANGED events
  PROVE  EventsAreWellFormed'
BY DEF EventsAreWellFormed

LEMMA GraphStutters ==
  ASSUME UNCHANGED <<graphVars, events, findings>>
  PROVE  /\ DrawingInv => DrawingInv'
         /\ CutInv => CutInv'
         /\ NoGraph => NoGraph'
         /\ ShowsAll(shown) => ShowsAll(shown)'
         /\ ShowsWorst(shown) => ShowsWorst(shown)'
<1>1. UNCHANGED <<cursor, nodes, edges, kept, passed, shown>>
  BY DEF graphVars
<1>2. DrawingInv => DrawingInv'
  BY <1>1 DEF DrawingInv
<1>3. TooMany' = TooMany /\ TopNodes' = TopNodes
  BY <1>1 DEF TooMany, TopNodes, Before
<1>4. MoreEvents(events)' = MoreEvents(events)
  BY <1>1 DEF MoreEvents
<1>5. CutInv => CutInv'
  BY <1>1, <1>3, <1>4 DEF CutInv
<1>6. NoGraph => NoGraph'
  BY <1>1 DEF NoGraph
<1>7. ShowsAll(shown) => ShowsAll(shown)'
  BY <1>1 DEF ShowsAll
<1>8. ShowsWorst(shown) => ShowsWorst(shown)'
  BY <1>1 DEF ShowsWorst
<1> QED
  BY <1>2, <1>5, <1>6, <1>7, <1>8

LEMMA ForestStutters ==
  ASSUME CorrelationInv, UNCHANGED corrVars
  PROVE  CorrelationInv'
BY CorrelationStep

\* The findings of an upload, and the list that is correlated.
LEMMA FindingsAre ==
  ASSUME NEW evs, Dataset(evs)
  PROVE  /\ EvaluateAll(evs) \subseteq RawFindings(evs)
         /\ IsFiniteSet(EvaluateAll(evs)) /\ Placed(EvaluateAll(evs))
         /\ \A f \in RawFindings(evs) : \E g \in EvaluateAll(evs) : ThreatKey(g) = ThreatKey(f)
         /\ \A f, g \in EvaluateAll(evs) : ThreatKey(f) = ThreatKey(g) => f = g
<1> DEFINE Raw == RawFindings(evs)
<1>1. Placed(Raw) /\ IsFiniteSet(Raw)
  BY RawPlaced
<1>2. EvaluateAll(evs) = Dedupe(Raw)
  BY DEF EvaluateAll
<1> HIDE DEF Raw
<1>3. /\ Dedupe(Raw) \subseteq Raw /\ IsFiniteSet(Dedupe(Raw)) /\ Placed(Dedupe(Raw))
      /\ \A f \in Raw : \E g \in Dedupe(Raw) : ThreatKey(g) = ThreatKey(f)
      /\ \A f, g \in Dedupe(Raw) : ThreatKey(f) = ThreatKey(g) => f = g
  BY <1>1, DedupeKeeps
<1> QED
  BY <1>2, <1>3 DEF Raw

LEMMA ActionableList ==
  ASSUME EventsAreWellFormed, findings = EvaluateAll(events)
  PROVE  LET list == InOrder(Actionable(findings)) IN
         /\ Len(list) \in Nat
         /\ \A n \in 1..Len(list) : list[n] \in Actionable(findings)
         /\ \A f \in Actionable(findings) : \E n \in 1..Len(list) : list[n] = f
         /\ \A m, n \in 1..Len(list) : list[m] = list[n] => m = n
<1> DEFINE A == Actionable(findings)
<1>1. IsFiniteSet(findings) /\ Placed(findings)
  BY FindingsAre DEF EventsAreWellFormed
<1>2. A \subseteq findings
  BY DEF Actionable
<1>3. IsFiniteSet(A) /\ Placed(A)
  BY <1>1, <1>2, FS_Subset DEF Placed
<1> HIDE DEF A
<1>4. LET list == InOrder(A) IN
      /\ Len(list) = Cardinality(A) /\ Len(list) \in Nat
      /\ \A n \in 1..Len(list) : list[n] \in A
      /\ \A f \in A : \E n \in 1..Len(list) : list[n] = f
      /\ \A m, n \in 1..Len(list) : list[m] = list[n] => m = n
  BY <1>3, InOrderLists
<1> QED
  BY <1>4 DEF A

LEMMA PipelineStep ==
  ASSUME PipelineInv, [Next]_vars
  PROVE  PipelineInv'
<1>0. FileInv /\ EventsInv /\ GraphInv /\ AnswerInv /\ CorrelationInv /\ EventsAreWellFormed
  BY DEF PipelineInv, AnswerInv, EventsInv
<1>1. ASSUME Receive PROVE PipelineInv'
  <2>1. /\ stage = "received" /\ stage' \in {"parsing", "refused"}
        /\ stage' = "parsing" => file.fmt \in Accepted
        /\ UNCHANGED <<events, findings, answer, ingestVars, corrVars, graphVars>>
    BY <1>1 DEF Receive, Accepted
  <2>2. FileInv'
    BY <1>0, <2>1, FileStutters, StagesAre
  <2>3. EventsInv'
    BY <1>0, <2>1, EventsStutter, StagesAre DEF EventsInv
  <2>4. GraphInv'
    BY <1>0, <2>1, GraphStutters, StagesAre DEF GraphInv, graphVars
  <2>5. AnswerInv'
    BY <1>0, <2>1, ForestStutters, StagesAre DEF AnswerInv
  <2> QED
    BY <2>2, <2>3, <2>4, <2>5 DEF PipelineInv
<1>2. ASSUME ParseSome PROVE PipelineInv'
  <2>1. /\ stage = "parsing" /\ stage' = stage /\ Parse
        /\ UNCHANGED <<events, findings, answer, corrVars, graphVars>>
    BY <1>2 DEF ParseSome
  <2>2. FileInv'
    <3>1. mode' \in Modes /\ ParsedFrom(parsed') /\ file' = file
      BY <1>0, <2>1, ParsingReads DEF FileInv
    <3> QED
      BY <1>0, <2>1, <3>1 DEF FileInv
  <2>3. EventsInv'
    BY <1>0, <2>1, EventsStutter, StagesAre DEF EventsInv
  <2>4. GraphInv'
    BY <1>0, <2>1, GraphStutters, StagesAre DEF GraphInv, graphVars
  <2>5. AnswerInv'
    BY <1>0, <2>1, ForestStutters, StagesAre DEF AnswerInv
  <2> QED
    BY <2>2, <2>3, <2>4, <2>5 DEF PipelineInv
<1>3. ASSUME Parsed PROVE PipelineInv'
  <2>1. /\ stage = "parsing" /\ stage' = "parsed"
        /\ events' = [i \in DOMAIN parsed |-> Normalize(Content[parsed[i].what])]
        /\ UNCHANGED <<findings, answer, ingestVars, corrVars, graphVars>>
    BY <1>3 DEF Parsed
  <2>2. FileInv'
    BY <1>0, <2>1, FileStutters, StagesAre
  <2>3. EventsInv'
    <3>1. EventsAreWellFormed' /\ Len(events') = Len(parsed) /\ parsed' = parsed
      BY <1>0, <2>1, ParsedAreWellFormed DEF FileInv, ingestVars
    <3> QED
      BY <2>1, <3>1, StagesAre DEF EventsInv
  <2>4. GraphInv'
    BY <1>0, <2>1, StagesAre DEF GraphInv, graphVars, NoGraph
  <2>5. AnswerInv'
    BY <1>0, <2>1, ForestStutters, StagesAre DEF AnswerInv
  <2> QED
    BY <2>2, <2>3, <2>4, <2>5 DEF PipelineInv
<1>4. ASSUME Refuse PROVE PipelineInv'
  <2>1. /\ stage = "parsing" /\ stage' = "refused"
        /\ UNCHANGED <<events, findings, answer, ingestVars, corrVars, graphVars>>
    BY <1>4 DEF Refuse
  <2>2. FileInv'
    BY <1>0, <2>1, FileStutters, StagesAre
  <2>3. EventsInv'
    BY <1>0, <2>1, EventsStutter, StagesAre DEF EventsInv
  <2>4. GraphInv'
    BY <1>0, <2>1, GraphStutters, StagesAre DEF GraphInv, graphVars
  <2>5. AnswerInv'
    BY <1>0, <2>1, ForestStutters, StagesAre DEF AnswerInv
  <2> QED
    BY <2>2, <2>3, <2>4, <2>5 DEF PipelineInv
<1>5. ASSUME Evaluate PROVE PipelineInv'
  <2>1. /\ stage = "parsed" /\ stage' = "drawing" /\ findings' = EvaluateAll(events) /\ StartGraph
        /\ UNCHANGED <<events, answer, ingestVars, corrVars>>
    BY <1>5 DEF Evaluate
  <2>2. FileInv'
    BY <1>0, <2>1, FileStutters, StagesAre
  <2>3. EventsInv'
    BY <1>0, <2>1, EventsStutter, StagesAre DEF EventsInv, ingestVars
  <2>4. GraphInv'
    <3>1. DrawingInv' /\ passed' = 0 /\ shown' = NotBuilt
      BY <1>0, <2>1, DrawingStarts DEF StartGraph
    <3> QED
      BY <2>1, <3>1, NothingShown, StagesAre DEF GraphInv
  <2>5. AnswerInv'
    BY <1>0, <2>1, ForestStutters, StagesAre DEF AnswerInv
  <2> QED
    BY <2>2, <2>3, <2>4, <2>5 DEF PipelineInv
<1>6. ASSUME DrawEvent PROVE PipelineInv'
  <2>1. /\ stage = "drawing" /\ stage' = stage /\ AddEvent(events, findings)
        /\ UNCHANGED <<events, findings, answer, ingestVars, corrVars>>
    BY <1>6 DEF DrawEvent
  <2>2. FileInv'
    BY <1>0, <2>1, FileStutters, StagesAre
  <2>3. EventsInv'
    BY <1>0, <2>1, EventsStutter, StagesAre DEF EventsInv, ingestVars
  <2>4. GraphInv'
    <3>1. DrawingInv /\ passed = 0
      BY <1>0, <2>1, StagesAre DEF GraphInv
    <3>2. DrawingInv' /\ passed' = passed /\ shown' = shown
      BY <1>0, <2>1, <3>1, DrawingGoesOn DEF AddEvent
    <3> QED
      BY <1>0, <2>1, <3>1, <3>2, StagesAre DEF GraphInv
  <2>5. AnswerInv'
    BY <1>0, <2>1, ForestStutters, StagesAre DEF AnswerInv
  <2> QED
    BY <2>2, <2>3, <2>4, <2>5 DEF PipelineInv
<1>7. ASSUME CutGraph PROVE PipelineInv'
  <2>1. /\ stage = "drawing" /\ stage' = "cutting" /\ StartCut(events)
        /\ UNCHANGED <<events, findings, answer, ingestVars, corrVars>>
    BY <1>7 DEF CutGraph
  <2>2. FileInv'
    BY <1>0, <2>1, FileStutters, StagesAre
  <2>3. EventsInv'
    BY <1>0, <2>1, EventsStutter, StagesAre DEF EventsInv, ingestVars
  <2>4. GraphInv'
    <3>1. DrawingInv /\ passed = 0
      BY <1>0, <2>1, StagesAre DEF GraphInv
    <3>2. DrawingInv' /\ CutInv' /\ shown' = shown
      BY <2>1, <3>1, CutStarts DEF StartCut
    <3> QED
      BY <1>0, <2>1, <3>2, StagesAre DEF GraphInv
  <2>5. AnswerInv'
    BY <1>0, <2>1, ForestStutters, StagesAre DEF AnswerInv
  <2> QED
    BY <2>2, <2>3, <2>4, <2>5 DEF PipelineInv
<1>8. ASSUME KeepParent PROVE PipelineInv'
  <2>1. /\ stage = "cutting" /\ stage' = stage /\ KeepSource
        /\ UNCHANGED <<events, findings, answer, ingestVars, corrVars>>
    BY <1>8 DEF KeepParent
  <2>2. FileInv'
    BY <1>0, <2>1, FileStutters, StagesAre
  <2>3. EventsInv'
    BY <1>0, <2>1, EventsStutter, StagesAre DEF EventsInv, ingestVars
  <2>4. GraphInv'
    <3>1. DrawingInv /\ CutInv
      BY <1>0, <2>1, StagesAre DEF GraphInv
    <3>2. DrawingInv' /\ CutInv' /\ shown' = shown
      BY <2>1, <3>1, CutGoesOn DEF KeepSource
    <3> QED
      BY <1>0, <2>1, <3>2, StagesAre DEF GraphInv
  <2>5. AnswerInv'
    BY <1>0, <2>1, ForestStutters, StagesAre DEF AnswerInv
  <2> QED
    BY <2>2, <2>3, <2>4, <2>5 DEF PipelineInv
<1>9. ASSUME FinishDrawing PROVE PipelineInv'
  <2> DEFINE list == InOrder(Actionable(findings))
  <2>1. /\ stage = "cutting" /\ stage' = "correlating" /\ FinishGraph /\ StartCorrelation(list)
        /\ UNCHANGED <<events, findings, answer, ingestVars>>
    BY <1>9 DEF FinishDrawing
  <2>2. FileInv'
    BY <1>0, <2>1, FileStutters, StagesAre
  <2>3. EventsInv'
    BY <1>0, <2>1, EventsStutter, StagesAre DEF EventsInv, ingestVars
  <2>4. GraphInv'
    <3>1. DrawingInv /\ CutInv /\ (TooMany => passed = Len(edges)) /\ IsCut(shown')
          /\ UNCHANGED <<cursor, nodes, edges, kept, passed>>
      BY <1>0, <2>1, StagesAre DEF GraphInv, FinishGraph, IsCut
    <3>2. ShowsAll(shown') /\ ShowsWorst(shown') /\ Cardinality(shown'.edges) <= MaxEdges
      BY <1>0, <3>1, CutShowsAll, CutShowsWorst, CutShowsFewEdges
    <3>3. ShowsAll(shown)'
      BY <2>1, <3>2 DEF ShowsAll
    <3>4. ShowsWorst(shown)'
      BY <3>1, <3>2 DEF ShowsWorst
    <3>5. DrawingInv'
      BY <2>1, <3>1 DEF DrawingInv
    <3> QED
      BY <2>1, <3>2, <3>3, <3>4, <3>5, StagesAre DEF GraphInv
  <2>5. AnswerInv'
    <3>1. findings = EvaluateAll(events)
      BY <1>0, <2>1, StagesAre DEF EventsInv
    <3>2. Len(list) \in Nat
      BY <1>0, <3>1, ActionableList
    <3>3. CorrelationInit'
      BY <2>1, <3>2 DEF StartCorrelation, CorrelationInit, Member
    <3>4. CorrelationInit' => CorrelationInv'
      BY CorrelationInitially, PTL
    <3>5. group' = InOrder(Actionable(findings'))
      BY <2>1 DEF StartCorrelation
    <3> QED
      BY <2>1, <3>3, <3>4, <3>5, StagesAre DEF AnswerInv
  <2> QED
    BY <2>2, <2>3, <2>4, <2>5 DEF PipelineInv
<1>10. ASSUME Group PROVE PipelineInv'
  <2>1. /\ stage = "correlating" /\ stage' = stage /\ Correlate
        /\ UNCHANGED <<events, findings, answer, ingestVars, graphVars>>
    BY <1>10 DEF Group
  <2>2. FileInv'
    BY <1>0, <2>1, FileStutters, StagesAre
  <2>3. EventsInv'
    BY <1>0, <2>1, EventsStutter, StagesAre DEF EventsInv, ingestVars
  <2>4. GraphInv'
    BY <1>0, <2>1, GraphStutters, StagesAre DEF GraphInv, graphVars
  <2>5. AnswerInv'
    <3>1. CorrelationInv'
      BY <1>0, <2>1, CorrelationStep
    <3>2. group' = group
      BY <2>1 DEF Correlate, SkipPair, HalveLeft, HalveRight, Join
    <3> QED
      BY <1>0, <2>1, <3>1, <3>2, StagesAre DEF AnswerInv
  <2> QED
    BY <2>2, <2>3, <2>4, <2>5 DEF PipelineInv
<1>11. ASSUME Respond PROVE PipelineInv'
  <2>1. /\ stage = "correlating" /\ stage' = "answered" /\ ~PairsLeft
        /\ answer'.counts = SeverityCounts /\ answer'.incidents = Incidents
        /\ UNCHANGED <<events, findings, ingestVars, corrVars, graphVars>>
    BY <1>11 DEF Respond
  <2>2. FileInv'
    BY <1>0, <2>1, FileStutters, StagesAre
  <2>3. EventsInv'
    BY <1>0, <2>1, EventsStutter, StagesAre DEF EventsInv, ingestVars
  <2>4. GraphInv'
    BY <1>0, <2>1, GraphStutters, StagesAre DEF GraphInv, graphVars
  <2>5. AnswerInv'
    <3>1. CorrelationInv'
      BY <1>0, <2>1, ForestStutters
    <3>2. UNCHANGED <<group, parent, left>>
      BY <2>1 DEF corrVars
    <3>3. PairsLeft' = PairsLeft /\ SeverityCounts' = SeverityCounts
      BY <2>1, <3>2 DEF PairsLeft, SeverityCounts
    <3>4. Incidents' = Incidents
      BY <3>2 DEF Incidents, Incident, Clusters, ClusterOf, Root, Above, Member, Fingerprint, RollUp
    <3>5. group = InOrder(Actionable(findings))
      BY <1>0, <2>1, StagesAre DEF AnswerInv
    <3> QED
      BY <2>1, <3>1, <3>2, <3>3, <3>4, <3>5 DEF AnswerInv
  <2> QED
    BY <2>2, <2>3, <2>4, <2>5 DEF PipelineInv
<1>12. ASSUME UNCHANGED vars PROVE PipelineInv'
  <2>1. UNCHANGED <<stage, events, findings, answer, ingestVars, corrVars, graphVars>>
    BY <1>12 DEF vars
  <2>2. FileInv'
    BY <1>0, <2>1 DEF FileInv, ingestVars
  <2>3. EventsInv'
    BY <1>0, <2>1, EventsStutter DEF EventsInv, ingestVars
  <2>4. GraphInv'
    BY <1>0, <2>1, GraphStutters DEF GraphInv, graphVars
  <2>5. AnswerInv'
    <3>1. CorrelationInv'
      BY <1>0, <2>1, ForestStutters
    <3>2. UNCHANGED <<group, parent, left>>
      BY <2>1 DEF corrVars
    <3>3. PairsLeft' = PairsLeft /\ SeverityCounts' = SeverityCounts
      BY <2>1, <3>2 DEF PairsLeft, SeverityCounts
    <3>4. Incidents' = Incidents
      BY <3>2 DEF Incidents, Incident, Clusters, ClusterOf, Root, Above, Member, Fingerprint, RollUp
    <3> QED
      BY <1>0, <2>1, <3>1, <3>2, <3>3, <3>4 DEF AnswerInv
  <2> QED
    BY <2>2, <2>3, <2>4, <2>5 DEF PipelineInv
<1> QED
  BY <1>1, <1>2, <1>3, <1>4, <1>5, <1>6, <1>7, <1>8, <1>9, <1>10, <1>11, <1>12 DEF Next

\* The pipeline keeps its invariant (upload_log, _run_analysis_pipeline).
THEOREM PipelineInvariant == Spec => []PipelineInv
BY PipelineInitially, PipelineStep, PTL DEF Spec

-----------------------------------------------------------------------------

LEMMA TypesAreRight ==
  ASSUME PipelineInv
  PROVE  TypeOK
<1>0. FileInv /\ EventsInv /\ GraphInv /\ CorrelationInv /\ EventsAreWellFormed
  BY DEF PipelineInv, AnswerInv, EventsInv
<1>1. stage \in {"received", "parsing", "refused", "parsed", "drawing", "cutting", "correlating", "answered"}
  BY <1>0, StagesAre DEF FileInv
<1>2. mode \in {"idle", "probe", "ndjson", "peek", "load", "array", "concat", ".csv",
                "parsed", "rejected"} \cup RecordFormats
  BY <1>0 DEF FileInv, Modes
<1>3. Len(events) \in {0, Len(parsed)}
  <2>1. Len(<<>>) = 0
    OBVIOUS
  <2> QED
    BY <1>0, <2>1 DEF EventsInv
<1>4. parent \in [Member -> Member]
  BY <1>0 DEF CorrelationInv, CorrelationType
<1>5. PairsLeft => {left, right, a, b} \subseteq Member /\ left < right
  BY <1>0 DEF CorrelationInv, CorrelationType, PairsLeft, Member
<1>6. DrawingInv
  <2>1. NoGraph => DrawingInv
    <3> SUFFICES ASSUME NoGraph PROVE DrawingInv
      OBVIOUS
    <3>1. cursor = 0 /\ nodes = <<>> /\ edges = <<>> /\ Len(nodes) = 0
      BY DEF NoGraph
    <3>2. Drawable(nodes) /\ OneEach(nodes)
      <4>1. nodes \in Seq([id : {}, severity : Known])
        BY <3>1
      <4> QED
        BY <3>1, <4>1 DEF Drawable, OneEach
    <3>3. edges \in Seq(Ids(nodes) \X Ids(nodes))
      BY <3>1
    <3>4. cursor \in 0..Len(events)
      BY <1>0, <3>1 DEF EventsAreWellFormed, Dataset
    <3>5. \A i \in 1..cursor : Drawn(events[i], findings, nodes, edges)
      BY <3>1
    <3> QED
      BY <3>2, <3>3, <3>4, <3>5 DEF DrawingInv
  <2> QED
    BY <1>0, <2>1 DEF GraphInv, FileInv, AllStages
<1>7. cursor \in 0..Len(events)
  BY <1>6 DEF DrawingInv
<1>8. Cardinality(Ids(nodes)) = Len(nodes)
  <2> DEFINE D == 1..Len(nodes)
             id == [i \in D |-> nodes[i].id]
             I == Ids(nodes)
  <2>1. Drawable(nodes) /\ OneEach(nodes)
    BY <1>6 DEF DrawingInv
  <2>2. Len(nodes) \in Nat /\ \A x : x \in I <=> \E i \in D : nodes[i].id = x
    BY <2>1, DrawableNodes
  <2>3. IsFiniteSet(D) /\ Cardinality(D) = Len(nodes)
    BY <2>2, IntervalIsFinite
  <2>4. \A i, j \in D : nodes[i].id = nodes[j].id => i = j
    BY <2>1 DEF OneEach
  <2> HIDE DEF D, I
  <2>5. id \in Surjection(D, I) /\ id \in Injection(D, I)
    BY <2>2, <2>4 DEF Surjection, Injection, IsInjective
  <2> HIDE DEF id
  <2>6. Cardinality(I) = Cardinality(D)
    BY <2>3, <2>5, FS_Surjection
  <2> QED
    BY <2>3, <2>6 DEF I
<1>9. Cardinality(shown.edges) <= MaxEdges
  BY <1>0 DEF GraphInv
<1> QED
  BY <1>1, <1>2, <1>3, <1>4, <1>5, <1>7, <1>8, <1>9 DEF TypeOK

\* The stages of an upload, the parsers and the loops keep their types.
THEOREM TypeCorrect == Spec => []TypeOK
BY PipelineInvariant, TypesAreRight, PTL

LEMMA PipelineClusters == PipelineInv => TreesAreComponents
BY CorrelationIsRight DEF PipelineInv, AnswerInv

\* The clusters of every upload are the connected groups of its linked findings.
THEOREM UploadsAreClustered == Spec => []TreesAreComponents
BY PipelineInvariant, PipelineClusters, PTL

-----------------------------------------------------------------------------

\* What is there when the upload is answered.
LEMMA WhenAnswered ==
  ASSUME PipelineInv, Answered
  PROVE  /\ EventsAreWellFormed /\ findings = EvaluateAll(events)
         /\ ShowsAll(shown) /\ ShowsWorst(shown)
         /\ CorrelationInv /\ ~PairsLeft /\ group = InOrder(Actionable(findings))
         /\ answer.counts = SeverityCounts /\ answer.incidents = Incidents
BY StagesAre DEF PipelineInv, EventsInv, GraphInv, AnswerInv, Answered

LEMMA GroupIs ==
  ASSUME PipelineInv, Answered
  PROVE  /\ \A m \in Member : group[m] \in Actionable(findings)
         /\ \A f \in Actionable(findings) : \E m \in Member : group[m] = f
         /\ \A m, n \in Member : group[m] = group[n] => m = n
<1>1. /\ EventsAreWellFormed /\ findings = EvaluateAll(events)
      /\ group = InOrder(Actionable(findings))
  BY WhenAnswered
<1>2. LET list == InOrder(Actionable(findings)) IN
      /\ Len(list) \in Nat
      /\ \A n \in 1..Len(list) : list[n] \in Actionable(findings)
      /\ \A f \in Actionable(findings) : \E n \in 1..Len(list) : list[n] = f
      /\ \A m, n \in 1..Len(list) : list[m] = list[n] => m = n
  BY <1>1, ActionableList
<1> QED
  BY <1>1, <1>2 DEF Member

LEMMA ClustersArePartition ==
  /\ \A i \in Member : i \in ClusterOf(i) /\ ClusterOf(i) \subseteq Member
  /\ \A i, j, k : k \in ClusterOf(i) /\ k \in ClusterOf(j) => ClusterOf(i) = ClusterOf(j)
BY DEF ClusterOf

LEMMA IncidentsAre ==
  /\ \A inc : inc \in Incidents <=> \E i \in Member : inc = Incident(ClusterOf(i))
  /\ \A C : /\ Incident(C).members = C /\ Incident(C).severity = RollUp(C)
            /\ Incident(C).id = Fingerprint(C)
<1>1. \A inc : inc \in Incidents <=> \E i \in Member : inc = Incident(ClusterOf(i))
  BY DEF Incidents, Clusters
<1>2. \A C : /\ Incident(C).members = C /\ Incident(C).severity = RollUp(C)
             /\ Incident(C).id = Fingerprint(C)
  BY DEF Incident
<1> QED
  BY <1>1, <1>2

\* What is not benign is correlated.
LEMMA RankedAreActionable ==
  /\ \A s : Rank(s) > 0 <=> s \in DOMAIN SeverityRank \ {"benign"}
  /\ Rank("critical") = 4 /\ \A s : Rank(s) \in 0..4 /\ (Rank(s) = 4 => s = "critical")
  /\ \A s \in {"critical", "high", "medium", "low"} : s \in DOMAIN SeverityRank \ {"benign"}
BY DEF Rank, SeverityRank

\* A match has a finding that says so, and so do at most one of the findings.
LEMMA MatchIsTold ==
  ASSUME PipelineInv, Answered, NEW i \in DOMAIN events, NEW k \in Loaded,
         Matches(events[i], Playbook[k]), Rank(Playbook[k].severity) > 0
  PROVE  \E m \in Member : /\ Tells(group[m], events[i], Playbook[k])
                           /\ \A n \in Member : Tells(group[n], events[i], Playbook[k]) => n = m
<1> DEFINE ev == events[i]
           r == Playbook[k]
           f == FindingOf(ev, r, <<i, k>>)
<1>1. Dataset(events) /\ findings = EvaluateAll(events)
  BY WhenAnswered DEF EventsAreWellFormed
<1>2. f \in RawFindings(events)
  <2>1. f \in FindingsOfEvent(events, i)
    BY DEF FindingsOfEvent
  <2> HIDE DEF f
  <2>2. f \in RuleFindings(events)
    BY <2>1 DEF RuleFindings
  <2> QED
    BY <2>2, RawFindingsAre
<1>3. f.rule = r.id /\ f.guid = ev.guid /\ f.user = ev.user /\ f.host = ev.host /\ f.src = ev.src
  BY DEF FindingOf
<1> HIDE DEF f
<1>4. PICK g \in findings : ThreatKey(g) = ThreatKey(f)
  BY <1>1, <1>2, FindingsAre
<1>5. g.rule = r.id /\ g.guid = ev.guid /\ g.user = ev.user /\ g.host = ev.host /\ g.src = ev.src
  BY <1>3, <1>4 DEF ThreatKey
<1>6. g.severity = r.severity
  <2>1. g \in RawFindings(events)
    BY <1>1, FindingsAre
  <2> QED
    BY <1>5, <2>1, FindingsOfOneRule
<1>7. Tells(g, ev, r)
  BY <1>5, <1>6 DEF Tells
<1>8. g \in Actionable(findings)
  BY <1>6, RankedAreActionable DEF Actionable
<1>9. PICK m \in Member : group[m] = g
  BY <1>8, GroupIs
<1>10. ASSUME NEW n \in Member, Tells(group[n], ev, r) PROVE n = m
  <2>1. group[n] \in findings
    BY GroupIs DEF Actionable
  <2>2. ThreatKey(group[n]) = ThreatKey(g)
    BY <1>5, <1>10 DEF Tells, ThreatKey
  <2>3. group[n] = g
    BY <1>1, <2>1, <2>2, FindingsAre
  <2> QED
    BY <1>9, <2>3, GroupIs
<1> QED
  BY <1>7, <1>9, <1>10

\* The incidents hold all findings that are correlated.
LEMMA MembersAre ==
  ASSUME PipelineInv, Answered
  PROVE  UNION {inc.members : inc \in answer.incidents} = Member
<1>1. answer.incidents = Incidents
  BY WhenAnswered
<1>2. \A m : m \in UNION {inc.members : inc \in Incidents} <=> \E inc \in Incidents : m \in inc.members
  OBVIOUS
<1>3. \A m : (\E inc \in Incidents : m \in inc.members) <=> \E i \in Member : m \in ClusterOf(i)
  BY IncidentsAre
<1>4. \A m : (\E i \in Member : m \in ClusterOf(i)) <=> m \in Member
  BY ClustersArePartition
<1> QED
  BY <1>1, <1>2, <1>3, <1>4

\* As many findings of a severity as the stats bar says.
LEMMA CountsAreRight ==
  ASSUME PipelineInv, Answered, NEW s \in {"critical", "high", "medium", "low"}
  PROVE  Cardinality({f \in findings : f.severity = s}) = Cardinality({m \in Member : group[m].severity = s})
<1> DEFINE F == {f \in findings : f.severity = s}
           M == {m \in Member : group[m].severity = s}
           put == [m \in M |-> group[m]]
<1>1. \A f \in findings : f.severity = s => f \in Actionable(findings)
  BY RankedAreActionable DEF Actionable
<1>2. \A m \in M : group[m] \in F
  BY GroupIs DEF Actionable
<1>3. \A f \in F : \E m \in M : group[m] = f
  BY <1>1, GroupIs
<1>4. \A m, n \in M : group[m] = group[n] => m = n
  BY GroupIs
<1>5. IsFiniteSet(F)
  <2>1. IsFiniteSet(findings)
    BY WhenAnswered, FindingsAre DEF EventsAreWellFormed
  <2> QED
    BY <2>1, FS_Subset
<1> HIDE DEF F, M
<1>6. put \in Surjection(M, F) /\ put \in Injection(M, F)
  BY <1>2, <1>3, <1>4 DEF Surjection, Injection, IsInjective
<1> HIDE DEF put
<1>7. Cardinality(M) = Cardinality(F)
  BY <1>5, <1>6, FS_Injection
<1> QED
  BY <1>7 DEF M, F

LEMMA ThreatsAreOnTheBoard ==
  ASSUME PipelineInv
  PROVE  EveryThreatIsOnTheBoard
<1> SUFFICES ASSUME Answered PROVE EveryThreatIsOnTheBoard
  BY DEF EveryThreatIsOnTheBoard
<1>0. answer.incidents = Incidents /\ answer.counts = SeverityCounts
  BY WhenAnswered
<1>1. ASSUME NEW i \in DOMAIN events, NEW k \in Loaded,
             Matches(events[i], Playbook[k]), Rank(Playbook[k].severity) > 0
      PROVE  \E inc \in answer.incidents :
                /\ \E m \in inc.members : Tells(group[m], events[i], Playbook[k])
                /\ \A other \in answer.incidents \ {inc} :
                      \A m \in other.members : ~Tells(group[m], events[i], Playbook[k])
  <2>1. PICK m \in Member : /\ Tells(group[m], events[i], Playbook[k])
                            /\ \A n \in Member : Tells(group[n], events[i], Playbook[k]) => n = m
    BY <1>1, MatchIsTold
  <2> DEFINE inc == Incident(ClusterOf(m))
  <2>2. inc \in Incidents /\ inc.members = ClusterOf(m) /\ m \in inc.members
    BY IncidentsAre, ClustersArePartition
  <2> HIDE DEF inc
  <2>3. ASSUME NEW other \in Incidents, NEW n \in other.members, Tells(group[n], events[i], Playbook[k])
        PROVE  other = inc
    <3>1. PICK j \in Member : other = Incident(ClusterOf(j))
      BY IncidentsAre
    <3>2. n \in ClusterOf(j) /\ n \in Member
      BY <2>3, <3>1, IncidentsAre, ClustersArePartition
    <3>3. n = m
      BY <2>1, <2>3, <3>2
    <3>4. ClusterOf(j) = ClusterOf(m)
      BY <2>2, <3>2, <3>3, ClustersArePartition
    <3> QED
      BY <3>1, <3>4 DEF inc
  <2> QED
    BY <1>0, <2>1, <2>2, <2>3
<1>2. ASSUME NEW s \in DOMAIN answer.counts
      PROVE  answer.counts[s] =
                Cardinality({m \in UNION {inc.members : inc \in answer.incidents} : group[m].severity = s})
  <2>1. s \in {"critical", "high", "medium", "low"}
    BY <1>0 DEF SeverityCounts
  <2>2. answer.counts[s] = Cardinality({f \in findings : f.severity = s})
    BY <1>0, <2>1 DEF SeverityCounts
  <2> DEFINE U == UNION {inc.members : inc \in answer.incidents}
  <2>3. U = Member
    BY MembersAre
  <2> HIDE DEF U
  <2>4. answer.counts[s] = Cardinality({m \in U : group[m].severity = s})
    BY <2>1, <2>2, <2>3, CountsAreRight
  <2> QED
    BY <2>4 DEF U
<1> QED
  BY <1>1, <1>2 DEF EveryThreatIsOnTheBoard

LEMMA IdsAreDistinct ==
  ASSUME PipelineInv
  PROVE  IncidentIdsDistinct
<1> SUFFICES ASSUME Answered, NEW x \in answer.incidents, NEW y \in answer.incidents, x.id = y.id
             PROVE  x = y
  BY DEF IncidentIdsDistinct
<1>0. answer.incidents = Incidents /\ CorrelationInv /\ ~PairsLeft
  BY WhenAnswered
<1>1. PICK i \in Member : x = Incident(ClusterOf(i))
  BY <1>0, IncidentsAre
<1>2. PICK j \in Member : y = Incident(ClusterOf(j))
  BY <1>0, IncidentsAre
<1> DEFINE C == ClusterOf(i)
           D == ClusterOf(j)
           cs == {Identity(group[m]) : m \in C}
           ds == {Identity(group[m]) : m \in D}
<1>3. Fingerprint(C) = Fingerprint(D)
  BY <1>1, <1>2, IncidentsAre
<1>4. i \in C /\ j \in D /\ D \subseteq Member
  BY ClustersArePartition
<1>5. cs = ds
  <2>1. DOMAIN Fingerprint(C) = cs /\ DOMAIN Fingerprint(D) = ds
    BY DEF Fingerprint
  <2> QED
    BY <1>3, <2>1
<1> HIDE DEF C, D
<1>6. PICK n \in D : Identity(group[n]) = Identity(group[i])
  BY <1>4, <1>5
<1>7. Linked(group[i], group[n])
  <2>1. group[i].host = group[n].host /\ group[i].guid = group[n].guid
    BY <1>6 DEF Identity
  <2> QED
    BY <2>1 DEF Linked
<1>8. n \in Member
  BY <1>4
<1>9. n \in C
  BY <1>0, <1>7, <1>8, AllVisited, ClustersAreTrees DEF C
<1>10. C = D
  BY <1>9, ClustersArePartition DEF C, D
<1> QED
  BY <1>1, <1>2, <1>10 DEF C, D

LEMMA CompromisesAreCritical ==
  ASSUME PipelineInv
  PROVE  CompromiseIsCritical
<1> SUFFICES ASSUME Answered, NEW i \in DOMAIN events, NEW s \in events[i].src,
                    NEW j \in DOMAIN events, LoggedInAfter(s, j)
             PROVE  \E inc \in answer.incidents :
                       /\ inc.severity = "critical"
                       /\ \E m \in inc.members :
                             /\ s \in group[m].src
                             /\ group[m].severity = "critical"
                             /\ \A n \in Successes(events, s) : events[n].user \subseteq group[m].user
  BY DEF CompromiseIsCritical
<1>0. answer.incidents = Incidents /\ Dataset(events) /\ findings = EvaluateAll(events)
  BY WhenAnswered DEF EventsAreWellFormed
<1>1. Successes(events, s) # {} /\ ~ (Cardinality(InvalidFailures(events, s)) < EnumerationSize)
  <2> DEFINE V == InvalidFailures(events, s)
             W == {k \in V : NoLater(events, k, j)}
  <2>1. j \in Successes(events, s) /\ Cardinality(W) >= EnumerationSize
    BY DEF LoggedInAfter
  <2>2. V \subseteq 1..Len(events) /\ Len(events) \in Nat
    BY <1>0 DEF InvalidFailures, Logins, Dataset
  <2>3. W \subseteq V
    OBVIOUS
  <2> HIDE DEF V, W
  <2>4. IsFiniteSet(V)
    BY <2>2, IntervalIsFinite, FS_Subset
  <2>5. Cardinality(W) <= Cardinality(V) /\ IsFiniteSet(W)
    BY <2>3, <2>4, FS_Subset
  <2>6. Cardinality(W) \in Nat /\ Cardinality(V) \in Nat /\ EnumerationSize \in Nat
    BY <2>4, <2>5, FS_CardinalityType, ThreatRulesAssumption
  <2>7. ~ (Cardinality(V) < EnumerationSize)
    BY <2>1, <2>5, <2>6
  <2> QED
    BY <2>1, <2>7 DEF V
<1>2. PICK f \in RawFindings(events) : /\ f.rule = "TH-CORR-001" /\ f.src = {s}
                                       /\ f.user = Accounts(events, Successes(events, s))
  BY <1>1, CompromiseIsFound
<1>3. PICK g \in findings : ThreatKey(g) = ThreatKey(f)
  BY <1>0, FindingsAre
<1>4. g.rule = "TH-CORR-001" /\ g.src = {s} /\ g.user = Accounts(events, Successes(events, s))
  BY <1>2, <1>3 DEF ThreatKey
<1>5. g.severity = "critical"
  BY <1>0, <1>4, FindingsAre, LoginFindingIsCritical
<1>6. g \in Actionable(findings)
  BY <1>5, RankedAreActionable DEF Actionable
<1>7. PICK m \in Member : group[m] = g
  BY <1>6, GroupIs
<1> DEFINE C == ClusterOf(m)
           inc == Incident(C)
<1>8. inc \in Incidents /\ inc.members = C /\ inc.severity = RollUp(C) /\ m \in C
  BY IncidentsAre, ClustersArePartition
<1> HIDE DEF C, inc
<1>9. RollUp(C) = "critical"
  <2> DEFINE worst(x) == \A n \in C : Rank(group[x].severity) >= Rank(group[n].severity)
             best == CHOOSE x \in C : worst(x)
  <2>1. worst(m)
    BY <1>5, <1>7, RankedAreActionable
  <2>2. best \in C /\ worst(best)
    BY <1>8, <2>1
  <2>3. RollUp(C) = group[best].severity
    BY DEF RollUp
  <2> HIDE DEF best
  <2>4. Rank(group[best].severity) >= Rank(group[m].severity)
    BY <1>8, <2>2
  <2> QED
    BY <1>5, <1>7, <2>3, <2>4, RankedAreActionable
<1>10. \A n \in Successes(events, s) : events[n].user \subseteq g.user
  BY <1>4 DEF Accounts
<1> QED
  BY <1>0, <1>4, <1>5, <1>7, <1>8, <1>9, <1>10

LEMMA GraphTellsTheTruth ==
  ASSUME PipelineInv
  PROVE  HiddenOnlyWhenFlagged /\ WorstProcessesSurvive
<1>1. HiddenOnlyWhenFlagged
  BY WhenAnswered DEF HiddenOnlyWhenFlagged, ShowsAll
<1>2. WorstProcessesSurvive
  BY WhenAnswered DEF WorstProcessesSurvive, ShowsWorst, Crowded, CrowdedIn
<1> QED
  BY <1>1, <1>2

\* Every match is in one incident and in no other, and the stats bar counts what
\* the incidents hold (evaluate_all, correlate_findings).
THEOREM NoThreatIsLost == Spec => []EveryThreatIsOnTheBoard
BY PipelineInvariant, ThreatsAreOnTheBoard, PTL

\* Two incidents of a dataset never share a fingerprint (_incident_fingerprint).
THEOREM FingerprintsTellApart == Spec => []IncidentIdsDistinct
BY PipelineInvariant, IdsAreDistinct, PTL

\* A source that guessed names and then logged in is in a critical incident
\* (the correlation of SSH logins, and the removal of repeated findings).
THEOREM CompromisesAreRaised == Spec => []CompromiseIsCritical
BY PipelineInvariant, CompromisesAreCritical, PTL

\* A graph that is not marked as truncated shows every event (build_graph).
THEOREM GraphIsComplete == Spec => []HiddenOnlyWhenFlagged
BY PipelineInvariant, GraphTellsTheTruth, PTL

\* What a truncated graph leaves out is no worse than what it shows (build_graph).
THEOREM GraphKeepsTheWorst == Spec => []WorstProcessesSurvive
BY PipelineInvariant, GraphTellsTheTruth, PTL

(***************************************************************************)
(* Sequences put together.                                                 *)
(***************************************************************************)

\* A sequence, whatever is in it.
List(s) == \E T : s \in Seq(T)

\* A sequence of sequences.
Pile(ss) == List(ss) /\ \A i \in 1..Len(ss) : List(ss[i])

LEMMA ListHas ==
  ASSUME NEW s, List(s)
  PROVE  /\ Len(s) \in Nat /\ DOMAIN s = 1..Len(s)
         /\ s = [i \in 1..Len(s) |-> s[i]]
         /\ s = <<>> <=> Len(s) = 0
<1>1. PICK T : s \in Seq(T)
  BY DEF List
<1> QED
  BY <1>1

LEMMA ListMade ==
  ASSUME NEW n \in Nat, NEW s, DOMAIN s = 1..n, s = [i \in 1..n |-> s[i]]
  PROVE  List(s) /\ Len(s) = n
<1> DEFINE T == {s[i] : i \in 1..n}
<1>1. \A i \in 1..n : s[i] \in T
  OBVIOUS
<1> HIDE DEF T
<1>2. s \in Seq(T)
  BY <1>1
<1> QED
  BY <1>2 DEF List

\* Sequences are equal when they have the same length and elements.
LEMMA ListsEqual ==
  ASSUME NEW s, List(s), NEW t, List(t), Len(s) = Len(t), \A i \in 1..Len(s) : s[i] = t[i]
  PROVE  s = t
<1>1. s = [i \in 1..Len(s) |-> s[i]] /\ t = [i \in 1..Len(t) |-> t[i]]
  BY ListHas
<1>2. s = [i \in 1..Len(s) |-> t[i]]
  BY <1>1
<1> QED
  BY <1>1, <1>2

\* t is what s has from place m to place n.
IsPart(t, s, m, n) ==
    /\ List(t) /\ Len(t) = n - m + 1
    /\ \A i \in 1..(n - m + 1) : t[i] = s[m + i - 1]

LEMMA SubSeqIs ==
  ASSUME NEW s, List(s), NEW m \in 1..(Len(s) + 1), NEW n \in (m - 1)..Len(s)
  PROVE  IsPart(SubSeq(s, m, n), s, m, n)
<1>1. PICK T : s \in Seq(T)
  BY DEF List
<1>2. SubSeq(s, m, n) \in Seq(T)
  BY <1>1
<1>3. Len(SubSeq(s, m, n)) = n - m + 1
  BY <1>1
<1>4. \A i \in 1..(n - m + 1) : SubSeq(s, m, n)[i] = s[m + i - 1]
  BY <1>1
<1>5. List(SubSeq(s, m, n))
  BY <1>2 DEF List
<1> QED
  BY <1>3, <1>4, <1>5 DEF IsPart

LEMMA HeadTail ==
  ASSUME NEW s, List(s), s # <<>>
  PROVE  /\ Len(s) >= 1 /\ Head(s) = s[1]
         /\ List(Tail(s)) /\ Len(Tail(s)) = Len(s) - 1
         /\ \A i \in 1..(Len(s) - 1) : Tail(s)[i] = s[i + 1]
<1>1. PICK S : s \in Seq(S)
  BY DEF List
<1>2. Tail(s) \in Seq(S)
  BY <1>1
<1> QED
  BY <1>1, <1>2 DEF List

\* What is left of a sequence after its first k elements.
From(s, k) == SubSeq(s, k + 1, Len(s))

LEMMA FromIs ==
  ASSUME NEW s, List(s), NEW k \in 0..Len(s)
  PROVE  /\ List(From(s, k)) /\ Len(From(s, k)) = Len(s) - k
         /\ \A i \in 1..(Len(s) - k) : From(s, k)[i] = s[k + i]
<1>1. Len(s) \in Nat /\ k \in Nat /\ k + 1 \in 1..(Len(s) + 1) /\ Len(s) \in ((k + 1) - 1)..Len(s)
  BY ListHas
<1>2. IsPart(From(s, k), s, k + 1, Len(s))
  BY <1>1, SubSeqIs DEF From
<1>3. Len(s) - (k + 1) + 1 = Len(s) - k /\ \A i \in 1..(Len(s) - k) : (k + 1) + i - 1 = k + i
  BY <1>1
<1> QED
  BY <1>2, <1>3 DEF IsPart

LEMMA FromStart ==
  ASSUME NEW s, List(s)
  PROVE  From(s, 0) = s
<1>1. 0 \in 0..Len(s) /\ Len(s) - 0 = Len(s) /\ \A i \in 1..Len(s) : 0 + i = i
  BY ListHas
<1>2. /\ List(From(s, 0)) /\ Len(From(s, 0)) = Len(s) - 0
      /\ \A i \in 1..(Len(s) - 0) : From(s, 0)[i] = s[0 + i]
  BY <1>1, FromIs
<1>3. Len(From(s, 0)) = Len(s) /\ \A i \in 1..Len(s) : From(s, 0)[i] = s[i]
  BY <1>1, <1>2
<1> QED
  BY <1>2, <1>3, ListsEqual

LEMMA FromFrom ==
  ASSUME NEW s, List(s), NEW k \in 0..Len(s), NEW j \in 0..(Len(s) - k)
  PROVE  From(From(s, k), j) = From(s, k + j)
<1> DEFINE t == From(s, k)
           u == From(t, j)
           w == From(s, k + j)
<1>1. /\ k \in Nat /\ j \in Nat /\ Len(s) \in Nat /\ k + j \in 0..Len(s)
  BY ListHas
<1>2. /\ List(t) /\ Len(t) = Len(s) - k
      /\ \A i \in 1..(Len(s) - k) : t[i] = s[k + i]
  BY FromIs
<1>3. /\ List(w) /\ Len(w) = Len(s) - (k + j)
      /\ \A i \in 1..(Len(s) - (k + j)) : w[i] = s[(k + j) + i]
  BY <1>1, FromIs
<1> HIDE DEF t, w
<1>4. j \in 0..Len(t)
  BY <1>2
<1>5. /\ List(u) /\ Len(u) = Len(t) - j
      /\ \A i \in 1..(Len(t) - j) : u[i] = t[j + i]
  BY <1>2, <1>4, FromIs
<1> HIDE DEF u
<1>6. Len(u) = Len(w)
  BY <1>1, <1>2, <1>3, <1>5
<1>7. ASSUME NEW i \in 1..Len(u) PROVE u[i] = w[i]
  <2>1. /\ i \in 1..(Len(t) - j) /\ i \in 1..(Len(s) - (k + j)) /\ j + i \in 1..(Len(s) - k)
        /\ k + (j + i) = (k + j) + i
    BY <1>1, <1>2, <1>5
  <2>2. u[i] = t[j + i] /\ t[j + i] = s[k + (j + i)] /\ w[i] = s[(k + j) + i]
    BY <1>2, <1>3, <1>5, <2>1
  <2> QED
    BY <2>1, <2>2
<1>8. u = w
  BY <1>3, <1>5, <1>6, <1>7, ListsEqual
<1> QED
  BY <1>8 DEF t, u, w

LEMMA TailIsFrom ==
  ASSUME NEW s, List(s), s # <<>>
  PROVE  Tail(s) = From(s, 1)
<1>1. /\ Len(s) \in Nat /\ Len(s) >= 1 /\ 1 \in 0..Len(s)
      /\ List(Tail(s)) /\ Len(Tail(s)) = Len(s) - 1
      /\ \A i \in 1..(Len(s) - 1) : Tail(s)[i] = s[i + 1]
  BY ListHas, HeadTail
<1>2. /\ List(From(s, 1)) /\ Len(From(s, 1)) = Len(s) - 1
      /\ \A i \in 1..(Len(s) - 1) : From(s, 1)[i] = s[1 + i]
  BY <1>1, FromIs
<1>3. \A i \in 1..Len(Tail(s)) : Tail(s)[i] = From(s, 1)[i]
  BY <1>1, <1>2
<1> QED
  BY <1>1, <1>2, <1>3, ListsEqual

\* One element more is read.
LEMMA FromTail ==
  ASSUME NEW s, List(s), NEW k \in 0..Len(s), From(s, k) # <<>>
  PROVE  /\ k < Len(s) /\ k + 1 \in 1..Len(s)
         /\ Head(From(s, k)) = s[k + 1] /\ Tail(From(s, k)) = From(s, k + 1)
<1> DEFINE t == From(s, k)
<1>1. /\ k \in Nat /\ Len(s) \in Nat
      /\ List(t) /\ Len(t) = Len(s) - k
      /\ \A i \in 1..(Len(s) - k) : t[i] = s[k + i]
  BY ListHas, FromIs
<1>2. t # <<>>
  OBVIOUS
<1> HIDE DEF t
<1>3. Len(t) >= 1 /\ Head(t) = t[1] /\ Tail(t) = From(t, 1)
  BY <1>1, <1>2, HeadTail, TailIsFrom
<1>4. k < Len(s) /\ 1 \in 1..(Len(s) - k) /\ 1 \in 0..(Len(s) - k)
  BY <1>1, <1>3
<1>5. From(t, 1) = From(s, k + 1)
  BY <1>4, FromFrom DEF t
<1>6. t[1] = s[k + 1]
  BY <1>1, <1>4
<1> QED
  BY <1>1, <1>3, <1>4, <1>5, <1>6 DEF t

LEMMA ConcatIs ==
  ASSUME NEW s, List(s), NEW t, List(t)
  PROVE  /\ List(s \o t) /\ Len(s \o t) = Len(s) + Len(t)
         /\ \A i \in 1..Len(s) : (s \o t)[i] = s[i]
         /\ \A i \in 1..Len(t) : (s \o t)[Len(s) + i] = t[i]
<1>1. PICK S : s \in Seq(S)
  BY DEF List
<1>2. PICK T : t \in Seq(T)
  BY DEF List
<1> DEFINE U == S \cup T
<1>3. s \in Seq(U) /\ t \in Seq(U)
  BY <1>1, <1>2
<1> HIDE DEF U
<1>4. s \o t \in Seq(U)
  BY <1>3
<1> QED
  BY <1>3, <1>4 DEF List

LEMMA AppendIs ==
  ASSUME NEW s, List(s), NEW x
  PROVE  /\ List(Append(s, x)) /\ Len(Append(s, x)) = Len(s) + 1 /\ Append(s, x)[Len(s) + 1] = x
         /\ \A i \in 1..Len(s) : Append(s, x)[i] = s[i]
<1>1. PICK S : s \in Seq(S)
  BY DEF List
<1> DEFINE T == S \cup {x}
<1>2. s \in Seq(T) /\ x \in T
  BY <1>1
<1> HIDE DEF T
<1>3. Append(s, x) \in Seq(T)
  BY <1>2
<1> QED
  BY <1>2, <1>3 DEF List

Slots(ss, i) == UNION {{j} \X DOMAIN ss[j] : j \in 1..(i - 1)}

\* What holds at the start and goes on holding, holds.
LEMMA Forever ==
  ASSUME NEW S, 0 \in S, \A n \in Nat : n \in S => n + 1 \in S
  PROVE  Nat \subseteq S
<1> SUFFICES ASSUME NEW x \in Nat, x \notin S PROVE FALSE
  OBVIOUS
<1> DEFINE B == {n \in Nat : n \notin S}
<1>1. B \in SUBSET Nat /\ B # {}
  OBVIOUS
<1> HIDE DEF B
<1>2. PICK m \in B : \A n \in B : m <= n
  BY <1>1, LeastNatural
<1>3. m \in Nat /\ m \notin S /\ m # 0
  BY <1>2 DEF B
<1>4. m - 1 \in Nat /\ m - 1 \notin B
  BY <1>2, <1>3
<1>5. m - 1 \in S
  BY <1>4 DEF B
<1>6. (m - 1) + 1 \in S
  BY <1>4, <1>5
<1> QED
  BY <1>3, <1>6

LEMMA SlotsGrow ==
  ASSUME NEW ss, Pile(ss), NEW i \in 1..Len(ss), IsFiniteSet(Slots(ss, i))
  PROVE  /\ IsFiniteSet(Slots(ss, i + 1))
         /\ Cardinality(Slots(ss, i + 1)) = Cardinality(Slots(ss, i)) + Len(ss[i])
<1> DEFINE D == DOMAIN ss[i]
           New == {i} \X D
<1>1. i \in Nat /\ Len(ss[i]) \in Nat /\ D = 1..Len(ss[i])
  BY DEF Pile, List
<1>2. IsFiniteSet(D) /\ Cardinality(D) = Len(ss[i])
  BY <1>1, IntervalIsFinite
<1>3. 1..((i + 1) - 1) = 1..(i - 1) \cup {i}
  BY <1>1
<1>4. Slots(ss, i + 1) = Slots(ss, i) \cup New
  <2>1. \A x : x \in Slots(ss, i + 1) <=> \E j \in 1..((i + 1) - 1) : x \in {j} \X DOMAIN ss[j]
    BY DEF Slots
  <2>2. \A x : x \in Slots(ss, i) <=> \E j \in 1..(i - 1) : x \in {j} \X DOMAIN ss[j]
    BY DEF Slots
  <2> QED
    BY <1>3, <2>1, <2>2
<1>5. Slots(ss, i) \cap New = {}
  <2>1. \A x \in Slots(ss, i) : \E j \in 1..(i - 1) : x \in {j} \X DOMAIN ss[j]
    BY DEF Slots
  <2>2. \A x \in Slots(ss, i) : x[1] \in 1..(i - 1)
    BY <2>1
  <2>3. \A x \in New : x[1] = i
    OBVIOUS
  <2> QED
    BY <1>1, <2>2, <2>3
<1>6. IsFiniteSet({i}) /\ Cardinality({i}) = 1
  BY FS_Singleton
<1> HIDE DEF D
<1>7. IsFiniteSet(New) /\ Cardinality(New) = 1 * Cardinality(D)
  BY <1>2, <1>6, FS_Product
<1>8. Cardinality(New) = Len(ss[i])
  BY <1>1, <1>2, <1>7
<1> HIDE DEF New
<1>9. /\ IsFiniteSet(Slots(ss, i) \cup New)
      /\ Cardinality(Slots(ss, i) \cup New) =
            Cardinality(Slots(ss, i)) + Cardinality(New) - Cardinality(Slots(ss, i) \cap New)
  BY <1>7, FS_Union
<1>10. Cardinality(Slots(ss, i) \cap New) = 0 /\ Cardinality(Slots(ss, i)) \in Nat
  BY <1>5, FS_EmptySet, FS_CardinalityType
<1>11. IsFiniteSet(Slots(ss, i + 1))
  BY <1>4, <1>9
<1>12. Cardinality(Slots(ss, i + 1)) =
          Cardinality(Slots(ss, i)) + Cardinality(New) - Cardinality(Slots(ss, i) \cap New)
  BY <1>4, <1>9
<1>13. Cardinality(Slots(ss, i + 1)) = Cardinality(Slots(ss, i)) + Len(ss[i])
  BY <1>1, <1>8, <1>10, <1>12
<1> QED
  BY <1>11, <1>13

\* Each piece begins where the one before it ends.
LEMMA Offsets ==
  ASSUME NEW ss, Pile(ss)
  PROVE  /\ Offset(ss, 1) = 0
         /\ \A i \in 1..(Len(ss) + 1) : Offset(ss, i) \in Nat
         /\ \A i \in 1..Len(ss) : Offset(ss, i + 1) = Offset(ss, i) + Len(ss[i])
         /\ \A i, j \in 1..(Len(ss) + 1) : i <= j => Offset(ss, i) <= Offset(ss, j)
<1> DEFINE S == {n \in Nat : n <= Len(ss) => IsFiniteSet(Slots(ss, n + 1))}
<1>0. Len(ss) \in Nat /\ \A i \in 1..Len(ss) : Len(ss[i]) \in Nat
  BY DEF Pile, List
<1>1. Slots(ss, 1) = {}
  BY DEF Slots
<1>2. 0 \in S
  BY <1>1, FS_EmptySet
<1>3. ASSUME NEW n \in Nat, n \in S PROVE n + 1 \in S
  <2>1. CASE n + 1 <= Len(ss)
    <3>1. n + 1 \in 1..Len(ss) /\ IsFiniteSet(Slots(ss, n + 1))
      BY <1>0, <1>3, <2>1
    <3>2. IsFiniteSet(Slots(ss, (n + 1) + 1))
      BY <3>1, SlotsGrow
    <3> QED
      BY <3>2
  <2>2. CASE ~(n + 1 <= Len(ss))
    BY <2>2
  <2> QED
    BY <2>1, <2>2
<1> HIDE DEF S
<1>4. Nat \subseteq S
  BY <1>2, <1>3, Forever
<1>5. ASSUME NEW i \in 1..(Len(ss) + 1) PROVE IsFiniteSet(Slots(ss, i)) /\ Offset(ss, i) \in Nat
  <2>1. i - 1 \in Nat /\ i - 1 <= Len(ss) /\ (i - 1) + 1 = i
    BY <1>0
  <2>2. IsFiniteSet(Slots(ss, (i - 1) + 1))
    BY <1>4, <2>1 DEF S
  <2>3. Cardinality(Slots(ss, i)) \in Nat
    BY <2>1, <2>2, FS_CardinalityType
  <2> QED
    BY <2>1, <2>2, <2>3 DEF Offset, Slots
<1>6. \A i : Offset(ss, i) = Cardinality(Slots(ss, i))
  BY DEF Offset, Slots
<1>7. ASSUME NEW i \in 1..Len(ss) PROVE Offset(ss, i + 1) = Offset(ss, i) + Len(ss[i])
  <2>1. i \in 1..(Len(ss) + 1)
    BY <1>0
  <2> QED
    BY <1>5, <1>6, <2>1, SlotsGrow
<1>8. ASSUME NEW i \in 1..(Len(ss) + 1), NEW j \in 1..(Len(ss) + 1), i <= j
      PROVE  Offset(ss, i) <= Offset(ss, j)
  <2>1. 1..(i - 1) \subseteq 1..(j - 1)
    BY <1>0, <1>8
  <2>2. Slots(ss, i) \subseteq Slots(ss, j)
    BY <2>1 DEF Slots
  <2> QED
    BY <1>5, <1>6, <2>2, FS_Subset
<1> QED
  BY <1>1, <1>5, <1>6, <1>7, <1>8, FS_EmptySet

\* Every place of the whole is in one piece.
LEMMA PieceAt ==
  ASSUME NEW ss, Pile(ss), NEW n \in 1..Offset(ss, Len(ss) + 1)
  PROVE  \E i \in 1..Len(ss) : Offset(ss, i) < n /\ n <= Offset(ss, i + 1)
<1> DEFINE J == {j \in 1..(Len(ss) + 1) : n <= Offset(ss, j)}
<1>0. Len(ss) \in Nat
  BY DEF Pile, List
<1>1. /\ Offset(ss, 1) = 0
      /\ \A i \in 1..(Len(ss) + 1) : Offset(ss, i) \in Nat
  BY Offsets
<1>2. Len(ss) + 1 \in J /\ J \in SUBSET Nat
  BY <1>0, <1>1
<1> HIDE DEF J
<1>3. PICK j \in J : \A k \in J : j <= k
  BY <1>2, LeastNatural
<1>4. j \in 1..(Len(ss) + 1) /\ n <= Offset(ss, j)
  BY <1>3 DEF J
<1>5. j # 1
  BY <1>0, <1>1, <1>4
<1>6. j - 1 \in 1..Len(ss) /\ (j - 1) + 1 = j /\ j - 1 \notin J
  BY <1>0, <1>3, <1>4, <1>5
<1>7. j - 1 \in 1..(Len(ss) + 1)
  BY <1>0, <1>6
<1>8. ~(n <= Offset(ss, j - 1))
  BY <1>6, <1>7 DEF J
<1>9. Offset(ss, j - 1) < n
  BY <1>0, <1>1, <1>7, <1>8
<1> QED
  BY <1>4, <1>6, <1>9

LEMMA FlatIs ==
  ASSUME NEW ss, Pile(ss)
  PROVE  /\ List(Flat(ss)) /\ Len(Flat(ss)) = Offset(ss, Len(ss) + 1)
         /\ \A i \in 1..Len(ss) : \A k \in 1..Len(ss[i]) :
               /\ Offset(ss, i) + k \in 1..Len(Flat(ss))
               /\ Flat(ss)[Offset(ss, i) + k] = ss[i][k]
<1> DEFINE N == Len(ss)
           start == [i \in 1..(N + 1) |-> Offset(ss, i)]
           PieceOf(n) == CHOOSE j \in DOMAIN ss : start[j] < n /\ n <= start[j + 1]
           whole == [n \in 1..start[N + 1] |-> ss[PieceOf(n)][n - start[PieceOf(n)]]]
<1>0. N \in Nat /\ DOMAIN ss = 1..N /\ \A i \in 1..N : Len(ss[i]) \in Nat
  BY DEF Pile, List
<1>1. /\ \A i \in 1..(N + 1) : start[i] = Offset(ss, i) /\ start[i] \in Nat
      /\ \A i \in 1..N : i \in 1..(N + 1) /\ i + 1 \in 1..(N + 1)
      /\ \A i \in 1..N : start[i + 1] = start[i] + Len(ss[i])
      /\ \A i, j \in 1..(N + 1) : i <= j => start[i] <= start[j]
  BY <1>0, Offsets
<1>2. Flat(ss) = whole
  BY DEF Flat
<1>3. N + 1 \in 1..(N + 1)
  BY <1>0
<1> HIDE DEF start
<1>4. List(whole) /\ Len(whole) = start[N + 1]
  <2> DEFINE M == start[N + 1]
  <2>1. M \in Nat /\ whole = [n \in 1..M |-> ss[PieceOf(n)][n - start[PieceOf(n)]]]
    BY <1>1, <1>3
  <2> HIDE DEF M, PieceOf, whole
  <2>2. DOMAIN whole = 1..M /\ whole = [n \in 1..M |-> whole[n]]
    BY <2>1
  <2>3. List(whole) /\ Len(whole) = M
    BY <2>1, <2>2, ListMade
  <2> QED
    BY <2>3 DEF M
<1>5. ASSUME NEW i \in 1..N, NEW k \in 1..Len(ss[i])
      PROVE  start[i] + k \in 1..start[N + 1] /\ whole[start[i] + k] = ss[i][k]
  <2> DEFINE n == start[i] + k
  <2>1. start[i] \in Nat /\ k \in Nat /\ start[i] < n /\ n <= start[i + 1]
    BY <1>0, <1>1
  <2>2. start[i + 1] <= start[N + 1] /\ start[N + 1] \in Nat
    BY <1>0, <1>1, <1>3
  <2>3. n \in 1..start[N + 1]
    BY <1>1, <2>1, <2>2
  <2>4. ASSUME NEW j \in 1..N, start[j] < n, n <= start[j + 1] PROVE j = i
    <3>1. CASE j < i
      <4>1. j + 1 <= i
        BY <1>0, <3>1
      <4>2. start[j + 1] <= start[i] /\ start[j + 1] \in Nat
        BY <1>1, <4>1
      <4> QED
        BY <2>1, <2>4, <4>2
    <3>2. CASE i < j
      <4>1. i + 1 <= j
        BY <1>0, <3>2
      <4>2. start[i + 1] <= start[j] /\ start[j] \in Nat /\ start[i + 1] \in Nat
        BY <1>1, <4>1
      <4> QED
        BY <2>1, <2>4, <4>2
    <3> QED
      BY <1>0, <3>1, <3>2
  <2> HIDE DEF n
  <2>5. PieceOf(n) = i
    BY <1>0, <2>1, <2>4
  <2> HIDE DEF PieceOf
  <2>6. whole[n] = ss[i][n - start[i]]
    BY <2>3, <2>5
  <2>7. n - start[i] = k
    BY <2>1 DEF n
  <2> QED
    BY <2>3, <2>6, <2>7 DEF n
<1> HIDE DEF whole
<1>6. \A i \in 1..N : start[i] = Offset(ss, i)
  BY <1>1
<1>7. start[N + 1] = Offset(ss, N + 1)
  BY <1>1, <1>3
<1> QED
  BY <1>2, <1>4, <1>5, <1>6, <1>7

\* Pieces of one element each.
LEMMA RunOfOnes ==
  ASSUME NEW ss, Pile(ss), NEW i \in 1..(Len(ss) + 1), NEW m \in i..(Len(ss) + 1),
         \A j \in i..(m - 1) : Len(ss[j]) = 1
  PROVE  Offset(ss, m) = Offset(ss, i) + (m - i)
<1> DEFINE S == {n \in Nat : i + n <= m => Offset(ss, i + n) = Offset(ss, i) + n}
<1>0. Len(ss) \in Nat /\ i \in Nat /\ m \in Nat /\ i <= m /\ m <= Len(ss) + 1 /\ 1 <= i
  BY DEF Pile, List
<1>1. 0 \in S
  <2>1. Offset(ss, i) \in Nat /\ i + 0 = i
    BY <1>0, Offsets
  <2> QED
    BY <2>1
<1>2. ASSUME NEW n \in Nat, n \in S PROVE n + 1 \in S
  <2>1. CASE i + (n + 1) <= m
    <3>1. i + n \in i..(m - 1) /\ i + n \in 1..Len(ss) /\ i + n <= m /\ i + (n + 1) = (i + n) + 1
      BY <1>0, <2>1
    <3>2. Offset(ss, (i + n) + 1) = Offset(ss, i + n) + Len(ss[i + n])
      BY <3>1, Offsets
    <3>3. Offset(ss, i) \in Nat
      BY Offsets
    <3>4. Offset(ss, i + n) = Offset(ss, i) + n /\ Len(ss[i + n]) = 1
      BY <1>2, <3>1
    <3>5. Offset(ss, i + (n + 1)) = Offset(ss, i) + (n + 1)
      BY <3>1, <3>2, <3>3, <3>4
    <3> QED
      BY <3>5
  <2>2. CASE ~(i + (n + 1) <= m)
    BY <2>2
  <2> QED
    BY <2>1, <2>2
<1> HIDE DEF S
<1>3. m - i \in S
  BY <1>0, <1>1, <1>2, Forever
<1>4. i + (m - i) = m
  BY <1>0
<1> QED
  BY <1>0, <1>3, <1>4 DEF S

(***************************************************************************)
(* The columns of a CSV file.                                              *)
(***************************************************************************)

\* A row that is as wide as the exporter makes it.
IsRow(header, row) ==
    /\ row.values \in [1..Len(header) -> Nat \ {0}]
    /\ row.missing \in 0..Len(header)

\* The values of its column i, and what the exporter writes.
Value(header, row, i) == [k \in 1..row.values[i] |-> <<header[i], k>>]

Columns(header, row) == [i \in 1..(Len(header) - row.missing) |-> Value(header, row, i)]

\* Under column i of the row are its own values.
Keeps(header, row, i) ==
    Realigned(header, Flat(Columns(header, row)))[i] = Value(header, row, i)

LEMMA ValueIs ==
  ASSUME NEW header, NEW row, NEW i, row.values[i] \in Nat
  PROVE  /\ List(Value(header, row, i)) /\ Len(Value(header, row, i)) = row.values[i]
         /\ \A k \in 1..row.values[i] : Value(header, row, i)[k] = <<header[i], k>>
<1> DEFINE v == row.values[i]
           own == Value(header, row, i)
<1>1. v \in Nat /\ own = [k \in 1..v |-> <<header[i], k>>]
  BY DEF Value
<1> HIDE DEF v, own
<1>2. DOMAIN own = 1..v /\ own = [k \in 1..v |-> own[k]] /\ \A k \in 1..v : own[k] = <<header[i], k>>
  BY <1>1
<1>3. List(own) /\ Len(own) = v
  BY <1>1, <1>2, ListMade
<1> QED
  BY <1>2, <1>3 DEF v, own

LEMMA OneValue ==
  ASSUME NEW header, NEW row, NEW i, row.values[i] = 1
  PROVE  Value(header, row, i) = << <<header[i], 1>> >>
<1>1. Value(header, row, i) = [k \in 1..1 |-> <<header[i], k>>]
  BY DEF Value
<1> QED
  BY <1>1

LEMMA ColumnsAre ==
  ASSUME NEW header, List(header), NEW row, IsRow(header, row)
  PROVE  /\ Pile(Columns(header, row))
         /\ Len(Columns(header, row)) = Len(header) - row.missing
         /\ Len(Columns(header, row)) \in Nat
         /\ \A i \in 1..Len(Columns(header, row)) :
               /\ row.values[i] \in Nat /\ row.values[i] >= 1
               /\ Columns(header, row)[i] = Value(header, row, i)
               /\ Len(Columns(header, row)[i]) = row.values[i]
<1> DEFINE N == Len(header) - row.missing
           ss == Columns(header, row)
<1>1. N \in Nat /\ N <= Len(header) /\ Len(header) \in Nat
  BY ListHas DEF IsRow
<1>2. ss = [i \in 1..N |-> Value(header, row, i)]
  BY DEF Columns
<1>3. \A i \in 1..N : row.values[i] \in Nat /\ row.values[i] >= 1
  BY <1>1 DEF IsRow
<1> HIDE DEF N, ss
<1>4. List(ss) /\ Len(ss) = N
  <2>1. DOMAIN ss = 1..N /\ ss = [i \in 1..N |-> ss[i]]
    BY <1>2
  <2> QED
    BY <1>1, <2>1, ListMade
<1>5. \A i \in 1..N : ss[i] = Value(header, row, i)
  BY <1>2
<1>6. \A i \in 1..N : List(ss[i]) /\ Len(ss[i]) = row.values[i]
  BY <1>3, <1>5, ValueIs
<1> QED
  BY <1>1, <1>3, <1>4, <1>5, <1>6 DEF Pile, N, ss

\* Alone puts each cell by itself.
LEMMA AloneIs ==
  ASSUME NEW cells, List(cells)
  PROVE  /\ List(Alone(cells)) /\ Len(Alone(cells)) = Len(cells)
         /\ \A i \in 1..Len(cells) : Alone(cells)[i] = <<cells[i]>>
<1> DEFINE n == Len(cells)
           all == Alone(cells)
<1>1. n \in Nat /\ DOMAIN cells = 1..n
  BY ListHas
<1>2. all = [i \in 1..n |-> <<cells[i]>>]
  BY <1>1 DEF Alone
<1> HIDE DEF n, all
<1>3. DOMAIN all = 1..n /\ all = [i \in 1..n |-> all[i]]
  BY <1>2
<1>4. List(all) /\ Len(all) = n
  BY <1>1, <1>3, ListMade
<1> QED
  BY <1>2, <1>4 DEF n, all

AnchoredInto(v, cells, s, t) ==
    /\ List(v) /\ Len(v) = s + 1 + t /\ t \in 0..Len(cells)
    /\ \A i \in 1..s : v[i] = <<cells[i]>>
    /\ v[s + 1] = SubSeq(cells, s + 1, Len(cells) - t)
    /\ \A i \in 1..t : v[s + 1 + i] = <<cells[Len(cells) - t + i]>>

\* The head of a row that is realigned, its overflow and its tail.
LEMMA AnchoredIs ==
  ASSUME NEW header, NEW cells, List(cells), NEW s \in 0..Len(cells), s = SplitCol(header),
         NEW t, t = IF TailLength(header) \in 1..Len(cells) THEN TailLength(header) ELSE 0
  PROVE  AnchoredInto(Anchored(header, cells), cells, s, t)
<1> DEFINE n == Len(cells)
           x == SubSeq(cells, 1, s)
           y == SubSeq(cells, s + 1, n - t)
           z == SubSeq(cells, n - t + 1, n)
           v == Anchored(header, cells)
<1>1. n \in Nat /\ t \in 0..n
  BY ListHas
<1>2. v = Alone(x) \o <<y>> \o Alone(z)
  BY DEF Anchored
<1> HIDE DEF v
<1>3. List(x) /\ Len(x) = s /\ \A i \in 1..s : x[i] = cells[i]
  <2>1. 1 \in 1..(Len(cells) + 1) /\ s \in (1 - 1)..Len(cells) /\ s \in Nat
    BY <1>1
  <2>2. IsPart(x, cells, 1, s)
    BY <2>1, SubSeqIs
  <2> QED
    BY <2>1, <2>2 DEF IsPart
<1>4. List(z) /\ Len(z) = t /\ \A i \in 1..t : z[i] = cells[n - t + i]
  <2> DEFINE m == n - t + 1
  <2>1. m \in 1..(Len(cells) + 1) /\ n \in (m - 1)..Len(cells)
    BY <1>1
  <2>2. m \in Int /\ n - m + 1 = t /\ \A i \in 1..t : m + i - 1 = n - t + i
    BY <1>1
  <2> HIDE DEF m
  <2>3. IsPart(SubSeq(cells, m, n), cells, m, n)
    BY <2>1, SubSeqIs
  <2>4. z = SubSeq(cells, m, n)
    BY DEF m
  <2> QED
    BY <2>2, <2>3, <2>4 DEF IsPart
<1> HIDE DEF x, y, z
<1>5. /\ List(Alone(x)) /\ Len(Alone(x)) = s
      /\ \A i \in 1..s : Alone(x)[i] = <<cells[i]>>
  BY <1>3, AloneIs
<1>6. /\ List(Alone(z)) /\ Len(Alone(z)) = t
      /\ \A i \in 1..t : Alone(z)[i] = <<cells[n - t + i]>>
  BY <1>4, AloneIs
<1>7. List(<<y>>) /\ Len(<<y>>) = 1 /\ <<y>>[1] = y
  <2>1. <<y>> \in Seq({y})
    OBVIOUS
  <2> QED
    BY <2>1 DEF List
<1> DEFINE u == Alone(x) \o <<y>>
<1>8. /\ List(u) /\ Len(u) = s + 1
      /\ \A i \in 1..s : u[i] = <<cells[i]>>
      /\ u[s + 1] = y
  BY <1>5, <1>7, ConcatIs
<1> HIDE DEF u
<1>9. v = u \o Alone(z)
  BY <1>2 DEF u
<1>10. /\ List(v) /\ Len(v) = s + 1 + t
       /\ \A i \in 1..(s + 1) : v[i] = u[i]
       /\ \A i \in 1..t : v[s + 1 + i] = <<cells[n - t + i]>>
  <2> DEFINE w == Alone(z)
  <2>1. List(w) /\ Len(w) = t /\ \A i \in 1..t : w[i] = <<cells[n - t + i]>>
    BY <1>6
  <2>2. v = u \o w
    BY <1>9
  <2> HIDE DEF w
  <2>3. /\ List(u \o w) /\ Len(u \o w) = Len(u) + Len(w)
        /\ \A i \in 1..Len(u) : (u \o w)[i] = u[i]
        /\ \A i \in 1..Len(w) : (u \o w)[Len(u) + i] = w[i]
    <3>1. List(u) /\ List(w)
      BY <1>8, <2>1
    <3> QED
      BY <3>1, ConcatIs
  <2> QED
    BY <1>8, <2>1, <2>2, <2>3
<1>11. \A i \in 1..s : i \in 1..(s + 1)
  BY <1>1
<1>12. s + 1 \in 1..(s + 1)
  BY <1>1
<1> QED
  BY <1>1, <1>8, <1>10, <1>11, <1>12 DEF v, y, AnchoredInto

LEMMA RealignedIs ==
  ASSUME NEW header, List(header), NEW cells, List(cells), NEW i \in 1..Len(header),
         NEW v, List(v), i <= Len(v),
         v = IF Len(cells) = Len(header) \/ SplitCol(header) \notin 0..(Len(cells) - 1)
             THEN Alone(cells) ELSE Anchored(header, cells)
  PROVE  Realigned(header, cells)[i] = v[i]
<1>1. DOMAIN header = 1..Len(header) /\ i \in Nat /\ 1 <= i
  BY ListHas
<1>2. Realigned(header, cells) = [j \in 1..Len(header) |-> IF j \in DOMAIN v THEN v[j] ELSE <<>>]
  BY <1>1 DEF Realigned
<1>3. i \in DOMAIN v
  BY <1>1, ListHas
<1> QED
  BY <1>2, <1>3

\* A column in its place, when it and all before it have one value.
LEMMA OneEachBefore ==
  ASSUME NEW header, List(header), NEW row, IsRow(header, row),
         NEW i \in 1..Len(header), i <= Len(header) - row.missing,
         \A j \in 1..i : row.values[j] = 1
  PROVE  /\ List(Flat(Columns(header, row))) /\ i <= Len(Flat(Columns(header, row)))
         /\ <<Flat(Columns(header, row))[i]>> = Value(header, row, i)
<1> DEFINE ss == Columns(header, row)
           C == Flat(ss)
<1>1. /\ Pile(ss) /\ Len(ss) = Len(header) - row.missing /\ Len(ss) \in Nat
      /\ \A j \in 1..Len(ss) : /\ ss[j] = Value(header, row, j)
                                /\ Len(ss[j]) = row.values[j]
  BY ColumnsAre
<1> HIDE DEF ss
<1>2. i \in 1..Len(ss) /\ i \in 1..(Len(ss) + 1) /\ row.values[i] = 1 /\ 1 \in 1..(Len(ss) + 1)
  BY <1>1
<1>3. \A j \in 1..(i - 1) : Len(ss[j]) = 1
  <2>1. \A j \in 1..(i - 1) : j \in 1..Len(ss) /\ j \in 1..i
    BY <1>1, <1>2
  <2> QED
    BY <1>1, <2>1
<1>5. Offset(ss, i) = Offset(ss, 1) + (i - 1)
  BY <1>1, <1>2, <1>3, RunOfOnes
<1>6. Offset(ss, 1) = 0
  BY <1>1, Offsets
<1>7. Len(ss[i]) = 1 /\ 1 \in 1..Len(ss[i]) /\ ss[i] = Value(header, row, i)
  <2>1. Len(ss[i]) = row.values[i] /\ ss[i] = Value(header, row, i)
    BY <1>1, <1>2
  <2> QED
    BY <1>2, <2>1
<1>8. Offset(ss, i) + 1 \in 1..Len(C) /\ C[Offset(ss, i) + 1] = ss[i][1] /\ List(C)
  BY <1>1, <1>2, <1>7, FlatIs
<1> HIDE DEF C
<1>9. Offset(ss, i) + 1 = i
  BY <1>2, <1>5, <1>6
<1>10. Value(header, row, i) = << <<header[i], 1>> >>
  BY <1>2, OneValue
<1>11. i <= Len(C) /\ C[i] = <<header[i], 1>>
  BY <1>7, <1>8, <1>9, <1>10
<1> QED
  BY <1>2, <1>8, <1>10, <1>11 DEF C, ss

\* Where no column has several values, the row has its width.
LEMMA AllOnes ==
  ASSUME NEW header, List(header), NEW row, IsRow(header, row), row.missing = 0,
         \A j \in 1..Len(header) : row.values[j] = 1
  PROVE  Len(Flat(Columns(header, row))) = Len(header)
<1> DEFINE ss == Columns(header, row)
           n == Len(header)
<1>0. n \in Nat
  BY ListHas
<1>1. /\ Pile(ss)
      /\ Len(ss) = n - row.missing
      /\ Len(ss) \in Nat
      /\ \A j \in 1..Len(ss) :
            /\ row.values[j] \in Nat /\ row.values[j] >= 1
            /\ ss[j] = Value(header, row, j)
            /\ Len(ss[j]) = row.values[j]
  BY ColumnsAre
<1> HIDE DEF ss
<1>2. Len(ss) = n
  BY <1>0, <1>1
<1>3. \A j \in 1..((n + 1) - 1) : Len(ss[j]) = 1
  <2>1. \A j \in 1..((n + 1) - 1) : j \in 1..Len(ss) /\ j \in 1..n
    BY <1>0, <1>2
  <2> QED
    BY <1>1, <2>1
<1>4. 1 \in 1..(Len(ss) + 1) /\ n + 1 \in 1..(Len(ss) + 1) /\ n + 1 \in 1..(n + 1)
  BY <1>0, <1>2
<1>5. Offset(ss, n + 1) = Offset(ss, 1) + ((n + 1) - 1)
  BY <1>1, <1>2, <1>3, <1>4, RunOfOnes
<1>6. Offset(ss, 1) = 0 /\ Len(Flat(ss)) = Offset(ss, n + 1)
  BY <1>1, <1>2, Offsets, FlatIs
<1> QED
  BY <1>0, <1>5, <1>6 DEF ss

\* A column in its place before the split, or in a row as wide as the header.
LEMMA HeadKeeps ==
  ASSUME NEW header, List(header), NEW row, IsRow(header, row),
         NEW i \in 1..Len(header), i <= Len(header) - row.missing,
         \A j \in 1..i : row.values[j] = 1,
         \/ i <= SplitCol(header)
         \/ Len(Flat(Columns(header, row))) = Len(header)
  PROVE  Keeps(header, row, i)
<1> DEFINE C == Flat(Columns(header, row))
           s == SplitCol(header)
           own == Value(header, row, i)
<1>1. List(C) /\ i <= Len(C) /\ <<C[i]>> = own
  BY OneEachBefore
<1>2. i <= s \/ Len(C) = Len(header)
  OBVIOUS
<1>3. Keeps(header, row, i) <=> Realigned(header, C)[i] = own
  BY DEF Keeps
<1> HIDE DEF C, s, own
<1>4. Len(C) \in Nat
  BY <1>1, ListHas
<1>5. CASE Len(C) = Len(header) \/ s \notin 0..(Len(C) - 1)
  <2>1. List(Alone(C)) /\ i <= Len(Alone(C)) /\ Alone(C)[i] = <<C[i]>>
    BY <1>1, <1>4, AloneIs
  <2>2. Realigned(header, C)[i] = Alone(C)[i]
    BY <1>1, <1>5, <2>1, RealignedIs DEF s
  <2> QED
    BY <1>1, <1>3, <2>1, <2>2
<1>6. CASE Len(C) # Len(header) /\ s \in 0..(Len(C) - 1)
  <2> DEFINE t == IF TailLength(header) \in 1..Len(C) THEN TailLength(header) ELSE 0
             v == Anchored(header, C)
  <2>1. s \in 0..Len(C) /\ i \in 1..s
    BY <1>2, <1>4, <1>6
  <2>0. AnchoredInto(v, C, s, t)
    BY <1>1, <2>1, AnchoredIs DEF s
  <2>2. List(v) /\ Len(v) = s + 1 + t /\ t \in 0..Len(C) /\ v[i] = <<C[i]>>
    BY <2>0, <2>1 DEF AnchoredInto
  <2> HIDE DEF t
  <2>3. i <= Len(v)
    BY <1>4, <2>1, <2>2
  <2>5. v = IF Len(C) = Len(header) \/ SplitCol(header) \notin 0..(Len(C) - 1)
            THEN Alone(C) ELSE Anchored(header, C)
    BY <1>6 DEF s
  <2> HIDE DEF v
  <2>4. Realigned(header, C)[i] = v[i]
    BY <1>1, <2>2, <2>3, <2>5, RealignedIs
  <2> QED
    BY <1>1, <1>3, <2>2, <2>4
<1> QED
  BY <1>5, <1>6

\* s columns come before the split, and the tail has t.
SplitsInto(header, s, t) == s = SplitCol(header) /\ t = TailLength(header)

\* Only column w has several values.
OnlyWide(header, row, w) == \A j \in 1..Len(header) : j # w => row.values[j] = 1

WideInto(C, header, n, s, m) ==
    /\ n \in Nat /\ m \in Nat /\ m >= 1
    /\ List(C) /\ Len(C) = m + n - 1
    /\ \A k \in 1..m : C[s + k] = <<header[s + 1], k>>
    /\ \A j \in (s + 2)..n : C[m + j - 1] = <<header[j], 1>>

\* Where the columns of a row begin in which one column alone has several values.
LEMMA OneWide ==
  ASSUME NEW header, List(header), NEW row, IsRow(header, row), row.missing = 0,
         NEW n, n = Len(header), NEW s \in 0..(n - 1), NEW m, m = row.values[s + 1],
         OnlyWide(header, row, s + 1)
  PROVE  WideInto(Flat(Columns(header, row)), header, n, s, m)
<1> DEFINE ss == Columns(header, row)
           C == Flat(ss)
<1>0. n \in Nat /\ s \in Nat /\ s + 1 \in 1..n /\ s + 2 \in 1..(n + 1) /\ s + 1 \in 1..(n + 1) /\ 1 \in 1..(n + 1)
  BY ListHas
<1>1. /\ Pile(ss)
      /\ Len(ss) = Len(header) - row.missing
      /\ Len(ss) \in Nat
      /\ \A j \in 1..Len(ss) :
            /\ row.values[j] \in Nat /\ row.values[j] >= 1
            /\ ss[j] = Value(header, row, j)
            /\ Len(ss[j]) = row.values[j]
  BY ColumnsAre
<1> HIDE DEF ss
<1>2. Len(ss) = n
  BY <1>0, <1>1
<1>3. \A j \in 1..n : /\ row.values[j] \in Nat /\ row.values[j] >= 1
                      /\ ss[j] = Value(header, row, j)
                      /\ Len(ss[j]) = row.values[j]
  BY <1>1, <1>2
<1>4. m \in Nat /\ m >= 1 /\ Len(ss[s + 1]) = m
  BY <1>0, <1>3
<1>5. /\ Offset(ss, 1) = 0
      /\ \A i \in 1..(n + 1) : Offset(ss, i) \in Nat
      /\ \A i \in 1..n : Offset(ss, i + 1) = Offset(ss, i) + Len(ss[i])
  BY <1>1, <1>2, Offsets
<1>6. Offset(ss, s + 1) = s
  <2>1. \A j \in 1..((s + 1) - 1) : j \in 1..n /\ j # s + 1
    BY <1>0
  <2>2. \A j \in 1..((s + 1) - 1) : Len(ss[j]) = 1
    BY <1>3, <2>1 DEF OnlyWide
  <2>3. 1 \in 1..(Len(ss) + 1) /\ s + 1 \in 1..(Len(ss) + 1)
    BY <1>0, <1>2
  <2>4. Offset(ss, s + 1) = Offset(ss, 1) + ((s + 1) - 1)
    BY <1>1, <2>2, <2>3, RunOfOnes
  <2> QED
    BY <1>0, <1>5, <2>4
<1>7. Offset(ss, s + 2) = s + m
  <2>1. Offset(ss, (s + 1) + 1) = Offset(ss, s + 1) + Len(ss[s + 1]) /\ (s + 1) + 1 = s + 2
    BY <1>0, <1>5
  <2> QED
    BY <1>4, <1>6, <2>1
<1>8. ASSUME NEW j \in (s + 2)..(n + 1) PROVE Offset(ss, j) = m + j - 2
  <2>1. \A l \in (s + 2)..(j - 1) : l \in 1..n /\ l # s + 1
    BY <1>0
  <2>2. \A l \in (s + 2)..(j - 1) : Len(ss[l]) = 1
    BY <1>3, <2>1 DEF OnlyWide
  <2>3. s + 2 \in 1..(Len(ss) + 1) /\ j \in (s + 2)..(Len(ss) + 1)
    BY <1>0, <1>2
  <2>4. Offset(ss, j) = Offset(ss, s + 2) + (j - (s + 2))
    BY <1>1, <2>2, <2>3, RunOfOnes
  <2> QED
    BY <1>0, <1>4, <1>7, <2>4
<1>9. List(C) /\ Len(C) = Offset(ss, n + 1)
  BY <1>1, <1>2, FlatIs
<1>10. Len(C) = m + n - 1
  <2>1. n + 1 \in (s + 2)..(n + 1)
    BY <1>0
  <2>2. Offset(ss, n + 1) = m + (n + 1) - 2
    BY <1>8, <2>1
  <2> QED
    BY <1>0, <1>4, <1>9, <2>2
<1>11. ASSUME NEW j \in 1..n, NEW k \in 1..row.values[j] PROVE C[Offset(ss, j) + k] = <<header[j], k>>
  <2>1. j \in 1..Len(ss) /\ k \in 1..Len(ss[j]) /\ ss[j] = Value(header, row, j) /\ row.values[j] \in Nat
    BY <1>2, <1>3
  <2>2. C[Offset(ss, j) + k] = ss[j][k]
    BY <1>1, <2>1, FlatIs
  <2>3. Value(header, row, j)[k] = <<header[j], k>>
    BY <2>1, ValueIs
  <2> QED
    BY <2>1, <2>2, <2>3
<1> HIDE DEF C
<1>12. ASSUME NEW k \in 1..m PROVE C[s + k] = <<header[s + 1], k>>
  BY <1>0, <1>6, <1>11
<1>13. ASSUME NEW j \in (s + 2)..n PROVE C[m + j - 1] = <<header[j], 1>>
  <2>1. j \in 1..n /\ j # s + 1 /\ j \in (s + 2)..(n + 1) /\ j \in Nat
    BY <1>0
  <2>2. row.values[j] = 1 /\ 1 \in 1..row.values[j]
    BY <2>1 DEF OnlyWide
  <2>3. C[Offset(ss, j) + 1] = <<header[j], 1>>
    BY <1>11, <2>1, <2>2
  <2>4. Offset(ss, j) = m + j - 2
    BY <1>8, <2>1
  <2>5. Offset(ss, j) + 1 = m + j - 1
    BY <1>4, <2>1, <2>4
  <2> QED
    BY <2>3, <2>5
<1> QED
  BY <1>0, <1>4, <1>9, <1>10, <1>12, <1>13 DEF C, ss, WideInto

WidePlace(n, m, s, t, L) ==
    /\ L # n /\ L \in Nat /\ s \in 0..(L - 1) /\ s \in 0..L /\ t \in 0..n /\ t \in 0..L
    /\ s + 1 + t = n /\ (t = 0 \/ t \in 1..L)
    /\ L - t = s + m /\ s + 1 \in 1..(L + 1) /\ s + m \in ((s + 1) - 1)..L
    /\ (s + m) - (s + 1) + 1 = m
    /\ \A k \in 1..m : (s + 1) + k - 1 = s + k
    /\ \A i \in (s + 2)..n : i - (s + 1) \in 1..t /\ s + 1 + (i - (s + 1)) = i
    /\ \A i \in (s + 2)..n : L - t + (i - (s + 1)) = m + i - 1

LEMMA WidePlaces ==
  ASSUME NEW n \in Nat, NEW m \in Nat, m > 1, NEW s \in 0..(n - 1), NEW t, t = n - s - 1, NEW L, L = m + n - 1
  PROVE  WidePlace(n, m, s, t, L)
BY DEF WidePlace

\* A row in which only the column of the split has several values, and the tail
\* begins with the next.
LEMMA SplitKeeps ==
  ASSUME NEW header, List(header), NEW row, IsRow(header, row), row.missing = 0,
         NEW n, n = Len(header), NEW s \in 0..(n - 1), NEW t, t = n - s - 1, SplitsInto(header, s, t),
         NEW m, m = row.values[s + 1], m > 1,
         OnlyWide(header, row, s + 1), NEW i \in 1..n
  PROVE  Keeps(header, row, i)
<1> DEFINE C == Flat(Columns(header, row))
           v == Anchored(header, C)
<1>1. WideInto(C, header, n, s, m)
  BY OneWide
<1>2. Keeps(header, row, i) <=> Realigned(header, C)[i] = Value(header, row, i)
  BY DEF Keeps
<1> HIDE DEF C
<1>3. n \in Nat /\ m \in Nat /\ List(C)
  BY <1>1 DEF WideInto
<1>4. PICK L : L = Len(C) /\ L = m + n - 1
  BY <1>1 DEF WideInto
<1>13. WidePlace(n, m, s, t, L)
  BY <1>3, <1>4, WidePlaces
<1>5. /\ L # n /\ L \in Nat /\ s \in 0..(L - 1) /\ s \in 0..L /\ t \in 0..n /\ t \in 0..L
      /\ s + 1 + t = n /\ (t = 0 \/ t \in 1..L)
      /\ L - t = s + m /\ s + 1 \in 1..(L + 1) /\ s + m \in ((s + 1) - 1)..L
      /\ (s + m) - (s + 1) + 1 = m
  BY <1>13 DEF WidePlace
<1>6. s = SplitCol(header) /\ t = IF TailLength(header) \in 1..L THEN TailLength(header) ELSE 0
  BY <1>5 DEF SplitsInto
<1>7. AnchoredInto(v, C, s, t)
  BY <1>3, <1>4, <1>5, <1>6, AnchoredIs
<1>8. Realigned(header, C)[i] = v[i]
  <2>1. List(v) /\ i <= Len(v)
    BY <1>5, <1>7 DEF AnchoredInto
  <2>2. Len(C) # Len(header) /\ i \in 1..Len(header) /\ SplitCol(header) \in 0..(Len(C) - 1)
    BY <1>4, <1>5, <1>6
  <2>3. v = IF Len(C) = Len(header) \/ SplitCol(header) \notin 0..(Len(C) - 1)
            THEN Alone(C) ELSE Anchored(header, C)
    BY <2>2
  <2>4. i \in 1..Len(header)
    BY <2>2
  <2> HIDE DEF v
  <2> QED
    BY <1>3, <2>1, <2>3, <2>4, RealignedIs
<1> HIDE DEF v
<1>9. CASE i \in 1..s
  <2>1. \A j \in 1..i : j \in 1..Len(header) /\ j # s + 1
    BY <1>3, <1>9
  <2>2. i \in 1..Len(header) /\ i <= Len(header) - row.missing
    BY <1>3, <1>9
  <2>3. i <= SplitCol(header)
    BY <1>6, <1>9
  <2>4. \A j \in 1..i : row.values[j] = 1
    BY <2>1 DEF OnlyWide
  <2> QED
    BY <2>2, <2>3, <2>4, HeadKeeps
<1>10. CASE i = s + 1
  <2> DEFINE x == SubSeq(C, s + 1, s + m)
             own == Value(header, row, i)
  <2>1. IsPart(x, C, s + 1, s + m)
    BY <1>3, <1>4, <1>5, SubSeqIs
  <2>2. v[i] = x
    BY <1>4, <1>5, <1>7, <1>10 DEF AnchoredInto
  <2>3. row.values[i] = m
    BY <1>10
  <2>4. List(own) /\ Len(own) = m /\ \A k \in 1..m : own[k] = <<header[i], k>>
    <3>1. row.values[i] \in Nat
      BY <1>3, <2>3
    <3>2. /\ List(own) /\ Len(own) = row.values[i]
          /\ \A k \in 1..row.values[i] : own[k] = <<header[i], k>>
      BY <3>1, ValueIs
    <3> QED
      BY <2>3, <3>2
  <2> HIDE DEF x, own
  <2>5. List(x) /\ Len(x) = m
    BY <1>5, <2>1 DEF IsPart
  <2>6. ASSUME NEW k \in 1..m PROVE x[k] = own[k]
    <3>1. (s + 1) + k - 1 = s + k /\ k \in 1..((s + m) - (s + 1) + 1)
      BY <1>5, <1>13 DEF WidePlace
    <3>2. x[k] = C[s + k]
      BY <2>1, <3>1 DEF IsPart
    <3>3. C[s + k] = <<header[s + 1], k>>
      BY <1>1 DEF WideInto
    <3> QED
      BY <1>10, <2>4, <3>2, <3>3
  <2>7. x = own
    BY <2>4, <2>5, <2>6, ListsEqual
  <2> QED
    BY <1>2, <1>8, <2>2, <2>7 DEF own
<1>11. CASE i \in (s + 2)..n
  <2>0. PICK j : j = i - (s + 1)
    OBVIOUS
  <2>1. j \in 1..t /\ s + 1 + j = i /\ L - t + j = m + i - 1
    BY <1>13, <1>11, <2>0 DEF WidePlace
  <2>2. Value(header, row, i) = << <<header[i], 1>> >>
    <3>1. i # s + 1
      BY <1>11
    <3>2. row.values[i] = 1
      BY <3>1 DEF OnlyWide
    <3> QED
      BY <3>2, OneValue
  <2>3. v[i] = <<C[m + i - 1]>>
    <3>1. v[s + 1 + j] = <<C[Len(C) - t + j]>>
      BY <1>7, <2>1 DEF AnchoredInto
    <3> QED
      BY <1>4, <2>1, <3>1
  <2>4. C[m + i - 1] = <<header[i], 1>>
    BY <1>1, <1>11 DEF WideInto
  <2> QED
    BY <1>2, <1>8, <2>2, <2>3, <2>4
<1>12. i \in 1..s \/ i = s + 1 \/ i \in (s + 2)..n
  BY <1>3
<1> QED
  BY <1>9, <1>10, <1>11, <1>12

\* What is parsed of a CSV file are its first rows.
TableInv ==
    file.fmt = ".csv" =>
        /\ mode \in {"idle", ".csv", "parsed"}
        /\ List(parsed) /\ Len(parsed) <= Len(file.rows)
        /\ mode = "idle" => parsed = <<>>
        /\ mode = ".csv" => rest = From(file.rows, Len(parsed))
        /\ \A r \in 1..Len(parsed) :
              parsed[r].cells = Realigned(file.header, Cells(file, file.rows[r]))

LEMMA RowsAre ==
  ASSUME file \in Files
  PROVE  /\ List(file.rows) /\ List(file.header)
         /\ \A r \in 1..Len(file.rows) : IsRow(file.header, file.rows[r])
<1>1. IsFile(file)
  BY AnalysisAssumption
<1>2. file.rows \in Seq(Range(file.rows)) /\ file.header \in Seq(Range(file.header))
  BY <1>1 DEF IsFile
<1>3. List(file.rows) /\ List(file.header)
  BY <1>2 DEF List
<1>4. DOMAIN file.rows = 1..Len(file.rows) /\ DOMAIN file.header = 1..Len(file.header)
  BY <1>3, ListHas
<1>5. \A r \in 1..Len(file.rows) :
          /\ file.rows[r].values \in [1..Len(file.header) -> Nat \ {0}]
          /\ file.rows[r].missing \in 0..Len(file.header)
  BY <1>1, <1>4 DEF IsFile
<1> QED
  BY <1>3, <1>5 DEF IsRow

LEMMA TableInitially == IngestInit(Files) => TableInv
<1> SUFFICES ASSUME IngestInit(Files), file.fmt = ".csv" PROVE TableInv
  BY DEF TableInv
<1>1. mode = "idle" /\ parsed = <<>> /\ file \in Files
  BY DEF IngestInit
<1>2. <<>> \in Seq({}) /\ Len(<<>>) = 0
  OBVIOUS
<1>3. List(parsed) /\ Len(parsed) = 0
  BY <1>1, <1>2 DEF List
<1>4. Len(file.rows) \in Nat
  BY <1>1, RowsAre, ListHas
<1> QED
  BY <1>1, <1>3, <1>4 DEF TableInv

LEMMA TableStep ==
  ASSUME TableInv, file \in Files, Parse
  PROVE  TableInv'
<1>0. file' = file
  BY DEF Parse, ParseFile, Probe, TakeLine, Peek, Load, Listed, ReadChunk, TakeElement, TakeCharacter,
         TakeRow, TakeRecord, EndOfInput, Open, Finish
<1> SUFFICES ASSUME file.fmt = ".csv" PROVE TableInv'
  BY <1>0 DEF TableInv
<1>1. /\ mode \in {"idle", ".csv", "parsed"}
      /\ List(parsed) /\ Len(parsed) <= Len(file.rows)
      /\ mode = "idle" => parsed = <<>>
      /\ mode = ".csv" => rest = From(file.rows, Len(parsed))
      /\ \A r \in 1..Len(parsed) :
            parsed[r].cells = Realigned(file.header, Cells(file, file.rows[r]))
  BY DEF TableInv
<1> DEFINE rows == file.rows
           n == Len(parsed)
<1>2. List(rows) /\ Len(rows) \in Nat /\ n \in Nat
  BY <1>1, RowsAre, ListHas
<1>3. CASE ParseFile
  <2>1. mode' = ".csv" /\ rest' = rows /\ parsed' = parsed /\ parsed = <<>>
    BY <1>1, <1>3 DEF ParseFile
  <2>2. n = 0 /\ From(rows, n) = rows
    BY <1>1, <1>2, <2>1, ListHas, FromStart
  <2> QED
    BY <1>0, <1>1, <2>1, <2>2 DEF TableInv
<1>4. CASE TakeRow
  <2> DEFINE e == [what |-> "row", cells |-> Realigned(file.header, Cells(file, Head(rest)))]
  <2>1. mode = ".csv" /\ mode' = mode /\ rest # <<>> /\ parsed' = Append(parsed, e) /\ rest' = Tail(rest)
    BY <1>4 DEF TakeRow
  <2>2. n \in 0..Len(rows) /\ rest = From(rows, n)
    BY <1>1, <1>2, <2>1
  <2>4. n + 1 <= Len(rows) /\ Head(rest) = rows[n + 1] /\ Tail(rest) = From(rows, n + 1)
    BY <1>2, <2>1, <2>2, FromTail
  <2> HIDE DEF e
  <2>8. /\ List(parsed') /\ Len(parsed') = n + 1 /\ parsed'[n + 1] = e
        /\ \A i \in 1..n : parsed'[i] = parsed[i]
    BY <1>1, <2>1, AppendIs
  <2>9. e.cells = Realigned(file.header, Cells(file, rows[n + 1]))
    BY <2>4 DEF e
  <2>10. ASSUME NEW r \in 1..(n + 1)
         PROVE  parsed'[r].cells = Realigned(file.header, Cells(file, rows[r]))
    <3>1. CASE r = n + 1
      BY <2>8, <2>9, <3>1
    <3>2. CASE r \in 1..n
      BY <1>1, <2>8, <3>2
    <3> QED
      BY <1>2, <3>1, <3>2
  <2> QED
    BY <1>0, <1>2, <2>1, <2>4, <2>8, <2>10 DEF TableInv
<1>5. CASE EndOfInput
  BY <1>0, <1>1, <1>5 DEF EndOfInput, Finish, TableInv
<1>6. ParseFile \/ TakeRow \/ EndOfInput
  BY <1>1 DEF Parse, Probe, TakeLine, Peek, Load, ReadChunk, TakeElement, TakeCharacter, TakeRecord, RecordFormats
<1> QED
  BY <1>3, <1>4, <1>5, <1>6

\* Before the first multi-value column is a number of columns.
LEMMA SplitColIs ==
  ASSUME NEW header, List(header)
  PROVE  SplitCol(header) \in Int
<1> DEFINE present == {n \in DOMAIN MultiValued : Has(header, MultiValued[n])}
           k == CHOOSE n \in present : \A m \in present : n <= m
           first == MultiValued[k]
<1>1. CASE present = {}
  BY <1>1 DEF SplitCol
<1>2. CASE present # {}
  <2>1. DOMAIN MultiValued = 1..3
    BY DEF MultiValued
  <2>2. present \in SUBSET Nat
    BY <2>1
  <2> HIDE DEF present
  <2>3. \E n \in present : \A m \in present : n <= m
    BY <1>2, <2>2, LeastNatural
  <2>4. k \in present
    BY <2>3
  <2> HIDE DEF k
  <2>5. Has(header, first)
    BY <2>4 DEF present
  <2> HIDE DEF first
  <2>6. \E i \in DOMAIN header : header[i] = first
    BY <2>5 DEF Has
  <2>7. IndexIn(header, first) \in DOMAIN header
    BY <2>6 DEF IndexIn
  <2>8. IndexIn(header, first) - 1 \in Int
    BY <2>7, ListHas
  <2>9. SplitCol(header) = IndexIn(header, first) - 1
    BY <1>2 DEF SplitCol, first, k, present
  <2> QED
    BY <2>8, <2>9
<1> QED
  BY <1>1, <1>2

LEMMA TableIsAligned ==
  ASSUME TableInv, file \in Files
  PROVE  ColumnsStayAligned
<1> SUFFICES ASSUME file.fmt = ".csv",
                    NEW r \in DOMAIN parsed, NEW i \in DOMAIN file.header,
                    i <= Len(file.header) - file.rows[r].missing
             PROVE  /\ i <= SplitCol(file.header) /\ (\A j \in Wide(file, r) : j > SplitCol(file.header))
                       => Own(file, r, i)
                    /\ /\ file.rows[r].missing = 0
                       /\ \/ Wide(file, r) = {}
                          \/ /\ Wide(file, r) = {SplitCol(file.header) + 1}
                             /\ TailLength(file.header) = Len(file.header) - SplitCol(file.header) - 1
                       => Own(file, r, i)
  BY DEF ColumnsStayAligned
<1> DEFINE header == file.header
           row == file.rows[r]
           s == SplitCol(header)
           n == Len(header)
<1>1. /\ List(parsed) /\ Len(parsed) <= Len(file.rows)
      /\ \A q \in 1..Len(parsed) : parsed[q].cells = Realigned(header, Cells(file, file.rows[q]))
  BY DEF TableInv
<1>2. /\ List(file.rows) /\ List(header)
      /\ \A q \in 1..Len(file.rows) : IsRow(header, file.rows[q])
  BY RowsAre
<1>3. /\ r \in 1..Len(parsed) /\ r \in 1..Len(file.rows)
      /\ i \in 1..n /\ n \in Nat /\ DOMAIN header = 1..n
  BY <1>1, <1>2, ListHas
<1>4. IsRow(header, row)
  BY <1>2, <1>3
<1>5. Keeps(header, row, i) => Own(file, r, i)
  <2>1. Cells(file, row) = Flat(Columns(header, row))
    BY DEF Cells, Columns, Value
  <2>2. parsed[r].cells = Realigned(header, Flat(Columns(header, row)))
    BY <1>1, <1>3, <2>1
  <2> QED
    BY <2>2 DEF Keeps, Own, Value
<1>6. \A j \in 1..n : row.values[j] \in Nat /\ row.values[j] >= 1 /\ (j \notin Wide(file, r) => row.values[j] = 1)
  <2>1. \A j \in 1..n : row.values[j] \in Nat \ {0}
    BY <1>4 DEF IsRow
  <2>2. \A j \in 1..n : j \notin Wide(file, r) => ~(row.values[j] > 1)
    BY <1>3 DEF Wide
  <2> QED
    BY <2>1, <2>2
<1>7. Wide(file, r) \subseteq 1..n
  BY <1>3 DEF Wide
<1>8. i <= n - row.missing
  OBVIOUS
<1> HIDE DEF header, row, s
<1>12. s \in Int
  BY <1>2, SplitColIs DEF s
<1>9. ASSUME i <= s, \A j \in Wide(file, r) : j > s PROVE Keeps(header, row, i)
  <2>1. \A j \in 1..i : j \in 1..n /\ ~(j > s)
    BY <1>3, <1>9, <1>12
  <2>2. \A j \in 1..i : j \notin Wide(file, r)
    BY <1>9, <2>1
  <2>3. \A j \in 1..i : row.values[j] = 1
    BY <1>6, <2>1, <2>2
  <2>4. i <= SplitCol(header)
    BY <1>9 DEF s
  <2> QED
    BY <1>2, <1>3, <1>4, <1>8, <2>3, <2>4, HeadKeeps
<1>10. ASSUME row.missing = 0, Wide(file, r) = {} PROVE Keeps(header, row, i)
  <2>1. \A j \in 1..n : row.values[j] = 1
    BY <1>6, <1>10
  <2>2. \A j \in 1..i : j \in 1..n
    BY <1>3
  <2>3. Len(Flat(Columns(header, row))) = n
    BY <1>2, <1>4, <1>10, <2>1, AllOnes
  <2>4. \A j \in 1..i : row.values[j] = 1
    BY <2>1, <2>2
  <2> QED
    BY <1>2, <1>3, <1>4, <1>8, <2>3, <2>4, HeadKeeps
<1>11. ASSUME row.missing = 0, Wide(file, r) = {s + 1}, TailLength(header) = n - s - 1
       PROVE  Keeps(header, row, i)
  <2>1. s + 1 \in 1..n
    BY <1>7, <1>11
  <2>2. s \in 0..(n - 1)
    BY <1>12, <2>1
  <2>3. PICK t : t = n - s - 1
    OBVIOUS
  <2>4. SplitsInto(header, s, t)
    BY <1>11, <2>3 DEF SplitsInto, s
  <2>5. PICK m : m = row.values[s + 1]
    OBVIOUS
  <2>6. m > 1
    BY <1>3, <1>11, <2>1, <2>5 DEF Wide, row
  <2>7. OnlyWide(header, row, s + 1)
    BY <1>6, <1>11 DEF OnlyWide
  <2>8. row.missing = 0
    BY <1>11
  <2> QED
    BY <1>2, <1>3, <1>4, <2>2, <2>3, <2>4, <2>5, <2>6, <2>7, <2>8, SplitKeeps
<1> QED
  BY <1>5, <1>9, <1>10, <1>11 DEF header, row, s

\* The parsers of an upload, and nothing else, change what is parsed.
LEMMA ParserSteps ==
  ASSUME [Next]_vars
  PROVE  Parse \/ UNCHANGED ingestVars
BY DEF Next, vars, Receive, ParseSome, Parsed, Refuse, Evaluate, DrawEvent, CutGraph, KeepParent, FinishDrawing,
       Group, Respond

LEMMA TableAlways == Spec => []TableInv
<1>1. Init => TableInv
  BY TableInitially DEF Init
<1>2. PipelineInv /\ TableInv /\ [Next]_vars => TableInv'
  <2> SUFFICES ASSUME PipelineInv, TableInv, [Next]_vars PROVE TableInv'
    OBVIOUS
  <2>1. file \in Files
    BY DEF PipelineInv, FileInv
  <2>2. CASE Parse
    BY <2>1, <2>2, TableStep
  <2>3. CASE UNCHANGED ingestVars
    BY <2>3 DEF TableInv, ingestVars
  <2> QED
    BY <2>2, <2>3, ParserSteps
<1> QED
  BY <1>1, <1>2, PipelineInvariant, PTL DEF Spec

\* The values of a CSV row arrive under their own columns, whatever the header, as long
\* as only the first unquoted column has several and the tail begins after it
\* (_parse_csv, ingest.py:286-351).
THEOREM ColumnsAreAligned == Spec => []ColumnsStayAligned
<1>1. PipelineInv /\ TableInv => ColumnsStayAligned
  BY TableIsAligned DEF PipelineInv, FileInv
<1> QED
  BY <1>1, PipelineInvariant, TableAlways, PTL

(***************************************************************************)
(* Every turn of a loop leaves less to do: the union-find.                 *)
(***************************************************************************)

\* The pairs of the loop stay within the findings.
PairBounds == left <= Len(group) + 1 /\ right <= Len(group) + 2

LEMMA AboveIs ==
  ASSUME CorrelationType, NEW i \in Member
  PROVE  /\ i \in Above(i) /\ Above(i) \subseteq Member
         /\ \A k \in Above(i) : parent[k] \in Above(i)
         /\ Above(parent[i]) \subseteq Above(i)
         /\ \A j \in Above(i) : j # i => j \in Above(parent[i])
<1>1. i \in Above(i) /\ Above(i) \subseteq Member /\ \A k \in Above(i) : parent[k] \in Above(i)
  BY DEF Above, CorrelationType
<1>2. Above(parent[i]) \subseteq Above(i)
  BY DEF Above, CorrelationType
<1>3. ASSUME NEW j \in Above(i), j # i PROVE j \in Above(parent[i])
  <2> DEFINE p == parent[i]
  <2> SUFFICES ASSUME NEW S \in SUBSET Member, p \in S, \A k \in S : parent[k] \in S
               PROVE  j \in S
    BY <1>1 DEF Above
  <2>1. i \in S \cup {i} /\ \A k \in S \cup {i} : parent[k] \in S \cup {i}
    OBVIOUS
  <2>2. j \in S \cup {i}
    BY <2>1, S \cup {i} \in SUBSET Member DEF Above
  <2> QED
    BY <1>3, <2>2
<1> QED
  BY <1>1, <1>2, <1>3

\* What is above a finding is finite.
LEMMA AboveIsFinite ==
  ASSUME CorrelationType, NEW i
  PROVE  IsFiniteSet(Above(i)) /\ Cardinality(Above(i)) \in Nat
<1>1. IsFiniteSet(Member)
  BY FS_Interval DEF Member, CorrelationType
<1>2. Above(i) \subseteq Member
  BY DEF Above
<1> QED
  BY <1>1, <1>2, FS_Subset, FS_CardinalityType

LEMMA AfterHalving ==
  ASSUME CorrelationType, UNCHANGED group, NEW i
  PROVE  IsFiniteSet(Above(i)') /\ Cardinality(Above(i)') \in Nat
<1>1. IsFiniteSet(Member)
  BY FS_Interval DEF Member, CorrelationType
<1>2. Above(i)' \subseteq Member
  BY DEF Above, Member
<1> QED
  BY <1>1, <1>2, FS_Subset, FS_CardinalityType

\* No way up comes back.
LEMMA NeverAgain ==
  ASSUME CorrelationType, Acyclic, NEW i \in Member, parent[i] # i
  PROVE  i \notin Above(parent[parent[i]])
<1> DEFINE p == parent[i]
           q == parent[p]
           T == {k \in Above(q) : i \in Above(k)}
<1>1. p \in Member /\ q \in Member
  BY DEF CorrelationType
<1> SUFFICES ASSUME i \in Above(q) PROVE FALSE
  OBVIOUS
<1>2. T # {} /\ T \in SUBSET Member
  BY <1>1, AboveIs
<1>3. ASSUME NEW k \in T PROVE parent[k] \in T
  <2>1. k \in Member /\ parent[k] \in Above(q) /\ i \in Above(k)
    BY <1>1, AboveIs
  <2>2. CASE k = i
    BY <1>1, <2>1, <2>2, AboveIs
  <2>3. CASE k # i
    BY <2>1, <2>3, AboveIs
  <2> QED
    BY <2>2, <2>3
<1>4. PICK r \in T : parent[r] = r
  BY <1>2, <1>3 DEF Acyclic
<1>5. r \in Member /\ i \in Above(r)
  BY <1>2, <1>4
<1>6. {r} \in SUBSET Member /\ r \in {r} /\ \A k \in {r} : parent[k] \in {r}
  BY <1>4, <1>5
<1>7. i \in {r}
  BY <1>5, <1>6 DEF Above
<1> QED
  BY <1>4, <1>7

\* A turn of find shortens the way it is on and lengthens no other.
LEMMA HalvingShortens ==
  ASSUME CorrelationType, Acyclic, NEW i \in Member, parent[i] # i, NEW q, q = parent[parent[i]],
         UNCHANGED group, parent' = [parent EXCEPT ![i] = q]
  PROVE  /\ q \in Member
         /\ Cardinality(Above(q)') < Cardinality(Above(i))
         /\ \A j \in Member : Cardinality(Above(j)') <= Cardinality(Above(j))
<1>1. parent[i] \in Member /\ q \in Member
  BY DEF CorrelationType
<1>2. ASSUME NEW j \in Member PROVE Above(j)' \subseteq Above(j)
  <2> SUFFICES ASSUME NEW k \in Above(j)', NEW S \in SUBSET Member, j \in S, \A n \in S : parent[n] \in S
               PROVE  k \in S
    BY DEF Above, Member
  <2>1. \A n \in S : parent'[n] \in S
    BY DEF CorrelationType
  <2> QED
    BY <2>1 DEF Above, Member
<1>3. Above(q) \subseteq Above(i) \ {i}
  <2>1. Above(q) \subseteq Above(parent[i]) /\ Above(parent[i]) \subseteq Above(i)
    BY <1>1, AboveIs
  <2> QED
    BY <2>1, NeverAgain
<1>4. Above(q)' \subseteq Above(i) /\ Above(q)' # Above(i)
  BY <1>1, <1>2, <1>3, AboveIs
<1>5. \A j \in Member : IsFiniteSet(Above(j)) /\ Cardinality(Above(j)) \in Nat
  BY AboveIsFinite
<1>6. ASSUME NEW j \in Member PROVE Cardinality(Above(j)') <= Cardinality(Above(j))
  BY <1>2, <1>5, FS_Subset
<1>7. Cardinality(Above(q)') < Cardinality(Above(i))
  <2>1. /\ Cardinality(Above(q)') <= Cardinality(Above(i)) /\ Cardinality(Above(q)') # Cardinality(Above(i))
        /\ IsFiniteSet(Above(q)')
    BY <1>4, <1>5, FS_Subset
  <2>2. Cardinality(Above(q)') \in Nat /\ Cardinality(Above(i)) \in Nat
    BY <1>5, <2>1, FS_CardinalityType
  <2> QED
    BY <2>1, <2>2
<1> QED
  BY <1>1, <1>6, <1>7

\* What the ways up from the two ends of a pair add up to.
WaysUp == Cardinality(Above(a)) + Cardinality(Above(b))

\* One turn of the loops of correlate_findings leaves less to do.
LEMMA CorrelationTurn ==
  ASSUME CorrelationType, Acyclic, PairBounds, Correlate
  PROVE  /\ PairBounds' /\ group' = group /\ left' \in Nat /\ right' \in Nat
         /\ \/ left' > left
            \/ left' = left /\ right' > right
            \/ left' = left /\ right' = right /\ WaysUp' < WaysUp
<1>1. /\ Len(group) \in Nat /\ left \in Nat /\ right \in Nat
      /\ group' = group /\ PairsLeft /\ left < Len(group) /\ right <= Len(group)
      /\ a \in Member /\ b \in Member
  BY DEF CorrelationType, Correlate, SkipPair, HalveLeft, HalveRight, Join, PairsLeft, Member
<1>2. CASE NextPair
  BY <1>1, <1>2 DEF NextPair, PairBounds
<1>3. \A k : Cardinality(Above(k)) \in Nat
  BY AboveIsFinite
<1>4. CASE HalveLeft
  <2>1. PICK i, j, q : i = a /\ j = b /\ q = parent[parent[a]]
    OBVIOUS
  <2>2. /\ parent[i] # i /\ parent' = [parent EXCEPT ![i] = q] /\ a' = q /\ b' = j /\ UNCHANGED <<left, right>>
    BY <1>4, <2>1 DEF HalveLeft
  <2>3. /\ Cardinality(Above(q)') < Cardinality(Above(i))
        /\ Cardinality(Above(j)') <= Cardinality(Above(j))
    BY <1>1, <2>1, <2>2, HalvingShortens
  <2>4. WaysUp' = Cardinality(Above(q)') + Cardinality(Above(j)') /\ WaysUp = Cardinality(Above(i)) + Cardinality(Above(j))
    BY <2>1, <2>2 DEF WaysUp, Above
  <2>5. Cardinality(Above(q)') \in Nat /\ Cardinality(Above(j)') \in Nat
    BY <1>1, <2>2, AfterHalving
  <2>6. WaysUp' < WaysUp
    BY <1>3, <2>3, <2>4, <2>5
  <2> QED
    BY <1>1, <2>2, <2>6 DEF PairBounds
<1>5. CASE HalveRight
  <2>1. PICK i, j, q : i = a /\ j = b /\ q = parent[parent[b]]
    OBVIOUS
  <2>2. /\ parent[j] # j /\ parent' = [parent EXCEPT ![j] = q] /\ a' = i /\ b' = q /\ UNCHANGED <<left, right>>
    BY <1>5, <2>1 DEF HalveRight
  <2>3. /\ Cardinality(Above(q)') < Cardinality(Above(j))
        /\ Cardinality(Above(i)') <= Cardinality(Above(i))
    BY <1>1, <2>1, <2>2, HalvingShortens
  <2>4. WaysUp' = Cardinality(Above(i)') + Cardinality(Above(q)') /\ WaysUp = Cardinality(Above(i)) + Cardinality(Above(j))
    BY <2>1, <2>2 DEF WaysUp, Above
  <2>5. Cardinality(Above(q)') \in Nat /\ Cardinality(Above(i)') \in Nat
    BY <1>1, <2>2, AfterHalving
  <2>6. WaysUp' < WaysUp
    BY <1>3, <2>3, <2>4, <2>5
  <2> QED
    BY <1>1, <2>2, <2>6 DEF PairBounds
<1> QED
  BY <1>2, <1>4, <1>5 DEF Correlate, SkipPair, Join

(***************************************************************************)
(* Texts.                                                                  *)
(***************************************************************************)

LEMMA TextsAre ==
  ASSUME NEW v \in DOMAIN Text
  PROVE  List(Text[v])
BY IngestAssumption DEF List

\* A value has characters, and the first of them is that of a value.
LEMMA ValuesAre ==
  ASSUME NEW v \in Valid
  PROVE  /\ v \in DOMAIN Text /\ List(Text[v]) /\ Len(Text[v]) \in Nat /\ Len(Text[v]) >= 1
         /\ Text[v][1] \notin {"nl", ",", "[", "]"} /\ (Text[v][1] = "{" <=> v \in Object)
<1>1. v \in DOMAIN Text /\ Text[v] # <<>>
  BY IngestAssumption
<1>2. Head(Text[v]) \notin {"nl", ",", "[", "]"} /\ (Head(Text[v]) = "{" <=> v \in Object)
  BY IngestAssumption
<1>3. List(Text[v])
  BY <1>1, TextsAre
<1>4. Len(Text[v]) \in Nat /\ Len(Text[v]) >= 1 /\ Head(Text[v]) = Text[v][1]
  BY <1>1, <1>3, ListHas, HeadTail
<1> QED
  BY <1>1, <1>2, <1>3, <1>4

\* The first part of a sequence.
LEMMA PartIs ==
  ASSUME NEW s, List(s), NEW n \in Int, n <= Len(s)
  PROVE  /\ List(SubSeq(s, 1, n)) /\ Len(SubSeq(s, 1, n)) = IF n < 0 THEN 0 ELSE n
         /\ \A i \in 1..n : SubSeq(s, 1, n)[i] = s[i]
<1>1. PICK T : s \in Seq(T)
  BY DEF List
<1>2. SubSeq(s, 1, n) \in Seq(T)
  BY <1>1
<1>3. Len(SubSeq(s, 1, n)) = IF n < 0 THEN 0 ELSE n
  BY <1>1
<1>4. \A i \in 1..n : SubSeq(s, 1, n)[i] = s[i]
  BY <1>1
<1> QED
  BY <1>2, <1>3, <1>4 DEF List

LEMMA PrefixIs ==
  ASSUME NEW s, List(s), NEW t, List(t)
  PROVE  IsPrefix(s, t) <=> Len(s) <= Len(t) /\ \A i \in 1..Len(s) : s[i] = t[i]
<1>1. Len(s) \in Nat /\ Len(t) \in Nat
  BY ListHas
<1>2. CASE Len(s) <= Len(t)
  <2> DEFINE p == SubSeq(s, 1, Len(s))
             q == SubSeq(t, 1, Len(s))
  <2>1. /\ List(p) /\ Len(p) = Len(s) /\ \A i \in 1..Len(s) : p[i] = s[i]
    BY <1>1, PartIs
  <2>2. /\ List(q) /\ Len(q) = Len(s) /\ \A i \in 1..Len(s) : q[i] = t[i]
    BY <1>1, <1>2, PartIs
  <2>3. IsPrefix(s, t) <=> p = q
    BY <1>2 DEF IsPrefix
  <2> HIDE DEF p, q
  <2>4. p = q <=> \A i \in 1..Len(s) : p[i] = q[i]
    BY <2>1, <2>2, ListsEqual
  <2> QED
    BY <1>2, <2>1, <2>2, <2>3, <2>4
<1>3. CASE ~(Len(s) <= Len(t))
  BY <1>3 DEF IsPrefix
<1> QED
  BY <1>2, <1>3

\* What the json library decodes at the beginning of a text, and what it leaves.
LEMMA DecodesAre ==
  ASSUME NEW s, List(s), NEW v \in Decodes(s)
  PROVE  /\ v \in Valid /\ Len(Text[v]) \in 1..Len(s) /\ After(v, s) = From(s, Len(Text[v]))
         /\ \A i \in 1..Len(Text[v]) : s[i] = Text[v][i]
<1>1. v \in Valid /\ IsPrefix(Text[v], s)
  BY DEF Decodes
<1>2. List(Text[v]) /\ Len(Text[v]) \in Nat /\ Len(Text[v]) >= 1 /\ Len(s) \in Nat
  BY <1>1, ValuesAre, ListHas
<1>3. Len(Text[v]) <= Len(s) /\ \A i \in 1..Len(Text[v]) : s[i] = Text[v][i]
  BY <1>1, <1>2, PrefixIs
<1>4. Len(Text[v]) \in 1..Len(s)
  BY <1>2, <1>3
<1> QED
  BY <1>1, <1>3, <1>4 DEF After, From

\* The text from its first inked character on.
StrippedAt(s, k) ==
    /\ k \in 0..Len(s) /\ LStrip(s) = From(s, k)
    /\ \A i \in 1..k : s[i] = "nl"
    /\ k < Len(s) => s[k + 1] # "nl"

LEMMA LStripIs ==
  ASSUME NEW s, List(s)
  PROVE  \E k \in 0..Len(s) : StrippedAt(s, k)
<1> DEFINE inked == {i \in DOMAIN s : s[i] # "nl"}
<1>1. Len(s) \in Nat /\ DOMAIN s = 1..Len(s)
  BY ListHas
<1>2. CASE inked = {}
  <2>1. LStrip(s) = <<>>
    BY <1>2 DEF LStrip
  <2>2. Len(s) \in 0..Len(s)
    BY <1>1
  <2>3. List(From(s, Len(s))) /\ Len(From(s, Len(s))) = 0
    BY <1>1, <2>2, FromIs
  <2>4. From(s, Len(s)) = <<>>
    BY <2>3, ListHas
  <2>5. \A i \in 1..Len(s) : s[i] = "nl"
    BY <1>1, <1>2
  <2> QED
    BY <1>1, <2>1, <2>2, <2>4, <2>5 DEF StrippedAt
<1>3. CASE inked # {}
  <2> DEFINE n == CHOOSE i \in inked : \A j \in inked : i <= j
  <2>1. LStrip(s) = SubSeq(s, n, Len(s))
    BY <1>3 DEF LStrip
  <2>2. inked \in SUBSET Nat
    BY <1>1
  <2> HIDE DEF inked
  <2>3. n \in inked /\ \A j \in inked : n <= j
    BY <1>3, <2>2, LeastNatural
  <2> HIDE DEF n
  <2>4. n \in 1..Len(s) /\ s[n] # "nl" /\ \A i \in 1..(n - 1) : s[i] = "nl"
    BY <1>1, <2>3 DEF inked
  <2>5. n - 1 \in 0..Len(s) /\ (n - 1) + 1 = n
    BY <1>1, <2>4
  <2> QED
    BY <2>1, <2>4, <2>5 DEF StrippedAt, From
<1> QED
  BY <1>2, <1>3

\* The first line of a text, and what follows it.
FirstLineOf(s, n) ==
    /\ n \in 1..Len(s) /\ NextLines(s) = From(s, n)
    /\ \/ s[n] = "nl" /\ IsPart(Line(s), s, 1, n - 1)
       \/ n = Len(s) /\ s[n] # "nl" /\ IsPart(Line(s), s, 1, n)
    /\ \A i \in 1..(n - 1) : s[i] # "nl"

LEMMA LinesAre ==
  ASSUME NEW s, List(s), s # <<>>
  PROVE  FirstLineOf(s, LineLength(s))
<1> DEFINE ends == {i \in DOMAIN s : s[i] = "nl"}
           n == LineLength(s)
<1>1. Len(s) \in Nat /\ DOMAIN s = 1..Len(s) /\ Len(s) >= 1
  BY ListHas
<1>2. NextLines(s) = From(s, n)
  BY DEF NextLines, From
<1>3. CASE ends = {}
  <2>1. n = Len(s)
    BY <1>3 DEF LineLength
  <2>2. n \in 1..Len(s) /\ \A i \in 1..Len(s) : s[i] # "nl"
    BY <1>1, <1>3, <2>1
  <2>3. Line(s) = SubSeq(s, 1, n)
    BY <2>2 DEF Line
  <2>4. IsPart(Line(s), s, 1, n)
    BY <1>1, <2>2, <2>3, SubSeqIs
  <2> QED
    BY <1>1, <1>2, <2>1, <2>2, <2>4 DEF FirstLineOf
<1>4. CASE ends # {}
  <2>1. n = CHOOSE i \in ends : \A j \in ends : i <= j
    BY <1>4 DEF LineLength
  <2>2. ends \in SUBSET Nat
    BY <1>1
  <2> HIDE DEF ends
  <2>3. n \in ends /\ \A j \in ends : n <= j
    BY <1>4, <2>1, <2>2, LeastNatural
  <2>4. n \in 1..Len(s) /\ s[n] = "nl" /\ \A i \in 1..(n - 1) : s[i] # "nl"
    BY <1>1, <2>3 DEF ends
  <2>5. n \in Nat /\ n > 0 /\ n - 1 \in 0..Len(s) /\ 1 \in 1..(Len(s) + 1) /\ 0 = 1 - 1
    BY <1>1, <2>4
  <2>6. Line(s) = SubSeq(s, 1, n - 1)
    BY <2>4, <2>5 DEF Line
  <2>7. IsPart(Line(s), s, 1, n - 1)
    BY <2>5, <2>6, SubSeqIs
  <2> HIDE DEF n
  <2> QED
    BY <1>2, <2>4, <2>7 DEF FirstLineOf, n
<1> QED
  BY <1>3, <1>4

\* The arithmetic prover reads no punctuation: these marks stay names for it.
Comma == ","
CommaAlone == <<Comma>>

LEMMA CommaIs == List(CommaAlone) /\ Len(CommaAlone) = 1 /\ CommaAlone[1] = Comma
<1>1. CommaAlone \in Seq({Comma})
  BY DEF CommaAlone
<1> QED
  BY <1>1 DEF List, CommaAlone

\* u is s with t after it.
Joined(u, s, t) ==
    /\ List(u) /\ Len(u) = Len(s) + Len(t)
    /\ \A i \in 1..Len(s) : u[i] = s[i]
    /\ \A i \in 1..Len(t) : u[Len(s) + i] = t[i]

LEMMA JoinedIs ==
  ASSUME NEW s, List(s), NEW t, List(t)
  PROVE  Joined(s \o t, s, t)
BY ConcatIs DEF Joined

LEMMA CommaThen ==
  ASSUME NEW c, List(c), Len(c) = 1, c[1] = Comma, NEW s, List(s), \A i \in 1..Len(s) : s[i] = "nl"
  PROVE  List(c \o s) /\ \A i \in 1..Len(c \o s) : (c \o s)[i] \in {"nl", Comma}
<1> DEFINE g == c \o s
<1>1. PICK n \in Nat : n = Len(s)
  BY ListHas
<1>2. Joined(g, c, s)
  BY JoinedIs
<1> HIDE DEF g
<1>3. List(g) /\ Len(g) = 1 + n /\ g[1] = Comma /\ \A k \in 1..n : g[1 + k] = "nl"
  BY <1>1, <1>2 DEF Joined
<1>4. ASSUME NEW k \in 1..(1 + n) PROVE g[k] \in {"nl", Comma}
  <2>1. CASE k = 1
    BY <1>3, <2>1
  <2>2. CASE k # 1
    <3>1. k - 1 \in 1..n /\ 1 + (k - 1) = k
      BY <1>1, <2>2
    <3>2. g[1 + (k - 1)] = "nl"
      BY <1>3, <3>1
    <3> QED
      BY <3>1, <3>2
  <2> QED
    BY <2>1, <2>2
<1> QED
  BY <1>3, <1>4 DEF g

\* What is read of a JSON file is a sequence.
LEMMA GlueIs ==
  ASSUME NEW f \in Files
  PROVE  /\ List(Glue(f)) /\ \A i \in 1..Len(Glue(f)) : Glue(f)[i] \in {"nl", Comma}
         /\ List(f.sep) /\ \A i \in 1..Len(f.sep) : f.sep[i] = "nl"
         /\ f.shape # "array" => Glue(f) = f.sep
         /\ f.shape = "array" => Glue(f) = CommaAlone \o f.sep
<1>1. f.sep \in Seq({"nl"})
  BY AnalysisAssumption DEF IsFile
<1>2. List(f.sep) /\ \A i \in 1..Len(f.sep) : f.sep[i] = "nl"
  BY <1>1 DEF List
<1>3. CASE f.shape # "array"
  <2>1. Glue(f) = <<>> \o f.sep
    BY <1>3 DEF Glue
  <2>2. Glue(f) = f.sep
    BY <1>1, <2>1
  <2> QED
    BY <1>2, <1>3, <2>2
<1>4. CASE f.shape = "array"
  <2>1. Glue(f) = CommaAlone \o f.sep
    BY <1>4, Zenon DEF Glue, CommaAlone, Comma
  <2>2. List(Glue(f)) /\ \A i \in 1..Len(Glue(f)) : Glue(f)[i] \in {"nl", Comma}
    BY <1>2, <2>1, CommaIs, CommaThen
  <2> QED
    BY <1>2, <1>4, <2>1, <2>2
<1> QED
  BY <1>3, <1>4

LEMMA NothingIsAList == List(<<>>) /\ Len(<<>>) = 0
<1>1. <<>> \in Seq({})
  OBVIOUS
<1> QED
  BY <1>1 DEF List

LEMMA PiecesAre ==
  ASSUME NEW f \in Files, f.fmt = ".json"
  PROVE  /\ Pile(Pieces(f)) /\ Len(Pieces(f)) = Len(f.parts) /\ List(f.parts)
         /\ \A i \in 1..Len(f.parts) :
               /\ f.parts[i] \in DOMAIN Text
               /\ Pieces(f)[i] = (IF i = 1 THEN <<>> ELSE Glue(f)) \o Text[f.parts[i]]
<1> DEFINE n == Len(f.parts)
<1>1. f.parts \in Seq(Range(f.parts)) /\ Range(f.parts) \subseteq DOMAIN Text
  BY AnalysisAssumption DEF IsFile
<1>2. n \in Nat /\ DOMAIN f.parts = 1..n /\ \A i \in 1..n : f.parts[i] \in DOMAIN Text
  BY <1>1
<1>3. DOMAIN Pieces(f) = 1..n /\ Pieces(f) = [i \in 1..n |-> Pieces(f)[i]]
  BY <1>2 DEF Pieces
<1>4. ASSUME NEW i \in 1..n
      PROVE  /\ Pieces(f)[i] = (IF i = 1 THEN <<>> ELSE Glue(f)) \o Text[f.parts[i]]
             /\ List(Pieces(f)[i])
  <2>1. Pieces(f)[i] = (IF i = 1 THEN <<>> ELSE Glue(f)) \o Text[f.parts[i]]
    BY <1>2 DEF Pieces
  <2>2. List(Text[f.parts[i]]) /\ List(Glue(f)) /\ List(<<>>)
    BY <1>2, TextsAre, GlueIs, NothingIsAList
  <2> QED
    BY <2>1, <2>2, ConcatIs
<1>5. List(Pieces(f)) /\ Len(Pieces(f)) = n
  BY <1>2, <1>3, ListMade
<1>6. List(f.parts)
  BY <1>1 DEF List
<1> QED
  BY <1>2, <1>4, <1>5, <1>6 DEF Pile

LEMMA CharactersAre ==
  ASSUME NEW f \in Files, f.fmt = ".json"
  PROVE  List(FullText(f)) /\ List(Characters(f))
<1>1. List(Flat(Pieces(f)))
  BY PiecesAre, FlatIs
<1>2. List(<<"[">>) /\ List(<<"]">>)
  <2>1. <<"[">> \in Seq({"["}) /\ <<"]">> \in Seq({"]"})
    OBVIOUS
  <2> QED
    BY <2>1 DEF List
<1>3. List(FullText(f))
  BY <1>1, <1>2, ConcatIs DEF FullText
<1>4. Len(FullText(f)) \in Nat /\ f.cut \in Nat
  BY <1>3, ListHas, AnalysisAssumption DEF IsFile
<1>5. Len(FullText(f)) - f.cut \in Int /\ Len(FullText(f)) - f.cut <= Len(FullText(f))
  BY <1>4
<1> QED
  BY <1>3, <1>5, PartIs DEF Characters

(***************************************************************************)
(* Every turn of a loop leaves less to do: the parsers.                    *)
(***************************************************************************)

PhaseOf(m) ==
    LET later == << {"parsed", "rejected"}, {"concat", ".csv"} \cup RecordFormats, {"array", "load"},
                    {"peek"}, {"ndjson"}, {"probe"}, {"idle"} >>
    IN CHOOSE n \in DOMAIN later : m \in later[n]

LEMMA PhasesAre ==
  /\ Phase = PhaseOf(mode) /\ Phase' = PhaseOf(mode')
  /\ \A m \in {"parsed", "rejected"} : PhaseOf(m) = 1
  /\ \A m \in {"concat", ".csv"} \cup RecordFormats : PhaseOf(m) = 2
  /\ PhaseOf("array") = 3 /\ PhaseOf("load") = 3 /\ PhaseOf("peek") = 4
  /\ PhaseOf("ndjson") = 5 /\ PhaseOf("probe") = 6 /\ PhaseOf("idle") = 7
<1> DEFINE later == << {"parsed", "rejected"}, {"concat", ".csv"} \cup RecordFormats, {"array", "load"},
                       {"peek"}, {"ndjson"}, {"probe"}, {"idle"} >>
<1>1. \A m : PhaseOf(m) = CHOOSE n \in 1..7 : m \in later[n]
  <2>1. DOMAIN later = 1..7
    OBVIOUS
  <2> QED
    BY <2>1 DEF PhaseOf
<1>2. \A n \in 1..7 : n \in {1, 2, 3, 4, 5, 6, 7}
  OBVIOUS
<1>3. ASSUME NEW m, NEW k \in 1..7, NEW n \in 1..7, m \in later[k], m \in later[n] PROVE k = n
  BY <1>2, <1>3 DEF RecordFormats
<1>4. ASSUME NEW m, NEW k \in 1..7, m \in later[k] PROVE PhaseOf(m) = k
  <2> HIDE DEF later
  <2> QED
    BY <1>1, <1>3, <1>4
<1>5. \A m \in {"parsed", "rejected"} : m \in later[1]
  OBVIOUS
<1>6. \A m \in {"concat", ".csv"} \cup RecordFormats : m \in later[2]
  OBVIOUS
<1>7. /\ "array" \in later[3] /\ "load" \in later[3] /\ "peek" \in later[4]
      /\ "ndjson" \in later[5] /\ "probe" \in later[6] /\ "idle" \in later[7]
  OBVIOUS
<1> HIDE DEF later
<1>8. Phase = PhaseOf(mode) /\ Phase' = PhaseOf(mode')
  BY DEF Phase, PhaseOf
<1> QED
  BY <1>4, <1>5, <1>6, <1>7, <1>8

JsonModes == {"probe", "ndjson", "peek", "load", "array", "concat"}

\* What the parsers read is a sequence, and so is what they keep of it.
ReadInv ==
    /\ mode \in Modes /\ List(rest) /\ List(buf)
    /\ mode \in JsonModes => file.fmt = ".json"
    /\ mode = "array" => scan \in [started : BOOLEAN, eof : BOOLEAN, hungry : BOOLEAN]

Unread == Len(rest) + (IF mode = "array" /\ ~scan.eof THEN 1 ELSE 0)
Unlooked == IF mode = "array" /\ ~scan.hungry THEN 1 ELSE 0

LEMMA ParserLeftIs == ParserLeft = <<Phase, Unread, Len(buf), Unlooked>>
BY DEF ParserLeft, Unread, Unlooked

\* What a parser takes.
Takes ==
    \/ Phase' < Phase
    \/ Phase' = Phase /\ Unread' < Unread
    \/ Phase' = Phase /\ Unread' = Unread /\ Len(buf') < Len(buf)
    \/ Phase' = Phase /\ Unread' = Unread /\ Len(buf') = Len(buf) /\ Unlooked' < Unlooked

LEMMA OpenTakes ==
  ASSUME NEW m \in Modes, NEW flags, Open(m, flags), file \in Files, file.fmt = ".json",
         PhaseOf(m) < PhaseOf(mode), m = "array" => flags = Array
  PROVE  ReadInv' /\ Takes
<1>1. mode' = m /\ scan' = flags /\ rest' = Characters(file) /\ buf' = <<>>
  BY DEF Open
<1>2. List(rest') /\ List(buf')
  BY <1>1, CharactersAre, NothingIsAList
<1>3. Array \in [started : BOOLEAN, eof : BOOLEAN, hungry : BOOLEAN]
  BY DEF Array
<1>4. file' = file
  BY DEF Open
<1> QED
  BY <1>1, <1>2, <1>3, <1>4, PhasesAre DEF ReadInv, Takes

LEMMA FinishTakes ==
  ASSUME NEW m \in {"parsed", "rejected"}, Finish(m), ReadInv, mode \notin {"parsed", "rejected"}
  PROVE  ReadInv' /\ Takes
<1>1. mode' = m /\ UNCHANGED <<file, rest, buf, scan>> /\ mode' # "array"
  BY DEF Finish
<1>2. mode' \in Modes
  BY <1>1 DEF Modes
<1>4. mode' \notin JsonModes
  BY <1>1 DEF JsonModes
<1>3. Phase' = 1 /\ Phase > 1
  <2>1. mode \in {"concat", ".csv"} \cup RecordFormats \cup {"array", "load", "peek", "ndjson", "probe", "idle"}
    BY DEF ReadInv, Modes
  <2> QED
    BY <1>1, <2>1, PhasesAre
<1> QED
  BY <1>1, <1>2, <1>3, <1>4 DEF ReadInv, Takes

LEMMA ListedTakes ==
  ASSUME NEW values, Listed(values), ReadInv, mode = "load"
  PROVE  ReadInv' /\ Takes
<1>1. Finish("parsed") \/ Finish("rejected")
  BY DEF Listed
<1> QED
  BY <1>1, FinishTakes

\* A parser that reads on in a sequence.
LEMMA ReadingTakes ==
  ASSUME ReadInv, UNCHANGED <<file, mode>>, mode # "array", List(rest'), List(buf'), Len(rest') < Len(rest)
  PROVE  ReadInv' /\ Takes
<1>1. Unread = Len(rest) /\ Unread' = Len(rest') /\ Len(rest) \in Nat /\ Len(rest') \in Nat
  <2>1. Unread = Len(rest) + 0 /\ Unread' = Len(rest') + 0 /\ Len(rest) \in Nat /\ Len(rest') \in Nat
    BY ListHas DEF Unread, ReadInv
  <2> QED
    BY <2>1
<1>2. Phase' = Phase
  BY PhasesAre
<1> QED
  BY <1>1, <1>2 DEF ReadInv, Takes

\* A turn of the parser of arrays that reads nothing.
LEMMA DecodingTakes ==
  ASSUME ReadInv, mode = "array", UNCHANGED <<file, mode, rest>>, List(buf'),
         scan' \in [started : BOOLEAN, eof : BOOLEAN, hungry : BOOLEAN], scan'.eof = scan.eof,
         \/ Len(buf') < Len(buf)
         \/ Len(buf') = Len(buf) /\ ~scan.hungry /\ scan'.hungry
  PROVE  ReadInv' /\ Takes
<1>1. Unread' = Unread /\ Phase' = Phase
  BY PhasesAre DEF Unread
<1>2. ~scan.hungry /\ scan'.hungry => Unlooked' < Unlooked
  BY DEF Unlooked
<1> QED
  BY <1>1, <1>2 DEF ReadInv, Takes

\* One turn of a parser leaves less to read, to decode or to try.
LEMMA ParserTurn ==
  ASSUME ReadInv, file \in Files, file.fmt \in Accepted, Parse
  PROVE  ReadInv' /\ Takes
<1>0. {"probe", "ndjson", "peek", "load", "array", "concat", "parsed", "rejected"} \subseteq Modes
  BY DEF Modes
<1>1. CASE ParseFile
  <2>1. CASE file.fmt = ".json"
    <3>1. PICK m \in {"probe", "load"} : Open(m, <<>>)
      BY <1>1, <2>1 DEF ParseFile
    <3>2. PhaseOf(m) < PhaseOf(mode)
      BY <1>1, PhasesAre DEF ParseFile
    <3> QED
      BY <1>0, <2>1, <3>1, <3>2, OpenTakes
  <2>2. CASE file.fmt # ".json"
    <3>1. /\ mode = "idle" /\ mode' = file.fmt /\ UNCHANGED <<file, buf, scan>>
          /\ rest' = IF file.fmt = ".csv" THEN file.rows ELSE file.parts
      BY <1>1, <2>2 DEF ParseFile
    <3>2. List(rest')
      <4>1. file.rows \in Seq(Range(file.rows)) /\ file.parts \in Seq(Range(file.parts))
        BY AnalysisAssumption DEF IsFile
      <4>2. List(file.rows) /\ List(file.parts)
        BY <4>1 DEF List
      <4> QED
        BY <3>1, <4>2
    <3>3. mode' \in {"concat", ".csv"} \cup RecordFormats /\ mode' \in Modes /\ mode' # "array" /\ mode' \notin JsonModes
      BY <2>2, <3>1 DEF Accepted, Modes, RecordFormats, JsonModes
    <3>4. Phase = 7 /\ Phase' = 2
      BY <3>1, <3>3, PhasesAre
    <3>5. List(buf')
      BY <3>1 DEF ReadInv
    <3>6. ReadInv'
      BY <3>2, <3>3, <3>5 DEF ReadInv
    <3> QED
      BY <3>4, <3>6 DEF Takes
  <2> QED
    BY <2>1, <2>2
<1>2. CASE Probe
  <2>1. PICK m \in {"ndjson", "peek"} : Open(m, <<>>)
    BY <1>2 DEF Probe
  <2>2. PhaseOf(m) < PhaseOf(mode) /\ file.fmt = ".json"
    BY <1>2, PhasesAre DEF Probe, ReadInv, JsonModes
  <2> QED
    BY <1>0, <2>1, <2>2, OpenTakes
<1>3. CASE TakeLine
  <2>1. mode = "ndjson" /\ rest # <<>> /\ file.fmt = ".json"
    BY <1>3 DEF TakeLine, ReadInv, JsonModes
  <2>2. List(rest) /\ List(buf)
    BY DEF ReadInv
  <2>3. List(NextLines(rest)) /\ Len(NextLines(rest)) < Len(rest)
    <3>1. PICK n : n = LineLength(rest)
      OBVIOUS
    <3>2. n \in 1..Len(rest) /\ NextLines(rest) = From(rest, n) /\ Len(rest) \in Nat
      BY <2>1, <2>2, <3>1, LinesAre, ListHas DEF FirstLineOf
    <3>3. n \in 0..Len(rest)
      BY <3>2
    <3> QED
      BY <2>2, <3>2, <3>3, FromIs
  <2>4. CASE rest' = NextLines(rest) /\ UNCHANGED <<file, mode, buf, scan>>
    BY <2>1, <2>2, <2>3, <2>4, ReadingTakes
  <2>5. CASE Finish("rejected")
    BY <2>1, <2>5, FinishTakes
  <2>6. CASE Open("peek", <<>>)
    BY <1>0, <2>1, <2>6, OpenTakes, PhasesAre
  <2> QED
    BY <1>3, <2>4, <2>5, <2>6 DEF TakeLine
<1>4. CASE Peek
  <2>1. PICK m \in {"concat", "array", "load"}, flags \in {Concat, Array, <<>>} : Open(m, flags) /\ (m = "array" => flags = Array)
    BY <1>4 DEF Peek
  <2>0. mode = "peek"
    BY <1>4 DEF Peek
  <2>2. PhaseOf(m) < PhaseOf(mode) /\ file.fmt = ".json"
    BY <2>0, PhasesAre DEF ReadInv, JsonModes
  <2> QED
    BY <1>0, <2>1, <2>2, OpenTakes
<1>5. CASE Load
  <2>1. mode = "load" /\ file.fmt = ".json"
    BY <1>5 DEF Load, ReadInv, JsonModes
  <2>2. CASE \E values : Listed(values)
    BY <2>1, <2>2, ListedTakes
  <2>3. CASE Open("concat", Concat)
    BY <1>0, <2>1, <2>3, OpenTakes, PhasesAre
  <2>4. CASE Finish("rejected")
    BY <2>1, <2>4, FinishTakes
  <2> QED
    BY <1>5, <2>2, <2>3, <2>4 DEF Load
<1>6. CASE ReadChunk
  <2>1. mode = "array" /\ file.fmt = ".json" /\ List(rest) /\ List(buf)
        /\ scan \in [started : BOOLEAN, eof : BOOLEAN, hungry : BOOLEAN]
    BY <1>6 DEF ReadChunk, ReadInv, JsonModes
  <2>2. CASE Finish("parsed")
    BY <2>1, <2>2, FinishTakes
  <2>3. CASE ~Finish("parsed")
    <3> DEFINE n == Min2(Chunk, Len(rest))
    <3>1. /\ ~scan.eof /\ buf' = buf \o SubSeq(rest, 1, n) /\ rest' = From(rest, n)
          /\ scan' = [scan EXCEPT !.eof = rest = <<>>, !.hungry = FALSE] /\ UNCHANGED <<file, mode>>
      BY <1>6, <2>3 DEF ReadChunk, From
    <3>2. Len(rest) \in Nat /\ n \in 0..Len(rest) /\ n \in Int /\ n <= Len(rest)
          /\ (rest = <<>> <=> Len(rest) = 0) /\ (rest # <<>> => n > 0)
      BY <2>1, ListHas, CapsAre DEF Min2
    <3> HIDE DEF n
    <3>3. List(rest') /\ Len(rest') = Len(rest) - n
      BY <2>1, <3>1, <3>2, FromIs
    <3>4. List(buf')
      <4>1. List(SubSeq(rest, 1, n))
        BY <2>1, <3>2, PartIs
      <4> QED
        BY <2>1, <3>1, <4>1, ConcatIs
    <3>5. /\ scan' \in [started : BOOLEAN, eof : BOOLEAN, hungry : BOOLEAN]
          /\ scan'.eof = (rest = <<>>) /\ mode' = "array"
      BY <2>1, <3>1
    <3>6. Unread = Len(rest) + 1 /\ Unread' = Len(rest') + (IF rest = <<>> THEN 0 ELSE 1)
      BY <2>1, <3>1, <3>5 DEF Unread
    <3>7. Unread' < Unread
      BY <3>2, <3>3, <3>6
    <3>8. Phase' = Phase
      BY <3>1, PhasesAre
    <3>9. ReadInv'
      BY <2>1, <3>1, <3>3, <3>4, <3>5 DEF ReadInv
    <3> QED
      BY <3>7, <3>8, <3>9 DEF Takes
  <2> QED
    BY <2>2, <2>3
<1>7. CASE TakeElement
  <2>1. mode = "array" /\ ~scan.hungry
    BY <1>7 DEF TakeElement
  <2>2. file.fmt = ".json" /\ List(buf) /\ scan \in [started : BOOLEAN, eof : BOOLEAN, hungry : BOOLEAN]
    BY <2>1 DEF ReadInv, JsonModes
  <2> DEFINE s == LStrip(buf)
             Halts == Finish("parsed") \/ Finish("rejected")
             Starves == Starve(s) /\ UNCHANGED <<file, mode, rest>>
             Shortens == /\ UNCHANGED <<file, mode, rest>> /\ scan' \in {scan, [scan EXCEPT !.started = TRUE]}
                         /\ (s # <<>> /\ buf' = Tail(s)) \/ \E v \in Decodes(s) : buf' = After(v, s)
  <2>3. Halts \/ Starves \/ Shortens
    BY <1>7, Zenon DEF TakeElement
  <2> HIDE DEF s
  <2>4. List(s) /\ Len(s) <= Len(buf) /\ Len(s) \in Nat /\ Len(buf) \in Nat
    <3>1. PICK k \in 0..Len(buf) : StrippedAt(buf, k)
      BY <2>2, LStripIs
    <3>2. s = From(buf, k) /\ Len(buf) \in Nat
      BY <2>2, <3>1, ListHas DEF StrippedAt, s
    <3>3. List(s) /\ Len(s) = Len(buf) - k
      BY <2>2, <3>1, <3>2, FromIs
    <3> QED
      BY <3>1, <3>2, <3>3
  <2>5. CASE Halts
    BY <2>1, <2>5, FinishTakes
  <2>6. CASE Starves
    <3>1. buf' = s /\ scan' = [scan EXCEPT !.hungry = TRUE]
      BY <2>6 DEF Starve
    <3>2. /\ scan' \in [started : BOOLEAN, eof : BOOLEAN, hungry : BOOLEAN]
          /\ scan'.eof = scan.eof /\ scan'.hungry
      BY <2>2, <3>1
    <3>3. Len(buf') < Len(buf) \/ Len(buf') = Len(buf)
      BY <2>4, <3>1
    <3>4. List(buf')
      BY <2>4, <3>1
    <3> QED
      BY <2>1, <2>6, <3>2, <3>3, <3>4, DecodingTakes
  <2>7. CASE Shortens
    <3>1. List(buf') /\ Len(buf') < Len(s)
      <4>1. CASE s # <<>> /\ buf' = Tail(s)
        BY <2>4, <4>1, HeadTail
      <4>2. ASSUME NEW v \in Decodes(s), buf' = After(v, s) PROVE List(buf') /\ Len(buf') < Len(s)
        <5>1. Len(Text[v]) \in 1..Len(s) /\ buf' = From(s, Len(Text[v]))
          BY <2>4, <4>2, DecodesAre
        <5>2. Len(Text[v]) \in 0..Len(s)
          BY <5>1
        <5> QED
          BY <2>4, <5>1, <5>2, FromIs
      <4> QED
        BY <2>7, <4>1, <4>2
    <3>2. Len(buf') < Len(buf)
      <4>1. Len(buf') \in Nat
        BY <3>1, ListHas
      <4> QED
        BY <2>4, <3>1, <4>1
    <3>3. /\ scan' \in [started : BOOLEAN, eof : BOOLEAN, hungry : BOOLEAN]
          /\ scan'.eof = scan.eof /\ UNCHANGED <<file, mode, rest>>
      BY <2>2, <2>7
    <3> QED
      BY <2>1, <3>1, <3>2, <3>3, DecodingTakes
  <2> HIDE DEF Halts, Starves, Shortens
  <2> QED
    BY <2>3, <2>5, <2>6, <2>7
<1>8. CASE TakeCharacter
  <2>1. mode = "concat" /\ rest # <<>> /\ rest' = Tail(rest) /\ UNCHANGED <<file, mode>> /\ List(rest) /\ List(buf)
    BY <1>8 DEF TakeCharacter, ReadInv
  <2>2. \E ch : buf' \in {<<ch>>, Append(buf, ch), buf, <<>>}
    BY <1>8, Zenon DEF TakeCharacter, Complete
  <2>3. List(buf')
    <3>1. PICK ch : buf' \in {<<ch>>, Append(buf, ch), buf, <<>>}
      BY <2>2
    <3>2. List(Append(buf, ch)) /\ List(<<>>)
      BY <2>1, AppendIs, NothingIsAList
    <3>3. List(<<ch>>)
      <4>1. <<ch>> \in Seq({ch})
        OBVIOUS
      <4> QED
        BY <4>1 DEF List
    <3> QED
      BY <2>1, <3>1, <3>2, <3>3
  <2>4. List(rest') /\ Len(rest') < Len(rest)
    <3>1. Len(rest) \in Nat /\ List(rest') /\ Len(rest') = Len(rest) - 1
      BY <2>1, HeadTail, ListHas
    <3> QED
      BY <3>1
  <2> QED
    BY <2>1, <2>3, <2>4, ReadingTakes
<1>9. CASE TakeRow
  <2>1. mode = ".csv" /\ rest # <<>> /\ rest' = Tail(rest) /\ UNCHANGED <<file, mode, buf>> /\ List(rest) /\ List(buf)
    BY <1>9 DEF TakeRow, ReadInv
  <2>2. Len(rest) \in Nat /\ List(rest') /\ Len(rest') = Len(rest) - 1
    BY <2>1, HeadTail, ListHas
  <2>3. Len(rest') < Len(rest) /\ mode # "array"
    BY <2>1, <2>2
  <2> QED
    BY <2>1, <2>2, <2>3, ReadingTakes
<1>10. CASE TakeRecord
  <2>1. mode \in RecordFormats /\ rest # <<>> /\ List(rest) /\ List(buf)
    BY <1>10 DEF TakeRecord, ReadInv
  <2>2. mode \notin {"array", "parsed", "rejected"}
    BY <2>1 DEF RecordFormats
  <2>3. CASE Finish("rejected")
    BY <2>2, <2>3, FinishTakes
  <2>4. CASE rest' = Tail(rest) /\ UNCHANGED <<file, mode, buf>>
    <3>1. Len(rest) \in Nat /\ List(rest') /\ Len(rest') = Len(rest) - 1
      BY <2>1, <2>4, HeadTail, ListHas
    <3>2. Len(rest') < Len(rest)
      BY <3>1
    <3> QED
      BY <2>1, <2>2, <2>4, <3>1, <3>2, ReadingTakes
  <2> QED
    BY <1>10, <2>3, <2>4 DEF TakeRecord
<1>11. CASE EndOfInput
  <2>1. mode \in {"ndjson", ".csv", "concat"} \cup RecordFormats /\ Finish("parsed")
    BY <1>11 DEF EndOfInput
  <2>2. mode \notin {"parsed", "rejected"}
    BY <2>1 DEF RecordFormats
  <2> QED
    BY <2>1, <2>2, FinishTakes
<1> QED
  BY <1>1, <1>2, <1>3, <1>4, <1>5, <1>6, <1>7, <1>8, <1>9, <1>10, <1>11 DEF Parse

(***************************************************************************)
(* Every turn of a loop leaves less to do: the pipeline.                   *)
(***************************************************************************)

StageOf(s) == CHOOSE n \in DOMAIN Stages : Stages[n] = s

LEMMA StagesFollow ==
  /\ StageOf("refused") = 1 /\ StageOf("answered") = 2 /\ StageOf("correlating") = 3
  /\ StageOf("cutting") = 4 /\ StageOf("drawing") = 5 /\ StageOf("parsed") = 6
  /\ StageOf("parsing") = 7 /\ StageOf("received") = 8
<1>1. DOMAIN Stages = 1..8
  BY DEF Stages
<1>2. \A n \in 1..8 : n \in {1, 2, 3, 4, 5, 6, 7, 8}
  OBVIOUS
<1>3. ASSUME NEW k \in 1..8, NEW n \in 1..8, Stages[k] = Stages[n] PROVE k = n
  BY <1>2, <1>3 DEF Stages
<1>4. ASSUME NEW k \in 1..8 PROVE StageOf(Stages[k]) = k
  BY <1>1, <1>3 DEF StageOf
<1>5. /\ StageOf(Stages[1]) = 1 /\ StageOf(Stages[2]) = 2 /\ StageOf(Stages[3]) = 3
      /\ StageOf(Stages[4]) = 4 /\ StageOf(Stages[5]) = 5 /\ StageOf(Stages[6]) = 6
      /\ StageOf(Stages[7]) = 7 /\ StageOf(Stages[8]) = 8
  BY <1>4
<1>6. /\ Stages[1] = "refused" /\ Stages[2] = "answered" /\ Stages[3] = "correlating"
      /\ Stages[4] = "cutting" /\ Stages[5] = "drawing" /\ Stages[6] = "parsed"
      /\ Stages[7] = "parsing" /\ Stages[8] = "received"
  BY DEF Stages
<1> QED
  BY <1>5, <1>6

\* The five numbers of Remaining.
Five(n, u, v, w, x) == <<n, u, v, w, x>>

LEMMA SinglesAre ==
  ASSUME NEW n
  PROVE  List(<<n>>) /\ Len(<<n>>) = 1 /\ <<n>>[1] = n
<1>1. <<n>> \in Seq({n})
  OBVIOUS
<1> QED
  BY <1>1 DEF List

LEMMA ThreesAre ==
  ASSUME NEW u, NEW v, NEW w
  PROVE  <<u, v, w>> \o <<0>> = <<u, v, w, 0>>
<1> DEFINE T == {u, v, w, 0}
           s == <<u, v, w>>
           t == <<0>>
           j == s \o t
           f == <<u, v, w, 0>>
<1>1. s \in Seq(T) /\ t \in Seq(T) /\ f \in Seq(T)
  OBVIOUS
<1>2. List(s) /\ List(t) /\ List(f)
  BY <1>1 DEF List
<1>3. Len(s) = 3 /\ Len(t) = 1 /\ Len(f) = 4
  OBVIOUS
<1>4. Joined(j, s, t)
  BY <1>2, JoinedIs
<1>5. s[1] = u /\ s[2] = v /\ s[3] = w /\ t[1] = 0 /\ f[1] = u /\ f[2] = v /\ f[3] = w /\ f[4] = 0
  OBVIOUS
<1> HIDE DEF s, t, j, f
<1>6. /\ List(j) /\ Len(j) = 4 /\ j[1] = s[1] /\ j[2] = s[2] /\ j[3] = s[3] /\ j[4] = t[1]
  BY <1>3, <1>4 DEF Joined
<1>7. \A i \in 1..4 : i \in {1, 2, 3, 4}
  OBVIOUS
<1>8. \A i \in 1..Len(j) : j[i] = f[i]
  BY <1>5, <1>6, <1>7
<1>9. j = f
  BY <1>2, <1>3, <1>6, <1>8, ListsEqual
<1> QED
  BY <1>9 DEF s, t, j, f

LEMMA FoursAre ==
  ASSUME NEW n, NEW u, NEW v, NEW w, NEW x
  PROVE  <<n>> \o <<u, v, w, x>> = Five(n, u, v, w, x)
<1> DEFINE T == {n, u, v, w, x}
           s == <<n>>
           t == <<u, v, w, x>>
           j == s \o t
           f == <<n, u, v, w, x>>
<1>1. s \in Seq(T) /\ t \in Seq(T) /\ f \in Seq(T)
  OBVIOUS
<1>2. List(s) /\ List(t) /\ List(f)
  BY <1>1 DEF List
<1>3. Len(s) = 1 /\ Len(t) = 4 /\ Len(f) = 5
  OBVIOUS
<1>4. Joined(j, s, t)
  BY <1>2, JoinedIs
<1>5. /\ s[1] = n /\ t[1] = u /\ t[2] = v /\ t[3] = w /\ t[4] = x
      /\ f[1] = n /\ f[2] = u /\ f[3] = v /\ f[4] = w /\ f[5] = x
  OBVIOUS
<1> HIDE DEF s, t, j, f
<1>6. /\ List(j) /\ Len(j) = 5 /\ j[1] = s[1] /\ j[2] = t[1] /\ j[3] = t[2] /\ j[4] = t[3] /\ j[5] = t[4]
  BY <1>3, <1>4 DEF Joined
<1>7. \A i \in 1..5 : i \in {1, 2, 3, 4, 5}
  OBVIOUS
<1>8. \A i \in 1..Len(j) : j[i] = f[i]
  BY <1>5, <1>6, <1>7
<1>9. j = f
  BY <1>2, <1>3, <1>6, <1>8, ListsEqual
<1> QED
  BY <1>9 DEF s, t, j, f, Five

LEMMA FivesAreNumbers ==
  ASSUME NEW n \in Nat, NEW u \in Nat, NEW v \in Nat, NEW w \in Nat, NEW x \in Nat
  PROVE  Five(n, u, v, w, x) \in [1..5 -> Nat]
<1>1. <<n, u, v, w, x>> = [i \in 1..5 |-> <<n, u, v, w, x>>[i]]
  OBVIOUS
<1>2. \A i \in 1..5 : i \in {1, 2, 3, 4, 5}
  OBVIOUS
<1>3. \A i \in 1..5 : <<n, u, v, w, x>>[i] \in Nat
  BY <1>2
<1> QED
  BY <1>1, <1>3 DEF Five

LEMMA FivesPrecede ==
  ASSUME NEW n, NEW u, NEW v, NEW w, NEW x, NEW n1, NEW u1, NEW v1, NEW w1, NEW x1,
         \/ n1 < n
         \/ n1 = n /\ u1 < u
         \/ n1 = n /\ u1 = u /\ v1 < v
         \/ n1 = n /\ u1 = u /\ v1 = v /\ w1 < w
         \/ n1 = n /\ u1 = u /\ v1 = v /\ w1 = w /\ x1 < x
  PROVE  Precede(Five(n1, u1, v1, w1, x1), Five(n, u, v, w, x))
<1> DEFINE p == Five(n1, u1, v1, w1, x1)
           q == Five(n, u, v, w, x)
<1>1. /\ p[1] = n1 /\ p[2] = u1 /\ p[3] = v1 /\ p[4] = w1 /\ p[5] = x1
      /\ q[1] = n /\ q[2] = u /\ q[3] = v /\ q[4] = w /\ q[5] = x /\ DOMAIN q = 1..5
  BY DEF Five
<1> HIDE DEF p, q
<1>2. /\ \A j \in 1..(1 - 1) : p[j] = q[j]
      /\ p[1] = q[1] => \A j \in 1..(2 - 1) : p[j] = q[j]
      /\ p[1] = q[1] /\ p[2] = q[2] => \A j \in 1..(3 - 1) : p[j] = q[j]
      /\ p[1] = q[1] /\ p[2] = q[2] /\ p[3] = q[3] => \A j \in 1..(4 - 1) : p[j] = q[j]
      /\ p[1] = q[1] /\ p[2] = q[2] /\ p[3] = q[3] /\ p[4] = q[4] => \A j \in 1..(5 - 1) : p[j] = q[j]
  <2>1. /\ \A j \in 1..(1 - 1) : FALSE
        /\ \A j \in 1..(2 - 1) : j = 1
        /\ \A j \in 1..(3 - 1) : j \in {1, 2}
        /\ \A j \in 1..(4 - 1) : j \in {1, 2, 3}
        /\ \A j \in 1..(5 - 1) : j \in {1, 2, 3, 4}
    OBVIOUS
  <2> QED
    BY <2>1
<1>3. 1 \in DOMAIN q /\ 2 \in DOMAIN q /\ 3 \in DOMAIN q /\ 4 \in DOMAIN q /\ 5 \in DOMAIN q
  BY <1>1
<1>4. Precede(p, q)
  BY <1>1, <1>2, <1>3 DEF Precede
<1> QED
  BY <1>4 DEF p, q

\* How much is left, at each stage.
RemainingByStage ==
    /\ stage = "parsing" => Remaining = Five(StageOf(stage), Phase, Unread, Len(buf), Unlooked)
    /\ stage = "drawing" => Remaining = Five(StageOf(stage), Len(events) - cursor, 0, 0, 0)
    /\ stage = "cutting" => Remaining = Five(StageOf(stage), Len(edges) - passed, 0, 0, 0)
    /\ stage = "correlating" =>
          Remaining = Five(StageOf(stage), Len(group) + 1 - left, Len(group) + 2 - right, WaysUp, 0)
    /\ stage \notin {"parsing", "drawing", "cutting", "correlating"} =>
          Remaining = Five(StageOf(stage), 0, 0, 0, 0)

LEMMA RemainingIs == RemainingByStage /\ RemainingByStage'
<1>1. RemainingByStage
  <2>1. CASE stage = "parsing"
    <3>1. Remaining = <<StageOf(stage)>> \o ParserLeft
      BY <2>1 DEF Remaining, StageOf
    <3>2. ParserLeft = <<Phase, Unread, Len(buf), Unlooked>>
      BY ParserLeftIs
    <3>3. Remaining = <<StageOf(stage)>> \o <<Phase, Unread, Len(buf), Unlooked>>
      BY <3>1, <3>2
    <3>5. Remaining = Five(StageOf(stage), Phase, Unread, Len(buf), Unlooked)
      BY <3>3, FoursAre
    <3> QED
      BY <2>1, <3>5 DEF RemainingByStage
  <2>2. CASE stage = "drawing"
    <3>3. Remaining = <<StageOf(stage)>> \o <<Len(events) - cursor, 0, 0, 0>>
      BY <2>2 DEF Remaining, StageOf
    <3>5. Remaining = Five(StageOf(stage), Len(events) - cursor, 0, 0, 0)
      BY <3>3, FoursAre
    <3> QED
      BY <2>2, <3>5 DEF RemainingByStage
  <2>3. CASE stage = "cutting"
    <3>3. Remaining = <<StageOf(stage)>> \o <<Len(edges) - passed, 0, 0, 0>>
      BY <2>3 DEF Remaining, StageOf
    <3>5. Remaining = Five(StageOf(stage), Len(edges) - passed, 0, 0, 0)
      BY <3>3, FoursAre
    <3> QED
      BY <2>3, <3>5 DEF RemainingByStage
  <2>4. CASE stage = "correlating"
    <3>1. Remaining = <<StageOf(stage)>> \o (CorrelationLeft \o <<0>>)
      BY <2>4 DEF Remaining, StageOf
    <3>2. CorrelationLeft = <<Len(group) + 1 - left, Len(group) + 2 - right, WaysUp>>
      BY DEF CorrelationLeft, WaysUp
    <3>4. CorrelationLeft \o <<0>> = <<Len(group) + 1 - left, Len(group) + 2 - right, WaysUp, 0>>
      BY <3>2, ThreesAre
    <3>3. Remaining = <<StageOf(stage)>> \o <<Len(group) + 1 - left, Len(group) + 2 - right, WaysUp, 0>>
      BY <3>1, <3>4
    <3>5. Remaining = Five(StageOf(stage), Len(group) + 1 - left, Len(group) + 2 - right, WaysUp, 0)
      BY <3>3, FoursAre
    <3> QED
      BY <2>4, <3>5 DEF RemainingByStage
  <2>5. CASE stage \notin {"parsing", "drawing", "cutting", "correlating"}
    <3>3. Remaining = <<StageOf(stage)>> \o <<0, 0, 0, 0>>
      BY <2>5 DEF Remaining, StageOf
    <3>5. Remaining = Five(StageOf(stage), 0, 0, 0, 0)
      BY <3>3, FoursAre
    <3> QED
      BY <2>5, <3>5 DEF RemainingByStage
  <2> QED
    BY <2>1, <2>2, <2>3, <2>4, <2>5
<1> QED
  BY <1>1, PTL

RemainingIsFive == Remaining \in [1..5 -> Nat]

\* What the measure needs to be one.
TurnInv == ReadInv /\ PairBounds

LEMMA RemainingType == PipelineInv /\ TurnInv => RemainingIsFive
<1> SUFFICES ASSUME PipelineInv, TurnInv PROVE RemainingIsFive
  OBVIOUS
<1>1. StageOf(stage) \in Nat
  <2>1. stage \in {"received", "parsing", "refused", "parsed", "drawing", "cutting", "correlating", "answered"}
    BY StagesAre DEF PipelineInv, FileInv
  <2> QED
    BY <2>1, StagesFollow
<1>2. CASE stage = "parsing"
  <2>1. Phase \in Nat
    <3>1. mode \in {"parsed", "rejected"} \cup ({"concat", ".csv"} \cup RecordFormats)
                   \cup {"array", "load", "peek", "ndjson", "probe", "idle"}
      BY DEF TurnInv, ReadInv, Modes
    <3> QED
      BY <3>1, PhasesAre
  <2>2. Unread \in Nat /\ Len(buf) \in Nat /\ Unlooked \in Nat
    BY ListHas DEF TurnInv, ReadInv, Unread, Unlooked
  <2>3. Five(StageOf(stage), Phase, Unread, Len(buf), Unlooked) \in [1..5 -> Nat]
    BY <1>1, <2>1, <2>2, FivesAreNumbers
  <2> QED
    BY <1>2, <2>3, RemainingIs DEF RemainingByStage, RemainingIsFive
<1>3. CASE stage = "drawing"
  <2>1. Len(events) \in Nat /\ cursor \in 0..Len(events)
    BY <1>3, StagesAre DEF PipelineInv, EventsInv, EventsAreWellFormed, Dataset, GraphInv, DrawingInv
  <2>2. Len(events) - cursor \in Nat
    BY <2>1
  <2>3. Five(StageOf(stage), Len(events) - cursor, 0, 0, 0) \in [1..5 -> Nat]
    BY <1>1, <2>2, FivesAreNumbers
  <2> QED
    BY <1>3, <2>3, RemainingIs DEF RemainingByStage, RemainingIsFive
<1>4. CASE stage = "cutting"
  <2>1. DrawingInv /\ CutInv
    BY <1>4, StagesAre DEF PipelineInv, GraphInv
  <2>2. Len(edges) \in Nat /\ passed \in 0..Len(edges)
    BY <2>1, ListIs DEF DrawingInv, CutInv
  <2>3. Len(edges) - passed \in Nat
    BY <2>2
  <2>4. Five(StageOf(stage), Len(edges) - passed, 0, 0, 0) \in [1..5 -> Nat]
    BY <1>1, <2>3, FivesAreNumbers
  <2> QED
    BY <1>4, <2>4, RemainingIs DEF RemainingByStage, RemainingIsFive
<1>5. CASE stage = "correlating"
  <2>1. CorrelationType
    BY DEF PipelineInv, AnswerInv, CorrelationInv
  <2>2. Len(group) \in Nat /\ left \in Nat /\ right \in Nat /\ left <= Len(group) + 1 /\ right <= Len(group) + 2
    BY <2>1 DEF CorrelationType, TurnInv, PairBounds
  <2>3. Len(group) + 1 - left \in Nat /\ Len(group) + 2 - right \in Nat
    BY <2>2
  <2>4. WaysUp \in Nat
    <3>1. Cardinality(Above(a)) \in Nat /\ Cardinality(Above(b)) \in Nat
      BY <2>1, AboveIsFinite
    <3> QED
      BY <3>1 DEF WaysUp
  <2>5. Five(StageOf(stage), Len(group) + 1 - left, Len(group) + 2 - right, WaysUp, 0) \in [1..5 -> Nat]
    BY <1>1, <2>3, <2>4, FivesAreNumbers
  <2> QED
    BY <1>5, <2>5, RemainingIs DEF RemainingByStage, RemainingIsFive
<1>6. CASE stage \notin {"parsing", "drawing", "cutting", "correlating"}
  <2>1. Five(StageOf(stage), 0, 0, 0, 0) \in [1..5 -> Nat]
    BY <1>1, FivesAreNumbers
  <2> QED
    BY <1>6, <2>1, RemainingIs DEF RemainingByStage, RemainingIsFive
<1> QED
  BY <1>2, <1>3, <1>4, <1>5, <1>6

\* A later stage has less to do, whatever its loop has.
LEMMA StageTurns ==
  ASSUME stage \in AllStages, stage' \in AllStages, StageOf(stage') < StageOf(stage)
  PROVE  Precede(Remaining', Remaining)
<1>1. \E u, v, w, x : Remaining = Five(StageOf(stage), u, v, w, x)
  BY RemainingIs DEF RemainingByStage
<1>2. \E u, v, w, x : Remaining' = Five(StageOf(stage'), u, v, w, x)
  BY RemainingIs DEF RemainingByStage
<1>3. PICK n, n1 : n = StageOf(stage) /\ n1 = StageOf(stage')
  OBVIOUS
<1>4. PICK u, v, w, x : Remaining = Five(n, u, v, w, x)
  BY <1>1, <1>3
<1>5. PICK u1, v1, w1, x1 : Remaining' = Five(n1, u1, v1, w1, x1)
  BY <1>2, <1>3
<1> QED
  BY <1>3, <1>4, <1>5, FivesPrecede

\* Every step of the pipeline leaves less to do.
LEMMA StepTurns ==
  ASSUME PipelineInv, TurnInv, PipelineInv', Next
  PROVE  TurnInv' /\ Precede(Remaining', Remaining)
<1>1. stage \in AllStages /\ stage' \in AllStages
  BY DEF PipelineInv, FileInv
<1>2. UNCHANGED ingestVars => ReadInv'
  BY DEF TurnInv, ReadInv, ingestVars
<1>3. UNCHANGED corrVars => PairBounds'
  BY DEF TurnInv, PairBounds, corrVars
<1>4. CASE \/ Receive \/ Parsed \/ Refuse \/ Evaluate \/ CutGraph \/ Respond
  <2>1. UNCHANGED <<ingestVars, corrVars>>
    BY <1>4 DEF Receive, Parsed, Refuse, Evaluate, CutGraph, Respond
  <2>2. \/ stage = "received" /\ stage' \in {"parsing", "refused"}
        \/ stage = "parsing" /\ stage' \in {"parsed", "refused"}
        \/ stage = "parsed" /\ stage' = "drawing"
        \/ stage = "drawing" /\ stage' = "cutting"
        \/ stage = "correlating" /\ stage' = "answered"
    BY <1>4 DEF Receive, Parsed, Refuse, Evaluate, CutGraph, Respond
  <2>3. StageOf(stage') < StageOf(stage)
    BY <2>2, StagesFollow
  <2> QED
    BY <1>1, <1>2, <1>3, <2>1, <2>3, StageTurns DEF TurnInv
<1>5. CASE FinishDrawing
  <2>1. /\ stage = "cutting" /\ stage' = "correlating" /\ UNCHANGED ingestVars
        /\ left' = 1 /\ right' = 2
    BY <1>5 DEF FinishDrawing, StartCorrelation
  <2>2. Len(group') \in Nat
    BY DEF PipelineInv, AnswerInv, CorrelationInv, CorrelationType
  <2>3. PairBounds'
    BY <2>1, <2>2 DEF PairBounds
  <2>4. StageOf(stage') < StageOf(stage)
    BY <2>1, StagesFollow
  <2> QED
    BY <1>1, <1>2, <2>1, <2>3, <2>4, StageTurns DEF TurnInv
<1>6. CASE ParseSome
  <2>1. stage = "parsing" /\ stage' = "parsing" /\ Parse /\ UNCHANGED corrVars
    BY <1>6 DEF ParseSome
  <2>2. file \in Files /\ file.fmt \in Accepted
    BY <2>1 DEF PipelineInv, FileInv
  <2>3. ReadInv' /\ Takes
    BY <2>1, <2>2, ParserTurn DEF TurnInv
  <2>4. PICK n, u, v, w, x, u1, v1, w1, x1 :
           /\ n = StageOf(stage) /\ u = Phase /\ v = Unread /\ w = Len(buf) /\ x = Unlooked
           /\ u1 = Phase' /\ v1 = Unread' /\ w1 = Len(buf') /\ x1 = Unlooked'
    OBVIOUS
  <2>5. Remaining = Five(n, u, v, w, x) /\ Remaining' = Five(n, u1, v1, w1, x1)
    BY <2>1, <2>4, RemainingIs DEF RemainingByStage
  <2>6. \/ u1 < u
        \/ u1 = u /\ v1 < v
        \/ u1 = u /\ v1 = v /\ w1 < w
        \/ u1 = u /\ v1 = v /\ w1 = w /\ x1 < x
    BY <2>3, <2>4 DEF Takes
  <2>7. Precede(Remaining', Remaining)
    BY <2>5, <2>6, FivesPrecede
  <2> QED
    BY <1>3, <2>1, <2>3, <2>7 DEF TurnInv
<1>7. CASE DrawEvent
  <2>1. /\ stage = "drawing" /\ stage' = "drawing" /\ cursor' = cursor + 1
        /\ UNCHANGED <<events, ingestVars, corrVars>>
    BY <1>7 DEF DrawEvent, AddEvent
  <2>2. Len(events) \in Nat /\ cursor \in Nat
    BY <2>1, StagesAre DEF PipelineInv, EventsInv, EventsAreWellFormed, Dataset, GraphInv, DrawingInv
  <2>3. PICK n, u, u1 : n = StageOf(stage) /\ u = Len(events) - cursor /\ u1 = Len(events') - cursor'
    OBVIOUS
  <2>4. Remaining = Five(n, u, 0, 0, 0) /\ Remaining' = Five(n, u1, 0, 0, 0)
    BY <2>1, <2>3, RemainingIs DEF RemainingByStage
  <2>5. u1 < u
    BY <2>1, <2>2, <2>3
  <2>6. Precede(Remaining', Remaining)
    BY <2>4, <2>5, FivesPrecede
  <2> QED
    BY <1>2, <1>3, <2>1, <2>6 DEF TurnInv
<1>8. CASE KeepParent
  <2>1. /\ stage = "cutting" /\ stage' = "cutting" /\ passed' = passed + 1
        /\ UNCHANGED <<edges, ingestVars, corrVars>>
    BY <1>8 DEF KeepParent, KeepSource
  <2>2. DrawingInv /\ CutInv
    BY <2>1, StagesAre DEF PipelineInv, GraphInv
  <2>3. Len(edges) \in Nat /\ passed \in Nat
    BY <2>2, ListIs DEF DrawingInv, CutInv
  <2>4. PICK n, u, u1 : n = StageOf(stage) /\ u = Len(edges) - passed /\ u1 = Len(edges') - passed'
    OBVIOUS
  <2>5. Remaining = Five(n, u, 0, 0, 0) /\ Remaining' = Five(n, u1, 0, 0, 0)
    BY <2>1, <2>4, RemainingIs DEF RemainingByStage
  <2>6. u1 < u
    BY <2>1, <2>3, <2>4
  <2>7. Precede(Remaining', Remaining)
    BY <2>5, <2>6, FivesPrecede
  <2> QED
    BY <1>2, <1>3, <2>1, <2>7 DEF TurnInv
<1>9. CASE Group
  <2>1. stage = "correlating" /\ stage' = "correlating" /\ Correlate /\ UNCHANGED ingestVars
    BY <1>9 DEF Group
  <2>2. CorrelationType /\ Acyclic /\ Len(group) \in Nat /\ left \in Nat /\ right \in Nat
    BY DEF PipelineInv, AnswerInv, CorrelationInv, CorrelationType
  <2>3. /\ PairBounds' /\ group' = group /\ left' \in Nat /\ right' \in Nat
        /\ \/ left' > left
           \/ left' = left /\ right' > right
           \/ left' = left /\ right' = right /\ WaysUp' < WaysUp
    BY <2>1, <2>2, CorrelationTurn DEF TurnInv
  <2>4. PICK n, u, v, w, u1, v1, w1 :
           /\ n = StageOf(stage)
           /\ u = Len(group) + 1 - left /\ v = Len(group) + 2 - right /\ w = WaysUp
           /\ u1 = Len(group') + 1 - left' /\ v1 = Len(group') + 2 - right' /\ w1 = WaysUp'
    OBVIOUS
  <2>5. Remaining = Five(n, u, v, w, 0) /\ Remaining' = Five(n, u1, v1, w1, 0)
    BY <2>1, <2>4, RemainingIs DEF RemainingByStage
  <2>6. \/ u1 < u
        \/ u1 = u /\ v1 < v
        \/ u1 = u /\ v1 = v /\ w1 < w
    <3>1. CASE left' > left
      BY <2>2, <2>3, <2>4, <3>1
    <3>2. CASE left' = left /\ right' > right
      BY <2>2, <2>3, <2>4, <3>2
    <3>3. CASE left' = left /\ right' = right /\ WaysUp' < WaysUp
      BY <2>2, <2>3, <2>4, <3>3
    <3> QED
      BY <2>3, <3>1, <3>2, <3>3
  <2>7. Precede(Remaining', Remaining)
    BY <2>5, <2>6, FivesPrecede
  <2> QED
    BY <1>2, <2>1, <2>3, <2>7 DEF TurnInv
<1> QED
  BY <1>4, <1>5, <1>6, <1>7, <1>8, <1>9 DEF Next

LEMMA TurnInitially == Init => TurnInv
<1> SUFFICES ASSUME Init PROVE TurnInv
  OBVIOUS
<1>1. mode = "idle" /\ rest = <<>> /\ buf = <<>> /\ group = <<>> /\ left = 1 /\ right = 2
  BY DEF Init, IngestInit
<1>2. List(rest) /\ List(buf) /\ Len(group) = 0
  BY <1>1, NothingIsAList
<1>3. mode \in Modes /\ mode \notin JsonModes /\ mode # "array"
  BY <1>1 DEF Modes, JsonModes
<1> QED
  BY <1>1, <1>2, <1>3 DEF TurnInv, ReadInv, PairBounds

LEMMA TurnStep == PipelineInv /\ TurnInv /\ PipelineInv' /\ [Next]_vars => TurnInv'
<1> SUFFICES ASSUME PipelineInv, TurnInv, PipelineInv', [Next]_vars PROVE TurnInv'
  OBVIOUS
<1>1. CASE Next
  BY <1>1, StepTurns
<1>2. CASE UNCHANGED vars
  BY <1>2 DEF vars, ingestVars, corrVars, TurnInv, ReadInv, PairBounds
<1> QED
  BY <1>1, <1>2

\* The parsers, the graph and the correlation stop on every file: no turn of their loops
\* leaves as much to do as it found (parse_file, build_graph, correlate_findings).
THEOREM LoopsEnd == Spec => EveryTurnCounts
<1>1. Init => TurnInv
  BY TurnInitially
<1>2. PipelineInv /\ TurnInv /\ PipelineInv' /\ [Next]_vars => TurnInv'
  BY TurnStep
<1>3. PipelineInv /\ TurnInv => RemainingIsFive
  BY RemainingType
<1>4. /\ PipelineInv /\ TurnInv /\ PipelineInv' /\ RemainingIsFive' /\ [Next]_vars
      => [Remaining' \in [1..5 -> Nat] /\ Precede(Remaining', Remaining)]_vars
  BY StepTurns DEF RemainingIsFive
<1> QED
  BY <1>1, <1>2, <1>3, <1>4, PipelineInvariant, PTL DEF Spec, EveryTurnCounts

(***************************************************************************)
(* The members of a set in a sequence.                                     *)
(***************************************************************************)

\* How many of the first i elements are in S.
Number(s, S, i) == Cardinality({j \in 1..i : s[j] \in S})

LEMMA NumberIs ==
  ASSUME NEW s, NEW S, NEW i \in Nat
  PROVE  /\ Number(s, S, i) \in Nat /\ Number(s, S, 0) = 0
         /\ Number(s, S, i + 1) = Number(s, S, i) + (IF s[i + 1] \in S THEN 1 ELSE 0)
<1> DEFINE I == {j \in 1..i : s[j] \in S}
           J == {j \in 1..(i + 1) : s[j] \in S}
           Z == {j \in 1..0 : s[j] \in S}
<1>1. IsFiniteSet(I) /\ Cardinality(I) \in Nat
  <2>1. IsFiniteSet(1..i)
    BY FS_Interval
  <2> QED
    BY <2>1, FS_Subset, FS_CardinalityType
<1>2. Z = {}
  OBVIOUS
<1>3. Cardinality(Z) = 0
  BY <1>2, FS_EmptySet
<1>4. i + 1 \notin I
  OBVIOUS
<1>7. Number(s, S, i) = Cardinality(I) /\ Number(s, S, i + 1) = Cardinality(J) /\ Number(s, S, 0) = Cardinality(Z)
  BY DEF Number
<1>5. CASE s[i + 1] \in S
  <2>1. J = I \cup {i + 1}
    BY <1>5
  <2> HIDE DEF I, J, Z
  <2>2. Cardinality(J) = Cardinality(I) + 1
    BY <1>1, <1>4, <2>1, FS_AddElement
  <2> QED
    BY <1>1, <1>3, <1>5, <1>7, <2>2
<1>6. CASE s[i + 1] \notin S
  <2>1. J = I
    BY <1>6
  <2> HIDE DEF I, J, Z
  <2> QED
    BY <1>1, <1>3, <1>6, <1>7, <2>1
<1> QED
  BY <1>5, <1>6

LEMMA NumberGrows ==
  ASSUME NEW s, NEW S, NEW i \in Nat, NEW j \in Nat, i <= j
  PROVE  /\ Number(s, S, i) <= Number(s, S, j)
         /\ i < j /\ s[j] \in S => Number(s, S, i) < Number(s, S, j)
<1> DEFINE N == {n \in Nat : Number(s, S, i) <= Number(s, S, i + n)}
<1>1. 0 \in N
  <2>1. Number(s, S, i) \in Nat /\ i + 0 = i
    BY NumberIs
  <2> QED
    BY <2>1
<1>2. ASSUME NEW n \in Nat, n \in N PROVE n + 1 \in N
  <2>1. i + n \in Nat /\ (i + n) + 1 = i + (n + 1)
    OBVIOUS
  <2>2. /\ Number(s, S, i) \in Nat /\ Number(s, S, i + n) \in Nat
        /\ Number(s, S, (i + n) + 1) = Number(s, S, i + n) + (IF s[(i + n) + 1] \in S THEN 1 ELSE 0)
    BY <2>1, NumberIs
  <2>3. Number(s, S, i + n) <= Number(s, S, (i + n) + 1)
    BY <2>2
  <2>4. Number(s, S, i) <= Number(s, S, (i + n) + 1)
    BY <1>2, <2>2, <2>3
  <2> QED
    BY <2>1, <2>4
<1> HIDE DEF N
<1>3. Nat \subseteq N
  BY <1>1, <1>2, Forever
<1>4. ASSUME NEW m \in Nat, i <= m PROVE Number(s, S, i) <= Number(s, S, m)
  <2>1. m - i \in N /\ i + (m - i) = m
    BY <1>3, <1>4
  <2> QED
    BY <2>1 DEF N
<1>5. ASSUME i < j, s[j] \in S PROVE Number(s, S, i) < Number(s, S, j)
  <2>1. j - 1 \in Nat /\ i <= j - 1 /\ (j - 1) + 1 = j
    BY <1>5
  <2>2. Number(s, S, i) <= Number(s, S, j - 1)
    BY <1>4, <2>1
  <2>3. /\ Number(s, S, i) \in Nat /\ Number(s, S, j - 1) \in Nat
        /\ Number(s, S, (j - 1) + 1) = Number(s, S, j - 1) + (IF s[(j - 1) + 1] \in S THEN 1 ELSE 0)
    BY <2>1, NumberIs
  <2>4. Number(s, S, j) = Number(s, S, j - 1) + 1
    BY <1>5, <2>1, <2>3
  <2> QED
    BY <2>2, <2>3, <2>4
<1> QED
  BY <1>4, <1>5

\* Every number up to that is the number of one of them.
LEMMA NumbersAreReached ==
  ASSUME NEW s, NEW S, NEW i \in Nat, NEW k \in 1..Number(s, S, i)
  PROVE  \E j \in 1..i : s[j] \in S /\ Number(s, S, j) = k
<1> DEFINE N == {n \in Nat : k <= Number(s, S, n)}
<1>1. N \in SUBSET Nat /\ i \in N
  BY NumberIs
<1> HIDE DEF N
<1>2. PICK j \in N : \A n \in N : j <= n
  BY <1>1, LeastNatural
<1>3. j \in Nat /\ k <= Number(s, S, j) /\ j <= i /\ k \in Nat /\ k >= 1
  <2>1. k \in Nat /\ k >= 1
    BY NumberIs
  <2> QED
    BY <1>1, <1>2, <2>1 DEF N
<1>4. j # 0
  BY <1>3, NumberIs
<1>5. j - 1 \in Nat /\ (j - 1) + 1 = j /\ j - 1 \notin N
  BY <1>2, <1>3, <1>4
<1>6. /\ Number(s, S, j - 1) \in Nat /\ ~(k <= Number(s, S, j - 1))
      /\ Number(s, S, j) = Number(s, S, j - 1) + (IF s[j] \in S THEN 1 ELSE 0)
  <2>1. Number(s, S, (j - 1) + 1) = Number(s, S, j - 1) + (IF s[(j - 1) + 1] \in S THEN 1 ELSE 0)
        /\ Number(s, S, j - 1) \in Nat
    BY <1>5, NumberIs
  <2> QED
    BY <1>5, <2>1 DEF N
<1>7. s[j] \in S /\ Number(s, S, j) = k
  BY <1>3, <1>6
<1>8. j \in 1..i
  BY <1>3, <1>4
<1> QED
  BY <1>7, <1>8

LEMMA OnlyIs ==
  ASSUME NEW s, List(s), NEW S
  PROVE  /\ List(Only(s, S)) /\ Len(Only(s, S)) = Number(s, S, Len(s))
         /\ \A i \in 1..Len(s) : s[i] \in S => Only(s, S)[Number(s, S, i)] = s[i]
<1> DEFINE n == Len(s)
           I == {i \in DOMAIN s : s[i] \in S}
           Nth(k) == CHOOSE i \in I : Cardinality({j \in I : j < i}) = k - 1
<1>1. n \in Nat /\ DOMAIN s = 1..n /\ I = {i \in 1..n : s[i] \in S}
  BY ListHas
<1>2. Cardinality(I) = Number(s, S, n) /\ Number(s, S, n) \in Nat
  BY <1>1, NumberIs DEF Number
<1>3. ASSUME NEW i \in 1..n
      PROVE  Cardinality({j \in I : j < i}) = Number(s, S, i - 1)
  <2>1. {j \in I : j < i} = {j \in 1..(i - 1) : s[j] \in S}
    BY <1>1
  <2> QED
    BY <2>1 DEF Number
<1>4. ASSUME NEW i \in I
      PROVE  /\ i \in 1..n /\ Number(s, S, i) = Number(s, S, i - 1) + 1 /\ Number(s, S, i - 1) \in Nat
             /\ Cardinality({j \in I : j < i}) = Number(s, S, i) - 1
  <2>1. i \in 1..n /\ s[i] \in S /\ i - 1 \in Nat /\ (i - 1) + 1 = i
    BY <1>1
  <2>2. /\ Number(s, S, i - 1) \in Nat
        /\ Number(s, S, (i - 1) + 1) = Number(s, S, i - 1) + (IF s[(i - 1) + 1] \in S THEN 1 ELSE 0)
    BY <2>1, NumberIs
  <2>3. Number(s, S, i) = Number(s, S, i - 1) + 1
    BY <2>1, <2>2
  <2> QED
    BY <1>3, <2>1, <2>2, <2>3
<1>5. Only(s, S) = [k \in 1..Number(s, S, n) |-> s[Nth(k)]]
  BY <1>2 DEF Only
<1> DEFINE list == [k \in 1..Number(s, S, n) |-> s[Nth(k)]]
<1>6. List(list) /\ Len(list) = Number(s, S, n)
  <2>1. DOMAIN list = 1..Number(s, S, n) /\ list = [k \in 1..Number(s, S, n) |-> list[k]]
    OBVIOUS
  <2> HIDE DEF list
  <2> QED
    BY <1>2, <2>1, ListMade
<1>7. ASSUME NEW k \in 1..Number(s, S, n), NEW i \in I, k = Number(s, S, i)
      PROVE  Nth(k) \in I /\ Cardinality({j \in I : j < Nth(k)}) = k - 1
  BY <1>4, <1>7
<1>8. \A k \in 1..Number(s, S, n) : list[k] = s[Nth(k)]
  OBVIOUS
<1>9. Only(s, S) = list
  BY <1>5
<1>10. \A i \in 1..n : s[i] \in S <=> i \in I
  BY <1>1
<1> HIDE DEF I, list, Nth, n
<1>11. ASSUME NEW i \in I PROVE list[Number(s, S, i)] = s[i]
  <2>1. PICK k \in Nat : k = Number(s, S, i)
    BY <1>1, <1>4, NumberIs
  <2>2. i \in 1..n /\ i \in Nat /\ s[i] \in S /\ Number(s, S, i) = Number(s, S, i - 1) + 1 /\ Number(s, S, i - 1) \in Nat
    <3>1. i \in 1..n /\ Number(s, S, i) = Number(s, S, i - 1) + 1 /\ Number(s, S, i - 1) \in Nat
      BY <1>4
    <3>2. s[i] \in S
      BY <1>10, <3>1
    <3>3. i \in Nat
      BY <1>1, <3>1
    <3> QED
      BY <3>1, <3>2, <3>3
  <2>3. k \in 1..Number(s, S, n)
    <3>1. Number(s, S, i) <= Number(s, S, n)
      BY <1>1, <2>2, NumberGrows
    <3> QED
      BY <1>2, <2>1, <2>2, <3>1
  <2>4. PICK m : m = Nth(k)
    OBVIOUS
  <2>5. m \in I /\ Cardinality({j \in I : j < m}) = k - 1
    BY <1>7, <2>1, <2>3, <2>4
  <2>6. m \in 1..n /\ m \in Nat /\ s[m] \in S /\ Number(s, S, m) = k
    <3>1. m \in 1..n /\ Number(s, S, m) \in Nat /\ Cardinality({j \in I : j < m}) = Number(s, S, m) - 1
      BY <1>1, <1>4, <2>5, NumberIs
    <3> QED
      BY <1>1, <1>10, <2>1, <2>5, <3>1
  <2>7. ~(m < i)
    <3>1. m < i => Number(s, S, m) < Number(s, S, i)
      BY <2>2, <2>6, NumberGrows
    <3> QED
      BY <2>1, <2>6, <3>1
  <2>8. ~(i < m)
    <3>1. i < m => Number(s, S, i) < Number(s, S, m)
      BY <2>2, <2>6, NumberGrows
    <3> QED
      BY <2>1, <2>6, <3>1
  <2>9. m = i
    BY <2>2, <2>6, <2>7, <2>8
  <2> QED
    BY <1>8, <2>1, <2>3, <2>4, <2>9
<1> QED
  BY <1>6, <1>9, <1>10, <1>11 DEF n

(***************************************************************************)
(* The events of a file.                                                   *)
(***************************************************************************)

\* What a part of a file is reported as.
Report(f, part) == IF f.fmt = ".log" /\ part \notin Normal THEN "raw" ELSE part

\* g is what the first i parts of file f report, when those in S count.
Tell(g, f, S, i) ==
    /\ List(g) /\ Len(g) = Number(f.parts, S, i)
    /\ \A j \in 1..i : f.parts[j] \in S => g[Number(f.parts, S, j)] = Report(f, f.parts[j])

LEMMA TellsNothing ==
  ASSUME NEW f, NEW S
  PROVE  Tell(<<>>, f, S, 0)
<1>1. Number(f.parts, S, 0) = 0
  BY NumberIs
<1>2. \A j \in 1..0 : FALSE
  OBVIOUS
<1> QED
  BY <1>1, <1>2, NothingIsAList DEF Tell

\* One part more.
LEMMA TellsMore ==
  ASSUME NEW g, NEW f, NEW S, NEW i \in Nat, Tell(g, f, S, i)
  PROVE  /\ f.parts[i + 1] \in S => Tell(Append(g, Report(f, f.parts[i + 1])), f, S, i + 1)
         /\ f.parts[i + 1] \notin S => Tell(g, f, S, i + 1)
<1> DEFINE N(j) == Number(f.parts, S, j)
           e == Report(f, f.parts[i + 1])
<1>1. /\ List(g) /\ Len(g) = N(i)
      /\ \A j \in 1..i : f.parts[j] \in S => g[N(j)] = Report(f, f.parts[j])
  BY DEF Tell
<1>2. /\ N(i) \in Nat /\ N(i + 1) = N(i) + (IF f.parts[i + 1] \in S THEN 1 ELSE 0)
  BY NumberIs
<1>3. \A j \in 1..(i + 1) : j \in 1..i \/ j = i + 1
  OBVIOUS
<1>4. ASSUME NEW j \in 1..i, f.parts[j] \in S PROVE N(j) \in 1..N(i)
  <2>1. j \in Nat /\ j <= i /\ j - 1 \in Nat /\ j - 1 <= j /\ j - 1 < j
    OBVIOUS
  <2>2. N(j) <= N(i) /\ N(j - 1) < N(j)
    BY <1>4, <2>1, NumberGrows
  <2>3. N(j) \in Nat /\ N(j - 1) \in Nat
    BY <2>1, NumberIs
  <2> QED
    BY <1>2, <2>2, <2>3
<1> HIDE DEF N, e
<1>5. CASE f.parts[i + 1] \in S
  <2> DEFINE h == Append(g, e)
  <2>1. /\ List(h) /\ Len(h) = Len(g) + 1 /\ h[Len(g) + 1] = e
        /\ \A k \in 1..Len(g) : h[k] = g[k]
    BY <1>1, AppendIs
  <2> HIDE DEF h
  <2>2. Len(h) = N(i + 1) /\ h[N(i + 1)] = e
    BY <1>1, <1>2, <1>5, <2>1
  <2>3. ASSUME NEW j \in 1..(i + 1), f.parts[j] \in S PROVE h[N(j)] = Report(f, f.parts[j])
    <3>1. CASE j = i + 1
      BY <2>2, <3>1 DEF e
    <3>2. CASE j \in 1..i
      <4>1. N(j) \in 1..Len(g)
        BY <1>1, <1>4, <2>3, <3>2
      <4> QED
        BY <1>1, <2>1, <2>3, <3>2, <4>1
    <3> QED
      BY <1>3, <3>1, <3>2
  <2> QED
    BY <1>5, <2>1, <2>2, <2>3 DEF Tell, N, h, e
<1>6. CASE f.parts[i + 1] \notin S
  <2>1. N(i + 1) = N(i)
    BY <1>2, <1>6
  <2>2. ASSUME NEW j \in 1..(i + 1), f.parts[j] \in S PROVE g[N(j)] = Report(f, f.parts[j])
    <3>1. j \in 1..i
      BY <1>3, <1>6, <2>2
    <3> QED
      BY <1>1, <2>2, <3>1
  <2> QED
    BY <1>1, <1>6, <2>1, <2>2 DEF Tell, N
<1> QED
  BY <1>5, <1>6

\* What fewer parts report is where what more of them report begins.
LEMMA TellsFirst ==
  ASSUME NEW f, NEW S, NEW i \in Nat, NEW n \in Nat, i <= n, NEW g, Tell(g, f, S, i), NEW h, Tell(h, f, S, n)
  PROVE  IsPrefix(g, h) /\ Len(g) <= Len(h)
<1> DEFINE N(j) == Number(f.parts, S, j)
<1>1. /\ List(g) /\ Len(g) = N(i)
      /\ \A j \in 1..i : f.parts[j] \in S => g[N(j)] = Report(f, f.parts[j])
  BY DEF Tell
<1>2. /\ List(h) /\ Len(h) = N(n)
      /\ \A j \in 1..n : f.parts[j] \in S => h[N(j)] = Report(f, f.parts[j])
  BY DEF Tell
<1>3. N(i) <= N(n) /\ N(i) \in Nat /\ N(n) \in Nat
  BY NumberGrows, NumberIs
<1>4. ASSUME NEW k \in 1..N(i) PROVE g[k] = h[k]
  <2>1. PICK j \in 1..i : f.parts[j] \in S /\ N(j) = k
    BY NumbersAreReached
  <2>2. j \in 1..n
    OBVIOUS
  <2> HIDE DEF N
  <2> QED
    BY <1>1, <1>2, <2>1, <2>2
<1> HIDE DEF N
<1>5. Len(g) <= Len(h) /\ \A k \in 1..Len(g) : g[k] = h[k]
  BY <1>1, <1>2, <1>3, <1>4
<1> QED
  BY <1>1, <1>2, <1>5, PrefixIs

LEMMA OnlyTells ==
  ASSUME NEW f, NEW S, List(f.parts), f.fmt # ".log", NEW m \in 0..Len(f.parts)
  PROVE  Tell(Only(SubSeq(f.parts, 1, m), S), f, S, m)
<1> DEFINE p == SubSeq(f.parts, 1, m)
           o == Only(p, S)
<1>1. PICK n \in Nat : n = Len(f.parts)
  BY ListHas
<1>2. m \in Nat /\ m \in Int /\ m <= Len(f.parts)
  BY <1>1
<1>3. List(p) /\ Len(p) = m /\ \A i \in 1..m : p[i] = f.parts[i]
  <2>1. Len(p) = IF m < 0 THEN 0 ELSE m
    BY <1>2, PartIs
  <2> QED
    BY <1>2, <2>1, PartIs
<1> HIDE DEF p
<1>4. /\ List(o) /\ Len(o) = Number(p, S, m)
      /\ \A i \in 1..m : p[i] \in S => o[Number(p, S, i)] = p[i]
  BY <1>3, OnlyIs
<1> HIDE DEF o
<1>5. ASSUME NEW i \in 0..m PROVE Number(p, S, i) = Number(f.parts, S, i)
  <2>1. \A j \in 1..i : p[j] = f.parts[j]
    BY <1>2, <1>3
  <2>2. {j \in 1..i : p[j] \in S} = {j \in 1..i : f.parts[j] \in S}
    BY <2>1
  <2> QED
    BY <2>2 DEF Number
<1>6. Len(o) = Number(f.parts, S, m)
  BY <1>2, <1>4, <1>5
<1>7. ASSUME NEW i \in 1..m, f.parts[i] \in S
      PROVE  o[Number(f.parts, S, i)] = f.parts[i]
  <2>1. i \in 0..m
    OBVIOUS
  <2> QED
    BY <1>3, <1>4, <1>5, <1>7, <2>1
<1>8. \A x : Report(f, x) = x
  BY DEF Report
<1> QED
  BY <1>4, <1>6, <1>7, <1>8 DEF Tell, o, p

\* What a file of records reports.
LEMMA RecordsTell ==
  ASSUME NEW f \in Files, f.fmt \in RecordFormats, NEW S
  PROVE  List(f.parts) /\ Tell(Reported(f, S), f, S, Len(f.parts))
<1> DEFINE lines == Only(f.parts, S)
           o == [i \in DOMAIN lines |-> Report(f, lines[i])]
<1>0. List(f.parts)
  BY AnalysisAssumption DEF IsFile, List
<1>1. Reported(f, S) = o
  <2>1. f.fmt # ".json"
    BY DEF RecordFormats
  <2> QED
    BY <2>1 DEF Reported, Report
<1>2. PICK n \in Nat : n = Len(f.parts)
  BY <1>0, ListHas
<1>3. /\ List(lines) /\ Len(lines) = Number(f.parts, S, n)
      /\ \A i \in 1..n : f.parts[i] \in S => lines[Number(f.parts, S, i)] = f.parts[i]
  BY <1>0, <1>2, OnlyIs
<1>4. PICK k \in Nat : k = Number(f.parts, S, n)
  BY NumberIs
<1>5. ASSUME NEW i \in 1..n, f.parts[i] \in S PROVE Number(f.parts, S, i) \in 1..k
  <2>1. i \in Nat /\ i <= n /\ i - 1 \in Nat /\ i - 1 <= i /\ i - 1 < i
    OBVIOUS
  <2>2. Number(f.parts, S, i) <= Number(f.parts, S, n) /\ Number(f.parts, S, i - 1) < Number(f.parts, S, i)
    BY <1>5, <2>1, NumberGrows
  <2>3. Number(f.parts, S, i) \in Nat /\ Number(f.parts, S, i - 1) \in Nat
    BY <2>1, NumberIs
  <2> QED
    BY <1>4, <2>2, <2>3
<1> HIDE DEF lines
<1>7. DOMAIN lines = 1..k
  BY <1>3, <1>4, ListHas
<1>8. List(o) /\ Len(o) = k /\ \A i \in 1..k : o[i] = Report(f, lines[i])
  <2>1. /\ DOMAIN o = 1..k /\ o = [i \in 1..k |-> o[i]]
        /\ \A i \in 1..k : o[i] = Report(f, lines[i])
    BY <1>7
  <2> HIDE DEF o
  <2> QED
    BY <2>1, ListMade
<1> HIDE DEF o
<1>9. ASSUME NEW i \in 1..n, f.parts[i] \in S PROVE o[Number(f.parts, S, i)] = Report(f, f.parts[i])
  BY <1>3, <1>5, <1>8, <1>9
<1> QED
  BY <1>0, <1>1, <1>2, <1>4, <1>8, <1>9 DEF Tell

(***************************************************************************)
(* Where the parts of a JSON file are.                                     *)
(***************************************************************************)

Lead(f) == IF f.shape = "array" THEN 1 ELSE 0

\* What comes before part i, and where the part itself begins.
Lacing(f, i) == IF i = 1 THEN <<>> ELSE Glue(f)
Begin(f, i) == End(f, i - 1) + Len(Lacing(f, i))

\* Part i of the file.
Part(f, i) == Text[f.parts[i]]

LEMMA BeforesAre ==
  ASSUME NEW f \in Files, f.fmt = ".json", NEW i \in 1..Len(f.parts)
  PROVE  /\ List(Lacing(f, i)) /\ List(Part(f, i)) /\ Pieces(f)[i] = Lacing(f, i) \o Part(f, i)
         /\ Len(Lacing(f, i)) \in Nat /\ Len(Part(f, i)) \in Nat
<1>1. List(Glue(f)) /\ List(<<>>)
  BY GlueIs, NothingIsAList
<1>2. List(Lacing(f, i))
  BY <1>1 DEF Lacing
<1>3. f.parts[i] \in DOMAIN Text /\ Pieces(f)[i] = (IF i = 1 THEN <<>> ELSE Glue(f)) \o Text[f.parts[i]]
  BY PiecesAre
<1>4. List(Part(f, i))
  BY <1>3, TextsAre DEF Part
<1> QED
  BY <1>2, <1>3, <1>4, ListHas DEF Lacing, Part

\* Parts and what is between them come one after the other.
Runs(f) ==
    /\ Len(f.parts) \in Nat /\ Lead(f) \in Nat
    /\ End(f, 0) = Lead(f) /\ \A i \in 0..Len(f.parts) : End(f, i) \in Nat /\ Lead(f) <= End(f, i)
    /\ \A i \in 1..Len(f.parts) : /\ Begin(f, i) \in Nat /\ End(f, i - 1) <= Begin(f, i)
                                  /\ End(f, i) = Begin(f, i) + Len(Part(f, i))
    /\ \A i, j \in 0..Len(f.parts) : i <= j => End(f, i) <= End(f, j)

LEMMA RunsOn ==
  ASSUME NEW o \in Nat, NEW p \in Nat, NEW l \in Nat, NEW x \in Nat, NEW y \in Nat, p = o + (x + y),
         NEW q, NEW c, NEW d, q = d + x, d = o + l, c = p + l
  PROVE  q \in Nat /\ d <= q /\ c = q + y
OBVIOUS

LEMMA FileRuns ==
  ASSUME NEW f \in Files, f.fmt = ".json"
  PROVE  Runs(f)
<1> DEFINE P == Pieces(f)
           O(i) == Offset(P, i)
<1>1. PICK n, l : n = Len(f.parts) /\ l = Lead(f)
  OBVIOUS
<1>2. Pile(P) /\ Len(P) = n /\ n \in Nat /\ l \in Nat
  <2>1. Pile(P) /\ Len(P) = n /\ List(f.parts)
    BY <1>1, PiecesAre
  <2> QED
    BY <1>1, <2>1, ListHas DEF Lead
<1>3. /\ O(1) = 0
      /\ \A i \in 1..(n + 1) : O(i) \in Nat
      /\ \A i \in 1..n : O(i + 1) = O(i) + Len(P[i])
      /\ \A i, j \in 1..(n + 1) : i <= j => O(i) <= O(j)
  BY <1>2, Offsets
<1> HIDE DEF P, O
<1>4. \A i : End(f, i) = O(i + 1) + l
  BY <1>1 DEF End, Lead, P, O
<1>5. End(f, 0) = l
  <2>1. End(f, 0) = O(0 + 1) + l /\ 0 + 1 = 1
    BY <1>4
  <2> QED
    BY <1>2, <1>3, <2>1
<1>6. ASSUME NEW i \in 0..n PROVE End(f, i) \in Nat /\ l <= End(f, i)
  <2>1. i + 1 \in 1..(n + 1)
    BY <1>2
  <2>2. O(i + 1) \in Nat
    BY <1>3, <2>1
  <2> QED
    BY <1>2, <1>4, <2>2
<1>7. ASSUME NEW i \in 1..n
      PROVE  Begin(f, i) \in Nat /\ End(f, i - 1) <= Begin(f, i) /\ End(f, i) = Begin(f, i) + Len(Part(f, i))
  <2>1. PICK x, y : x = Len(Lacing(f, i)) /\ y = Len(Part(f, i))
    OBVIOUS
  <2>2. x \in Nat /\ y \in Nat /\ Len(P[i]) = x + y
    <3>1. /\ List(Lacing(f, i)) /\ List(Part(f, i)) /\ P[i] = Lacing(f, i) \o Part(f, i)
          /\ x \in Nat /\ y \in Nat
      BY <1>1, <2>1, BeforesAre DEF P
    <3>2. Joined(P[i], Lacing(f, i), Part(f, i))
      BY <3>1, JoinedIs
    <3> QED
      BY <2>1, <3>1, <3>2 DEF Joined
  <2>3. i - 1 \in 0..n /\ (i - 1) + 1 = i /\ i \in 1..(n + 1)
    BY <1>2
  <2>4. End(f, i - 1) = O(i) + l /\ End(f, i) = O(i + 1) + l
    <3>1. End(f, i - 1) = O((i - 1) + 1) + l
      BY <1>4
    <3> QED
      BY <1>4, <2>3, <3>1
  <2>5. O(i + 1) = O(i) + (x + y) /\ O(i) \in Nat
    BY <1>3, <2>2, <2>3
  <2>6. Begin(f, i) = End(f, i - 1) + x
    BY <2>1 DEF Begin
  <2>7. O(i + 1) \in Nat
    BY <2>2, <2>5
  <2>8. Begin(f, i) \in Nat /\ End(f, i - 1) <= Begin(f, i) /\ End(f, i) = Begin(f, i) + y
    BY <1>2, <2>2, <2>4, <2>5, <2>6, <2>7, RunsOn
  <2> QED
    BY <2>1, <2>8
<1>8. ASSUME NEW i \in 0..n, NEW j \in 0..n, i <= j PROVE End(f, i) <= End(f, j)
  <2>1. i + 1 \in 1..(n + 1) /\ j + 1 \in 1..(n + 1) /\ i + 1 <= j + 1
    BY <1>2, <1>8
  <2>2. O(i + 1) <= O(j + 1) /\ O(i + 1) \in Nat /\ O(j + 1) \in Nat
    BY <1>3, <2>1
  <2> QED
    BY <1>2, <1>4, <2>2
<1> QED
  BY <1>1, <1>2, <1>5, <1>6, <1>7, <1>8 DEF Runs

\* What is where in text t of a file, as far as it goes.
Laid(f, t) ==
    /\ List(t) /\ Len(t) <= End(f, Len(f.parts)) + Lead(f)
    /\ \A i \in 1..Len(f.parts) : \A k \in 1..Len(Part(f, i)) :
          Begin(f, i) + k <= Len(t) => t[Begin(f, i) + k] = Part(f, i)[k]
    /\ \A i \in 1..Len(f.parts) : \A k \in 1..Len(Lacing(f, i)) :
          End(f, i - 1) + k <= Len(t) => t[End(f, i - 1) + k] = Lacing(f, i)[k]
    /\ f.shape = "array" => /\ 1 <= Len(t) => t[1] = "["
                            /\ End(f, Len(f.parts)) + 1 <= Len(t) => t[End(f, Len(f.parts)) + 1] = "]"

\* What is where in the text of the parts alone.
LEMMA PiecesLaid ==
  ASSUME NEW f \in Files, f.fmt = ".json", NEW i \in 1..Len(f.parts)
  PROVE  LET t == Flat(Pieces(f)) IN
         /\ \A k \in 1..Len(Part(f, i)) : t[Begin(f, i) - Lead(f) + k] = Part(f, i)[k]
         /\ \A k \in 1..Len(Lacing(f, i)) : t[End(f, i - 1) - Lead(f) + k] = Lacing(f, i)[k]
<1> DEFINE P == Pieces(f)
           t == Flat(P)
<1>1. PICK n, l : n = Len(f.parts) /\ l = Lead(f)
  OBVIOUS
<1>2. Pile(P) /\ Len(P) = n /\ n \in Nat /\ l \in Nat /\ i \in 1..Len(P) /\ i \in 1..(Len(P) + 1)
  <2>1. Pile(P) /\ Len(P) = n /\ List(f.parts)
    BY <1>1, PiecesAre
  <2>2. n \in Nat
    BY <1>1, <2>1, ListHas
  <2> QED
    BY <1>1, <2>1, <2>2 DEF Lead
<1>3. PICK o : o = Offset(P, i)
  OBVIOUS
<1>4. o \in Nat
  BY <1>2, <1>3, Offsets
<1>5. \A k \in 1..Len(P[i]) : t[o + k] = P[i][k]
  BY <1>2, <1>3, FlatIs
<1>6. PICK x, y : x = Len(Lacing(f, i)) /\ y = Len(Part(f, i))
  OBVIOUS
<1>7. /\ x \in Nat /\ y \in Nat /\ Joined(P[i], Lacing(f, i), Part(f, i))
  <2>1. /\ List(Lacing(f, i)) /\ List(Part(f, i)) /\ P[i] = Lacing(f, i) \o Part(f, i)
        /\ x \in Nat /\ y \in Nat
    BY <1>6, BeforesAre
  <2> QED
    BY <2>1, JoinedIs
<1>8. End(f, i - 1) = o + l
  <2>1. (i - 1) + 1 = i
    BY <1>2
  <2> QED
    BY <1>1, <1>3, <2>1 DEF End, Lead
<1>9. Begin(f, i) = (o + l) + x
  BY <1>6, <1>8 DEF Begin
<1> HIDE DEF t, P
<1>10. /\ Len(P[i]) = x + y
       /\ \A k \in 1..x : P[i][k] = Lacing(f, i)[k]
       /\ \A k \in 1..y : P[i][x + k] = Part(f, i)[k]
  BY <1>6, <1>7 DEF Joined
<1>11. ASSUME NEW k \in 1..y PROVE t[Begin(f, i) - l + k] = Part(f, i)[k]
  <2>1. x + k \in 1..Len(P[i]) /\ Begin(f, i) - l + k = o + (x + k)
    BY <1>2, <1>4, <1>7, <1>9, <1>10
  <2> QED
    BY <1>5, <1>10, <2>1
<1>12. ASSUME NEW k \in 1..x PROVE t[End(f, i - 1) - l + k] = Lacing(f, i)[k]
  <2>1. k \in 1..Len(P[i]) /\ End(f, i - 1) - l + k = o + k
    BY <1>2, <1>4, <1>7, <1>8, <1>10
  <2> QED
    BY <1>5, <1>10, <2>1
<1> QED
  BY <1>1, <1>6, <1>11, <1>12 DEF t, P

LEMMA BracketsAre == /\ List(<<"[">>) /\ Len(<<"[">>) = 1 /\ <<"[">>[1] = "["
                     /\ List(<<"]">>) /\ Len(<<"]">>) = 1 /\ <<"]">>[1] = "]"
BY SinglesAre

\* Text t is that of the parts, moved by l, between brackets if l is 1.
Moved(t, s, l) ==
    /\ List(t) /\ Len(t) = Len(s) + 2 * l
    /\ \A k \in 1..Len(s) : t[k + l] = s[k]

LEMMA FullTextIs ==
  ASSUME NEW f \in Files, f.fmt = ".json"
  PROVE  /\ Moved(FullText(f), Flat(Pieces(f)), Lead(f)) /\ Len(Flat(Pieces(f))) \in Nat
         /\ End(f, Len(f.parts)) = Len(Flat(Pieces(f))) + Lead(f)
         /\ f.shape = "array" => /\ FullText(f)[1] = "["
                                 /\ FullText(f)[Len(Flat(Pieces(f))) + 2] = "]"
<1> DEFINE s == Flat(Pieces(f))
           u == <<"[">> \o s
<1>1. PICK m : m = Len(s)
  OBVIOUS
<1>2. List(s) /\ m \in Nat /\ m = Offset(Pieces(f), Len(f.parts) + 1)
  <2>1. Pile(Pieces(f)) /\ Len(Pieces(f)) = Len(f.parts)
    BY PiecesAre
  <2> QED
    BY <1>1, <2>1, FlatIs, ListHas
<1>3. End(f, Len(f.parts)) = m + Lead(f)
  BY <1>2 DEF End, Lead
<1>4. CASE f.shape = "array"
  <2>1. List(u) /\ Len(u) = 1 + m /\ u[1] = "[" /\ \A k \in 1..m : u[1 + k] = s[k]
    <3>1. Joined(u, <<"[">>, s)
      BY <1>2, BracketsAre, JoinedIs
    <3> QED
      BY <1>1, <3>1, BracketsAre DEF Joined
  <2>2. FullText(f) = u \o <<"]">>
    BY <1>4 DEF FullText
  <2> HIDE DEF u, s
  <2>3. Joined(FullText(f), u, <<"]">>)
    BY <2>1, <2>2, BracketsAre, JoinedIs
  <2>4. /\ List(FullText(f)) /\ Len(FullText(f)) = (1 + m) + 1
        /\ \A k \in 1..(1 + m) : FullText(f)[k] = u[k]
        /\ FullText(f)[(1 + m) + 1] = "]"
    BY <2>1, <2>3, BracketsAre DEF Joined
  <2>5. FullText(f)[1] = "["
    BY <1>2, <2>1, <2>4
  <2>6. ASSUME NEW k \in 1..m PROVE FullText(f)[k + 1] = s[k]
    <3>1. k + 1 \in 1..(1 + m) /\ k + 1 = 1 + k
      BY <1>2
    <3> QED
      BY <2>1, <2>4, <3>1
  <2>7. Lead(f) = 1
    BY <1>4 DEF Lead
  <2>8. (1 + m) + 1 = m + 2 /\ (1 + m) + 1 = m + 2 * 1
    BY <1>2
  <2>9. Moved(FullText(f), s, Lead(f))
    BY <1>1, <2>4, <2>6, <2>7, <2>8 DEF Moved
  <2> QED
    BY <1>1, <1>2, <1>3, <2>4, <2>5, <2>8, <2>9 DEF s
<1>5. CASE f.shape # "array"
  <2>1. FullText(f) = s /\ Lead(f) = 0
    BY <1>5 DEF FullText, Lead
  <2> HIDE DEF s
  <2>2. \A k \in 1..m : k + 0 = k
    BY <1>2
  <2>3. m = m + 2 * 0
    BY <1>2
  <2>4. Moved(FullText(f), s, Lead(f))
    BY <1>1, <1>2, <2>1, <2>2, <2>3 DEF Moved
  <2> QED
    BY <1>1, <1>2, <1>3, <1>5, <2>4 DEF s
<1> QED
  BY <1>4, <1>5

LEMMA ShiftedIs ==
  ASSUME NEW q \in Nat, NEW l \in Nat, l <= q, NEW y \in Nat, NEW m \in Nat, q + y <= m + l, NEW k \in 1..y
  PROVE  q - l + k \in 1..m /\ (q - l + k) + l = q + k
OBVIOUS

LEMMA FullLaid ==
  ASSUME NEW f \in Files, f.fmt = ".json"
  PROVE  Laid(f, FullText(f)) /\ Len(FullText(f)) = End(f, Len(f.parts)) + Lead(f)
<1> DEFINE s == Flat(Pieces(f))
           t == FullText(f)
<1>1. PICK n, l, m : n = Len(f.parts) /\ l = Lead(f) /\ m = Len(s)
  OBVIOUS
<1>2. /\ List(t) /\ Len(t) = m + 2 * l /\ m \in Nat /\ End(f, n) = m + l
      /\ \A k \in 1..m : t[k + l] = s[k]
      /\ f.shape = "array" => t[1] = "[" /\ t[m + 2] = "]"
  BY <1>1, FullTextIs DEF Moved
<1>3. Runs(f)
  BY FileRuns
<1>4. n \in Nat /\ l \in {0, 1} /\ (f.shape = "array" => l = 1)
  BY <1>1, <1>3 DEF Runs, Lead
<1>5. /\ \A i \in 1..n : \A k \in 1..Len(Part(f, i)) : s[Begin(f, i) - l + k] = Part(f, i)[k]
      /\ \A i \in 1..n : \A k \in 1..Len(Lacing(f, i)) : s[End(f, i - 1) - l + k] = Lacing(f, i)[k]
  BY <1>1, PiecesLaid
<1> HIDE DEF s, t
<1>6. Len(t) = End(f, n) + l
  BY <1>2, <1>4
<1>7. ASSUME NEW i \in 1..n
      PROVE  /\ Begin(f, i) \in Nat /\ End(f, i - 1) \in Nat /\ l <= End(f, i - 1) /\ l <= Begin(f, i)
             /\ Begin(f, i) = End(f, i - 1) + Len(Lacing(f, i)) /\ Len(Lacing(f, i)) \in Nat
             /\ Begin(f, i) + Len(Part(f, i)) <= m + l /\ Len(Part(f, i)) \in Nat
  <2>1. i \in 0..n /\ i - 1 \in 0..n /\ n \in 0..n /\ i <= n
    BY <1>4
  <2>2. /\ Begin(f, i) \in Nat /\ End(f, i - 1) \in Nat /\ l <= End(f, i - 1) /\ End(f, i - 1) <= Begin(f, i)
        /\ End(f, i) = Begin(f, i) + Len(Part(f, i)) /\ End(f, i) <= End(f, n)
    BY <1>1, <1>3, <2>1 DEF Runs
  <2>3. Len(Lacing(f, i)) \in Nat /\ Len(Part(f, i)) \in Nat
    BY <1>1, BeforesAre
  <2>4. Begin(f, i) = End(f, i - 1) + Len(Lacing(f, i))
    BY DEF Begin
  <2> QED
    BY <1>2, <1>4, <2>2, <2>3, <2>4
<1>8. ASSUME NEW i \in 1..n, NEW k \in 1..Len(Part(f, i)) PROVE t[Begin(f, i) + k] = Part(f, i)[k]
  <2>0. PICK q, y : q = Begin(f, i) /\ y = Len(Part(f, i))
    OBVIOUS
  <2>2. q \in Nat /\ y \in Nat /\ l <= q /\ q + y <= m + l /\ l \in Nat
    BY <1>4, <1>7, <2>0
  <2>3. q - l + k \in 1..m /\ (q - l + k) + l = q + k
    BY <1>2, <2>0, <2>2, ShiftedIs
  <2>1. Begin(f, i) - l + k \in 1..m /\ (Begin(f, i) - l + k) + l = Begin(f, i) + k
    BY <2>0, <2>3
  <2> QED
    BY <1>2, <1>5, <2>1
<1>9. ASSUME NEW i \in 1..n, NEW k \in 1..Len(Lacing(f, i)) PROVE t[End(f, i - 1) + k] = Lacing(f, i)[k]
  <2>0. PICK q, y : q = End(f, i - 1) /\ y = Len(Lacing(f, i))
    OBVIOUS
  <2>1. q \in Nat /\ y \in Nat /\ l <= q /\ q + y <= m + l /\ l \in Nat
    BY <1>2, <1>4, <1>7, <2>0
  <2>3. q - l + k \in 1..m /\ (q - l + k) + l = q + k
    BY <1>2, <2>0, <2>1, ShiftedIs
  <2>2. End(f, i - 1) - l + k \in 1..m /\ (End(f, i - 1) - l + k) + l = End(f, i - 1) + k
    BY <2>0, <2>3
  <2> QED
    BY <1>2, <1>5, <2>2
<1>10. f.shape = "array" => t[1] = "[" /\ t[End(f, n) + 1] = "]"
  <2>1. f.shape = "array" => End(f, n) + 1 = m + 2
    BY <1>2, <1>4
  <2> QED
    BY <1>2, <2>1
<1>11. Len(t) <= End(f, n) + l
  BY <1>2, <1>4
<1> QED
  BY <1>1, <1>2, <1>6, <1>8, <1>9, <1>10, <1>11 DEF Laid, t

LEMMA FirstLaid ==
  ASSUME NEW f \in Files, f.fmt = ".json", NEW t, Laid(f, t), NEW h \in Int, h <= Len(t)
  PROVE  Laid(f, SubSeq(t, 1, h))
<1> DEFINE u == SubSeq(t, 1, h)
<1>1. List(t) /\ Len(t) <= End(f, Len(f.parts)) + Lead(f)
  BY DEF Laid
<1>2. List(u) /\ Len(u) = (IF h < 0 THEN 0 ELSE h) /\ \A i \in 1..h : u[i] = t[i]
  BY <1>1, PartIs
<1> HIDE DEF u
<1>3. Len(t) \in Nat
  BY <1>1, ListHas
<1>4. Len(u) \in Nat /\ Len(u) <= Len(t)
  BY <1>2, <1>3
<1>5. ASSUME NEW j \in Nat, 1 <= j, j <= Len(u) PROVE u[j] = t[j] /\ j <= Len(t)
  <2>1. j \in 1..h
    BY <1>2, <1>5
  <2> QED
    BY <1>2, <1>3, <1>4, <1>5, <2>1
<1>6. Runs(f)
  BY FileRuns
<1>7. PICK n : n = Len(f.parts)
  OBVIOUS
<1>8. n \in Nat /\ Lead(f) \in Nat /\ End(f, n) \in Nat
  BY <1>6, <1>7 DEF Runs
<1>9. ASSUME NEW i \in 1..n, NEW k \in 1..Len(Part(f, i)), Begin(f, i) + k <= Len(u)
      PROVE  u[Begin(f, i) + k] = Part(f, i)[k]
  <2>1. Begin(f, i) \in Nat /\ k \in Nat /\ k >= 1
    BY <1>6, <1>7 DEF Runs
  <2>2. Begin(f, i) + k \in Nat /\ 1 <= Begin(f, i) + k
    BY <2>1
  <2>3. t[Begin(f, i) + k] = Part(f, i)[k]
    BY <1>5, <1>7, <1>9, <2>2 DEF Laid
  <2> QED
    BY <1>5, <1>9, <2>2, <2>3
<1>10. ASSUME NEW i \in 1..n, NEW k \in 1..Len(Lacing(f, i)), End(f, i - 1) + k <= Len(u)
       PROVE  u[End(f, i - 1) + k] = Lacing(f, i)[k]
  <2>1. i - 1 \in 0..n
    BY <1>8
  <2>2. End(f, i - 1) \in Nat /\ k \in Nat /\ k >= 1
    BY <1>6, <1>7, <2>1 DEF Runs
  <2>3. End(f, i - 1) + k \in Nat /\ 1 <= End(f, i - 1) + k
    BY <2>2
  <2>4. t[End(f, i - 1) + k] = Lacing(f, i)[k]
    BY <1>5, <1>7, <1>10, <2>3 DEF Laid
  <2> QED
    BY <1>5, <1>10, <2>3, <2>4
<1>11. ASSUME f.shape = "array"
       PROVE  (1 <= Len(u) => u[1] = "[") /\ (End(f, n) + 1 <= Len(u) => u[End(f, n) + 1] = "]")
  <2>1. (1 <= Len(t) => t[1] = "[") /\ (End(f, n) + 1 <= Len(t) => t[End(f, n) + 1] = "]")
    BY <1>7, <1>11 DEF Laid
  <2>2. End(f, n) + 1 \in Nat /\ 1 <= End(f, n) + 1
    BY <1>8
  <2> QED
    BY <1>5, <2>1, <2>2
<1>12. Len(u) <= End(f, n) + Lead(f)
  BY <1>1, <1>3, <1>4, <1>7, <1>8
<1>13. Laid(f, u)
  BY <1>2, <1>7, <1>9, <1>10, <1>11, <1>12 DEF Laid
<1> QED
  BY <1>13 DEF u

\* What arrived of a file is laid out as its parts are.
LEMMA CharactersLaid ==
  ASSUME NEW f \in Files, f.fmt = ".json"
  PROVE  /\ Laid(f, Characters(f))
         /\ f.cut = 0 => Len(Characters(f)) = End(f, Len(f.parts)) + Lead(f)
<1>1. Laid(f, FullText(f)) /\ Len(FullText(f)) = End(f, Len(f.parts)) + Lead(f)
  BY FullLaid
<1>2. List(FullText(f)) /\ Len(FullText(f)) \in Nat
  BY CharactersAre, ListHas
<1>3. f.cut \in Nat
  BY AnalysisAssumption DEF IsFile
<1>4. PICK h : h = Len(FullText(f)) - f.cut
  OBVIOUS
<1>5. h \in Int /\ h <= Len(FullText(f)) /\ (f.cut = 0 => h = Len(FullText(f)))
  BY <1>2, <1>3, <1>4
<1>6. Characters(f) = SubSeq(FullText(f), 1, h)
  BY <1>4 DEF Characters
<1>7. Laid(f, Characters(f))
  BY <1>1, <1>5, <1>6, FirstLaid
<1>8. Len(Characters(f)) = IF h < 0 THEN 0 ELSE h
  BY <1>2, <1>5, <1>6, PartIs
<1>9. f.cut = 0 => Len(Characters(f)) = Len(FullText(f))
  BY <1>2, <1>5, <1>8
<1> QED
  BY <1>1, <1>7, <1>9

(***************************************************************************)
(* Between the parts of a JSON file.                                       *)
(***************************************************************************)

\* A file of values, and its text as far as it goes.
JsonFile(f) == f \in Files /\ f.fmt = ".json" /\ Range(f.parts) \subseteq Valid

\* The arithmetic prover reads no braces either.
Opening == "{"

LEMMA PartsStart ==
  ASSUME NEW v \in Valid
  PROVE  /\ List(Text[v]) /\ Len(Text[v]) \in Nat /\ Len(Text[v]) >= 1
         /\ Text[v][1] \notin {"nl", Comma, "[", "]"} /\ (Text[v][1] = Opening <=> v \in Object)
<1>1. /\ v \in DOMAIN Text /\ List(Text[v]) /\ Len(Text[v]) \in Nat /\ Len(Text[v]) >= 1
      /\ Text[v][1] \notin {"nl", ",", "[", "]"} /\ (Text[v][1] = "{" <=> v \in Object)
  BY ValuesAre
<1> QED
  BY <1>1, Zenon DEF Comma, Opening

LEMMA ValidParts ==
  ASSUME NEW f, JsonFile(f), NEW i \in 1..Len(f.parts)
  PROVE  f.parts[i] \in Valid
<1>1. List(f.parts)
  BY PiecesAre DEF JsonFile
<1>2. DOMAIN f.parts = 1..Len(f.parts)
  BY <1>1, ListHas
<1>3. f.parts[i] \in Range(f.parts)
  BY <1>2 DEF Range
<1> QED
  BY <1>3 DEF JsonFile

\* Where what is between part i and the next part ends.
GapEnd(f, i) == IF i < Len(f.parts) THEN Begin(f, i + 1) ELSE End(f, i)

\* p characters of t end with part i, or between it and the next part.
Between(f, t, i, p) ==
    /\ i \in 0..Len(f.parts) /\ p \in Nat /\ End(f, i) <= p /\ p <= GapEnd(f, i) /\ p <= Len(t)

LEMMA GapsAre ==
  ASSUME NEW f, JsonFile(f), NEW i \in 0..Len(f.parts)
  PROVE  /\ Len(f.parts) \in Nat /\ i \in Nat /\ End(f, i) \in Nat /\ GapEnd(f, i) \in Nat /\ End(f, i) <= GapEnd(f, i)
         /\ i < Len(f.parts) =>
               /\ i + 1 \in 1..Len(f.parts) /\ GapEnd(f, i) = Begin(f, i + 1)
               /\ GapEnd(f, i) = End(f, i) + Len(Lacing(f, i + 1)) /\ Len(Lacing(f, i + 1)) \in Nat
               /\ End(f, i + 1) = GapEnd(f, i) + Len(Part(f, i + 1)) /\ Len(Part(f, i + 1)) \in Nat
               /\ Len(Part(f, i + 1)) >= 1
         /\ ~ i < Len(f.parts) => i = Len(f.parts) /\ GapEnd(f, i) = End(f, i)
<1>1. Runs(f)
  BY FileRuns DEF JsonFile
<1>2. Len(f.parts) \in Nat /\ i \in Nat /\ End(f, i) \in Nat
  BY <1>1 DEF Runs
<1>3. CASE i < Len(f.parts)
  <2>1. i + 1 \in 1..Len(f.parts) /\ (i + 1) - 1 = i
    BY <1>2, <1>3
  <2>2. GapEnd(f, i) = Begin(f, i + 1)
    BY <1>3 DEF GapEnd
  <2>3. Begin(f, i + 1) \in Nat /\ End(f, i) <= Begin(f, i + 1) /\ End(f, i + 1) = Begin(f, i + 1) + Len(Part(f, i + 1))
    BY <1>1, <2>1 DEF Runs
  <2>4. Begin(f, i + 1) = End(f, i) + Len(Lacing(f, i + 1))
    BY <2>1 DEF Begin
  <2>5. Len(Lacing(f, i + 1)) \in Nat
    BY <2>1, BeforesAre DEF JsonFile
  <2>6. Len(Part(f, i + 1)) \in Nat /\ Len(Part(f, i + 1)) >= 1
    BY <2>1, ValidParts, PartsStart DEF Part
  <2> QED
    BY <1>2, <1>3, <2>1, <2>2, <2>3, <2>4, <2>5, <2>6
<1>4. CASE ~ i < Len(f.parts)
  <2>1. GapEnd(f, i) = End(f, i) /\ i = Len(f.parts)
    BY <1>2, <1>4 DEF GapEnd
  <2> QED
    BY <1>2, <1>4, <2>1
<1> QED
  BY <1>3, <1>4

\* What is between two parts.
LEMMA LacingIs ==
  ASSUME NEW f, JsonFile(f), NEW i \in 1..Len(f.parts), NEW k \in 1..Len(Lacing(f, i))
  PROVE  /\ Lacing(f, i)[k] \in {"nl", Comma}
         /\ f.shape # "array" => Lacing(f, i)[k] = "nl"
<1>1. CASE i = 1
  <2>1. Len(Lacing(f, i)) = 0
    BY <1>1, NothingIsAList DEF Lacing
  <2> QED
    BY <2>1
<1>2. CASE i # 1
  <2>1. Lacing(f, i) = Glue(f)
    BY <1>2 DEF Lacing
  <2> QED
    BY <2>1, GlueIs DEF JsonFile
<1> QED
  BY <1>1, <1>2

\* What the next character there is.
GapGoesOn(f, t, i, p) ==
    /\ p < GapEnd(f, i) /\ i < Len(f.parts) /\ Between(f, t, i, p + 1)
    /\ t[p + 1] \in {"nl", Comma} /\ (f.shape # "array" => t[p + 1] = "nl")
PartBegins(f, t, i, p) ==
    /\ p = GapEnd(f, i) /\ i < Len(f.parts) /\ t[p + 1] = Part(f, i + 1)[1]
    /\ t[p + 1] \notin {"nl", Comma, "[", "]"}
ArrayEnds(f, t, i, p) ==
    /\ p = GapEnd(f, i) /\ i = Len(f.parts) /\ f.shape = "array" /\ t[p + 1] = "]"

LEMMA NextInGap ==
  ASSUME NEW f, JsonFile(f), NEW t, Laid(f, t), NEW i, NEW p, Between(f, t, i, p), p < Len(t)
  PROVE  GapGoesOn(f, t, i, p) \/ PartBegins(f, t, i, p) \/ ArrayEnds(f, t, i, p)
<1>1. i \in 0..Len(f.parts) /\ p \in Nat /\ End(f, i) <= p /\ p <= GapEnd(f, i)
  BY DEF Between
<1>2. Len(t) \in Nat
  BY ListHas DEF Laid
<1>3. PICK n, e, g : n = Len(f.parts) /\ e = End(f, i) /\ g = GapEnd(f, i)
  OBVIOUS
<1>4. n \in Nat /\ i \in Nat /\ e \in Nat /\ g \in Nat
  BY <1>1, <1>3, GapsAre
<1>5. CASE i < n /\ p < g
  <2>1. /\ i + 1 \in 1..n /\ (i + 1) - 1 = i /\ g = e + Len(Lacing(f, i + 1)) /\ Len(Lacing(f, i + 1)) \in Nat
    BY <1>1, <1>3, <1>4, <1>5, GapsAre
  <2>2. PICK k : k = (p + 1) - e
    OBVIOUS
  <2>3. k \in 1..Len(Lacing(f, i + 1)) /\ e + k = p + 1 /\ p + 1 <= Len(t)
    BY <1>1, <1>2, <1>3, <1>4, <1>5, <2>1, <2>2
  <2>4. End(f, (i + 1) - 1) = e
    BY <1>3, <2>1
  <2>5. t[e + k] = Lacing(f, i + 1)[k]
    BY <1>3, <2>1, <2>3, <2>4 DEF Laid
  <2>6. t[p + 1] \in {"nl", Comma} /\ (f.shape # "array" => t[p + 1] = "nl")
    BY <1>3, <2>1, <2>3, <2>5, LacingIs
  <2>7. Between(f, t, i, p + 1)
    BY <1>1, <1>3, <1>4, <1>5, <2>3 DEF Between
  <2> QED
    BY <1>3, <1>5, <2>6, <2>7 DEF GapGoesOn
<1>6. CASE i < n /\ p = g
  <2>1. /\ i + 1 \in 1..n /\ g = Begin(f, i + 1) /\ Len(Part(f, i + 1)) >= 1 /\ Len(Part(f, i + 1)) \in Nat
    BY <1>1, <1>3, <1>4, <1>6, GapsAre
  <2>2. 1 \in 1..Len(Part(f, i + 1)) /\ Begin(f, i + 1) + 1 <= Len(t)
    BY <1>1, <1>2, <1>6, <2>1
  <2>3. t[p + 1] = Part(f, i + 1)[1]
    BY <1>3, <1>6, <2>1, <2>2 DEF Laid
  <2>4. Part(f, i + 1)[1] \notin {"nl", Comma, "[", "]"}
    BY <1>3, <2>1, ValidParts, PartsStart DEF Part
  <2> QED
    BY <1>3, <1>6, <2>3, <2>4 DEF PartBegins
<1>7. CASE ~ i < n
  <2>1. i = n /\ g = e
    BY <1>1, <1>3, <1>7, GapsAre
  <2>2. p = e
    BY <1>1, <1>3, <1>4, <2>1
  <2>3. Len(t) <= End(f, n) + Lead(f)
    BY <1>3 DEF Laid
  <2>4. f.shape = "array"
    <3>1. SUFFICES ASSUME f.shape # "array" PROVE FALSE
      OBVIOUS
    <3>2. Lead(f) = 0
      BY <3>1 DEF Lead
    <3> QED
      BY <1>2, <1>3, <1>4, <2>1, <2>2, <2>3, <3>2
  <2>5. End(f, n) + 1 <= Len(t)
    BY <1>2, <1>3, <1>4, <2>1, <2>2
  <2>6. t[p + 1] = "]"
    BY <1>3, <2>1, <2>2, <2>4, <2>5 DEF Laid
  <2> QED
    BY <1>3, <2>1, <2>2, <2>4, <2>6 DEF ArrayEnds
<1> QED
  BY <1>1, <1>3, <1>4, <1>5, <1>6, <1>7

\* White space goes on between the same parts.
LEMMA SkipBlanks ==
  ASSUME NEW f, JsonFile(f), NEW t, Laid(f, t), NEW i, NEW p, Between(f, t, i, p),
         NEW k \in Nat, p + k <= Len(t), \A j \in 1..k : t[p + j] = "nl"
  PROVE  Between(f, t, i, p + k)
<1>1. i \in 0..Len(f.parts) /\ p \in Nat /\ End(f, i) <= p /\ p <= GapEnd(f, i)
  BY DEF Between
<1>2. Len(t) \in Nat
  BY ListHas DEF Laid
<1>3. End(f, i) \in Nat /\ GapEnd(f, i) \in Nat /\ End(f, i) <= GapEnd(f, i)
  BY <1>1, GapsAre
<1>4. p + k <= GapEnd(f, i)
  <2>1. SUFFICES ASSUME GapEnd(f, i) < p + k PROVE FALSE
    BY <1>1, <1>3
  <2>2. PICK g : g = GapEnd(f, i)
    OBVIOUS
  <2>3. g \in Nat /\ p <= g /\ g < p + k /\ (g - p) + 1 \in 1..k /\ p + ((g - p) + 1) = g + 1 /\ g < Len(t)
    BY <1>1, <1>2, <1>3, <2>1, <2>2
  <2>4. t[g + 1] = "nl"
    BY <2>3
  <2>5. Between(f, t, i, g)
    BY <1>1, <1>2, <1>3, <2>2, <2>3 DEF Between
  <2>6. GapGoesOn(f, t, i, g) \/ PartBegins(f, t, i, g) \/ ArrayEnds(f, t, i, g)
    BY <2>3, <2>5, NextInGap
  <2> QED
    BY <2>2, <2>3, <2>4, <2>6 DEF GapGoesOn, PartBegins, ArrayEnds
<1> QED
  BY <1>1, <1>3, <1>4 DEF Between

\* What can be decoded between two parts is the next part.
LEMMA NextPart ==
  ASSUME NEW f, JsonFile(f), NEW t, Laid(f, t), NEW i, NEW p, Between(f, t, i, p),
         NEW v \in Valid, p + Len(Text[v]) <= Len(t), \A j \in 1..Len(Text[v]) : t[p + j] = Text[v][j]
  PROVE  /\ p = GapEnd(f, i) /\ i < Len(f.parts) /\ v = f.parts[i + 1] /\ i + 1 \in Nat
         /\ End(f, i + 1) = p + Len(Text[v]) /\ Between(f, t, i + 1, p + Len(Text[v]))
<1>1. i \in 0..Len(f.parts) /\ p \in Nat /\ i \in Nat
  BY GapsAre DEF Between
<1>2. Len(t) \in Nat
  BY ListHas DEF Laid
<1>3. List(Text[v]) /\ Len(Text[v]) \in Nat /\ Len(Text[v]) >= 1 /\ Text[v][1] \notin {"nl", Comma, "[", "]"}
  BY PartsStart
<1>4. p < Len(t) /\ t[p + 1] = Text[v][1]
  <2>1. 1 \in 1..Len(Text[v])
    BY <1>3
  <2> QED
    BY <1>1, <1>2, <1>3, <2>1
<1>5. PartBegins(f, t, i, p)
  <2>1. GapGoesOn(f, t, i, p) \/ PartBegins(f, t, i, p) \/ ArrayEnds(f, t, i, p)
    BY <1>4, NextInGap
  <2> QED
    BY <1>3, <1>4, <2>1 DEF GapGoesOn, ArrayEnds
<1>6. PICK w, n : w = f.parts[i + 1] /\ n = Len(f.parts)
  OBVIOUS
<1>7. /\ i + 1 \in 1..n /\ p = GapEnd(f, i) /\ i < n /\ GapEnd(f, i) = Begin(f, i + 1)
      /\ End(f, i + 1) = p + Len(Text[w]) /\ n \in Nat
  BY <1>1, <1>5, <1>6, GapsAre DEF PartBegins, Part
<1>8. w \in Valid
  BY <1>6, <1>7, ValidParts
<1>9. List(Text[w]) /\ Len(Text[w]) \in Nat /\ Len(Text[w]) >= 1
  BY <1>8, PartsStart
<1>10. ASSUME NEW k \in 1..Len(Text[w]), p + k <= Len(t) PROVE t[p + k] = Text[w][k]
  <2>1. k \in 1..Len(Part(f, i + 1)) /\ Begin(f, i + 1) + k <= Len(t)
    BY <1>6, <1>7, <1>10 DEF Part
  <2>2. t[Begin(f, i + 1) + k] = Part(f, i + 1)[k]
    BY <1>6, <1>7, <2>1 DEF Laid
  <2> QED
    BY <1>6, <1>7, <2>2 DEF Part
<1>11. v = w
  <2>1. ASSUME Len(Text[v]) <= Len(Text[w]) PROVE IsPrefix(Text[v], Text[w])
    <3>1. ASSUME NEW k \in 1..Len(Text[v]) PROVE Text[v][k] = Text[w][k]
      <4>1. k \in 1..Len(Text[w]) /\ p + k <= Len(t)
        BY <1>1, <1>2, <1>3, <1>9, <2>1
      <4> QED
        BY <1>10, <4>1
    <3> QED
      BY <1>3, <1>9, <2>1, <3>1, PrefixIs
  <2>2. ASSUME Len(Text[w]) <= Len(Text[v]) PROVE IsPrefix(Text[w], Text[v])
    <3>1. ASSUME NEW k \in 1..Len(Text[w]) PROVE Text[w][k] = Text[v][k]
      <4>1. k \in 1..Len(Text[v]) /\ p + k <= Len(t)
        BY <1>1, <1>2, <1>3, <1>9, <2>2
      <4> QED
        BY <1>10, <4>1
    <3> QED
      BY <1>3, <1>9, <2>2, <3>1, PrefixIs
  <2>3. IsPrefix(Text[v], Text[w]) \/ IsPrefix(Text[w], Text[v])
    BY <1>3, <1>9, <2>1, <2>2
  <2>4. \A x, y \in Valid : IsPrefix(Text[x], Text[y]) => x = y
    BY IngestAssumption
  <2> QED
    BY <1>8, <2>3, <2>4
<1>12. Between(f, t, i + 1, p + Len(Text[v]))
  <2>1. i + 1 \in 0..n
    BY <1>7
  <2>2. End(f, i + 1) <= GapEnd(f, i + 1) /\ End(f, i + 1) \in Nat
    BY <1>6, <2>1, GapsAre
  <2> QED
    BY <1>6, <1>7, <1>11, <2>1, <2>2 DEF Between
<1> QED
  BY <1>1, <1>6, <1>7, <1>11, <1>12

\* Value v follows the first p characters of t.
Follows(t, p, v) == p + Len(Text[v]) <= Len(t) /\ \A j \in 1..Len(Text[v]) : t[p + j] = Text[v][j]

\* It is the next part, and the part after it is next then.
IsNextPart(f, t, i, p, v) ==
    v = f.parts[i + 1] /\ i + 1 \in Nat /\ Between(f, t, i + 1, p + Len(Text[v]))

LEMMA NextIsPart ==
  ASSUME NEW f, JsonFile(f), NEW t, Laid(f, t), NEW i, NEW p, Between(f, t, i, p),
         NEW v \in Valid, Follows(t, p, v)
  PROVE  IsNextPart(f, t, i, p, v)
BY NextPart DEF Follows, IsNextPart

(***************************************************************************)
(* What arrived, and when all of it has been told.                         *)
(***************************************************************************)

\* The first m parts arrived whole, and no more.
ArrivedUpTo(f, m) ==
    /\ m \in 0..Len(f.parts) /\ Arrived(f) = SubSeq(f.parts, 1, m)
    /\ \A i \in 1..Len(f.parts) : i <= m <=> End(f, i) <= Len(Characters(f))

LEMMA SomeArrived ==
  ASSUME NEW f, JsonFile(f)
  PROVE  \E m : ArrivedUpTo(f, m)
<1>1. PICK n, l : n = Len(f.parts) /\ l = Len(Characters(f))
  OBVIOUS
<1>2. Runs(f) /\ n \in Nat /\ l \in Nat /\ DOMAIN f.parts = 1..n
  <2>1. Runs(f)
    BY FileRuns DEF JsonFile
  <2>2. List(f.parts) /\ List(Characters(f))
    BY PiecesAre, CharactersAre DEF JsonFile
  <2> QED
    BY <1>1, <2>1, <2>2, ListHas
<1>3. /\ \A i \in 1..n : End(f, i) \in Nat
      /\ \A i, j \in 1..n : i <= j => End(f, i) <= End(f, j)
  <2>1. \A i \in 1..n : i \in 0..n
    BY <1>2
  <2> QED
    BY <1>1, <1>2, <2>1 DEF Runs
<1> DEFINE Z == {j \in Nat : j >= 1 /\ (j <= n => l < End(f, j))}
<1>4. Z \in SUBSET Nat /\ n + 1 \in Z
  BY <1>2
<1>5. PICK z \in Z : \A j \in Z : z <= j
  BY <1>4, LeastNatural
<1>6. PICK m : m = z - 1
  OBVIOUS
<1>7. z \in Nat /\ z >= 1 /\ z <= n + 1 /\ m \in 0..n /\ m \in Nat
  BY <1>2, <1>4, <1>5, <1>6
<1>8. ASSUME NEW i \in 1..n PROVE i <= m <=> End(f, i) <= l
  <2>1. ASSUME i <= m PROVE End(f, i) <= l
    <3>1. i \in Nat /\ ~ z <= i
      BY <1>6, <1>7, <2>1
    <3>2. i \notin Z
      BY <1>5, <3>1
    <3> QED
      BY <1>2, <1>3, <3>1, <3>2
  <2>2. ASSUME ~ i <= m PROVE ~ End(f, i) <= l
    <3>1. z <= i /\ z \in 1..n
      BY <1>2, <1>6, <1>7, <2>2
    <3>2. l < End(f, z) /\ End(f, z) <= End(f, i)
      BY <1>3, <1>5, <3>1
    <3> QED
      BY <1>2, <1>3, <3>1, <3>2
  <2> QED
    BY <2>1, <2>2
<1> HIDE DEF Z
<1>9. {i \in DOMAIN f.parts : End(f, i) <= l} = 1..m
  <2>1. \A i \in 1..m : i \in 1..n /\ i <= m
    BY <1>2, <1>7
  <2>2. \A i \in 1..n : i <= m => i \in 1..m
    BY <1>2, <1>7
  <2> QED
    BY <1>2, <1>8, <2>1, <2>2
<1>10. Cardinality(1..m) = m
  <2>1. Cardinality(1..m) = IF 1 > m THEN 0 ELSE m - 1 + 1
    BY <1>7, FS_Interval
  <2> QED
    BY <1>7, <2>1
<1>11. Arrived(f) = SubSeq(f.parts, 1, m)
  BY <1>1, <1>9, <1>10 DEF Arrived
<1> QED
  BY <1>1, <1>7, <1>8, <1>11 DEF ArrivedUpTo

\* What EveryEventOnce says of events g of file f.
Delivered(f, g) ==
    \E S \in Counted(f) :
        /\ IsPrefix(g, Reported(f, S)) /\ Len(g) >= Min2(Cap, Len(Reported(f, S)))
        /\ f.sep # <<>> \/ f.shape = "array" => Len(g) <= Cap

\* Which parts count in which file.
LEMMA ObjectsCount ==
  ASSUME NEW f, JsonFile(f), f.shape # "array" \/ f.size = "large"
  PROVE  Object \in Counted(f)
BY DEF JsonFile, Counted

LEMMA LinesCount ==
  ASSUME NEW f, JsonFile(f), f.shape # "array", f.size = "large"
  PROVE  Normal \in Counted(f)
<1>1. f.shape \in {"stream", "array"}
  BY AnalysisAssumption DEF JsonFile, IsFile
<1> QED
  BY <1>1 DEF JsonFile, Counted

LEMMA ValuesCount ==
  ASSUME NEW f, JsonFile(f), f.shape = "array", f.size # "large"
  PROVE  Normal \in Counted(f)
BY DEF JsonFile, Counted

\* Nothing looks into its lists.
TakenWhole(f) == ~ LoneList(f)

\* Enough is told when it is what all parts report that arrived, or the cap.
LEMMA EnoughTold ==
  ASSUME NEW f, JsonFile(f), TakenWhole(f), NEW S \in Counted(f), NEW m, ArrivedUpTo(f, m), NEW g, NEW i \in Nat, i <= m, Tell(g, f, S, i),
         i = m \/ Len(g) >= Cap, f.sep # <<>> \/ f.shape = "array" => Len(g) <= Cap
  PROVE  Delivered(f, g)
<1>1. m \in 0..Len(f.parts) /\ Arrived(f) = SubSeq(f.parts, 1, m)
  BY DEF ArrivedUpTo
<1>2. List(f.parts) /\ Len(f.parts) \in Nat /\ f.fmt # ".log"
  <2>1. List(f.parts) /\ f.fmt = ".json"
    BY PiecesAre DEF JsonFile
  <2> QED
    BY <2>1, ListHas
<1>3. Reported(f, S) = Only(Arrived(f), S)
  BY DEF Reported, TakenWhole, JsonFile
<1>4. Tell(Reported(f, S), f, S, m) /\ m \in Nat
  <2>1. Tell(Only(SubSeq(f.parts, 1, m), S), f, S, m)
    BY <1>1, <1>2, OnlyTells
  <2>2. m \in Nat
    BY <1>1, <1>2
  <2> QED
    BY <1>1, <1>3, <2>1, <2>2
<1>5. IsPrefix(g, Reported(f, S)) /\ Len(g) <= Len(Reported(f, S))
  BY <1>4, TellsFirst
<1>6. Len(g) \in Nat /\ Len(Reported(f, S)) \in Nat /\ Cap \in Nat
  BY <1>4, CapsAre, ListHas DEF Tell
<1>7. i = m => Len(g) = Len(Reported(f, S))
  BY <1>4 DEF Tell
<1>8. Len(g) >= Min2(Cap, Len(Reported(f, S)))
  BY <1>5, <1>6, <1>7 DEF Min2
<1> QED
  BY <1>5, <1>8 DEF Delivered

\* A reader that stands between two parts has seen no more than arrived; at the end of the text, all of it.
LEMMA BetweenArrived ==
  ASSUME NEW f, JsonFile(f), NEW m, ArrivedUpTo(f, m), NEW i, NEW p, Between(f, Characters(f), i, p)
  PROVE  /\ i \in Nat /\ m \in Nat /\ i <= m
         /\ i < Len(f.parts) /\ Len(Characters(f)) < End(f, i + 1) => i = m
         /\ p = Len(Characters(f)) \/ i = Len(f.parts) => i = m
<1>1. PICK n, l : n = Len(f.parts) /\ l = Len(Characters(f))
  OBVIOUS
<1>2. i \in 0..n /\ p \in Nat /\ End(f, i) <= p /\ p <= GapEnd(f, i) /\ p <= l
  BY <1>1 DEF Between
<1>3. m \in 0..n /\ \A j \in 1..n : j <= m <=> End(f, j) <= l
  BY <1>1 DEF ArrivedUpTo
<1>4. l \in Nat /\ n \in Nat /\ i \in Nat /\ End(f, i) \in Nat /\ m \in Nat
  <2>1. List(Characters(f))
    BY CharactersAre DEF JsonFile
  <2>2. n \in Nat /\ i \in Nat /\ End(f, i) \in Nat
    BY <1>1, <1>2, GapsAre
  <2> QED
    BY <1>1, <1>3, <2>1, <2>2, ListHas
<1>5. i <= m
  <2>1. CASE i = 0
    BY <1>4, <2>1
  <2>2. CASE i # 0
    <3>1. i \in 1..n /\ End(f, i) <= l
      BY <1>2, <1>4, <2>2
    <3> QED
      BY <1>3, <3>1
  <2> QED
    BY <2>1, <2>2
<1>6. ASSUME i < n, l < End(f, i + 1) PROVE i = m
  <2>1. i + 1 \in 1..n /\ End(f, i + 1) \in Nat
    <3>1. i + 1 \in 1..n /\ i + 1 \in 0..n
      BY <1>4, <1>6
    <3> QED
      BY <1>1, <3>1, GapsAre
  <2>2. ~ i + 1 <= m
    BY <1>3, <1>4, <1>6, <2>1
  <2> QED
    BY <1>4, <1>5, <2>2
<1>7. ASSUME p = l, i < n PROVE l < End(f, i + 1)
  <2>1. /\ GapEnd(f, i) \in Nat /\ End(f, i + 1) = GapEnd(f, i) + Len(Part(f, i + 1))
        /\ Len(Part(f, i + 1)) \in Nat /\ Len(Part(f, i + 1)) >= 1
    BY <1>1, <1>2, <1>7, GapsAre
  <2> QED
    BY <1>2, <1>4, <1>7, <2>1
<1>8. i = n => i = m
  BY <1>3, <1>4, <1>5
<1>9. p = l \/ i = n => i = m
  BY <1>2, <1>4, <1>6, <1>7, <1>8
<1> QED
  BY <1>1, <1>4, <1>5, <1>6, <1>9

\* How the text of a file begins.
TextBegins(f, t) ==
    /\ List(t) /\ (t # <<>> => t[1] # "nl") /\ LStrip(t) = t
    /\ f.shape = "array" /\ t # <<>> => t[1] = "[" /\ Between(f, t, 0, 1)
    /\ f.shape # "array" => Between(f, t, 0, 0)
    /\ f.shape # "array" /\ t # <<>> => t[1] \notin {"nl", Comma, "[", "]"}

LEMMA TextsBegin ==
  ASSUME NEW f, JsonFile(f)
  PROVE  TextBegins(f, Characters(f))
<1> DEFINE t == Characters(f)
<1>1. Laid(f, t) /\ List(t)
  BY CharactersLaid DEF JsonFile, Laid
<1> HIDE DEF t
<1>2. Len(t) \in Nat /\ (t = <<>> <=> Len(t) = 0)
  BY <1>1, ListHas
<1>3. /\ Len(f.parts) \in Nat /\ 0 \in 0..Len(f.parts) /\ End(f, 0) = Lead(f)
      /\ GapEnd(f, 0) = Lead(f)
  <2>1. Runs(f)
    BY FileRuns DEF JsonFile
  <2>2. Len(f.parts) \in Nat /\ 0 \in 0..Len(f.parts) /\ End(f, 0) = Lead(f)
    BY <2>1 DEF Runs
  <2>3. CASE 0 < Len(f.parts)
    <3>1. GapEnd(f, 0) = End(f, 0) + Len(Lacing(f, 0 + 1)) /\ 0 + 1 = 1 /\ End(f, 0) \in Nat
      BY <2>2, <2>3, GapsAre
    <3>2. Len(Lacing(f, 1)) = 0
      BY NothingIsAList DEF Lacing
    <3> QED
      BY <2>2, <3>1, <3>2
  <2>4. CASE ~ 0 < Len(f.parts)
    BY <2>2, <2>4, GapsAre
  <2> QED
    BY <2>2, <2>3, <2>4
<1>4. ASSUME f.shape = "array" PROVE t # <<>> => t[1] = "[" /\ Between(f, t, 0, 1)
  <2>1. Lead(f) = 1
    BY <1>4 DEF Lead
  <2>2. t # <<>> => t[1] = "["
    BY <1>1, <1>2, <1>4 DEF Laid
  <2>3. t # <<>> => Between(f, t, 0, 1)
    BY <1>2, <1>3, <2>1 DEF Between
  <2> QED
    BY <1>4, <2>2, <2>3
<1>5. ASSUME f.shape # "array"
      PROVE  Between(f, t, 0, 0) /\ (t # <<>> => t[1] \notin {"nl", Comma, "[", "]"})
  <2>1. Lead(f) = 0
    BY <1>5 DEF Lead
  <2>2. Between(f, t, 0, 0)
    BY <1>2, <1>3, <2>1 DEF Between
  <2>3. ASSUME t # <<>> PROVE t[1] \notin {"nl", Comma, "[", "]"}
    <3>1. 0 < Len(t)
      BY <1>2, <2>3
    <3>2. GapGoesOn(f, t, 0, 0) \/ PartBegins(f, t, 0, 0) \/ ArrayEnds(f, t, 0, 0)
      BY <1>1, <2>2, <3>1, NextInGap
    <3>3. ~ GapGoesOn(f, t, 0, 0) /\ ~ ArrayEnds(f, t, 0, 0)
      BY <1>3, <1>5, <2>1 DEF GapGoesOn, ArrayEnds
    <3>4. t[0 + 1] \notin {"nl", Comma, "[", "]"}
      BY <3>2, <3>3 DEF PartBegins
    <3> QED
      BY <3>4
  <2> QED
    BY <1>5, <2>2, <2>3
<1>6. t # <<>> => t[1] # "nl"
  BY <1>4, <1>5
<1>7. LStrip(t) = t
  <2>1. PICK k \in 0..Len(t) : StrippedAt(t, k)
    BY <1>1, LStripIs
  <2>2. k = 0
    <3>1. SUFFICES ASSUME k # 0 PROVE FALSE
      OBVIOUS
    <3>2. 1 \in 1..k /\ Len(t) # 0
      BY <1>2, <2>1, <3>1
    <3> QED
      BY <1>2, <1>6, <2>1, <3>2 DEF StrippedAt
  <2>3. LStrip(t) = From(t, 0) /\ 0 \in 0..Len(t)
    BY <1>2, <2>1, <2>2 DEF StrippedAt
  <2>4. List(From(t, 0)) /\ Len(From(t, 0)) = Len(t) - 0 /\ \A i \in 1..(Len(t) - 0) : From(t, 0)[i] = t[0 + i]
    BY <1>1, <2>3, FromIs
  <2>5. Len(From(t, 0)) = Len(t) /\ \A i \in 1..Len(t) : From(t, 0)[i] = t[i]
    BY <1>2, <2>4
  <2> QED
    BY <1>1, <2>3, <2>4, <2>5, ListsEqual
<1> QED
  BY <1>1, <1>4, <1>5, <1>6, <1>7 DEF TextBegins, t

(***************************************************************************)
(* Braces, and the parser of concatenated objects.                         *)
(***************************************************************************)

Counter == [depth : Int, quoted : BOOLEAN, escaped : BOOLEAN]

\* Count, with names for its marks.
Tally(st, ch, esc, quote, open, close) ==
    CASE st.escaped -> [st EXCEPT !.escaped = FALSE]
      [] ~st.escaped /\ ch = esc /\ st.quoted -> [st EXCEPT !.escaped = TRUE]
      [] ~st.escaped /\ ch = quote -> [st EXCEPT !.quoted = ~@]
      [] ~st.escaped /\ ch = open /\ ~st.quoted -> [st EXCEPT !.depth = @ + 1]
      [] ~st.escaped /\ ch = close /\ ~st.quoted -> [st EXCEPT !.depth = @ - 1]
      [] OTHER -> st

LEMMA CountIs ==
  ASSUME NEW st, NEW ch
  PROVE  Count(st, ch) = Tally(st, ch, "b", "q", Opening, "}")
BY Zenon DEF Count, Tally, Opening

LEMMA CalmIs == Calm \in Counter /\ Calm.depth = 0 /\ ~ Calm.quoted /\ ~ Calm.escaped
BY DEF Calm, Counter

LEMMA TallyIs ==
  ASSUME NEW st \in Counter, NEW ch, NEW esc, NEW quote, NEW open, NEW close
  PROVE  /\ Tally(st, ch, esc, quote, open, close) \in Counter
         /\ Tally(st, ch, esc, quote, open, close).depth \in {st.depth - 1, st.depth, st.depth + 1}
<1> DEFINE r == Tally(st, ch, esc, quote, open, close)
<1>1. st.depth \in Int /\ st.quoted \in BOOLEAN /\ st.escaped \in BOOLEAN
  BY DEF Counter
<1>2. /\ [st EXCEPT !.escaped = FALSE] \in Counter /\ [st EXCEPT !.escaped = TRUE] \in Counter
      /\ [st EXCEPT !.quoted = ~@] \in Counter
  BY DEF Counter
<1>3. [st EXCEPT !.depth = @ + 1] \in Counter /\ [st EXCEPT !.depth = @ - 1] \in Counter
  <2>1. st.depth + 1 \in Int /\ st.depth - 1 \in Int
    BY <1>1
  <2> QED
    BY <2>1 DEF Counter
<1>4. /\ [st EXCEPT !.escaped = FALSE].depth = st.depth /\ [st EXCEPT !.escaped = TRUE].depth = st.depth
      /\ [st EXCEPT !.quoted = ~@].depth = st.depth
      /\ [st EXCEPT !.depth = @ + 1].depth = st.depth + 1 /\ [st EXCEPT !.depth = @ - 1].depth = st.depth - 1
  BY DEF Counter
<1>5. r \in {[st EXCEPT !.escaped = FALSE], [st EXCEPT !.escaped = TRUE], [st EXCEPT !.quoted = ~@],
             [st EXCEPT !.depth = @ + 1], [st EXCEPT !.depth = @ - 1], st}
  BY DEF Tally
<1> HIDE DEF r
<1>6. r \in Counter
  BY <1>2, <1>3, <1>5
<1>7. r.depth \in {st.depth - 1, st.depth, st.depth + 1}
  BY <1>4, <1>5
<1> QED
  BY <1>6, <1>7 DEF r

LEMMA OneOfThem ==
  ASSUME NEW st, ~ st.escaped, ~ st.quoted, NEW ch, NEW esc, NEW quote, NEW open, NEW close,
         NEW x1, NEW x2, NEW x3, NEW x4, NEW x5,
         NEW r, r = CASE st.escaped -> x1
                      [] ~st.escaped /\ ch = esc /\ st.quoted -> x2
                      [] ~st.escaped /\ ch = quote -> x3
                      [] ~st.escaped /\ ch = open /\ ~st.quoted -> x4
                      [] ~st.escaped /\ ch = close /\ ~st.quoted -> x5
                      [] OTHER -> st
  PROVE  /\ ch # esc /\ ch # quote /\ ch # open /\ ch # close => r = st
         /\ ch = open /\ open # esc /\ open # quote /\ open # close => r = x4
OBVIOUS

LEMMA CalmTally ==
  ASSUME NEW ch, NEW esc, NEW quote, NEW open, NEW close
  PROVE  /\ ch # esc /\ ch # quote /\ ch # open /\ ch # close => Tally(Calm, ch, esc, quote, open, close) = Calm
         /\ ch = open /\ open # esc /\ open # quote /\ open # close
            => Tally(Calm, ch, esc, quote, open, close).depth = 1
<1>1. PICK st : st = Calm
  OBVIOUS
<1>2. ~ st.escaped /\ ~ st.quoted
  BY <1>1, CalmIs
<1>3. [Calm EXCEPT !.depth = @ + 1].depth = 1
  BY DEF Calm
<1>4. PICK x1, x2, x3, x4, x5, r :
          /\ x1 = [st EXCEPT !.escaped = FALSE] /\ x2 = [st EXCEPT !.escaped = TRUE]
          /\ x3 = [st EXCEPT !.quoted = ~@]
          /\ x4 = [st EXCEPT !.depth = @ + 1] /\ x5 = [st EXCEPT !.depth = @ - 1]
          /\ r = Tally(st, ch, esc, quote, open, close)
  OBVIOUS
<1>5. r = CASE st.escaped -> x1
            [] ~st.escaped /\ ch = esc /\ st.quoted -> x2
            [] ~st.escaped /\ ch = quote -> x3
            [] ~st.escaped /\ ch = open /\ ~st.quoted -> x4
            [] ~st.escaped /\ ch = close /\ ~st.quoted -> x5
            [] OTHER -> st
  BY <1>4, Zenon DEF Tally
<1>6. /\ ch # esc /\ ch # quote /\ ch # open /\ ch # close => r = st
      /\ ch = open /\ open # esc /\ open # quote /\ open # close => r = x4
  BY <1>2, <1>5, OneOfThem
<1>7. x4.depth = 1
  BY <1>1, <1>3, <1>4, Zenon
<1> QED
  BY <1>1, <1>4, <1>6, <1>7, Zenon

\* Outside of objects the counter ignores white space and counts an opening brace.
LEMMA CalmCounts == Count(Calm, "nl") = Calm /\ Count(Calm, Opening).depth = 1
<1>1. "nl" # "b" /\ "nl" # "q" /\ "nl" # "{" /\ "nl" # "}" /\ "{" # "b" /\ "{" # "q" /\ "{" # "}"
  BY Zenon
<1>2. "nl" # "b" /\ "nl" # "q" /\ "nl" # Opening /\ "nl" # "}" /\ Opening # "b" /\ Opening # "q" /\ Opening # "}"
  BY <1>1, Zenon DEF Opening
<1>3. Tally(Calm, "nl", "b", "q", Opening, "}") = Calm
  BY <1>2, CalmTally, Zenon
<1>4. Tally(Calm, Opening, "b", "q", Opening, "}").depth = 1
  BY <1>2, CalmTally, Zenon
<1> QED
  BY <1>3, <1>4, CountIs, Zenon

LEMMA CountMoves ==
  ASSUME NEW st \in Counter, NEW ch
  PROVE  Count(st, ch) \in Counter /\ Count(st, ch).depth \in {st.depth - 1, st.depth, st.depth + 1}
<1>1. PICK close : close = "}"
  OBVIOUS
<1>2. Count(st, ch) = Tally(st, ch, "b", "q", Opening, close)
  BY <1>1, CountIs, Zenon
<1> QED
  BY <1>2, TallyIs

\* c is what the counter holds along value v.
CountsOf(v, c) ==
    /\ c[0] = Calm /\ c[Len(Text[v])] = Calm
    /\ \A k \in 0..Len(Text[v]) : c[k] \in Counter
    /\ \A k \in 1..Len(Text[v]) : c[k] = Count(c[k - 1], Text[v][k])
    /\ \A k \in 1..(Len(Text[v]) - 1) : IF v \in Object THEN c[k].depth > 0 ELSE c[k].depth = 0

LEMMA CountsAre ==
  ASSUME NEW v \in Valid
  PROVE  CountsOf(v, Counts(Text[v]))
<1>1. PICK c, n : c = Counts(Text[v]) /\ n = Len(Text[v])
  OBVIOUS
<1>2. n \in Nat
  BY <1>1, PartsStart
<1>3. Balanced(v)
  BY IngestAssumption
<1>4. /\ c[0] = Calm /\ c[n] = Calm
      /\ \A k \in 1..n : c[k] = Count(c[k - 1], Text[v][k])
      /\ \A k \in 1..(n - 1) : IF v \in Object THEN c[k].depth > 0 ELSE c[k].depth = 0
  BY <1>1, <1>3 DEF Balanced
<1> DEFINE S == {k \in Nat : k <= n => c[k] \in Counter}
<1>5. 0 \in S
  BY <1>4, CalmIs
<1>6. ASSUME NEW k \in Nat, k \in S PROVE k + 1 \in S
  <2>1. SUFFICES ASSUME k + 1 <= n PROVE c[k + 1] \in Counter
    OBVIOUS
  <2>2. k + 1 \in 1..n /\ (k + 1) - 1 = k /\ k <= n
    BY <1>2, <2>1
  <2>3. c[k + 1] = Count(c[(k + 1) - 1], Text[v][k + 1])
    BY <1>4, <2>2
  <2>4. c[k] \in Counter
    BY <1>6, <2>2
  <2> QED
    BY <2>2, <2>3, <2>4, CountMoves
<1> HIDE DEF S
<1>7. Nat \subseteq S
  BY <1>5, <1>6, Forever
<1>8. \A k \in 0..n : c[k] \in Counter
  BY <1>2, <1>7 DEF S
<1> QED
  BY <1>1, <1>4, <1>8 DEF CountsOf

\* An object has more than one character.
LEMMA ObjectsAreLonger ==
  ASSUME NEW v \in Object
  PROVE  Len(Text[v]) > 1
<1>1. v \in Valid
  BY DEF Valid
<1>2. Len(Text[v]) \in Nat /\ Len(Text[v]) >= 1 /\ Text[v][1] = Opening
  BY <1>1, PartsStart
<1>3. SUFFICES ASSUME Len(Text[v]) = 1 PROVE FALSE
  <2>1. PICK n : n = Len(Text[v])
    OBVIOUS
  <2>2. n \in Nat /\ n >= 1 /\ n # 1 => n > 1
    OBVIOUS
  <2> QED
    BY <1>2, <2>1, <2>2
<1>4. CountsOf(v, Counts(Text[v]))
  BY <1>1, CountsAre
<1>5. PICK c : c = Counts(Text[v])
  OBVIOUS
<1>6. c[1] = Calm /\ c[0] = Calm /\ c[1] = Count(c[1 - 1], Text[v][1])
  BY <1>3, <1>4, <1>5 DEF CountsOf
<1>7. c[1] = Count(Calm, Opening)
  BY <1>2, <1>6
<1> QED
  BY <1>6, <1>7, CalmCounts, CalmIs

(***************************************************************************)
(* One event or one character more.                                        *)
(***************************************************************************)

\* What the events of a sequence are.
GotOf(seq) == [i \in DOMAIN seq |-> seq[i].what]

LEMMA GotIs ==
  ASSUME NEW seq, List(seq)
  PROVE  /\ List(GotOf(seq)) /\ Len(GotOf(seq)) = Len(seq)
         /\ \A i \in 1..Len(seq) : GotOf(seq)[i] = seq[i].what
<1>1. PICK n \in Nat : n = Len(seq)
  BY ListHas
<1>2. DOMAIN seq = 1..n
  BY <1>1, ListHas
<1>3. PICK g : g = GotOf(seq)
  OBVIOUS
<1>4. DOMAIN g = 1..n /\ g = [i \in 1..n |-> g[i]] /\ \A i \in 1..n : g[i] = seq[i].what
  BY <1>2, <1>3 DEF GotOf
<1>5. List(g) /\ Len(g) = n
  BY <1>4, ListMade
<1> QED
  BY <1>1, <1>3, <1>4, <1>5

LEMMA GotNothing == GotOf(<<>>) = <<>>
<1>1. List(GotOf(<<>>)) /\ Len(GotOf(<<>>)) = 0
  BY NothingIsAList, GotIs
<1> QED
  BY <1>1, ListHas

LEMMA GotMore ==
  ASSUME NEW seq, List(seq), NEW v
  PROVE  GotOf(Append(seq, Made(v))) = Append(GotOf(seq), v)
<1>1. PICK n \in Nat : n = Len(seq)
  BY ListHas
<1>2. PICK s1, g, g1, h : s1 = Append(seq, Made(v)) /\ g = GotOf(seq) /\ g1 = GotOf(s1) /\ h = Append(g, v)
  OBVIOUS
<1>3. List(s1) /\ Len(s1) = n + 1 /\ s1[n + 1] = Made(v) /\ \A i \in 1..n : s1[i] = seq[i]
  BY <1>1, <1>2, AppendIs
<1>4. List(g) /\ Len(g) = n /\ \A i \in 1..n : g[i] = seq[i].what
  BY <1>1, <1>2, GotIs
<1>5. List(g1) /\ Len(g1) = n + 1 /\ \A i \in 1..(n + 1) : g1[i] = s1[i].what
  BY <1>2, <1>3, GotIs
<1>6. List(h) /\ Len(h) = n + 1 /\ h[n + 1] = v /\ \A i \in 1..n : h[i] = g[i]
  BY <1>2, <1>4, AppendIs
<1>7. Made(v).what = v
  BY DEF Made
<1>8. ASSUME NEW i \in 1..(n + 1) PROVE g1[i] = h[i]
  <2>1. CASE i = n + 1
    BY <1>3, <1>5, <1>6, <1>7, <2>1
  <2>2. CASE i # n + 1
    <3>1. i \in 1..n
      BY <2>2
    <3> QED
      BY <1>3, <1>4, <1>5, <1>6, <3>1
  <2> QED
    BY <2>1, <2>2
<1>9. g1 = h
  BY <1>5, <1>6, <1>8, ListsEqual
<1> QED
  BY <1>2, <1>9

\* What is parsed is a sequence, and so are its events.
LEMMA GotIsList ==
  ASSUME ParsedFrom(parsed)
  PROVE  /\ List(parsed) /\ Got = GotOf(parsed) /\ List(Got)
         /\ Len(Got) = Len(parsed) /\ Len(Got) \in Nat
<1>1. List(parsed)
  BY DEF ParsedFrom, List
<1>2. Got = GotOf(parsed)
  BY DEF Got, GotOf
<1> QED
  BY <1>1, <1>2, GotIs, ListHas

LEMMA FirstOfMore ==
  ASSUME NEW t, List(t), NEW k \in Nat, k + 1 <= Len(t)
  PROVE  Append(SubSeq(t, 1, k), t[k + 1]) = SubSeq(t, 1, k + 1)
<1>1. PICK s1, s2, h : s1 = SubSeq(t, 1, k) /\ s2 = SubSeq(t, 1, k + 1) /\ h = Append(s1, t[k + 1])
  OBVIOUS
<1>2. Len(t) \in Nat /\ k \in Int /\ k + 1 \in Int /\ k <= Len(t) /\ ~ k < 0 /\ ~ k + 1 < 0
  BY ListHas
<1>3. List(s1) /\ Len(s1) = k /\ \A i \in 1..k : s1[i] = t[i]
  BY <1>1, <1>2, PartIs
<1>4. List(s2) /\ Len(s2) = k + 1 /\ \A i \in 1..(k + 1) : s2[i] = t[i]
  BY <1>1, <1>2, PartIs
<1>5. List(h) /\ Len(h) = k + 1 /\ h[k + 1] = t[k + 1] /\ \A i \in 1..k : h[i] = s1[i]
  BY <1>1, <1>3, AppendIs
<1>6. ASSUME NEW i \in 1..(k + 1) PROVE h[i] = s2[i]
  <2>1. i \in 1..k \/ i = k + 1
    OBVIOUS
  <2> QED
    BY <1>3, <1>4, <1>5, <2>1
<1>7. h = s2
  BY <1>4, <1>5, <1>6, ListsEqual
<1> QED
  BY <1>1, <1>7

LEMMA FirstOfAll ==
  ASSUME NEW t, List(t)
  PROVE  SubSeq(t, 1, Len(t)) = t
<1>1. PICK n, s1 : n = Len(t) /\ s1 = SubSeq(t, 1, n)
  OBVIOUS
<1>2. n \in Nat /\ n \in Int /\ n <= Len(t) /\ ~ n < 0
  BY <1>1, ListHas
<1>3. List(s1) /\ Len(s1) = n /\ \A i \in 1..n : s1[i] = t[i]
  BY <1>1, <1>2, PartIs
<1>4. s1 = t
  BY <1>1, <1>3, ListsEqual
<1> QED
  BY <1>1, <1>4

\* Where a part ends, what comes after it begins.
LEMMA PartEnds ==
  ASSUME NEW f, JsonFile(f), NEW t, NEW i \in 0..Len(f.parts), i < Len(f.parts), End(f, i + 1) <= Len(t)
  PROVE  Between(f, t, i + 1, End(f, i + 1)) /\ i + 1 \in Nat
<1>1. Len(f.parts) \in Nat /\ i \in Nat /\ i + 1 \in 0..Len(f.parts)
  BY GapsAre
<1>2. End(f, i + 1) \in Nat /\ GapEnd(f, i + 1) \in Nat /\ End(f, i + 1) <= GapEnd(f, i + 1)
  BY <1>1, GapsAre
<1> QED
  BY <1>1, <1>2 DEF Between

\* A JSON file reports its values as they are.
LEMMA TellsPart ==
  ASSUME NEW f, JsonFile(f), NEW S, NEW g, NEW i \in Nat, Tell(g, f, S, i), NEW v, v = f.parts[i + 1]
  PROVE  /\ v \in S => Tell(Append(g, v), f, S, i + 1)
         /\ v \notin S => Tell(g, f, S, i + 1)
<1>1. Report(f, v) = v
  BY DEF Report, JsonFile
<1> QED
  BY <1>1, TellsMore

(***************************************************************************)
(* Where the parser of concatenated objects is.                            *)
(***************************************************************************)

\* It has read p characters and stands between parts.
Outside(f, g, sc, i, p) ==
    /\ Between(f, Characters(f), i, p) /\ sc.at = Calm
    /\ f.sep # <<>> => Len(g) <= Cap /\ (Len(g) >= Cap => sc.fresh \/ p = End(f, i))

\* Or it has read k characters of part i + 1, and keeps them if the part is an object.
Inside(f, g, c, sc, i, p, k) ==
    /\ i \in 0..Len(f.parts) /\ i < Len(f.parts)
    /\ k \in Nat /\ k < Len(Part(f, i + 1)) /\ p = Begin(f, i + 1) + k /\ p <= Len(Characters(f))
    /\ sc.at = Counts(Part(f, i + 1))[k]
    /\ f.parts[i + 1] \in Object /\ k > 0 => c = SubSeq(Part(f, i + 1), 1, k)
    /\ f.sep # <<>> => Len(g) < Cap

ConcatAt(f, g, r, c, sc) ==
    /\ f.shape # "array"
    /\ \E i, p : /\ r = From(Characters(f), p) /\ Tell(g, f, Object, i)
                 /\ Outside(f, g, sc, i, p) \/ \E k : Inside(f, g, c, sc, i, p, k)

LEMMA ConcatStarts ==
  ASSUME NEW f, JsonFile(f), f.shape # "array"
  PROVE  ConcatAt(f, <<>>, Characters(f), <<>>, Concat)
<1>1. Between(f, Characters(f), 0, 0) /\ List(Characters(f))
  BY TextsBegin DEF TextBegins
<1>2. Characters(f) = From(Characters(f), 0)
  BY <1>1, FromStart
<1>3. Concat.at = Calm
  BY DEF Concat
<1>4. Len(<<>>) = 0 /\ 0 <= Cap /\ ~ 0 >= Cap
  BY NothingIsAList, CapsAre
<1>5. Outside(f, <<>>, Concat, 0, 0)
  BY <1>1, <1>3, <1>4 DEF Outside
<1> QED
  BY <1>2, <1>5, TellsNothing DEF ConcatAt

\* What it does with character ch.
Scanned(c, sc, ch, g1, c1, sc1, g) ==
    LET st == sc.at
        next == Count(st, ch)
        more == Append(c, ch)
    IN /\ sc1 = [at |-> next, fresh |-> ch = "nl"]
       /\ next.depth > st.depth => g1 = g /\ c1 = IF st.depth = 0 THEN <<ch>> ELSE more
       /\ next.depth < st.depth /\ st.depth # 1 => g1 = g /\ c1 = more
       /\ next.depth < st.depth /\ st.depth = 1 =>
             \/ \E v \in Loads(more) \cap Object : g1 = Append(g, v)
             \/ Loads(more) \cap Object = {} /\ g1 = g
       /\ next.depth = st.depth => g1 = g /\ (st.depth > 0 => c1 = more)

\* The texts of two values are different.
LEMMA LoadsOnly ==
  ASSUME NEW v \in Object
  PROVE  Loads(Text[v]) \cap Object = {v}
<1>1. v \in Valid
  BY DEF Valid
<1>2. ASSUME NEW w \in Loads(Text[v]) PROVE w = v
  <2>1. w \in Valid /\ Text[w] = Text[v]
    BY DEF Loads
  <2>2. List(Text[w]) /\ List(Text[v])
    BY <1>1, <2>1, PartsStart
  <2>3. Len(Text[w]) <= Len(Text[v]) /\ \A j \in 1..Len(Text[w]) : Text[w][j] = Text[v][j]
    BY <2>1, <2>2, ListHas
  <2>4. IsPrefix(Text[w], Text[v])
    BY <2>2, <2>3, PrefixIs
  <2>5. \A x, y \in Valid : IsPrefix(Text[x], Text[y]) => x = y
    BY IngestAssumption
  <2> QED
    BY <1>1, <2>1, <2>4, <2>5
<1>3. v \in Loads(Text[v])
  BY <1>1 DEF Loads
<1> QED
  BY <1>2, <1>3

\* What it has after k characters of value v.
ReadsPart(v, k, g, g1, c1, sc1) ==
    /\ sc1.at = Counts(Text[v])[k]
    /\ v \in Object /\ k = Len(Text[v]) => g1 = Append(g, v)
    /\ ~(v \in Object /\ k = Len(Text[v])) => g1 = g
    /\ v \in Object /\ k < Len(Text[v]) => c1 = SubSeq(Text[v], 1, k)

\* One character more of a part: what an object has so far is kept, and the object is
\* told when it is complete.
LEMMA ScansPart ==
  ASSUME NEW f, JsonFile(f), NEW g, NEW c, NEW sc, NEW i, NEW p, NEW k, Inside(f, g, c, sc, i, p, k),
         NEW g1, NEW c1, NEW sc1, Scanned(c, sc, Part(f, i + 1)[k + 1], g1, c1, sc1, g)
  PROVE  ReadsPart(f.parts[i + 1], k + 1, g, g1, c1, sc1)
<1>0. PICK v, ch : v = f.parts[i + 1] /\ ch = Text[v][k + 1]
  OBVIOUS
<1>1. /\ i \in 0..Len(f.parts) /\ i < Len(f.parts) /\ Part(f, i + 1) = Text[v]
      /\ k \in Nat /\ k < Len(Text[v]) /\ sc.at = Counts(Text[v])[k]
      /\ v \in Object /\ k > 0 => c = SubSeq(Text[v], 1, k)
      /\ Scanned(c, sc, ch, g1, c1, sc1, g)
  BY <1>0 DEF Inside, Part
<1>2. v \in Valid
  <2>1. i + 1 \in 1..Len(f.parts)
    BY <1>1, GapsAre
  <2> QED
    BY <1>0, <2>1, ValidParts
<1>3. PICK at, n : at = Counts(Text[v]) /\ n = Len(Text[v])
  OBVIOUS
<1>4. List(Text[v]) /\ n \in Nat /\ n >= 1
  BY <1>2, <1>3, PartsStart
<1>5. k \in 0..n /\ k + 1 \in 1..n /\ k + 1 \in 0..n /\ (k + 1) - 1 = k
  BY <1>1, <1>3, <1>4
<1>6. /\ at[0] = Calm /\ at[n] = Calm /\ at[k] \in Counter /\ at[k + 1] \in Counter
      /\ at[k + 1] = Count(at[k], ch)
  <2>1. CountsOf(v, at)
    BY <1>2, <1>3, CountsAre
  <2>2. at[k + 1] = Count(at[(k + 1) - 1], ch)
    BY <1>0, <1>3, <1>5, <2>1 DEF CountsOf
  <2> QED
    BY <1>3, <1>5, <2>1, <2>2 DEF CountsOf
<1>7. PICK d, e : d = at[k].depth /\ e = at[k + 1].depth
  OBVIOUS
<1>8. d \in Int /\ e \in Int /\ e \in {d - 1, d, d + 1}
  <2>1. e \in {d - 1, d, d + 1}
    BY <1>6, <1>7, CountMoves
  <2> QED
    BY <1>6, <1>7, <2>1 DEF Counter
<1>9. /\ \A j \in 1..(n - 1) : IF v \in Object THEN at[j].depth > 0 ELSE at[j].depth = 0
      /\ k = 0 => d = 0
      /\ k + 1 = n => e = 0
  <2>1. \A j \in 1..(n - 1) : IF v \in Object THEN at[j].depth > 0 ELSE at[j].depth = 0
    BY <1>2, <1>3, CountsAre DEF CountsOf
  <2> QED
    BY <1>6, <1>7, <2>1, CalmIs
<1>10. /\ k > 0 => k \in 1..(n - 1)
       /\ k + 1 < n => k + 1 \in 1..(n - 1)
       /\ k = 0 \/ k > 0
       /\ k + 1 = n \/ k + 1 < n
  BY <1>4, <1>5
<1>11. sc1.at = at[k + 1]
  BY <1>1, <1>3, <1>6 DEF Scanned
<1> DEFINE more == Append(c, ch)
<1>12. /\ e > d => g1 = g /\ c1 = IF d = 0 THEN <<ch>> ELSE more
       /\ e < d /\ d # 1 => g1 = g /\ c1 = more
       /\ e < d /\ d = 1 => \/ \E w \in Loads(more) \cap Object : g1 = Append(g, w)
                            \/ Loads(more) \cap Object = {} /\ g1 = g
       /\ e = d => g1 = g /\ (d > 0 => c1 = more)
  BY <1>1, <1>3, <1>6, <1>7 DEF Scanned
<1>13. ASSUME v \in Object, k > 0 PROVE more = SubSeq(Text[v], 1, k + 1)
  <2>1. c = SubSeq(Text[v], 1, k) /\ k + 1 <= Len(Text[v])
    BY <1>1, <1>3, <1>5, <1>13
  <2> QED
    BY <1>0, <1>1, <1>4, <2>1, FirstOfMore
<1>14. CASE v \notin Object
  <2>1. d = 0 /\ e = 0
    BY <1>7, <1>9, <1>10, <1>14
  <2>2. g1 = g
    <3> HIDE DEF more
    <3> QED
      BY <1>12, <2>1
  <2> QED
    BY <1>0, <1>3, <1>11, <1>14, <2>2 DEF ReadsPart
<1>15. CASE v \in Object /\ k = 0
  <2>1. n > 1
    BY <1>3, <1>15, ObjectsAreLonger
  <2>2. k + 1 < n /\ k + 1 # n
    BY <1>4, <1>15, <2>1
  <2>3. d = 0 /\ e > 0
    BY <1>7, <1>9, <1>10, <1>15, <2>2
  <2>4. g1 = g /\ c1 = <<ch>>
    BY <1>12, <2>3
  <2>5. <<ch>> = SubSeq(Text[v], 1, k + 1)
    <3>1. Append(SubSeq(Text[v], 1, 0), Text[v][0 + 1]) = SubSeq(Text[v], 1, 0 + 1)
      <4>1. 0 \in Nat /\ 0 + 1 <= Len(Text[v])
        BY <1>3, <1>4
      <4> QED
        BY <1>4, <4>1, FirstOfMore
    <3>2. SubSeq(Text[v], 1, 0) = <<>>
      <4>1. 0 \in Int /\ 0 <= Len(Text[v])
        BY <1>3, <1>4
      <4>2. List(SubSeq(Text[v], 1, 0)) /\ Len(SubSeq(Text[v], 1, 0)) = 0
        BY <1>4, <4>1, PartIs
      <4> QED
        BY <4>2, ListHas
    <3>3. Append(<<>>, ch) = <<ch>>
      OBVIOUS
    <3> QED
      BY <1>0, <1>15, <3>1, <3>2, <3>3
  <2> QED
    BY <1>0, <1>3, <1>11, <2>2, <2>4, <2>5 DEF ReadsPart
<1>16. CASE v \in Object /\ k > 0 /\ k + 1 < n
  <2>1. d > 0 /\ e > 0
    BY <1>7, <1>9, <1>10, <1>16
  <2>2. g1 = g /\ c1 = more
    <3>1. e < d => d # 1
      BY <1>8, <2>1
    <3>2. e > d \/ e < d \/ e = d
      BY <1>8
    <3>3. d # 0
      BY <1>8, <2>1
    <3> HIDE DEF more
    <3> QED
      BY <1>12, <2>1, <3>1, <3>2, <3>3
  <2>3. k + 1 # n
    BY <1>4, <1>5, <1>16
  <2> QED
    BY <1>0, <1>3, <1>11, <1>13, <1>16, <2>2, <2>3 DEF ReadsPart
<1>17. CASE v \in Object /\ k > 0 /\ k + 1 = n
  <2>1. d > 0 /\ e = 0
    BY <1>7, <1>9, <1>10, <1>17
  <2>2. d = 1 /\ e < d
    BY <1>8, <2>1
  <2>3. more = Text[v]
    <3>1. SubSeq(Text[v], 1, n) = Text[v]
      BY <1>3, <1>4, FirstOfAll
    <3> QED
      BY <1>13, <1>17, <3>1
  <2>4. Loads(more) \cap Object = {v}
    BY <1>17, <2>3, LoadsOnly
  <2>5. g1 = Append(g, v)
    <3> HIDE DEF more
    <3> QED
      BY <1>12, <2>2, <2>4
  <2>6. ~ k + 1 < n
    BY <1>4, <1>5, <1>17
  <2> QED
    BY <1>0, <1>3, <1>11, <1>17, <2>5, <2>6 DEF ReadsPart
<1> QED
  BY <1>10, <1>14, <1>15, <1>16, <1>17

LEMMA EntersPart ==
  ASSUME NEW f, JsonFile(f), f.shape # "array", NEW g, NEW c, NEW sc, NEW i, NEW p,
         Outside(f, g, sc, i, p), Tell(g, f, Object, i), PartBegins(f, Characters(f), i, p),
         p < Len(Characters(f)), ~(sc.fresh /\ Len(g) >= Cap)
  PROVE  Inside(f, g, c, sc, i, p, 0)
<1>1. /\ i \in 0..Len(f.parts) /\ p \in Nat /\ p <= Len(Characters(f)) /\ sc.at = Calm
      /\ f.sep # <<>> => Len(g) <= Cap /\ (Len(g) >= Cap => sc.fresh \/ p = End(f, i))
  BY DEF Outside, Between
<1>2. i < Len(f.parts) /\ p = GapEnd(f, i)
  BY DEF PartBegins
<1>3. /\ i + 1 \in 1..Len(f.parts) /\ GapEnd(f, i) = Begin(f, i + 1) /\ i \in Nat /\ End(f, i) \in Nat
      /\ GapEnd(f, i) = End(f, i) + Len(Lacing(f, i + 1)) /\ Len(Lacing(f, i + 1)) \in Nat
      /\ Len(Part(f, i + 1)) \in Nat /\ Len(Part(f, i + 1)) >= 1
  BY <1>1, <1>2, GapsAre
<1>4. p = Begin(f, i + 1) + 0 /\ 0 < Len(Part(f, i + 1))
  BY <1>1, <1>2, <1>3
<1>5. sc.at = Counts(Part(f, i + 1))[0]
  <2>1. f.parts[i + 1] \in Valid
    BY <1>3, ValidParts
  <2> QED
    BY <1>1, <2>1, CountsAre DEF CountsOf, Part
<1>6. ASSUME f.sep # <<>> PROVE Len(g) < Cap
  <2>1. SUFFICES ASSUME Len(g) >= Cap PROVE FALSE
    <3>1. PICK n \in Nat : n = Len(g)
      BY ListHas DEF Tell
    <3>2. Cap \in Nat
      BY CapsAre
    <3> QED
      BY <3>1, <3>2
  <2>2. p = End(f, i)
    BY <1>1, <1>6, <2>1
  <2>3. Len(Lacing(f, i + 1)) = 0
    BY <1>2, <1>3, <2>2
  <2>4. i # 0
    <3>1. SUFFICES ASSUME i = 0 PROVE FALSE
      OBVIOUS
    <3>2. Len(g) = 0
      BY <3>1, NumberIs DEF Tell
    <3> QED
      BY <2>1, <3>2, CapsAre
  <2>5. i + 1 # 1
    BY <1>3, <2>4
  <2>6. Lacing(f, i + 1) = f.sep /\ List(f.sep)
    <3>1. f \in Files
      BY DEF JsonFile
    <3> QED
      BY <2>5, <3>1, GlueIs DEF Lacing
  <2> QED
    BY <1>6, <2>3, <2>6, ListHas
<1> QED
  BY <1>1, <1>2, <1>4, <1>5, <1>6 DEF Inside

LEMMA PassesPart ==
  ASSUME NEW f, JsonFile(f), f.shape # "array", NEW g, NEW c, NEW sc, NEW i, NEW p, NEW k,
         Inside(f, g, c, sc, i, p, k), Tell(g, f, Object, i), p < Len(Characters(f)),
         NEW g1, NEW c1, NEW sc1, Scanned(c, sc, Characters(f)[p + 1], g1, c1, sc1, g)
  PROVE  ConcatAt(f, g1, From(Characters(f), p + 1), c1, sc1)
<1>1. PICK t, v, n : t = Characters(f) /\ v = f.parts[i + 1] /\ n = Len(Text[v])
  OBVIOUS
<1>2. Laid(f, t) /\ List(t) /\ Len(t) \in Nat
  BY <1>1, CharactersLaid, ListHas DEF JsonFile, Laid
<1>3. /\ i \in 0..Len(f.parts) /\ i < Len(f.parts) /\ k \in Nat /\ k < n /\ p = Begin(f, i + 1) + k
      /\ f.sep # <<>> => Len(g) < Cap
  BY <1>1 DEF Inside, Part
<1>4. /\ i + 1 \in 1..Len(f.parts) /\ i \in Nat /\ n \in Nat /\ GapEnd(f, i) \in Nat
      /\ GapEnd(f, i) = Begin(f, i + 1) /\ End(f, i + 1) = Begin(f, i + 1) + n
  BY <1>1, <1>3, GapsAre DEF Part
<1>5. /\ p \in Nat /\ p + 1 = Begin(f, i + 1) + (k + 1) /\ p + 1 <= Len(t) /\ k + 1 \in 1..n /\ k + 1 \in Nat
      /\ k + 1 < n \/ k + 1 = n
  <2>1. PICK q : q = Begin(f, i + 1)
    OBVIOUS
  <2>2. q \in Nat /\ p = q + k /\ k \in Nat /\ n \in Nat /\ k < n
    BY <1>3, <1>4, <2>1
  <2>3. p \in Nat /\ p + 1 = q + (k + 1) /\ k + 1 \in 1..n /\ k + 1 \in Nat /\ (k + 1 < n \/ k + 1 = n)
    BY <2>2
  <2>4. p < Len(t)
    BY <1>1
  <2>5. p + 1 <= Len(t)
    BY <1>2, <2>3, <2>4
  <2> QED
    BY <2>1, <2>3, <2>5
<1>6. t[p + 1] = Text[v][k + 1]
  <2>1. t[Begin(f, i + 1) + (k + 1)] = Part(f, i + 1)[k + 1]
    BY <1>1, <1>2, <1>4, <1>5 DEF Laid, Part
  <2> QED
    BY <1>1, <1>5, <2>1 DEF Part
<1>7. /\ sc1.at = Counts(Text[v])[k + 1]
      /\ v \in Object /\ k + 1 = n => g1 = Append(g, v)
      /\ ~(v \in Object /\ k + 1 = n) => g1 = g
      /\ v \in Object /\ k + 1 < n => c1 = SubSeq(Text[v], 1, k + 1)
  <2>1. Scanned(c, sc, Part(f, i + 1)[k + 1], g1, c1, sc1, g)
    BY <1>1, <1>6 DEF Part
  <2>2. ReadsPart(f.parts[i + 1], k + 1, g, g1, c1, sc1)
    BY <2>1, ScansPart
  <2> QED
    BY <1>1, <2>2 DEF ReadsPart
<1>8. CASE k + 1 < n
  <2>1. k + 1 # n
    BY <1>4, <1>5, <1>8
  <2>2. g1 = g
    BY <1>7, <2>1
  <2>3. Inside(f, g1, c1, sc1, i, p + 1, k + 1)
    BY <1>1, <1>3, <1>5, <1>7, <1>8, <2>2 DEF Inside, Part
  <2> QED
    BY <1>1, <2>2, <2>3 DEF ConcatAt
<1>9. CASE k + 1 = n
  <2>1. p + 1 = End(f, i + 1) /\ End(f, i + 1) <= Len(t)
    BY <1>4, <1>5, <1>9
  <2>2. Between(f, t, i + 1, p + 1)
    BY <1>3, <2>1, PartEnds
  <2>3. Tell(g1, f, Object, i + 1)
    BY <1>1, <1>4, <1>7, <1>9, TellsPart
  <2>4. sc1.at = Calm
    <3>1. v \in Valid
      BY <1>1, <1>4, ValidParts
    <3> QED
      BY <1>1, <1>7, <1>9, <3>1, CountsAre DEF CountsOf
  <2>5. f.sep # <<>> => Len(g1) <= Cap
    <3>1. PICK m \in Nat : m = Len(g)
      BY ListHas DEF Tell
    <3>2. Len(g1) = m \/ Len(g1) = m + 1
      <4>1. Len(Append(g, v)) = Len(g) + 1
        BY AppendIs DEF Tell
      <4> QED
        BY <1>7, <3>1, <4>1
    <3> QED
      BY <1>3, <3>1, <3>2, CapsAre
  <2>6. Outside(f, g1, sc1, i + 1, p + 1)
    BY <1>1, <2>1, <2>2, <2>4, <2>5 DEF Outside
  <2> QED
    BY <1>1, <2>3, <2>6 DEF ConcatAt
<1> QED
  BY <1>5, <1>8, <1>9

LEMMA ConcatGoesOn ==
  ASSUME NEW f, JsonFile(f), NEW g, NEW r, NEW c, NEW sc, ConcatAt(f, g, r, c, sc), r # <<>>,
         ~(sc.fresh /\ Len(g) >= Cap),
         NEW g1, NEW c1, NEW sc1, Scanned(c, sc, Head(r), g1, c1, sc1, g)
  PROVE  ConcatAt(f, g1, Tail(r), c1, sc1)
<1>1. PICK t : t = Characters(f)
  OBVIOUS
<1>2. Laid(f, t) /\ List(t) /\ Len(t) \in Nat
  BY <1>1, CharactersLaid, ListHas DEF JsonFile, Laid
<1>3. PICK i, p : /\ r = From(t, p) /\ Tell(g, f, Object, i)
                  /\ Outside(f, g, sc, i, p) \/ \E k : Inside(f, g, c, sc, i, p, k)
  BY <1>1 DEF ConcatAt
<1>4. f.shape # "array"
  BY DEF ConcatAt
<1>5. p \in Nat /\ p <= Len(t)
  <2>1. CASE Outside(f, g, sc, i, p)
    BY <1>1, <2>1 DEF Outside, Between
  <2>2. ASSUME NEW k, Inside(f, g, c, sc, i, p, k) PROVE p \in Nat /\ p <= Len(t)
    <3>1. /\ i \in 0..Len(f.parts) /\ i < Len(f.parts) /\ k \in Nat /\ p = Begin(f, i + 1) + k
          /\ p <= Len(t)
      BY <1>1, <2>2 DEF Inside
    <3>2. Begin(f, i + 1) \in Nat
      BY <3>1, GapsAre
    <3> QED
      BY <3>1, <3>2
  <2> QED
    BY <1>3, <2>1, <2>2
<1>6. p < Len(t) /\ Head(r) = t[p + 1] /\ Tail(r) = From(t, p + 1)
  <2>1. p \in 0..Len(t)
    BY <1>2, <1>5
  <2> QED
    BY <1>2, <1>3, <2>1, FromTail
<1>7. Scanned(c, sc, t[p + 1], g1, c1, sc1, g)
  BY <1>6
<1>8. ASSUME NEW k, Inside(f, g, c, sc, i, p, k) PROVE ConcatAt(f, g1, Tail(r), c1, sc1)
  <2>1. ConcatAt(f, g1, From(t, p + 1), c1, sc1)
    BY <1>1, <1>3, <1>4, <1>6, <1>7, <1>8, PassesPart
  <2> QED
    BY <1>6, <2>1
<1>9. CASE Outside(f, g, sc, i, p)
  <2>1. Between(f, t, i, p) /\ sc.at = Calm
    BY <1>1, <1>9 DEF Outside
  <2>2. GapGoesOn(f, t, i, p) \/ PartBegins(f, t, i, p)
    <3>1. GapGoesOn(f, t, i, p) \/ PartBegins(f, t, i, p) \/ ArrayEnds(f, t, i, p)
      BY <1>2, <1>6, <2>1, NextInGap
    <3> QED
      BY <1>4, <3>1 DEF ArrayEnds
  <2>3. CASE PartBegins(f, t, i, p)
    <3>1. Inside(f, g, c, sc, i, p, 0)
      BY <1>1, <1>3, <1>4, <1>6, <1>9, <2>3, EntersPart
    <3> QED
      BY <1>8, <3>1
  <2>4. CASE GapGoesOn(f, t, i, p)
    <3>1. Between(f, t, i, p + 1) /\ t[p + 1] = "nl"
      BY <1>4, <2>4 DEF GapGoesOn
    <3>2. Count(sc.at, "nl") = Calm /\ Calm.depth = 0
      BY <2>1, CalmCounts, CalmIs
    <3>3. sc1 = [at |-> Calm, fresh |-> TRUE] /\ g1 = g
      BY <1>7, <2>1, <3>1, <3>2 DEF Scanned
    <3>4. f.sep # <<>> => Len(g) <= Cap
      BY <1>9 DEF Outside
    <3>5. sc1.at = Calm /\ sc1.fresh
      BY <3>3
    <3>6. Outside(f, g1, sc1, i, p + 1)
      BY <1>1, <3>1, <3>3, <3>4, <3>5 DEF Outside
    <3> QED
      BY <1>1, <1>3, <1>4, <1>6, <3>3, <3>6 DEF ConcatAt
  <2> QED
    BY <2>2, <2>3, <2>4
<1> QED
  BY <1>3, <1>8, <1>9

LEMMA ConcatEnds ==
  ASSUME NEW f, JsonFile(f), TakenWhole(f), NEW g, NEW r, NEW c, NEW sc, ConcatAt(f, g, r, c, sc),
         r = <<>> \/ Len(g) >= Cap
  PROVE  Delivered(f, g)
<1>1. PICK t : t = Characters(f)
  OBVIOUS
<1>2. List(t) /\ Len(t) \in Nat
  BY <1>1, CharactersLaid, ListHas DEF JsonFile, Laid
<1>3. PICK i, p : /\ r = From(t, p) /\ Tell(g, f, Object, i)
                  /\ Outside(f, g, sc, i, p) \/ \E k : Inside(f, g, c, sc, i, p, k)
  BY <1>1 DEF ConcatAt
<1>4. f.shape # "array" /\ Object \in Counted(f)
  BY ObjectsCount DEF ConcatAt
<1>5. PICK m : ArrivedUpTo(f, m)
  BY SomeArrived
<1>6. ASSUME NEW q \in Nat, q <= Len(t), From(t, q) = <<>> PROVE q = Len(t)
  <2>1. q \in 0..Len(t)
    BY <1>2, <1>6
  <2>2. List(From(t, q)) /\ Len(From(t, q)) = Len(t) - q
    BY <1>2, <2>1, FromIs
  <2>3. Len(t) - q = 0
    BY <1>6, <2>2, NothingIsAList
  <2> QED
    BY <1>2, <2>3
<1>7. CASE Outside(f, g, sc, i, p)
  <2>1. Between(f, t, i, p) /\ p \in Nat /\ p <= Len(t) /\ (f.sep # <<>> => Len(g) <= Cap)
    BY <1>1, <1>7 DEF Outside, Between
  <2>2. i \in Nat /\ i <= m /\ (p = Len(t) => i = m)
    BY <1>1, <1>5, <2>1, BetweenArrived
  <2>3. i = m \/ Len(g) >= Cap
    BY <1>3, <1>6, <2>1, <2>2
  <2> QED
    BY <1>3, <1>4, <1>5, <2>1, <2>2, <2>3, EnoughTold
<1>8. ASSUME NEW k, Inside(f, g, c, sc, i, p, k) PROVE Delivered(f, g)
  <2>1. /\ i \in 0..Len(f.parts) /\ i < Len(f.parts) /\ k \in Nat /\ k < Len(Part(f, i + 1))
        /\ p = Begin(f, i + 1) + k /\ p <= Len(t) /\ (f.sep # <<>> => Len(g) < Cap)
    BY <1>1, <1>8 DEF Inside
  <2>2. /\ End(f, i) \in Nat /\ GapEnd(f, i) \in Nat /\ End(f, i) <= GapEnd(f, i)
        /\ GapEnd(f, i) = Begin(f, i + 1) /\ End(f, i + 1) = Begin(f, i + 1) + Len(Part(f, i + 1))
        /\ Len(Part(f, i + 1)) \in Nat
    BY <2>1, GapsAre
  <2>3. p \in Nat /\ End(f, i) <= p /\ End(f, i) <= Len(t) /\ p < End(f, i + 1)
    BY <1>2, <2>1, <2>2
  <2>4. Between(f, t, i, End(f, i))
    BY <2>1, <2>2, <2>3 DEF Between
  <2>5. i \in Nat /\ i <= m /\ (Len(t) < End(f, i + 1) => i = m)
    BY <1>1, <1>5, <2>1, <2>4, BetweenArrived
  <2>6. i = m \/ Len(g) >= Cap
    BY <1>3, <1>6, <2>1, <2>3, <2>5
  <2>7. f.sep # <<>> => Len(g) <= Cap
    <3>1. Len(g) \in Nat /\ Cap \in Nat
      BY <1>3, ListHas, CapsAre DEF Tell
    <3> QED
      BY <2>1, <3>1
  <2> QED
    BY <1>3, <1>4, <1>5, <2>5, <2>6, <2>7, EnoughTold
<1> QED
  BY <1>3, <1>7, <1>8

(***************************************************************************)
(* A reader that stands between two parts.                                 *)
(***************************************************************************)

\* It has told what the parts before report, and r is what it has not read.
Stands(f, S, g, r) ==
    \E i, p : Between(f, Characters(f), i, p) /\ Tell(g, f, S, i) /\ r = From(Characters(f), p)

LEMMA StandsList ==
  ASSUME NEW f, JsonFile(f), NEW S, NEW g, NEW r, Stands(f, S, g, r)
  PROVE  List(r) /\ Len(r) \in Nat /\ List(g) /\ Len(g) \in Nat
<1>1. PICK t : t = Characters(f)
  OBVIOUS
<1>2. List(t) /\ Len(t) \in Nat
  BY <1>1, CharactersLaid, ListHas DEF JsonFile, Laid
<1>3. PICK i, p : Between(f, t, i, p) /\ Tell(g, f, S, i) /\ r = From(t, p)
  BY <1>1 DEF Stands
<1>4. p \in 0..Len(t)
  BY <1>2, <1>3 DEF Between
<1>5. List(r)
  BY <1>2, <1>3, <1>4, FromIs
<1> QED
  BY <1>3, <1>5, ListHas DEF Tell

\* Where it stands in the whole text.
StandsAt(f, S, g, r, i, p) ==
    /\ Between(f, Characters(f), i, p) /\ Tell(g, f, S, i) /\ r = From(Characters(f), p)
    /\ p \in Nat /\ p + Len(r) = Len(Characters(f)) /\ Len(r) \in Nat /\ p \in 0..Len(Characters(f))
    /\ \A j \in 1..Len(r) : r[j] = Characters(f)[p + j]

LEMMA StandsSomewhere ==
  ASSUME NEW f, JsonFile(f), NEW S, NEW g, NEW r, Stands(f, S, g, r)
  PROVE  /\ \E i, p : StandsAt(f, S, g, r, i, p)
         /\ Laid(f, Characters(f)) /\ List(Characters(f)) /\ Len(Characters(f)) \in Nat
<1>1. PICK t : t = Characters(f)
  OBVIOUS
<1>2. Laid(f, t) /\ List(t) /\ Len(t) \in Nat
  BY <1>1, CharactersLaid, ListHas DEF JsonFile, Laid
<1>3. PICK i, p : Between(f, t, i, p) /\ Tell(g, f, S, i) /\ r = From(t, p)
  BY <1>1 DEF Stands
<1>4. p \in Nat /\ p \in 0..Len(t)
  BY <1>2, <1>3 DEF Between
<1>5. Len(r) = Len(t) - p /\ \A j \in 1..(Len(t) - p) : r[j] = t[p + j]
  BY <1>2, <1>3, <1>4, FromIs
<1>6. p + Len(r) = Len(t) /\ Len(r) \in Nat
  BY <1>2, <1>4, <1>5
<1>7. StandsAt(f, S, g, r, i, p)
  BY <1>1, <1>3, <1>4, <1>5, <1>6 DEF StandsAt
<1> QED
  BY <1>1, <1>2, <1>7

\* k characters further.
LEMMA StandsFurther ==
  ASSUME NEW f, JsonFile(f), NEW S, NEW g, NEW r, NEW i, NEW p, StandsAt(f, S, g, r, i, p),
         NEW k \in Nat, k <= Len(r), NEW i1, Between(f, Characters(f), i1, p + k), NEW g1, Tell(g1, f, S, i1)
  PROVE  Stands(f, S, g1, From(r, k))
<1>1. PICK t : t = Characters(f)
  OBVIOUS
<1>2. List(t) /\ Len(t) \in Nat
  BY <1>1, CharactersLaid, ListHas DEF JsonFile, Laid
<1>3. r = From(t, p) /\ p \in Nat /\ p \in 0..Len(t) /\ p + Len(r) = Len(t) /\ Len(r) \in Nat
  BY <1>1 DEF StandsAt
<1>4. k \in 0..(Len(t) - p)
  BY <1>2, <1>3
<1>5. From(r, k) = From(t, p + k)
  BY <1>2, <1>3, <1>4, FromFrom
<1> QED
  BY <1>1, <1>5 DEF Stands

LEMMA StandsBlanks ==
  ASSUME NEW f, JsonFile(f), NEW S, NEW g, NEW r, Stands(f, S, g, r), NEW k \in 0..Len(r), \A j \in 1..k : r[j] = "nl"
  PROVE  Stands(f, S, g, From(r, k))
<1>1. PICK i, p : StandsAt(f, S, g, r, i, p)
  BY StandsSomewhere
<1>2. PICK t : t = Characters(f)
  OBVIOUS
<1>3. Laid(f, t) /\ Len(t) \in Nat
  BY <1>2, StandsSomewhere
<1>4. /\ Between(f, t, i, p) /\ Tell(g, f, S, i) /\ p \in Nat /\ p + Len(r) = Len(t) /\ Len(r) \in Nat
      /\ \A j \in 1..Len(r) : r[j] = t[p + j]
  BY <1>1, <1>2 DEF StandsAt
<1>5. k \in Nat /\ k <= Len(r) /\ p + k <= Len(t)
  BY <1>3, <1>4
<1>6. ASSUME NEW j \in 1..k PROVE t[p + j] = "nl"
  <2>1. j \in 1..Len(r)
    BY <1>4, <1>5
  <2> QED
    BY <1>4, <2>1
<1>7. Between(f, t, i, p + k)
  BY <1>3, <1>4, <1>5, <1>6, SkipBlanks
<1> QED
  BY <1>1, <1>2, <1>4, <1>5, <1>7, StandsFurther

\* What it tells with one value more.
With(S, g, v) == IF v \in S THEN Append(g, v) ELSE g

LEMMA StandsValue ==
  ASSUME NEW f, JsonFile(f), NEW S, NEW g, NEW r, Stands(f, S, g, r), NEW v \in Valid,
         Len(Text[v]) <= Len(r), \A j \in 1..Len(Text[v]) : r[j] = Text[v][j]
  PROVE  Stands(f, S, With(S, g, v), From(r, Len(Text[v])))
<1>1. PICK i, p : StandsAt(f, S, g, r, i, p)
  BY StandsSomewhere
<1>2. PICK t, n : t = Characters(f) /\ n = Len(Text[v])
  OBVIOUS
<1>3. Laid(f, t) /\ Len(t) \in Nat
  BY <1>2, StandsSomewhere
<1>4. /\ Between(f, t, i, p) /\ Tell(g, f, S, i) /\ p \in Nat /\ p + Len(r) = Len(t) /\ Len(r) \in Nat
      /\ \A j \in 1..Len(r) : r[j] = t[p + j]
  BY <1>1, <1>2 DEF StandsAt
<1>5. n \in Nat /\ p + n <= Len(t) /\ n <= Len(r)
  BY <1>2, <1>3, <1>4, PartsStart
<1>6. ASSUME NEW j \in 1..n PROVE t[p + j] = Text[v][j]
  <2>1. j \in 1..Len(r)
    BY <1>4, <1>5
  <2> QED
    BY <1>2, <1>4, <2>1
<1>7. v = f.parts[i + 1] /\ Between(f, t, i + 1, p + n)
  <2>1. Follows(t, p, v)
    BY <1>2, <1>5, <1>6 DEF Follows
  <2>2. IsNextPart(f, t, i, p, v)
    BY <1>3, <1>4, <2>1, NextIsPart
  <2> QED
    BY <1>2, <2>2 DEF IsNextPart
<1>8. Tell(With(S, g, v), f, S, i + 1)
  <2>1. i \in Nat
    BY <1>4, GapsAre DEF Between
  <2> QED
    BY <1>4, <1>7, <2>1, TellsPart DEF With
<1> QED
  BY <1>1, <1>2, <1>5, <1>7, <1>8, StandsFurther

LEMMA StandsComma ==
  ASSUME NEW f, JsonFile(f), NEW S, NEW g, NEW r, Stands(f, S, g, r), r # <<>>, r[1] = Comma
  PROVE  Stands(f, S, g, From(r, 1))
<1>1. PICK i, p : StandsAt(f, S, g, r, i, p)
  BY StandsSomewhere
<1>2. PICK t : t = Characters(f)
  OBVIOUS
<1>3. Laid(f, t) /\ Len(t) \in Nat /\ List(r)
  BY <1>2, StandsSomewhere, StandsList
<1>4. /\ Between(f, t, i, p) /\ Tell(g, f, S, i) /\ p \in Nat /\ p + Len(r) = Len(t) /\ Len(r) \in Nat
      /\ \A j \in 1..Len(r) : r[j] = t[p + j]
  BY <1>1, <1>2 DEF StandsAt
<1>5. Len(r) # 0
  BY <1>3, ListHas
<1>6. 1 \in 1..Len(r) /\ p < Len(t) /\ 1 \in Nat /\ 1 <= Len(r)
  BY <1>3, <1>4, <1>5
<1>7. t[p + 1] = Comma
  BY <1>4, <1>6
<1>8. GapGoesOn(f, t, i, p)
  <2>1. GapGoesOn(f, t, i, p) \/ PartBegins(f, t, i, p) \/ ArrayEnds(f, t, i, p)
    BY <1>3, <1>4, <1>6, NextInGap
  <2>2. Comma # "]"
    BY Zenon DEF Comma
  <2> QED
    BY <1>7, <2>1, <2>2 DEF PartBegins, ArrayEnds
<1>9. Between(f, t, i, p + 1)
  BY <1>8 DEF GapGoesOn
<1> QED
  BY <1>1, <1>2, <1>4, <1>6, <1>9, StandsFurther

\* It has told enough at the end of the text, at the end of an array, or at the cap.
LEMMA StandsEnds ==
  ASSUME NEW f, JsonFile(f), TakenWhole(f), NEW S \in Counted(f), NEW g, NEW r, Stands(f, S, g, r), Len(g) <= Cap,
         r = <<>> \/ r[1] = "]" \/ Len(g) >= Cap
  PROVE  Delivered(f, g)
<1>1. PICK i, p : StandsAt(f, S, g, r, i, p)
  BY StandsSomewhere
<1>2. PICK t : t = Characters(f)
  OBVIOUS
<1>3. Laid(f, t) /\ Len(t) \in Nat /\ List(r)
  BY <1>2, StandsSomewhere, StandsList
<1>4. /\ Between(f, t, i, p) /\ Tell(g, f, S, i) /\ p \in Nat /\ p + Len(r) = Len(t) /\ Len(r) \in Nat
      /\ \A j \in 1..Len(r) : r[j] = t[p + j]
  BY <1>1, <1>2 DEF StandsAt
<1>5. PICK m : ArrivedUpTo(f, m)
  BY SomeArrived
<1>6. i \in Nat /\ i <= m /\ (p = Len(t) \/ i = Len(f.parts) => i = m)
  BY <1>2, <1>4, <1>5, BetweenArrived
<1>7. r = <<>> => p = Len(t)
  <2>1. r = <<>> => Len(r) = 0
    BY NothingIsAList
  <2> QED
    BY <1>3, <1>4, <2>1
<1>8. ASSUME r # <<>>, r[1] = "]" PROVE i = Len(f.parts)
  <2>1. Len(r) # 0
    BY <1>3, <1>8, ListHas
  <2>2. 1 \in 1..Len(r) /\ p < Len(t)
    BY <1>3, <1>4, <2>1
  <2>3. t[p + 1] = "]"
    BY <1>4, <1>8, <2>2
  <2>4. GapGoesOn(f, t, i, p) \/ PartBegins(f, t, i, p) \/ ArrayEnds(f, t, i, p)
    BY <1>3, <1>4, <2>2, NextInGap
  <2>5. Comma # "]"
    BY Zenon DEF Comma
  <2> QED
    BY <2>3, <2>4, <2>5 DEF GapGoesOn, PartBegins, ArrayEnds
<1>9. i = m \/ Len(g) >= Cap
  BY <1>6, <1>7, <1>8
<1> QED
  BY <1>4, <1>5, <1>6, <1>9, EnoughTold

LEMMA StandsFirst ==
  ASSUME NEW f, JsonFile(f), f.shape # "array", NEW S
  PROVE  Stands(f, S, <<>>, Characters(f))
<1>1. Between(f, Characters(f), 0, 0) /\ List(Characters(f))
  BY TextsBegin DEF TextBegins
<1>2. Characters(f) = From(Characters(f), 0)
  BY <1>1, FromStart
<1> QED
  BY <1>1, <1>2, TellsNothing DEF Stands

(***************************************************************************)
(* Where the other parsers of JSON files are.                              *)
(***************************************************************************)

LinesAt(f, g, r) == f.shape # "array" /\ Len(g) <= Cap /\ Stands(f, Normal, g, r)

\* A blank line.
LEMMA LineSkipped ==
  ASSUME NEW f, JsonFile(f), NEW g, NEW r, LinesAt(f, g, r), r # <<>>, Line(r) = <<>>
  PROVE  LinesAt(f, g, NextLines(r))
<1>1. List(r) /\ Len(r) \in Nat /\ Stands(f, Normal, g, r)
  BY StandsList DEF LinesAt
<1>2. PICK n : n = LineLength(r)
  OBVIOUS
<1>3. FirstLineOf(r, n)
  BY <1>1, <1>2, LinesAre
<1>4. n \in 1..Len(r) /\ NextLines(r) = From(r, n) /\ Len(Line(r)) = 0
  BY <1>3, NothingIsAList DEF FirstLineOf
<1>5. r[n] = "nl" /\ n = 1
  <2>1. CASE r[n] = "nl" /\ IsPart(Line(r), r, 1, n - 1)
    <3>1. Len(Line(r)) = (n - 1) - 1 + 1
      BY <2>1 DEF IsPart
    <3> QED
      BY <1>4, <2>1, <3>1
  <2>2. CASE IsPart(Line(r), r, 1, n)
    <3>1. Len(Line(r)) = n - 1 + 1
      BY <2>2 DEF IsPart
    <3> QED
      BY <1>4, <3>1
  <2> QED
    BY <1>3, <2>1, <2>2 DEF FirstLineOf
<1>6. n \in 0..Len(r) /\ \A j \in 1..n : r[j] = "nl"
  BY <1>1, <1>4, <1>5
<1>7. Stands(f, Normal, g, From(r, n))
  BY <1>1, <1>6, StandsBlanks
<1> QED
  BY <1>4, <1>7 DEF LinesAt

\* A line that is a value.
LEMMA LineTaken ==
  ASSUME NEW f, JsonFile(f), NEW g, NEW r, LinesAt(f, g, r), r # <<>>, ~ Len(g) >= Cap,
         NEW v \in Normal, v \in Loads(Line(r))
  PROVE  LinesAt(f, Append(g, v), NextLines(r))
<1>1. List(r) /\ Len(r) \in Nat /\ Stands(f, Normal, g, r) /\ List(g) /\ Len(g) \in Nat
  BY StandsList DEF LinesAt
<1>2. v \in Valid /\ Text[v] = Line(r)
  BY DEF Loads
<1>3. PICK n, q : n = LineLength(r) /\ q = Len(Text[v])
  OBVIOUS
<1>4. FirstLineOf(r, n)
  BY <1>1, <1>3, LinesAre
<1>5. n \in 1..Len(r) /\ NextLines(r) = From(r, n) /\ q \in Nat /\ q >= 1
  BY <1>2, <1>3, <1>4, PartsStart DEF FirstLineOf
<1>6. /\ q = n \/ (q + 1 = n /\ r[n] = "nl")
      /\ \A j \in 1..q : r[j] = Text[v][j]
  <2>1. ASSUME NEW e \in 0..Len(r), IsPart(Line(r), r, 1, e) PROVE q = e /\ \A j \in 1..q : r[j] = Text[v][j]
    <3>1. /\ Len(Line(r)) = e - 1 + 1
          /\ \A j \in 1..(e - 1 + 1) : Line(r)[j] = r[1 + j - 1]
      BY <2>1 DEF IsPart
    <3>2. q = e /\ e - 1 + 1 = e
      BY <1>1, <1>2, <1>3, <3>1
    <3>3. \A j \in 1..q : 1 + j - 1 = j
      BY <1>5
    <3> QED
      BY <1>2, <3>1, <3>2, <3>3
  <2>2. CASE r[n] = "nl" /\ IsPart(Line(r), r, 1, n - 1)
    <3>1. n - 1 \in 0..Len(r)
      BY <1>1, <1>5
    <3>2. q = n - 1 /\ \A j \in 1..q : r[j] = Text[v][j]
      BY <2>1, <2>2, <3>1
    <3> QED
      BY <1>5, <2>2, <3>2
  <2>3. CASE IsPart(Line(r), r, 1, n)
    <3>1. n \in 0..Len(r)
      BY <1>1, <1>5
    <3> QED
      BY <2>1, <2>3, <3>1
  <2> QED
    BY <1>4, <2>2, <2>3 DEF FirstLineOf
<1>7. q <= Len(r) /\ q \in 0..Len(r)
  BY <1>1, <1>5, <1>6
<1>8. Stands(f, Normal, Append(g, v), From(r, q))
  <2>1. Stands(f, Normal, With(Normal, g, v), From(r, Len(Text[v])))
    BY <1>1, <1>2, <1>3, <1>6, <1>7, StandsValue
  <2> QED
    BY <1>3, <2>1 DEF With
<1>9. Stands(f, Normal, Append(g, v), From(r, n))
  <2>1. CASE q = n
    BY <1>8, <2>1
  <2>2. CASE q + 1 = n /\ r[n] = "nl"
    <3>1. PICK u : u = From(r, q)
      OBVIOUS
    <3>2. Len(u) = Len(r) - q /\ \A j \in 1..(Len(r) - q) : u[j] = r[q + j]
      BY <1>1, <1>7, <3>1, FromIs
    <3>3. 1 \in 0..Len(u) /\ 1 \in 0..(Len(r) - q) /\ 1 \in 1..(Len(r) - q)
      BY <1>1, <1>5, <1>7, <2>2, <3>2
    <3>4. \A j \in 1..1 : u[j] = "nl"
      BY <2>2, <3>2, <3>3
    <3>5. Stands(f, Normal, Append(g, v), From(u, 1))
      BY <1>8, <3>1, <3>3, <3>4, StandsBlanks
    <3>6. From(u, 1) = From(r, q + 1)
      BY <1>1, <1>7, <3>1, <3>3, FromFrom
    <3> QED
      BY <2>2, <3>5, <3>6
  <2> QED
    BY <1>6, <2>1, <2>2
<1>10. Len(Append(g, v)) <= Cap
  <2>1. Len(Append(g, v)) = Len(g) + 1
    BY <1>1, AppendIs
  <2> QED
    BY <1>1, <2>1, CapsAre
<1> QED
  BY <1>5, <1>9, <1>10 DEF LinesAt

ArrayAt(f, g, r, bf, sc) ==
    /\ f.shape = "array" /\ Characters(f) # <<>> /\ Len(g) <= Cap
    /\ IF sc.started THEN Stands(f, Object, g, bf \o r) ELSE bf \o r = Characters(f) /\ g = <<>>
    /\ sc.eof => r = <<>> /\ (sc.hungry => bf = <<>>)

\* What is left of two sequences put together.
LEMMA FromJoined ==
  ASSUME NEW s, List(s), NEW t, List(t), NEW k \in 0..Len(s)
  PROVE  From(s \o t, k) = From(s, k) \o t
<1>1. PICK u, w, h, x : u = s \o t /\ w = From(s, k) /\ h = w \o t /\ x = From(u, k)
  OBVIOUS
<1>2. PICK m, n : m = Len(s) /\ n = Len(t)
  OBVIOUS
<1>3. m \in Nat /\ n \in Nat /\ k \in Nat /\ k <= m
  BY <1>2, ListHas
<1>4. List(u) /\ Len(u) = m + n /\ (\A i \in 1..m : u[i] = s[i]) /\ \A i \in 1..n : u[m + i] = t[i]
  BY <1>1, <1>2, JoinedIs DEF Joined
<1>5. List(w) /\ Len(w) = m - k /\ \A i \in 1..(m - k) : w[i] = s[k + i]
  BY <1>1, <1>2, FromIs
<1>6. List(h) /\ Len(h) = (m - k) + n /\ (\A i \in 1..(m - k) : h[i] = w[i]) /\ \A i \in 1..n : h[(m - k) + i] = t[i]
  <2>1. Joined(h, w, t)
    BY <1>1, <1>5, JoinedIs
  <2> QED
    BY <1>2, <1>5, <2>1 DEF Joined
<1>7. k \in 0..Len(u)
  BY <1>3, <1>4
<1>8. List(x) /\ Len(x) = (m + n) - k /\ \A i \in 1..((m + n) - k) : x[i] = u[k + i]
  <2>1. /\ List(x) /\ Len(x) = Len(u) - k
        /\ \A i \in 1..(Len(u) - k) : x[i] = u[k + i]
    <3>1. x = From(u, k) /\ List(u)
      BY <1>1, <1>4
    <3>2. /\ List(From(u, k)) /\ Len(From(u, k)) = Len(u) - k
          /\ \A i \in 1..(Len(u) - k) : From(u, k)[i] = u[k + i]
      BY <1>7, <3>1, FromIs
    <3> QED
      BY <3>1, <3>2, Zenon
  <2> QED
    BY <1>4, <2>1
<1>9. ASSUME NEW i \in 1..((m + n) - k) PROVE x[i] = h[i]
  <2>1. CASE i <= m - k
    <3>1. i \in 1..(m - k) /\ k + i \in 1..m
      BY <1>3, <2>1
    <3> QED
      BY <1>4, <1>5, <1>6, <1>8, <3>1
  <2>2. CASE ~ i <= m - k
    <3>1. PICK j : j = i - (m - k)
      OBVIOUS
    <3>2. j \in 1..n /\ i = (m - k) + j /\ k + i = m + j
      BY <1>3, <2>2, <3>1
    <3> QED
      BY <1>4, <1>6, <1>8, <3>2
  <2> QED
    BY <2>1, <2>2
<1>10. x = h
  <2>1. Len(x) = Len(h) /\ Len(x) = (m + n) - k
    BY <1>3, <1>6, <1>8
  <2> QED
    BY <1>6, <1>8, <1>9, <2>1, ListsEqual
<1> QED
  BY <1>1, <1>10

LEMMA MovedOver ==
  ASSUME NEW s, List(s), NEW t, List(t), NEW k \in 0..Len(t)
  PROVE  (s \o SubSeq(t, 1, k)) \o From(t, k) = s \o t
<1>1. PICK a1, w, u, x, h : a1 = SubSeq(t, 1, k) /\ w = From(t, k) /\ u = s \o a1 /\ x = u \o w /\ h = s \o t
  OBVIOUS
<1>2. PICK m, n : m = Len(s) /\ n = Len(t)
  OBVIOUS
<1>3. m \in Nat /\ n \in Nat /\ k \in Nat /\ k <= n /\ k \in Int /\ ~ k < 0
  BY <1>2, ListHas
<1>4. List(a1) /\ Len(a1) = k /\ \A i \in 1..k : a1[i] = t[i]
  <2>1. Len(a1) = IF k < 0 THEN 0 ELSE k
    BY <1>1, <1>2, <1>3, PartIs
  <2> QED
    BY <1>1, <1>2, <1>3, <2>1, PartIs
<1>5. List(w) /\ Len(w) = n - k /\ \A i \in 1..(n - k) : w[i] = t[k + i]
  BY <1>1, <1>2, FromIs
<1>6. List(u) /\ Len(u) = m + k /\ (\A i \in 1..m : u[i] = s[i]) /\ \A i \in 1..k : u[m + i] = a1[i]
  BY <1>1, <1>2, <1>4, JoinedIs DEF Joined
<1>7. /\ List(x) /\ Len(x) = (m + k) + (n - k)
      /\ \A i \in 1..(m + k) : x[i] = u[i]
      /\ \A i \in 1..(n - k) : x[(m + k) + i] = w[i]
  <2>1. Joined(x, u, w)
    BY <1>1, <1>5, <1>6, JoinedIs
  <2> QED
    BY <1>5, <1>6, <2>1 DEF Joined
<1>8. List(h) /\ Len(h) = m + n /\ (\A i \in 1..m : h[i] = s[i]) /\ \A i \in 1..n : h[m + i] = t[i]
  BY <1>1, <1>2, JoinedIs DEF Joined
<1>9. ASSUME NEW i \in 1..(m + n) PROVE x[i] = h[i]
  <2>1. CASE i <= m
    <3>1. i \in 1..m /\ i \in 1..(m + k)
      BY <1>3, <2>1
    <3> QED
      BY <1>6, <1>7, <1>8, <3>1
  <2>2. CASE m < i /\ i <= m + k
    <3>1. PICK j : j = i - m
      OBVIOUS
    <3>2. j \in 1..k /\ i = m + j /\ i \in 1..(m + k) /\ j \in 1..n
      BY <1>3, <2>2, <3>1
    <3> QED
      BY <1>4, <1>6, <1>7, <1>8, <3>2
  <2>3. CASE m + k < i
    <3>1. PICK j : j = i - (m + k)
      OBVIOUS
    <3>2. j \in 1..(n - k) /\ i = (m + k) + j /\ k + j \in 1..n /\ i = m + (k + j)
      BY <1>3, <2>3, <3>1
    <3> QED
      BY <1>5, <1>7, <1>8, <3>2
  <2> QED
    BY <1>3, <2>1, <2>2, <2>3
<1>10. x = h
  <2>1. Len(x) = Len(h) /\ Len(x) = m + n
    BY <1>3, <1>7, <1>8
  <2> QED
    BY <1>7, <1>8, <1>9, <2>1, ListsEqual
<1> QED
  BY <1>1, <1>10

ArrayFlags == [started : BOOLEAN, eof : BOOLEAN, hungry : BOOLEAN]

\* What ArrayAt says of the part of the buffer that is not blank.
ArrayLeft(f, g, r, s, sc) ==
    /\ List(s)
    /\ sc.started => Stands(f, Object, g, s \o r)
    /\ ~ sc.started => s \o r = Characters(f) /\ g = <<>>

LEMMA ArrayStrips ==
  ASSUME NEW f, JsonFile(f), NEW g, NEW r, List(r), NEW bf, List(bf), NEW sc, ArrayAt(f, g, r, bf, sc)
  PROVE  ArrayLeft(f, g, r, LStrip(bf), sc)
<1>1. PICK k \in 0..Len(bf) : StrippedAt(bf, k)
  BY LStripIs
<1>2. PICK s, u : s = LStrip(bf) /\ u = bf \o r
  OBVIOUS
<1>3. s = From(bf, k) /\ \A j \in 1..k : bf[j] = "nl"
  BY <1>1, <1>2 DEF StrippedAt
<1>4. Len(bf) \in Nat /\ Len(r) \in Nat
  BY ListHas
<1>5. List(s)
  BY <1>3, FromIs
<1>6. List(u) /\ Len(u) = Len(bf) + Len(r) /\ \A j \in 1..Len(bf) : u[j] = bf[j]
  BY <1>2, JoinedIs DEF Joined
<1>7. k \in 0..Len(u) /\ \A j \in 1..k : u[j] = "nl"
  <2>1. k \in 0..Len(u) /\ \A j \in 1..k : j \in 1..Len(bf)
    BY <1>4, <1>6
  <2> QED
    BY <1>3, <1>6, <2>1
<1>8. s \o r = From(u, k)
  BY <1>2, <1>3, FromJoined
<1>9. ASSUME sc.started PROVE Stands(f, Object, g, s \o r)
  <2>1. Stands(f, Object, g, u)
    BY <1>2, <1>9 DEF ArrayAt
  <2> QED
    BY <1>7, <1>8, <2>1, StandsBlanks
<1>10. ASSUME ~ sc.started PROVE s \o r = Characters(f) /\ g = <<>>
  <2>1. u = Characters(f) /\ g = <<>>
    BY <1>2, <1>10 DEF ArrayAt
  <2>2. f.shape = "array" /\ u # <<>>
    BY <2>1 DEF ArrayAt
  <2>3. u[1] = "["
    BY <2>1, <2>2, TextsBegin DEF TextBegins
  <2>4. k = 0
    <3>1. SUFFICES ASSUME k # 0 PROVE FALSE
      OBVIOUS
    <3>2. 1 \in 1..k
      BY <1>4, <3>1
    <3> QED
      BY <1>7, <2>3, <3>2
  <2>5. s = bf
    BY <1>3, <2>4, FromStart
  <2> QED
    BY <1>2, <2>1, <2>5
<1> QED
  BY <1>2, <1>5, <1>9, <1>10 DEF ArrayLeft

LEMMA ArrayStarves ==
  ASSUME NEW f, NEW g, NEW r, NEW bf, NEW sc, ArrayAt(f, g, r, bf, sc), NEW s, ArrayLeft(f, g, r, s, sc),
         NEW sc1, sc1.started = sc.started, sc1.eof = sc.eof, s = <<>> \/ ~ sc.eof
  PROVE  ArrayAt(f, g, r, s, sc1)
BY DEF ArrayAt, ArrayLeft

LEMMA ArrayStarts ==
  ASSUME NEW f, JsonFile(f), NEW g, NEW r, List(r), NEW bf, NEW sc, ArrayAt(f, g, r, bf, sc),
         NEW s, ArrayLeft(f, g, r, s, sc), s # <<>>, ~ sc.started,
         NEW sc1, sc1.started, sc1.eof = sc.eof, ~ sc1.hungry
  PROVE  ArrayAt(f, g, r, Tail(s), sc1)
<1>1. PICK t : t = Characters(f)
  OBVIOUS
<1>2. f.shape = "array" /\ t # <<>> /\ Len(g) <= Cap /\ (sc.eof => r = <<>>) /\ s \o r = t /\ g = <<>> /\ List(s)
  BY <1>1 DEF ArrayAt, ArrayLeft
<1>3. Between(f, t, 0, 1)
  BY <1>1, <1>2, TextsBegin DEF TextBegins
<1>4. Tail(s) \o r = From(t, 1)
  <2>1. Tail(s) = From(s, 1) /\ 1 \in 0..Len(s)
    <3>1. Len(s) \in Nat /\ Len(s) >= 1
      BY <1>2, ListHas, HeadTail
    <3> QED
      BY <1>2, <3>1, TailIsFrom
  <2> QED
    BY <1>2, <2>1, FromJoined
<1>5. Stands(f, Object, g, Tail(s) \o r)
  BY <1>1, <1>2, <1>3, <1>4, TellsNothing DEF Stands
<1> QED
  BY <1>1, <1>2, <1>5 DEF ArrayAt

\* The first character of what is left.
LEMMA LeftBegins ==
  ASSUME NEW s, List(s), s # <<>>, NEW r, List(r), NEW k \in Nat, k <= Len(s)
  PROVE  /\ s \o r # <<>> /\ (s \o r)[1] = Head(s) /\ From(s, k) \o r = From(s \o r, k)
         /\ k <= Len(s \o r) /\ \A j \in 1..k : (s \o r)[j] = s[j]
<1>1. PICK u : u = s \o r
  OBVIOUS
<1>2. List(u) /\ Len(u) = Len(s) + Len(r) /\ \A j \in 1..Len(s) : u[j] = s[j]
  BY <1>1, JoinedIs DEF Joined
<1>3. Len(s) \in Nat /\ Len(r) \in Nat /\ Len(s) >= 1 /\ Head(s) = s[1]
  BY ListHas, HeadTail
<1>4. Len(u) # 0 /\ 1 \in 1..Len(s) /\ k \in 0..Len(s) /\ k <= Len(u) /\ \A j \in 1..k : j \in 1..Len(s)
  BY <1>2, <1>3
<1>5. u # <<>>
  BY <1>2, <1>4, ListHas
<1>6. From(s, k) \o r = From(u, k)
  BY <1>1, <1>4, FromJoined
<1> QED
  BY <1>1, <1>2, <1>3, <1>4, <1>5, <1>6

LEMMA ArrayCommas ==
  ASSUME NEW f, JsonFile(f), NEW g, NEW r, List(r), NEW bf, NEW sc, ArrayAt(f, g, r, bf, sc),
         NEW s, ArrayLeft(f, g, r, s, sc), s # <<>>, sc.started, ~ sc.hungry, Head(s) = Comma
  PROVE  ArrayAt(f, g, r, Tail(s), sc)
<1>1. List(s) /\ Stands(f, Object, g, s \o r)
  BY DEF ArrayLeft
<1>2. 1 \in Nat /\ 1 <= Len(s) /\ Tail(s) = From(s, 1)
  BY <1>1, HeadTail, TailIsFrom
<1>3. s \o r # <<>> /\ (s \o r)[1] = Comma /\ From(s, 1) \o r = From(s \o r, 1)
  BY <1>1, <1>2, LeftBegins
<1>4. Stands(f, Object, g, Tail(s) \o r)
  BY <1>1, <1>2, <1>3, StandsComma
<1> QED
  BY <1>4 DEF ArrayAt

LEMMA ArrayTakes ==
  ASSUME NEW f, JsonFile(f), NEW g, NEW r, List(r), NEW bf, NEW sc, ArrayAt(f, g, r, bf, sc),
         NEW s, ArrayLeft(f, g, r, s, sc), sc.started, ~ sc.hungry, NEW v \in Decodes(s), ~ Len(g) >= Cap
  PROVE  ArrayAt(f, With(Object, g, v), r, After(v, s), sc)
<1>1. List(s) /\ Stands(f, Object, g, s \o r)
  BY DEF ArrayLeft
<1>2. List(g) /\ Len(g) \in Nat
  BY <1>1, StandsList
<1>3. /\ v \in Valid /\ Len(Text[v]) \in 1..Len(s) /\ After(v, s) = From(s, Len(Text[v]))
      /\ \A j \in 1..Len(Text[v]) : s[j] = Text[v][j]
  BY <1>1, DecodesAre
<1>4. Len(Text[v]) \in Nat /\ Len(Text[v]) <= Len(s) /\ s # <<>>
  <2>1. Len(s) \in Nat
    BY <1>1, ListHas
  <2>2. Len(s) # 0
    BY <1>3, <2>1
  <2> QED
    BY <1>1, <1>3, <2>1, <2>2, NothingIsAList
<1>5. /\ From(s, Len(Text[v])) \o r = From(s \o r, Len(Text[v]))
      /\ Len(Text[v]) <= Len(s \o r) /\ \A j \in 1..Len(Text[v]) : (s \o r)[j] = s[j]
  <2>1. PICK n : n = Len(Text[v])
    OBVIOUS
  <2>2. n \in Nat /\ n <= Len(s) /\ s # <<>>
    BY <1>4, <2>1
  <2>3. From(s, n) \o r = From(s \o r, n) /\ n <= Len(s \o r) /\ \A j \in 1..n : (s \o r)[j] = s[j]
    BY <1>1, <2>2, LeftBegins
  <2> QED
    BY <2>1, <2>3
<1>6. Stands(f, Object, With(Object, g, v), From(s \o r, Len(Text[v])))
  <2>1. \A j \in 1..Len(Text[v]) : (s \o r)[j] = Text[v][j]
    BY <1>3, <1>5
  <2> QED
    BY <1>1, <1>3, <1>5, <2>1, StandsValue
<1>7. Len(With(Object, g, v)) <= Cap
  <2>1. Len(With(Object, g, v)) = Len(g) \/ Len(With(Object, g, v)) = Len(g) + 1
    BY <1>2, AppendIs DEF With
  <2> QED
    BY <1>2, <2>1, CapsAre
<1> QED
  BY <1>3, <1>5, <1>6, <1>7 DEF ArrayAt

LEMMA ArrayEndsAll ==
  ASSUME NEW f, JsonFile(f), f.size = "large", NEW g, NEW r, List(r), NEW bf, NEW sc, ArrayAt(f, g, r, bf, sc),
         NEW s, ArrayLeft(f, g, r, s, sc),
         \/ Len(g) >= Cap
         \/ s # <<>> /\ sc.started /\ Head(s) = "]"
         \/ s = <<>> /\ r = <<>>
  PROVE  Delivered(f, g)
<1>1. List(s) /\ Len(g) <= Cap /\ Characters(f) # <<>>
  BY DEF ArrayAt, ArrayLeft
<1>2. TakenWhole(f) /\ Object \in Counted(f)
  BY ObjectsCount DEF TakenWhole, LoneList, ArrayAt
<1>3. sc.started
  <2>1. SUFFICES ASSUME ~ sc.started PROVE FALSE
    OBVIOUS
  <2>2. g = <<>> /\ s \o r = Characters(f)
    BY <2>1 DEF ArrayLeft
  <2>3. ~ Len(g) >= Cap
    BY <2>2, NothingIsAList, CapsAre
  <2>4. s \o r = <<>>
    <3>1. s = <<>> /\ r = <<>>
      BY <2>1, <2>3
    <3> QED
      BY <3>1
  <2> QED
    BY <1>1, <2>2, <2>4
<1>4. Stands(f, Object, g, s \o r)
  BY <1>3 DEF ArrayLeft
<1>5. s \o r = <<>> \/ (s \o r)[1] = "]" \/ Len(g) >= Cap
  <2>1. ASSUME s # <<>>, Head(s) = "]" PROVE (s \o r)[1] = "]"
    <3>1. 0 \in Nat /\ 0 <= Len(s)
      BY <1>1, ListHas
    <3> QED
      BY <1>1, <2>1, <3>1, LeftBegins
  <2>2. s = <<>> /\ r = <<>> => s \o r = <<>>
    OBVIOUS
  <2> QED
    BY <2>1, <2>2
<1> QED
  BY <1>1, <1>2, <1>4, <1>5, StandsEnds

(***************************************************************************)
(* A JSON file that is loaded whole.                                       *)
(***************************************************************************)

\* The first values of a list, up to the cap.
Taken(values) == SubSeq(values, 1, Min2(Cap, Len(values)))

LEMMA TakenIs ==
  ASSUME NEW values, List(values)
  PROVE  /\ Min2(Cap, Len(values)) \in 0..Len(values) /\ Min2(Cap, Len(values)) <= Cap
         /\ List(Taken(values)) /\ Len(Taken(values)) = Min2(Cap, Len(values))
         /\ \A i \in 1..Min2(Cap, Len(values)) : Taken(values)[i] = values[i]
<1>1. Len(values) \in Nat
  BY ListHas
<1>2. PICK k : k = Min2(Cap, Len(values))
  OBVIOUS
<1>3. k \in 0..Len(values) /\ k <= Cap
  BY <1>1, <1>2, CapsAre DEF Min2
<1>4. k \in Int /\ k <= Len(values) /\ ~ k < 0
  BY <1>1, <1>3
<1>5. List(SubSeq(values, 1, k)) /\ Len(SubSeq(values, 1, k)) = k /\ \A i \in 1..k : SubSeq(values, 1, k)[i] = values[i]
  BY <1>4, PartIs
<1> QED
  BY <1>2, <1>3, <1>5 DEF Taken

\* A prefix of parts that count is what its parts report.
LEMMA FirstTell ==
  ASSUME NEW f, JsonFile(f), NEW S, NEW k \in 0..Len(f.parts), \A i \in 1..k : f.parts[i] \in S,
         NEW g, List(g), Len(g) = k, \A i \in 1..k : g[i] = f.parts[i]
  PROVE  Tell(g, f, S, k)
<1>1. \A i \in 1..k : Report(f, f.parts[i]) = f.parts[i]
  BY DEF JsonFile, Report
<1>2. Len(f.parts) \in Nat /\ k \in Nat
  BY FileRuns DEF JsonFile, Runs
<1>3. ASSUME NEW j \in 0..k PROVE Number(f.parts, S, j) = j
  <2>1. j \in Nat /\ \A i \in 1..j : i \in 1..k
    BY <1>2
  <2>2. {i \in 1..j : f.parts[i] \in S} = 1..j
    BY <2>1
  <2>3. Cardinality(1..j) = j
    <3>1. 1 \in Int /\ j \in Int /\ j - 1 + 1 = j /\ (1 > j => j = 0)
      BY <2>1
    <3>2. Cardinality(1..j) = IF 1 > j THEN 0 ELSE j - 1 + 1
      BY <3>1, FS_Interval
    <3> QED
      BY <3>1, <3>2
  <2> QED
    BY <2>2, <2>3 DEF Number
<1>4. \A j \in 1..k : j \in 0..k
  BY <1>2
<1>5. k \in 0..k
  BY <1>2
<1> QED
  BY <1>1, <1>3, <1>4, <1>5 DEF Tell

\* A whole array that is loaded tells all its parts, up to the cap.
LEMMA ArrayLoaded ==
  ASSUME NEW f, JsonFile(f), f.shape = "array", f.cut = 0, f.size # "large",
         \A i \in 1..Min2(Cap, Len(f.parts)) : f.parts[i] \in Normal
  PROVE  Delivered(f, Taken(f.parts))
<1>1. PICK m : ArrivedUpTo(f, m)
  BY SomeArrived
<1>2. PICK n, k, g : n = Len(f.parts) /\ k = Min2(Cap, n) /\ g = Taken(f.parts)
  OBVIOUS
<1>3. Runs(f) /\ Laid(f, Characters(f)) /\ Len(Characters(f)) = End(f, n) + Lead(f)
  BY <1>2, FileRuns, CharactersLaid DEF JsonFile
<1>4. n \in Nat /\ m \in 0..n /\ List(f.parts)
  BY <1>1, <1>2, <1>3, PiecesAre DEF Runs, ArrivedUpTo, JsonFile
<1>5. m = n
  <2>1. SUFFICES ASSUME n # 0 PROVE n <= m
    BY <1>4
  <2>2. n \in 1..n /\ n \in 0..n
    BY <1>4, <2>1
  <2>3. End(f, n) <= Len(Characters(f))
    <3>1. End(f, n) \in Nat /\ Lead(f) \in Nat
      BY <1>2, <1>3, <2>2 DEF Runs
    <3> QED
      BY <1>3, <3>1
  <2> QED
    BY <1>1, <1>2, <2>2, <2>3 DEF ArrivedUpTo
<1>6. k \in 0..n /\ k <= Cap /\ List(g) /\ Len(g) = k /\ \A i \in 1..k : g[i] = f.parts[i]
  BY <1>2, <1>4, TakenIs
<1>7. Tell(g, f, Normal, k)
  BY <1>2, <1>6, FirstTell
<1>8. TakenWhole(f) /\ Normal \in Counted(f)
  BY ValuesCount DEF TakenWhole, LoneList
<1>9. k \in Nat /\ k <= m /\ (k = m \/ Len(g) >= Cap)
  BY <1>2, <1>4, <1>5, <1>6, CapsAre DEF Min2
<1>10. Delivered(f, g)
  BY <1>1, <1>6, <1>7, <1>8, <1>9, EnoughTold
<1> QED
  BY <1>2, <1>10

\* The value a file starts with is its first part.
StartsWith(f, v) ==
    /\ f.shape # "array" /\ v \in Valid /\ 1 <= Len(f.parts) /\ v = f.parts[1]
    /\ Between(f, Characters(f), 1, Len(Text[v]))
    /\ After(v, Characters(f)) = From(Characters(f), Len(Text[v]))
    /\ Characters(f) # <<>> /\ Characters(f)[1] = Text[v][1]

LEMMA FileStarts ==
  ASSUME NEW f, JsonFile(f), NEW v, v \in Decodes(Characters(f))
  PROVE  StartsWith(f, v)
<1>1. PICK t : t = Characters(f)
  OBVIOUS
<1>2. TextBegins(f, t) /\ Laid(f, t)
  BY <1>1, TextsBegin, CharactersLaid DEF JsonFile
<1>3. List(t) /\ Len(t) \in Nat
  BY <1>2, ListHas DEF TextBegins
<1>4. /\ v \in Valid /\ Len(Text[v]) \in 1..Len(t) /\ After(v, t) = From(t, Len(Text[v]))
      /\ \A j \in 1..Len(Text[v]) : t[j] = Text[v][j]
  BY <1>1, <1>3, DecodesAre
<1>5. PICK l : l = Len(Text[v])
  OBVIOUS
<1>6. l \in Nat /\ l >= 1 /\ l <= Len(t) /\ Text[v][1] \notin {"nl", Comma, "[", "]"}
  BY <1>3, <1>4, <1>5, PartsStart
<1>7. t # <<>> /\ t[1] = Text[v][1]
  <2>1. 1 \in 1..l /\ Len(t) # 0
    BY <1>3, <1>6
  <2> QED
    BY <1>3, <1>4, <1>5, <2>1, ListHas
<1>8. f.shape # "array"
  BY <1>2, <1>6, <1>7 DEF TextBegins
<1>9. Between(f, t, 0, 0)
  BY <1>2, <1>8 DEF TextBegins
<1>10. 0 + l <= Len(t) /\ 0 + l = l /\ \A j \in 1..l : 0 + j = j
  BY <1>6
<1>11. \A j \in 1..l : t[0 + j] = Text[v][j]
  BY <1>4, <1>5, <1>10
<1>12. 0 < Len(f.parts) /\ v = f.parts[0 + 1] /\ Between(f, t, 0 + 1, 0 + l)
  BY <1>2, <1>4, <1>5, <1>9, <1>10, <1>11, NextPart
<1>13. Between(f, t, 1, l) /\ v = f.parts[1] /\ 1 <= Len(f.parts)
  <2>1. 0 + 1 = 1 /\ 0 + l = l
    BY <1>6
  <2>2. Len(f.parts) \in Nat
    BY FileRuns DEF JsonFile, Runs
  <2> QED
    BY <1>12, <2>1, <2>2
<1> QED
  BY <1>1, <1>4, <1>5, <1>7, <1>8, <1>13 DEF StartsWith

\* Something that is not blank comes after the first value: its list is not looked into.
LEMMA MoreFollows ==
  ASSUME NEW f, JsonFile(f), NEW v, StartsWith(f, v), ~ Blank(After(v, Characters(f)))
  PROVE  TakenWhole(f)
<1>1. SUFFICES ASSUME LoneList(f) PROVE FALSE
  BY DEF TakenWhole
<1>2. PICK m : ArrivedUpTo(f, m)
  BY SomeArrived
<1>3. PICK w : w \in DOMAIN Records /\ Arrived(f) = <<w>>
  BY <1>1 DEF LoneList
<1>4. Blank(After(w, Characters(f)))
  BY <1>1, <1>3 DEF LoneList
<1>5. 1 <= m /\ m \in 0..Len(f.parts) /\ List(f.parts)
  <2>1. Between(f, Characters(f), 1, Len(Text[v]))
    BY DEF StartsWith
  <2> QED
    BY <1>2, <2>1, BetweenArrived, PiecesAre DEF ArrivedUpTo, JsonFile
<1>6. Len(f.parts) \in Nat
  BY <1>5, ListHas
<1>7. SubSeq(f.parts, 1, m)[1] = f.parts[1]
  <2>1. m \in Int /\ m <= Len(f.parts) /\ 1 \in 1..m
    BY <1>5, <1>6
  <2> QED
    BY <1>5, <2>1, PartIs
<1>8. w = v
  <2>1. <<w>>[1] = w
    BY SinglesAre
  <2>2. SubSeq(f.parts, 1, m) = <<w>>
    BY <1>2, <1>3 DEF ArrivedUpTo
  <2> QED
    BY <1>7, <2>1, <2>2 DEF StartsWith
<1> QED
  BY <1>4, <1>8

\* Nothing else comes after it: nothing else arrived.
LEMMA NothingFollows ==
  ASSUME NEW f, JsonFile(f), NEW v, StartsWith(f, v), Blank(After(v, Characters(f)))
  PROVE  ArrivedUpTo(f, 1) /\ Arrived(f) = <<v>>
<1>1. PICK m : ArrivedUpTo(f, m)
  BY SomeArrived
<1>2. PICK t, l : t = Characters(f) /\ l = Len(Text[v])
  OBVIOUS
<1>3. Between(f, t, 1, l) /\ After(v, t) = From(t, l) /\ v = f.parts[1]
  BY <1>2 DEF StartsWith
<1>4. Laid(f, t) /\ List(t) /\ Len(t) \in Nat /\ l \in Nat /\ l <= Len(t)
  BY <1>2, <1>3, CharactersLaid, ListHas DEF JsonFile, Laid, Between
<1>5. PICK k : k = Len(t) - l
  OBVIOUS
<1>6. k \in Nat /\ l + k = Len(t) /\ l + k <= Len(t)
  BY <1>4, <1>5
<1>7. \A j \in 1..k : t[l + j] = "nl"
  <2>1. PICK r : r = From(t, l)
    OBVIOUS
  <2>2. List(r) /\ Len(r) = k /\ \A j \in 1..k : r[j] = t[l + j]
    <3>1. l \in 0..Len(t)
      BY <1>4
    <3> QED
      BY <1>4, <1>5, <2>1, <3>1, FromIs
  <2>3. DOMAIN r = 1..k
    BY <2>2, ListHas
  <2>4. \A j \in 1..k : r[j] = "nl"
    BY <1>2, <1>3, <2>1, <2>3 DEF Blank
  <2> QED
    BY <2>2, <2>4
<1>8. Between(f, t, 1, l + k)
  BY <1>3, <1>4, <1>6, <1>7, SkipBlanks
<1>9. m = 1
  BY <1>1, <1>2, <1>6, <1>8, BetweenArrived
<1>10. Arrived(f) = <<v>>
  <2>1. List(f.parts) /\ Len(f.parts) \in Nat /\ 1 <= Len(f.parts)
    BY PiecesAre, ListHas DEF JsonFile, StartsWith
  <2>2. 1 \in Int /\ ~ 1 < 0 /\ 1 \in 1..1
    OBVIOUS
  <2>3. PICK s : s = SubSeq(f.parts, 1, 1)
    OBVIOUS
  <2>4. List(s) /\ Len(s) = 1 /\ s[1] = f.parts[1]
    BY <2>1, <2>2, <2>3, PartIs
  <2>5. List(<<v>>) /\ Len(<<v>>) = 1 /\ <<v>>[1] = v
    BY SinglesAre
  <2>6. \A i \in 1..1 : i = 1
    OBVIOUS
  <2>7. s = <<v>>
    BY <1>3, <2>4, <2>5, <2>6, ListsEqual
  <2> QED
    BY <1>1, <1>9, <2>3, <2>7 DEF ArrivedUpTo
<1> QED
  BY <1>1, <1>9, <1>10

\* A single value with a list, where nothing is streamed, gives the members of the list.
LEMMA ListLoaded ==
  ASSUME NEW f, JsonFile(f), NEW v, StartsWith(f, v), Blank(After(v, Characters(f))),
         f.size = "large" => v \notin Object, v \in DOMAIN Records
  PROVE  Delivered(f, Taken(Records[v]))
<1>1. Arrived(f) = <<v>> /\ Head(<<v>>) = v
  BY NothingFollows
<1>2. f.shape = "stream"
  BY AnalysisAssumption DEF JsonFile, IsFile, StartsWith
<1>3. LoneList(f)
  BY <1>1, <1>2 DEF LoneList
<1>4. Object \in Counted(f) /\ Reported(f, Object) = Records[v]
  <2>1. f.fmt = ".json" /\ Head(Arrived(f)) = v /\ Object \in Counted(f)
    BY <1>1, <1>2, ObjectsCount DEF JsonFile
  <2> QED
    BY <1>3, <2>1 DEF Reported
<1>5. PICK s, g : s = Records[v] /\ g = Taken(s)
  OBVIOUS
<1>6. List(s)
  BY <1>5, AnalysisAssumption DEF List
<1>7. /\ Min2(Cap, Len(s)) \in 0..Len(s) /\ Min2(Cap, Len(s)) <= Cap
      /\ List(g) /\ Len(g) = Min2(Cap, Len(s)) /\ \A i \in 1..Min2(Cap, Len(s)) : g[i] = s[i]
  BY <1>5, <1>6, TakenIs
<1>8. Len(s) \in Nat
  BY <1>6, ListHas
<1>9. Len(g) <= Len(s) /\ Len(g) >= Min2(Cap, Len(s)) /\ Len(g) <= Cap
  BY <1>7, <1>8
<1>10. IsPrefix(g, s)
  BY <1>6, <1>7, <1>9, PrefixIs
<1> QED
  BY <1>4, <1>5, <1>9, <1>10 DEF Delivered

\* Any other single object is one event.
LEMMA ObjectLoaded ==
  ASSUME NEW f, JsonFile(f), NEW v, StartsWith(f, v), Blank(After(v, Characters(f))),
         v \in Object, v \notin DOMAIN Records
  PROVE  Delivered(f, <<v>>)
<1>1. ArrivedUpTo(f, 1) /\ Arrived(f) = <<v>>
  BY NothingFollows
<1>2. TakenWhole(f)
  <2>1. SUFFICES ASSUME LoneList(f) PROVE FALSE
    BY DEF TakenWhole
  <2>2. PICK w : w \in DOMAIN Records /\ Arrived(f) = <<w>>
    BY <2>1 DEF LoneList
  <2>3. v = w
    <3>1. <<v>>[1] = v /\ <<w>>[1] = w
      BY SinglesAre
    <3> QED
      BY <1>1, <2>2, <3>1
  <2> QED
    BY <2>2, <2>3
<1>3. v = f.parts[1] /\ Object \in Counted(f)
  BY ObjectsCount DEF StartsWith
<1>4. Tell(<<v>>, f, Object, 1)
  <2>1. 0 \in Nat /\ 0 + 1 = 1 /\ Append(<<>>, v) = <<v>>
    OBVIOUS
  <2>2. v = f.parts[0 + 1]
    BY <1>3, <2>1
  <2>3. Tell(Append(<<>>, v), f, Object, 0 + 1)
    BY <2>1, <2>2, TellsNothing, TellsPart
  <2> QED
    BY <2>1, <2>3
<1>5. Len(<<v>>) = 1 /\ 1 <= Cap /\ 1 \in Nat
  BY CapsAre
<1>6. PICK n, g : n = 1 /\ g = <<v>>
  OBVIOUS
<1>7. ArrivedUpTo(f, n) /\ Tell(g, f, Object, n) /\ n \in Nat /\ n <= n /\ Len(g) <= Cap
  BY <1>1, <1>4, <1>5, <1>6
<1>8. Delivered(f, g)
  BY <1>2, <1>3, <1>7, EnoughTold
<1> QED
  BY <1>6, <1>8

LEMMA SingleTaken ==
  ASSUME NEW v
  PROVE  Taken(<<v>>) = <<v>>
<1>1. PICK s : s = <<v>>
  OBVIOUS
<1>2. List(s) /\ Len(s) = 1
  BY <1>1, SinglesAre
<1>3. Min2(Cap, Len(s)) = Len(s)
  BY <1>2, CapsAre DEF Min2
<1> QED
  BY <1>1, <1>2, <1>3, FirstOfAll DEF Taken

\* What json.load leaves to be done with its result.
LEMMA ListedGives ==
  ASSUME NEW values, List(values), Listed(values)
  PROVE  \/ mode' = "rejected" /\ file' = file
         \/ /\ mode' = "parsed" /\ file' = file /\ Got' = Taken(values)
            /\ \A i \in 1..Min2(Cap, Len(values)) : values[i] \in Normal
<1>1. PICK taken : taken = Taken(values)
  OBVIOUS
<1>2. /\ List(taken) /\ Len(taken) = Min2(Cap, Len(values))
      /\ \A i \in 1..Min2(Cap, Len(values)) : taken[i] = values[i]
  BY <1>1, TakenIs
<1>3. DOMAIN taken = 1..Min2(Cap, Len(values)) /\ taken = [i \in DOMAIN taken |-> taken[i]]
  BY <1>2, ListHas
<1>4. CASE \A i \in DOMAIN taken : taken[i] \in Normal
  <2>1. parsed' = [i \in DOMAIN taken |-> Made(taken[i])] /\ mode' = "parsed" /\ file' = file
    BY <1>1, <1>4 DEF Listed, Finish, Taken
  <2>2. Got' = [i \in DOMAIN taken |-> taken[i]]
    BY <2>1 DEF Got, Made
  <2>3. Got' = taken
    BY <1>3, <2>2
  <2> QED
    BY <1>1, <1>2, <1>3, <1>4, <2>1, <2>3
<1>5. CASE ~ \A i \in DOMAIN taken : taken[i] \in Normal
  BY <1>1, <1>5 DEF Listed, Finish, Taken
<1> QED
  BY <1>4, <1>5

(***************************************************************************)
(* The parsers of JSON files tell every event once.                        *)
(***************************************************************************)

\* Nothing a streaming parser is for.
NoneOpens(t) == t = <<>> \/ t[1] \notin {Opening, "["}

\* Where each parser of JSON files is in its file.
JsonInv ==
    JsonFile(file) =>
        /\ mode \in JsonModes \cup {"idle", "parsed", "rejected"}
        /\ mode \in {"idle", "probe", "peek", "load"} => parsed = <<>>
        /\ mode \in {"probe", "peek", "load"} => rest = Characters(file)
        /\ mode \in {"probe", "peek", "ndjson", "array"} => file.size = "large"
        /\ mode = "load" => file.size = "small" \/ NoneOpens(Characters(file))
        /\ mode = "ndjson" => TakenWhole(file) /\ LinesAt(file, Got, rest)
        /\ mode = "array" => ArrayAt(file, Got, rest, buf, scan)
        /\ mode = "concat" => TakenWhole(file) /\ ConcatAt(file, Got, rest, buf, scan)
        /\ mode = "parsed" => Delivered(file, Got)

\* A parser of JSON files may open the file.
MayOpen(f, m, flags) ==
    /\ m \in {"probe", "peek", "load", "ndjson", "array", "concat"}
    /\ m \in {"probe", "peek", "ndjson", "array"} => f.size = "large"
    /\ m = "load" => f.size = "small" \/ NoneOpens(Characters(f))
    /\ m = "ndjson" => f.shape # "array" /\ TakenWhole(f)
    /\ m = "array" => f.shape = "array" /\ Characters(f) # <<>> /\ flags = Array
    /\ m = "concat" => f.shape # "array" /\ TakenWhole(f) /\ flags = Concat

LEMMA LinesStart ==
  ASSUME NEW f, JsonFile(f), f.shape # "array"
  PROVE  LinesAt(f, <<>>, Characters(f))
<1>1. Len(<<>>) <= Cap
  BY NothingIsAList, CapsAre
<1> QED
  BY <1>1, StandsFirst DEF LinesAt

LEMMA ArrayBegins ==
  ASSUME NEW f, JsonFile(f), f.shape = "array", Characters(f) # <<>>
  PROVE  ArrayAt(f, <<>>, Characters(f), <<>>, Array)
<1>1. Len(<<>>) <= Cap
  BY NothingIsAList, CapsAre
<1>2. <<>> \o Characters(f) = Characters(f)
  <2>1. List(Characters(f))
    BY CharactersAre DEF JsonFile
  <2>2. PICK t : t = Characters(f)
    OBVIOUS
  <2>3. <<>> \o t = t
    BY <2>1, <2>2 DEF List
  <2> QED
    BY <2>2, <2>3
<1> QED
  BY <1>1, <1>2 DEF ArrayAt, Array

LEMMA JsonOpens ==
  ASSUME JsonFile(file), NEW m, NEW flags, MayOpen(file, m, flags), Open(m, flags)
  PROVE  JsonInv'
<1>1. file' = file /\ mode' = m /\ rest' = Characters(file) /\ buf' = <<>> /\ scan' = flags /\ parsed' = <<>>
  BY DEF Open
<1>2. Got' = <<>>
  <2>1. Got' = GotOf(parsed')
    BY DEF Got, GotOf
  <2> QED
    BY <1>1, <2>1, GotNothing
<1>3. m = "ndjson" => TakenWhole(file) /\ LinesAt(file, <<>>, Characters(file))
  BY LinesStart DEF MayOpen
<1>4. m = "array" => ArrayAt(file, <<>>, Characters(file), <<>>, flags)
  BY ArrayBegins DEF MayOpen
<1>5. m = "concat" => TakenWhole(file) /\ ConcatAt(file, <<>>, Characters(file), <<>>, flags)
  BY ConcatStarts DEF MayOpen
<1>6. m \in JsonModes /\ m \notin {"idle", "parsed", "rejected"}
  BY DEF MayOpen, JsonModes
<1> QED
  BY <1>1, <1>2, <1>3, <1>4, <1>5, <1>6 DEF MayOpen, JsonInv

LEMMA JsonRejects ==
  ASSUME JsonFile(file), file' = file, mode' = "rejected"
  PROVE  JsonInv'
BY DEF JsonInv

LEMMA JsonEnds ==
  ASSUME JsonFile(file), file' = file, mode' = "parsed", Delivered(file, Got')
  PROVE  JsonInv'
BY DEF JsonInv

LEMMA JsonFileParsed ==
  ASSUME JsonFile(file), JsonInv, file.size # "huge", ParseFile
  PROVE  JsonInv'
<1>1. mode = "idle" /\ Open(IF file.size = "large" THEN "probe" ELSE "load", <<>>)
  BY DEF ParseFile, JsonFile
<1>2. file.size \in {"small", "large"}
  BY AnalysisAssumption DEF JsonFile, IsFile
<1>3. CASE file.size = "large"
  <2>1. Open("probe", <<>>) /\ MayOpen(file, "probe", <<>>)
    BY <1>1, <1>3 DEF MayOpen
  <2> QED
    BY <2>1, JsonOpens
<1>4. CASE file.size # "large"
  <2>1. Open("load", <<>>) /\ MayOpen(file, "load", <<>>)
    BY <1>1, <1>2, <1>4 DEF MayOpen
  <2> QED
    BY <2>1, JsonOpens
<1> QED
  BY <1>3, <1>4

\* A line that is an object begins like one.
LEMMA LineBegins ==
  ASSUME NEW t, List(t), NEW v \in Object, v \in Loads(Line(t))
  PROVE  t # <<>> /\ t[1] = Opening
<1>1. v \in Valid /\ Text[v] = Line(t)
  BY DEF Loads, Valid
<1>2. List(Text[v]) /\ Len(Text[v]) \in Nat /\ Len(Text[v]) >= 1 /\ Text[v][1] = Opening
  BY <1>1, PartsStart
<1>3. t # <<>>
  <2>1. SUFFICES ASSUME t = <<>> PROVE FALSE
    OBVIOUS
  <2>2. {i \in DOMAIN t : t[i] = "nl"} = {} /\ Len(t) = 0
    BY <2>1
  <2>3. LineLength(t) = 0
    BY <2>2 DEF LineLength
  <2>4. Line(t) = SubSeq(t, 1, 0)
    BY <2>3 DEF Line
  <2>5. Len(SubSeq(t, 1, 0)) = 0
    <3>1. 0 \in Int /\ 0 <= Len(t) /\ ~ 0 < 0
      BY <2>2
    <3> QED
      BY <3>1, PartIs
  <2> QED
    BY <1>1, <1>2, <2>4, <2>5
<1>4. PICK n, line : n = LineLength(t) /\ line = Line(t)
  OBVIOUS
<1>5. FirstLineOf(t, n)
  BY <1>3, <1>4, LinesAre
<1>6. IsPart(line, t, 1, n - 1) \/ IsPart(line, t, 1, n)
  BY <1>4, <1>5 DEF FirstLineOf
<1>7. n \in Int /\ Len(line) >= 1 /\ line[1] = Opening
  <2>1. n \in 1..Len(t) /\ Len(t) \in Nat
    BY <1>5, ListHas DEF FirstLineOf
  <2> QED
    BY <1>1, <1>2, <1>4, <2>1
<1>8. line[1] = t[1]
  <2>1. CASE IsPart(line, t, 1, n - 1)
    <3>1. Len(line) = n - 1 - 1 + 1 /\ \A i \in 1..(n - 1 - 1 + 1) : line[i] = t[1 + i - 1]
      BY <2>1 DEF IsPart
    <3>2. 1 \in 1..(n - 1 - 1 + 1) /\ 1 + 1 - 1 = 1
      BY <1>7, <3>1
    <3> QED
      BY <3>1, <3>2
  <2>2. CASE IsPart(line, t, 1, n)
    <3>1. Len(line) = n - 1 + 1 /\ \A i \in 1..(n - 1 + 1) : line[i] = t[1 + i - 1]
      BY <2>2 DEF IsPart
    <3>2. 1 \in 1..(n - 1 + 1) /\ 1 + 1 - 1 = 1
      BY <1>7, <3>1
    <3> QED
      BY <3>1, <3>2
  <2> QED
    BY <1>6, <2>1, <2>2
<1> QED
  BY <1>3, <1>7, <1>8

\* A file that does not begin like an array is none.
LEMMA NoArray ==
  ASSUME NEW f, JsonFile(f), Characters(f) # <<>>, Characters(f)[1] # "["
  PROVE  f.shape # "array"
BY TextsBegin DEF TextBegins

\* A large file that begins with an object is streamed.
LEMMA ObjectsAreStreamed ==
  ASSUME NEW f, JsonFile(f), f.size = "large", Characters(f) # <<>>, Characters(f)[1] = Opening
  PROVE  TakenWhole(f)
<1>1. SUFFICES ASSUME LoneList(f) PROVE FALSE
  BY DEF TakenWhole
<1>2. PICK w : w \in DOMAIN Records /\ Arrived(f) = <<w>>
  BY <1>1 DEF LoneList
<1>3. w \notin Object /\ f.shape = "stream"
  <2>1. Head(<<w>>) = w
    OBVIOUS
  <2> QED
    BY <1>1, <1>2, <2>1 DEF LoneList
<1>4. PICK t, m : t = Characters(f) /\ ArrivedUpTo(f, m)
  BY SomeArrived
<1>5. Laid(f, t) /\ TextBegins(f, t) /\ t # <<>> /\ t[1] = Opening
  BY <1>4, CharactersLaid, TextsBegin DEF JsonFile
<1>6. Between(f, t, 0, 0) /\ List(t) /\ Len(t) \in Nat
  BY <1>3, <1>5, ListHas DEF TextBegins
<1>7. 0 < Len(t)
  BY <1>5, <1>6, ListHas
<1>8. Opening \notin {"nl", "]"} /\ Opening # Comma
  BY Zenon DEF Opening, Comma
<1>9. PartBegins(f, t, 0, 0)
  <2>1. GapGoesOn(f, t, 0, 0) \/ PartBegins(f, t, 0, 0) \/ ArrayEnds(f, t, 0, 0)
    BY <1>5, <1>6, <1>7, NextInGap
  <2>2. 0 + 1 = 1
    OBVIOUS
  <2> QED
    BY <1>5, <1>8, <2>1, <2>2 DEF GapGoesOn, ArrayEnds
<1>10. Text[f.parts[1]][1] = Opening /\ 0 < Len(f.parts)
  <2>1. 0 + 1 = 1
    OBVIOUS
  <2> QED
    BY <1>5, <1>9, <2>1 DEF PartBegins, Part
<1>11. f.parts[1] = w
  <2>1. List(f.parts) /\ Len(f.parts) \in Nat /\ m \in 0..Len(f.parts) /\ SubSeq(f.parts, 1, m) = <<w>>
    BY <1>2, <1>4, PiecesAre, ListHas DEF ArrivedUpTo, JsonFile
  <2>2. <<w>>[1] = w /\ Len(<<w>>) = 1
    BY SinglesAre
  <2>3. m \in Int /\ m <= Len(f.parts) /\ Len(SubSeq(f.parts, 1, m)) = IF m < 0 THEN 0 ELSE m
    BY <2>1, PartIs
  <2>4. 1 \in 1..m
    <3>1. Len(SubSeq(f.parts, 1, m)) = 1
      BY <2>1, <2>2
    <3>2. m \in Nat /\ (IF m < 0 THEN 0 ELSE m) = 1
      BY <2>1, <2>3, <3>1
    <3> QED
      BY <3>2
  <2> QED
    BY <2>1, <2>2, <2>3, <2>4, PartIs
<1>12. f.parts[1] \in Valid
  BY <1>10, ValidParts DEF JsonFile
<1> QED
  BY <1>3, <1>10, <1>11, <1>12, PartsStart

LEMMA JsonProbed ==
  ASSUME JsonFile(file), JsonInv, Probe
  PROVE  JsonInv'
<1>1. /\ mode = "probe" /\ rest = Characters(file) /\ file.size = "large"
      /\ Open(IF Loads(Line(rest)) \cap Object # {} THEN "ndjson" ELSE "peek", <<>>)
  BY DEF Probe, JsonInv
<1>2. CASE Loads(Line(rest)) \cap Object # {}
  <2>1. PICK v : v \in Object /\ v \in Loads(Line(rest))
    BY <1>2
  <2>2. List(Characters(file))
    BY CharactersAre DEF JsonFile
  <2>3. Characters(file) # <<>> /\ Characters(file)[1] = Opening
    BY <1>1, <2>1, <2>2, LineBegins
  <2>4. file.shape # "array"
    <3>1. Opening # "["
      BY Zenon DEF Opening
    <3> QED
      BY <2>3, <3>1, NoArray
  <2>5. TakenWhole(file)
    BY <1>1, <2>3, ObjectsAreStreamed
  <2>6. Open("ndjson", <<>>) /\ MayOpen(file, "ndjson", <<>>)
    BY <1>1, <1>2, <2>4, <2>5 DEF MayOpen
  <2> QED
    BY <2>6, JsonOpens
<1>3. CASE ~ Loads(Line(rest)) \cap Object # {}
  <2>1. Open("peek", <<>>) /\ MayOpen(file, "peek", <<>>)
    BY <1>1, <1>3 DEF MayOpen
  <2> QED
    BY <2>1, JsonOpens
<1> QED
  BY <1>2, <1>3

\* Nothing more is parsed, or one event.
LEMMA GotStays ==
  ASSUME UNCHANGED parsed
  PROVE  Got' = Got
BY DEF Got

LEMMA GotGrows ==
  ASSUME ParsedFrom(parsed), NEW v, parsed' = Append(parsed, Made(v))
  PROVE  Got' = Append(Got, v)
<1>1. List(parsed) /\ Got = GotOf(parsed)
  BY GotIsList
<1>2. Got' = GotOf(parsed')
  BY DEF Got, GotOf
<1> QED
  BY <1>1, <1>2, GotMore

LEMMA FullIs ==
  ASSUME ParsedFrom(parsed)
  PROVE  Full <=> Len(Got) >= Cap
BY GotIsList DEF Full

LEMMA JsonLineTaken ==
  ASSUME JsonFile(file), JsonInv, ParsedFrom(parsed), TakeLine
  PROVE  JsonInv'
<1>1. mode = "ndjson" /\ TakenWhole(file) /\ LinesAt(file, Got, rest) /\ file.size = "large" /\ file.shape # "array"
  BY DEF TakeLine, JsonInv, LinesAt
<1>2. rest # <<>> /\ ~ Len(Got) >= Cap
  BY FullIs DEF TakeLine
<1>3. PICK line : line = Line(rest)
  OBVIOUS
<1>4. \/ line = <<>> /\ rest' = NextLines(rest) /\ UNCHANGED <<file, mode, buf, scan, parsed>>
      \/ \E v \in Loads(line) \cap Normal :
            parsed' = Append(parsed, Made(v)) /\ rest' = NextLines(rest) /\ UNCHANGED <<file, mode, buf, scan>>
      \/ mode' = "rejected" /\ file' = file
      \/ Open("peek", <<>>)
  BY <1>3 DEF TakeLine, Finish
<1>5. CASE line = <<>> /\ rest' = NextLines(rest) /\ UNCHANGED <<file, mode, buf, scan, parsed>>
  <2>1. LinesAt(file, Got, NextLines(rest))
    BY <1>1, <1>2, <1>3, <1>5, LineSkipped
  <2>2. Got' = Got /\ file' = file /\ mode' = "ndjson" /\ rest' = NextLines(rest)
    BY <1>1, <1>5, GotStays
  <2> QED
    BY <1>1, <2>1, <2>2 DEF JsonInv, JsonModes
<1>6. CASE \E v \in Loads(line) \cap Normal :
              parsed' = Append(parsed, Made(v)) /\ rest' = NextLines(rest) /\ UNCHANGED <<file, mode, buf, scan>>
  <2>1. PICK v \in Normal : /\ v \in Loads(line) /\ parsed' = Append(parsed, Made(v))
                            /\ rest' = NextLines(rest) /\ UNCHANGED <<file, mode, buf, scan>>
    BY <1>6
  <2>2. LinesAt(file, Append(Got, v), NextLines(rest))
    BY <1>1, <1>2, <1>3, <2>1, LineTaken
  <2>3. Got' = Append(Got, v) /\ file' = file /\ mode' = "ndjson" /\ rest' = NextLines(rest)
    BY <1>1, <2>1, GotGrows
  <2> QED
    BY <1>1, <2>2, <2>3 DEF JsonInv, JsonModes
<1>7. CASE mode' = "rejected" /\ file' = file
  BY <1>7, JsonRejects
<1>8. CASE Open("peek", <<>>)
  <2>1. MayOpen(file, "peek", <<>>)
    BY <1>1 DEF MayOpen
  <2> QED
    BY <1>8, <2>1, JsonOpens
<1> QED
  BY <1>4, <1>5, <1>6, <1>7, <1>8

\* The parser that the first inked character asks for.
LEMMA PeekOpens ==
  ASSUME Peek, NEW t, t = LStrip(rest)
  PROVE  \/ t # <<>> /\ Head(t) = Opening /\ Open("concat", Concat)
         \/ t # <<>> /\ Head(t) = "[" /\ Open("array", Array)
         \/ (t = <<>> \/ Head(t) \notin {Opening, "["}) /\ Open("load", <<>>)
<1>1. PICK first : first = IF t = <<>> THEN "none" ELSE Head(t)
  OBVIOUS
<1>2. PICK m, flags : /\ m = CASE first = "{" -> "concat" [] first = "[" -> "array" [] OTHER -> "load"
                      /\ flags = CASE first = "{" -> Concat [] first = "[" -> Array [] OTHER -> <<>>
  BY Zenon
<1>3. Open(m, flags)
  BY <1>1, <1>2, Zenon DEF Peek
<1>4. "none" # "{" /\ "none" # "[" /\ "{" # "["
  BY Zenon
<1>5. first = "{" => m = "concat" /\ flags = Concat
  BY <1>2, <1>4, Zenon
<1>6. first = "[" => m = "array" /\ flags = Array
  BY <1>2, <1>4, Zenon
<1>7. first # "{" /\ first # "[" => m = "load" /\ flags = <<>>
  BY <1>2, <1>4, Zenon
<1>8. Opening = "{"
  BY Zenon DEF Opening
<1>9. first = Opening => t # <<>> /\ Head(t) = Opening
  BY <1>1, <1>4, <1>8, Zenon
<1>10. first = "[" => t # <<>> /\ Head(t) = "["
  BY <1>1, <1>4, Zenon
<1>11. first \notin {Opening, "["} => t = <<>> \/ Head(t) \notin {Opening, "["}
  BY <1>1
<1> QED
  BY <1>3, <1>5, <1>6, <1>7, <1>8, <1>9, <1>10, <1>11, Zenon

LEMMA JsonPeeked ==
  ASSUME JsonFile(file), JsonInv, Peek
  PROVE  JsonInv'
<1>1. mode = "peek" /\ rest = Characters(file) /\ file.size = "large"
  BY Zenon DEF Peek, JsonInv
<1>2. PICK t : t = Characters(file)
  OBVIOUS
<1>3. TextBegins(file, t)
  BY <1>2, TextsBegin
<1>4. t = LStrip(rest) /\ List(t)
  BY <1>1, <1>2, <1>3 DEF TextBegins
<1>5. t # <<>> => Head(t) = t[1]
  BY <1>4, HeadTail
<1>6. Opening # "["
  BY Zenon DEF Opening
<1>7. CASE t # <<>> /\ Head(t) = Opening /\ Open("concat", Concat)
  <2>1. file.shape # "array"
    BY <1>2, <1>5, <1>6, <1>7, NoArray
  <2>2. TakenWhole(file)
    BY <1>1, <1>2, <1>5, <1>7, ObjectsAreStreamed
  <2>3. MayOpen(file, "concat", Concat)
    BY <2>1, <2>2 DEF MayOpen
  <2> QED
    BY <1>7, <2>3, JsonOpens
<1>8. CASE t # <<>> /\ Head(t) = "[" /\ Open("array", Array)
  <2>1. file.shape = "array"
    BY <1>3, <1>5, <1>8 DEF TextBegins
  <2>2. MayOpen(file, "array", Array)
    BY <1>1, <1>2, <1>8, <2>1 DEF MayOpen
  <2> QED
    BY <1>8, <2>2, JsonOpens
<1>9. CASE (t = <<>> \/ Head(t) \notin {Opening, "["}) /\ Open("load", <<>>)
  <2>1. NoneOpens(Characters(file))
    BY <1>2, <1>5, <1>9 DEF NoneOpens
  <2>2. MayOpen(file, "load", <<>>)
    BY <2>1 DEF MayOpen
  <2> QED
    BY <1>9, <2>2, JsonOpens
<1> QED
  BY <1>4, <1>7, <1>8, <1>9, PeekOpens

LEMMA JsonListed ==
  ASSUME JsonFile(file), NEW values, List(values), Listed(values),
         (\A i \in 1..Min2(Cap, Len(values)) : values[i] \in Normal) => Delivered(file, Taken(values))
  PROVE  JsonInv'
<1>1. CASE mode' = "rejected" /\ file' = file
  BY <1>1, JsonRejects
<1>2. CASE /\ mode' = "parsed" /\ file' = file /\ Got' = Taken(values)
           /\ \A i \in 1..Min2(Cap, Len(values)) : values[i] \in Normal
  <2>1. Delivered(file, Got')
    BY <1>2
  <2> QED
    BY <1>2, <2>1, JsonEnds
<1> QED
  BY <1>1, <1>2, ListedGives

\* A whole array begins like one.
LEMMA ArraysOpen ==
  ASSUME NEW f, JsonFile(f), f.shape = "array", f.cut = 0
  PROVE  ~ NoneOpens(Characters(f))
<1>1. PICK t : t = Characters(f)
  OBVIOUS
<1>2. PICK n : n = Len(f.parts)
  OBVIOUS
<1>3. Runs(f) /\ Len(t) = End(f, n) + Lead(f) /\ TextBegins(f, t)
  BY <1>1, <1>2, FileRuns, CharactersLaid, TextsBegin DEF JsonFile
<1>4. n \in Nat /\ n \in 0..n /\ Lead(f) = 1
  BY <1>2, <1>3 DEF Runs, Lead
<1>5. End(f, n) \in Nat
  BY <1>2, <1>3, <1>4 DEF Runs
<1>6. Len(t) # 0
  BY <1>3, <1>4, <1>5
<1>7. t # <<>>
  BY <1>6, NothingIsAList
<1> QED
  BY <1>1, <1>3, <1>7 DEF NoneOpens, TextBegins

LEMMA JsonLoaded ==
  ASSUME JsonFile(file), JsonInv, Load
  PROVE  JsonInv'
<1>1. mode = "load" /\ rest = Characters(file) /\ (file.size = "small" \/ NoneOpens(Characters(file)))
  BY DEF Load, JsonInv
<1>2. PICK t : t = Characters(file)
  OBVIOUS
<1>3. LStrip(rest) = t
  BY <1>1, <1>2, TextsBegin DEF TextBegins
<1>4. CASE WholeArray /\ Listed(file.parts)
  <2>1. file.shape = "array" /\ file.cut = 0 /\ List(file.parts) /\ file.size # "large"
    <3>1. file.shape = "array" /\ file.cut = 0 /\ List(file.parts)
      BY <1>4, PiecesAre DEF WholeArray, JsonFile
    <3>2. file.size # "large"
      BY <1>1, <3>1, ArraysOpen DEF NoneOpens
    <3> QED
      BY <3>1, <3>2
  <2>2. (\A i \in 1..Min2(Cap, Len(file.parts)) : file.parts[i] \in Normal) => Delivered(file, Taken(file.parts))
    BY <2>1, ArrayLoaded
  <2> QED
    BY <1>4, <2>1, <2>2, JsonListed
<1>5. ASSUME NEW v \in Decodes(t),
             IF ~ Blank(After(v, t)) THEN Open("concat", Concat)
             ELSE IF v \in DOMAIN Records THEN Listed(Records[v]) ELSE Listed(<<v>>)
      PROVE  JsonInv'
  <2>1. StartsWith(file, v)
    BY <1>2, FileStarts
  <2>2. CASE ~ Blank(After(v, t))
    <3>1. TakenWhole(file) /\ file.shape # "array"
      BY <1>2, <2>1, <2>2, MoreFollows DEF StartsWith
    <3>2. Open("concat", Concat) /\ MayOpen(file, "concat", Concat)
      BY <1>5, <2>2, <3>1 DEF MayOpen
    <3> QED
      BY <3>2, JsonOpens
  <2>3. CASE Blank(After(v, t)) /\ v \in DOMAIN Records
    <3>1. Listed(Records[v])
      BY <1>5, <2>3
    <3>2. List(Records[v])
      BY <2>3, AnalysisAssumption DEF List
    <3>3. file.size = "large" => v \notin Object
      <4>1. SUFFICES ASSUME v \in Object PROVE file.size = "small"
        OBVIOUS
      <4>2. t # <<>> /\ t[1] = Opening
        BY <1>2, <2>1, <4>1, PartsStart DEF StartsWith
      <4> QED
        BY <1>1, <1>2, <4>2 DEF NoneOpens
    <3>4. Delivered(file, Taken(Records[v]))
      BY <1>2, <2>1, <2>3, <3>3, ListLoaded
    <3> QED
      BY <3>1, <3>2, <3>4, JsonListed
  <2>4. CASE Blank(After(v, t)) /\ v \notin DOMAIN Records
    <3>1. PICK s : s = <<v>>
      OBVIOUS
    <3>2. Listed(s)
      BY <1>5, <2>4, <3>1
    <3>3. List(s) /\ Len(s) = 1 /\ s[1] = v
      BY <3>1, SinglesAre
    <3>4. 1 \in 1..Min2(Cap, Len(s))
      BY <3>3, CapsAre DEF Min2
    <3>5. (\A i \in 1..Min2(Cap, Len(s)) : s[i] \in Normal) => Delivered(file, Taken(s))
      <4>1. SUFFICES ASSUME v \in Normal PROVE Delivered(file, Taken(s))
        BY <3>3, <3>4
      <4>2. Taken(s) = <<v>>
        BY <3>1, SingleTaken
      <4>3. v \in Valid
        BY <2>1 DEF StartsWith
      <4>4. v \in Object
        BY <2>4, <4>1, <4>3, IngestAssumption, Zenon DEF Normal
      <4> QED
        BY <1>2, <2>1, <2>4, <4>2, <4>4, ObjectLoaded
    <3> QED
      BY <3>2, <3>3, <3>5, JsonListed
  <2> QED
    BY <2>2, <2>3, <2>4
<1>6. CASE mode' = "rejected" /\ file' = file
  BY <1>6, JsonRejects
<1>7. \/ WholeArray /\ Listed(file.parts)
      \/ \E v \in Decodes(t) :
            IF ~ Blank(After(v, t)) THEN Open("concat", Concat)
            ELSE IF v \in DOMAIN Records THEN Listed(Records[v]) ELSE Listed(<<v>>)
      \/ mode' = "rejected" /\ file' = file
  BY <1>3 DEF Load, Finish
<1> QED
  BY <1>4, <1>5, <1>6, <1>7

LEMMA FlagsSet ==
  ASSUME NEW sc \in ArrayFlags, NEW e \in BOOLEAN
  PROVE  /\ [sc EXCEPT !.hungry = TRUE].started = sc.started /\ [sc EXCEPT !.hungry = TRUE].eof = sc.eof
         /\ [sc EXCEPT !.started = TRUE].started /\ [sc EXCEPT !.started = TRUE].eof = sc.eof
         /\ [sc EXCEPT !.started = TRUE].hungry = sc.hungry
         /\ [sc EXCEPT !.eof = e, !.hungry = FALSE].started = sc.started
         /\ [sc EXCEPT !.eof = e, !.hungry = FALSE].eof = e
         /\ [sc EXCEPT !.eof = e, !.hungry = FALSE].hungry = FALSE
BY DEF ArrayFlags

\* What the parser of arrays has to start with.
LEMMA ArrayReads ==
  ASSUME JsonFile(file), JsonInv, ReadInv, mode = "array"
  PROVE  /\ file.size = "large" /\ ArrayAt(file, Got, rest, buf, scan) /\ scan \in ArrayFlags
         /\ List(rest) /\ List(buf) /\ ArrayLeft(file, Got, rest, LStrip(buf), scan)
<1>1. file.size = "large" /\ ArrayAt(file, Got, rest, buf, scan) /\ scan \in ArrayFlags /\ List(rest) /\ List(buf)
  BY DEF JsonInv, ReadInv, ArrayFlags
<1> QED
  BY <1>1, ArrayStrips

LEMMA JsonReadsOn ==
  ASSUME JsonFile(file), JsonInv, mode = "array", file' = file, mode' = mode,
         ArrayAt(file, Got', rest', buf', scan')
  PROVE  JsonInv'
BY DEF JsonInv, JsonModes

LEMMA JsonChunkRead ==
  ASSUME JsonFile(file), JsonInv, ReadInv, ParsedFrom(parsed), ReadChunk
  PROVE  JsonInv'
<1>1. mode = "array" /\ scan.hungry /\ parsed' = parsed
  BY DEF ReadChunk
<1>2. /\ file.size = "large" /\ ArrayAt(file, Got, rest, buf, scan) /\ scan \in ArrayFlags
      /\ List(rest) /\ List(buf) /\ ArrayLeft(file, Got, rest, LStrip(buf), scan)
  BY <1>1, ArrayReads
<1>3. Got' = Got
  BY <1>1, GotStays
<1>4. CASE scan.eof \/ Full
  <2>1. mode' = "parsed" /\ file' = file
    BY <1>4 DEF ReadChunk, Finish
  <2>2. ASSUME ~ Len(Got) >= Cap PROVE LStrip(buf) = <<>> /\ rest = <<>>
    <3>1. scan.eof
      BY <1>4, <2>2, FullIs
    <3>2. rest = <<>> /\ buf = <<>>
      BY <1>1, <1>2, <3>1 DEF ArrayAt
    <3>3. PICK k \in 0..Len(buf) : StrippedAt(buf, k)
      BY <1>2, LStripIs
    <3>4. Len(buf) = 0
      BY <3>2
    <3>5. k = 0
      BY <3>3, <3>4
    <3> QED
      BY <1>2, <3>2, <3>3, <3>5, FromStart DEF StrippedAt
  <2>3. Delivered(file, Got)
    BY <1>2, <2>2, ArrayEndsAll
  <2> QED
    BY <1>3, <2>1, <2>3, JsonEnds
<1>5. CASE ~(scan.eof \/ Full)
  <2>1. PICK k, e : k = Min2(Chunk, Len(rest)) /\ e = (rest = <<>>)
    OBVIOUS
  <2>2. /\ buf' = buf \o SubSeq(rest, 1, k) /\ rest' = From(rest, k)
        /\ scan' = [scan EXCEPT !.eof = e, !.hungry = FALSE] /\ file' = file /\ mode' = mode
    BY <1>5, <2>1 DEF ReadChunk, From
  <2>3. Len(rest) \in Nat
    BY <1>2, ListHas
  <2>4. k \in 0..Len(rest)
    BY <2>1, <2>3, CapsAre DEF Min2
  <2>5. buf' \o rest' = buf \o rest
    BY <1>2, <2>2, <2>4, MovedOver
  <2>6. e \in BOOLEAN
    BY <2>1
  <2>7. scan'.started = scan.started /\ scan'.eof = e /\ scan'.hungry = FALSE
    BY <1>2, <2>2, <2>6, FlagsSet
  <2>8. e => rest' = <<>>
    <3>1. SUFFICES ASSUME e PROVE rest' = <<>>
      OBVIOUS
    <3>2. rest = <<>> /\ Len(rest) = 0
      BY <2>1, <3>1
    <3>3. k = 0
      BY <2>4, <3>2
    <3> QED
      BY <1>2, <2>2, <3>2, <3>3, FromStart
  <2>9. ArrayAt(file, Got, rest', buf', scan')
    <3>1. PICK r, bf, sc : r = rest' /\ bf = buf' /\ sc = scan'
      OBVIOUS
    <3>2. bf \o r = buf \o rest /\ sc.started = scan.started /\ (sc.eof => r = <<>>) /\ ~ sc.hungry
      BY <2>5, <2>7, <2>8, <3>1
    <3>3. ArrayAt(file, Got, r, bf, sc)
      BY <1>2, <3>2 DEF ArrayAt
    <3> QED
      BY <3>1, <3>3
  <2> QED
    BY <1>1, <1>3, <2>2, <2>9, JsonReadsOn
<1> QED
  BY <1>4, <1>5

\* What a turn of the inner loop may do.
ElementTaken(s) ==
    \/ Full /\ mode' = "parsed" /\ parsed' = parsed
    \/ /\ s = <<>> \/ ~ scan.eof
       /\ buf' = s /\ scan' = [scan EXCEPT !.hungry = TRUE] /\ UNCHANGED <<mode, rest, parsed>>
    \/ /\ s # <<>> /\ ~ scan.started
       /\ buf' = Tail(s) /\ scan' = [scan EXCEPT !.started = TRUE] /\ UNCHANGED <<mode, rest, parsed>>
    \/ s # <<>> /\ scan.started /\ Head(s) = "]" /\ mode' = "parsed" /\ parsed' = parsed
    \/ /\ s # <<>> /\ scan.started /\ Head(s) = Comma
       /\ buf' = Tail(s) /\ UNCHANGED <<mode, rest, scan, parsed>>
    \/ \E v \in Decodes(s) :
          /\ ~ Full /\ scan.started /\ buf' = After(v, s)
          /\ parsed' = (IF v \in Object THEN Append(parsed, Made(v)) ELSE parsed)
          /\ UNCHANGED <<mode, rest, scan>>
    \/ mode' = "rejected"

LEMMA ElementIs ==
  ASSUME TakeElement, NEW s, s = LStrip(buf)
  PROVE  mode = "array" /\ ~ scan.hungry /\ file' = file /\ ElementTaken(s)
<1>1. Comma = ","
  BY Zenon DEF Comma
<1>2. mode = "array" /\ ~ scan.hungry /\ file' = file
  BY Zenon DEF TakeElement, Finish
<1> QED
  BY <1>1, <1>2, Zenon DEF TakeElement, ElementTaken, Finish, Starve

LEMMA JsonElementTaken ==
  ASSUME JsonFile(file), JsonInv, ReadInv, ParsedFrom(parsed), TakeElement
  PROVE  JsonInv'
<1>1. PICK s : s = LStrip(buf)
  OBVIOUS
<1>2. mode = "array" /\ ~ scan.hungry /\ file' = file /\ ElementTaken(s)
  BY <1>1, ElementIs
<1>3. /\ file.size = "large" /\ ArrayAt(file, Got, rest, buf, scan) /\ scan \in ArrayFlags
      /\ List(rest) /\ List(buf) /\ ArrayLeft(file, Got, rest, s, scan)
  BY <1>1, <1>2, ArrayReads
<1>4. parsed' = parsed => Got' = Got
  BY GotStays
<1>5. CASE Full /\ mode' = "parsed" /\ parsed' = parsed
  <2>1. Len(Got) >= Cap
    BY <1>5, FullIs
  <2>2. Delivered(file, Got)
    BY <1>3, <2>1, ArrayEndsAll
  <2> QED
    BY <1>2, <1>4, <1>5, <2>2, JsonEnds
<1>6. CASE /\ s = <<>> \/ ~ scan.eof
           /\ buf' = s /\ scan' = [scan EXCEPT !.hungry = TRUE] /\ UNCHANGED <<mode, rest, parsed>>
  <2>1. PICK sc : sc = [scan EXCEPT !.hungry = TRUE]
    OBVIOUS
  <2>2. sc.started = scan.started /\ sc.eof = scan.eof
    <3>1. TRUE \in BOOLEAN
      OBVIOUS
    <3> QED
      BY <1>3, <2>1, <3>1, FlagsSet
  <2>3. ArrayAt(file, Got, rest, s, sc)
    BY <1>3, <1>6, <2>2, ArrayStarves
  <2>4. buf' = s /\ scan' = sc /\ rest' = rest /\ mode' = mode /\ Got' = Got
    BY <1>4, <1>6, <2>1
  <2> QED
    BY <1>2, <2>3, <2>4, JsonReadsOn
<1>7. CASE /\ s # <<>> /\ ~ scan.started
           /\ buf' = Tail(s) /\ scan' = [scan EXCEPT !.started = TRUE] /\ UNCHANGED <<mode, rest, parsed>>
  <2>1. PICK sc : sc = [scan EXCEPT !.started = TRUE]
    OBVIOUS
  <2>2. sc.started /\ sc.eof = scan.eof /\ ~ sc.hungry
    <3>1. TRUE \in BOOLEAN
      OBVIOUS
    <3>2. sc.started /\ sc.eof = scan.eof /\ sc.hungry = scan.hungry
      BY <1>3, <2>1, <3>1, FlagsSet
    <3> QED
      BY <1>2, <3>2
  <2>3. ArrayAt(file, Got, rest, Tail(s), sc)
    BY <1>3, <1>7, <2>2, ArrayStarts
  <2>4. buf' = Tail(s) /\ scan' = sc /\ rest' = rest /\ mode' = mode /\ Got' = Got
    BY <1>4, <1>7, <2>1
  <2> QED
    BY <1>2, <2>3, <2>4, JsonReadsOn
<1>8. CASE s # <<>> /\ scan.started /\ Head(s) = "]" /\ mode' = "parsed" /\ parsed' = parsed
  <2>1. Delivered(file, Got)
    BY <1>3, <1>8, ArrayEndsAll
  <2> QED
    BY <1>2, <1>4, <1>8, <2>1, JsonEnds
<1>9. CASE /\ s # <<>> /\ scan.started /\ Head(s) = Comma
           /\ buf' = Tail(s) /\ UNCHANGED <<mode, rest, scan, parsed>>
  <2>1. ArrayAt(file, Got, rest, Tail(s), scan)
    BY <1>2, <1>3, <1>9, ArrayCommas
  <2>2. buf' = Tail(s) /\ scan' = scan /\ rest' = rest /\ mode' = mode /\ Got' = Got
    BY <1>4, <1>9
  <2> QED
    BY <1>2, <2>1, <2>2, JsonReadsOn
<1>10. CASE \E v \in Decodes(s) :
               /\ ~ Full /\ scan.started /\ buf' = After(v, s)
               /\ parsed' = (IF v \in Object THEN Append(parsed, Made(v)) ELSE parsed)
               /\ UNCHANGED <<mode, rest, scan>>
  <2>1. PICK v \in Decodes(s) : /\ ~ Full /\ scan.started /\ buf' = After(v, s)
                                /\ parsed' = (IF v \in Object THEN Append(parsed, Made(v)) ELSE parsed)
                                /\ UNCHANGED <<mode, rest, scan>>
    BY <1>10
  <2>2. ~ Len(Got) >= Cap
    BY <2>1, FullIs
  <2>3. ArrayAt(file, With(Object, Got, v), rest, After(v, s), scan)
    BY <1>2, <1>3, <2>1, <2>2, ArrayTakes
  <2>4. Got' = With(Object, Got, v)
    <3>1. CASE v \in Object
      <4>1. parsed' = Append(parsed, Made(v))
        BY <2>1, <3>1
      <4> QED
        BY <3>1, <4>1, GotGrows DEF With
    <3>2. CASE v \notin Object
      BY <1>4, <2>1, <3>2 DEF With
    <3> QED
      BY <3>1, <3>2
  <2>5. buf' = After(v, s) /\ scan' = scan /\ rest' = rest /\ mode' = mode
    BY <2>1
  <2> QED
    BY <1>2, <2>3, <2>4, <2>5, JsonReadsOn
<1>11. CASE mode' = "rejected"
  BY <1>2, <1>11, JsonRejects
<1> QED
  BY <1>2, <1>5, <1>6, <1>7, <1>8, <1>9, <1>10, <1>11 DEF ElementTaken

LEMMA ConcatCounts ==
  ASSUME NEW f, JsonFile(f), NEW g, NEW r, NEW c, NEW sc, ConcatAt(f, g, r, c, sc)
  PROVE  sc.at \in Counter
<1>1. PICK i, p : Outside(f, g, sc, i, p) \/ \E k : Inside(f, g, c, sc, i, p, k)
  BY DEF ConcatAt
<1>2. CASE Outside(f, g, sc, i, p)
  BY <1>2, CalmIs DEF Outside
<1>3. ASSUME NEW k, Inside(f, g, c, sc, i, p, k) PROVE sc.at \in Counter
  <2>1. PICK v, l : v = f.parts[i + 1] /\ l = Len(Text[v])
    OBVIOUS
  <2>2. /\ i \in 0..Len(f.parts) /\ i < Len(f.parts) /\ k \in Nat /\ k < l
        /\ sc.at = Counts(Text[v])[k]
    BY <1>3, <2>1 DEF Inside, Part
  <2>3. i + 1 \in 1..Len(f.parts)
    BY <2>2, GapsAre
  <2>4. v \in Valid
    BY <2>1, <2>3, ValidParts
  <2>5. l \in Nat
    BY <2>1, <2>4, PartsStart
  <2>6. k \in 0..l
    BY <2>2, <2>5
  <2> QED
    BY <2>1, <2>2, <2>4, <2>6, CountsAre DEF CountsOf
<1> QED
  BY <1>1, <1>2, <1>3

\* What the brace counter does with a character.
LEMMA CharacterIs ==
  ASSUME ParsedFrom(parsed), TakeCharacter, scan.at \in Counter
  PROVE  /\ mode = "concat" /\ rest # <<>> /\ ~(scan.fresh /\ Len(Got) >= Cap)
         /\ rest' = Tail(rest) /\ file' = file /\ mode' = mode
         /\ Scanned(buf, scan, Head(rest), Got', buf', scan', Got)
<1>1. /\ mode = "concat" /\ rest # <<>> /\ ~(scan.fresh /\ Full)
      /\ rest' = Tail(rest) /\ file' = file /\ mode' = mode
  BY DEF TakeCharacter
<1>2. ~(scan.fresh /\ Len(Got) >= Cap)
  BY <1>1, FullIs
<1>3. PICK ch, st, next, more : ch = Head(rest) /\ st = scan.at /\ next = Count(st, ch) /\ more = Append(buf, ch)
  OBVIOUS
<1>4. scan' = [at |-> next, fresh |-> ch = "nl"]
  BY <1>3 DEF TakeCharacter
<1>5. \/ /\ next.depth > st.depth /\ parsed' = parsed
         /\ buf' = IF st.depth = 0 THEN <<ch>> ELSE more
      \/ /\ next.depth < st.depth
         /\ IF st.depth = 1 THEN Complete(more) ELSE buf' = more /\ parsed' = parsed
      \/ /\ next.depth = st.depth /\ parsed' = parsed
         /\ st.depth > 0 => buf' = more
  BY <1>3 DEF TakeCharacter
<1>6. parsed' = parsed => Got' = Got
  BY GotStays
<1>7. Complete(more) => \/ \E v \in Loads(more) \cap Object : Got' = Append(Got, v)
                        \/ Loads(more) \cap Object = {} /\ Got' = Got
  BY <1>6, GotGrows DEF Complete
<1>8. st.depth \in Int /\ next.depth \in Int
  <2>1. st \in Counter /\ next \in Counter
    BY <1>3, CountMoves
  <2> QED
    BY <2>1 DEF Counter
<1>9. /\ next.depth > st.depth => Got' = Got /\ buf' = IF st.depth = 0 THEN <<ch>> ELSE more
      /\ next.depth < st.depth /\ st.depth # 1 => Got' = Got /\ buf' = more
      /\ next.depth = st.depth => Got' = Got /\ (st.depth > 0 => buf' = more)
  BY <1>5, <1>6, <1>8
<1>10. next.depth < st.depth /\ st.depth = 1 => Complete(more)
  BY <1>5, <1>8
<1>11. Scanned(buf, scan, ch, Got', buf', scan', Got)
  BY <1>3, <1>4, <1>7, <1>9, <1>10, Zenon DEF Scanned
<1> QED
  BY <1>1, <1>2, <1>3, <1>11

LEMMA JsonCharacterTaken ==
  ASSUME JsonFile(file), JsonInv, ParsedFrom(parsed), TakeCharacter
  PROVE  JsonInv'
<1>1. mode = "concat"
  BY DEF TakeCharacter
<1>2. TakenWhole(file) /\ ConcatAt(file, Got, rest, buf, scan)
  BY <1>1 DEF JsonInv
<1>3. scan.at \in Counter
  BY <1>2, ConcatCounts
<1>4. /\ rest # <<>> /\ ~(scan.fresh /\ Len(Got) >= Cap)
      /\ rest' = Tail(rest) /\ file' = file /\ mode' = mode
      /\ Scanned(buf, scan, Head(rest), Got', buf', scan', Got)
  BY <1>3, CharacterIs
<1>5. ConcatAt(file, Got', Tail(rest), buf', scan')
  BY <1>2, <1>4, ConcatGoesOn
<1> QED
  BY <1>1, <1>2, <1>4, <1>5 DEF JsonInv, JsonModes

LEMMA JsonEnded ==
  ASSUME JsonFile(file), JsonInv, ParsedFrom(parsed), EndOfInput
  PROVE  JsonInv'
<1>1. mode' = "parsed" /\ file' = file /\ parsed' = parsed
  BY DEF EndOfInput, Finish
<1>2. Got' = Got
  BY <1>1, GotStays
<1>3. mode \in {"ndjson", "concat"}
  BY DEF EndOfInput, JsonInv, JsonModes, RecordFormats
<1>4. rest = <<>> \/ Len(Got) >= Cap
  BY FullIs DEF EndOfInput
<1>5. Delivered(file, Got)
  <2>1. CASE mode = "ndjson"
    <3>1. Stands(file, Normal, Got, rest) /\ Len(Got) <= Cap /\ TakenWhole(file) /\ Normal \in Counted(file)
      BY <2>1, LinesCount DEF JsonInv, LinesAt
    <3> QED
      BY <1>4, <3>1, StandsEnds
  <2>2. CASE mode = "concat"
    <3>1. TakenWhole(file) /\ ConcatAt(file, Got, rest, buf, scan)
      BY <2>2 DEF JsonInv
    <3> QED
      BY <1>4, <3>1, ConcatEnds
  <2> QED
    BY <1>3, <2>1, <2>2
<1> QED
  BY <1>1, <1>2, <1>5, JsonEnds

\* One turn of a parser of JSON files.
LEMMA JsonTurn ==
  ASSUME JsonFile(file), JsonInv, ReadInv, ParsedFrom(parsed), file.size # "huge", Parse
  PROVE  JsonInv'
<1>1. mode \in JsonModes \cup {"idle", "parsed", "rejected"}
  BY DEF JsonInv
<1>2. ~ TakeRow /\ ~ TakeRecord
  BY <1>1 DEF TakeRow, TakeRecord, RecordFormats, JsonModes
<1>3. ParseFile \/ Probe \/ TakeLine \/ Peek \/ Load \/ ReadChunk \/ TakeElement \/ TakeCharacter \/ EndOfInput
  BY <1>2 DEF Parse
<1> QED
  BY <1>3, JsonFileParsed, JsonProbed, JsonLineTaken, JsonPeeked, JsonLoaded, JsonChunkRead,
     JsonElementTaken, JsonCharacterTaken, JsonEnded

(***************************************************************************)
(* The parsers of records tell every event once.                           *)
(***************************************************************************)

\* What counts in a file of records.
Listing(f) == IF f.fmt = ".log" THEN Range(f.parts) \ {"blank"} ELSE Object

RecordsAt(f, g, r) ==
    /\ Len(g) <= Cap
    /\ \E i \in 0..Len(f.parts) : r = From(f.parts, i) /\ Tell(g, f, Listing(f), i)

RecordsTold(f, g) ==
    IsPrefix(g, Reported(f, Listing(f))) /\ Len(g) >= Min2(Cap, Len(Reported(f, Listing(f)))) /\ Len(g) <= Cap

RecordsInv ==
    file.fmt \in RecordFormats =>
        /\ mode \in {"idle", file.fmt, "parsed", "rejected"}
        /\ mode = "idle" => parsed = <<>>
        /\ mode = file.fmt => RecordsAt(file, Got, rest)
        /\ mode = "parsed" => RecordsTold(file, Got)

LEMMA FormatsAre ==
  ASSUME NEW m \in RecordFormats
  PROVE  m \notin {"idle", "parsed", "rejected", ".json", ".csv"} /\ m \notin JsonModes
BY DEF RecordFormats, JsonModes

LEMMA RecordsStart ==
  ASSUME NEW f \in Files, f.fmt \in RecordFormats
  PROVE  RecordsAt(f, <<>>, f.parts)
<1>1. List(f.parts)
  BY RecordsTell
<1>2. Len(f.parts) \in Nat /\ From(f.parts, 0) = f.parts
  BY <1>1, ListHas, FromStart
<1>3. 0 \in 0..Len(f.parts) /\ Len(<<>>) <= Cap
  BY <1>2, NothingIsAList, CapsAre
<1> QED
  BY <1>2, <1>3, TellsNothing DEF RecordsAt

\* A record more.
LEMMA RecordPassed ==
  ASSUME NEW f \in Files, f.fmt \in RecordFormats, NEW g, NEW r, RecordsAt(f, g, r), r # <<>>, ~ Len(g) >= Cap
  PROVE  /\ Head(r) \in Listing(f) => RecordsAt(f, Append(g, Report(f, Head(r))), Tail(r))
         /\ Head(r) \notin Listing(f) => RecordsAt(f, g, Tail(r))
<1>1. PICK i \in 0..Len(f.parts) : r = From(f.parts, i) /\ Tell(g, f, Listing(f), i)
  BY DEF RecordsAt
<1>2. List(f.parts)
  BY RecordsTell
<1>3. i < Len(f.parts) /\ i + 1 \in 1..Len(f.parts) /\ Head(r) = f.parts[i + 1] /\ Tail(r) = From(f.parts, i + 1)
  BY <1>1, <1>2, FromTail
<1>4. Len(f.parts) \in Nat
  BY <1>2, ListHas
<1>5. i \in Nat /\ i + 1 \in 0..Len(f.parts)
  BY <1>3, <1>4
<1>6. List(g)
  BY <1>1 DEF Tell
<1>7. ASSUME Head(r) \in Listing(f) PROVE RecordsAt(f, Append(g, Report(f, Head(r))), Tail(r))
  <2>1. PICK h : h = Append(g, Report(f, Head(r)))
    OBVIOUS
  <2>2. f.parts[i + 1] \in Listing(f) /\ h = Append(g, Report(f, f.parts[i + 1]))
    BY <1>3, <1>7, <2>1
  <2>3. Tell(h, f, Listing(f), i + 1)
    BY <1>1, <1>5, <2>2, TellsMore
  <2>4. Len(h) <= Cap
    BY <1>6, <2>1, AppendIs, ListHas, CapsAre
  <2> QED
    BY <1>3, <1>5, <2>1, <2>3, <2>4 DEF RecordsAt
<1>8. ASSUME Head(r) \notin Listing(f) PROVE RecordsAt(f, g, Tail(r))
  <2>1. Tell(g, f, Listing(f), i + 1)
    BY <1>1, <1>3, <1>5, <1>8, TellsMore
  <2>2. Len(g) <= Cap
    BY DEF RecordsAt
  <2> QED
    BY <1>3, <1>5, <2>1, <2>2 DEF RecordsAt
<1> QED
  BY <1>7, <1>8

\* At the end or at the cap, enough is told.
LEMMA RecordsEnd ==
  ASSUME NEW f \in Files, f.fmt \in RecordFormats, NEW g, NEW r, RecordsAt(f, g, r), r = <<>> \/ Len(g) >= Cap
  PROVE  RecordsTold(f, g)
<1>1. PICK i \in 0..Len(f.parts) : r = From(f.parts, i) /\ Tell(g, f, Listing(f), i)
  BY DEF RecordsAt
<1>2. PICK n, h : n = Len(f.parts) /\ h = Reported(f, Listing(f))
  OBVIOUS
<1>3. List(f.parts) /\ Tell(h, f, Listing(f), n)
  BY <1>2, RecordsTell
<1>4. n \in Nat /\ i \in Nat /\ i <= n
  BY <1>2, <1>3, ListHas
<1>5. IsPrefix(g, h) /\ Len(g) <= Len(h)
  BY <1>1, <1>3, <1>4, TellsFirst
<1>6. Len(g) \in Nat /\ Len(h) \in Nat /\ Len(g) <= Cap
  BY <1>1, <1>3, ListHas DEF Tell, RecordsAt
<1>7. Len(g) >= Min2(Cap, Len(h))
  <2>1. CASE Len(g) >= Cap
    BY <1>6, <2>1, CapsAre DEF Min2
  <2>2. CASE r = <<>>
    <3>1. Len(r) = n - i /\ Len(r) = 0
      BY <1>1, <1>2, <1>3, <2>2, FromIs, NothingIsAList
    <3>2. i = n
      BY <1>4, <3>1
    <3>3. Len(g) = Len(h)
      BY <1>1, <1>3, <3>2 DEF Tell
    <3> QED
      BY <1>6, <3>3, CapsAre DEF Min2
  <2> QED
    BY <2>1, <2>2
<1> QED
  BY <1>2, <1>5, <1>6, <1>7 DEF RecordsTold

LEMMA RecordsFileParsed ==
  ASSUME file \in Files, file.fmt \in RecordFormats, RecordsInv, ParseFile
  PROVE  RecordsInv'
<1>1. mode = "idle" /\ mode' = file.fmt /\ rest' = file.parts /\ file' = file /\ parsed' = parsed
  BY FormatsAre DEF ParseFile
<1>2. Got = <<>>
  <2>1. parsed = <<>> /\ Got = GotOf(parsed)
    BY <1>1 DEF RecordsInv, Got, GotOf
  <2> QED
    BY <2>1, GotNothing
<1>3. Got' = <<>>
  BY <1>1, <1>2, GotStays
<1>4. RecordsAt(file, <<>>, file.parts)
  BY RecordsStart
<1> QED
  BY <1>1, <1>3, <1>4, FormatsAre DEF RecordsInv

LEMMA RecordTaken ==
  ASSUME file \in Files, file.fmt \in RecordFormats, RecordsInv, ParsedFrom(parsed), TakeRecord
  PROVE  RecordsInv'
<1>1. mode \in RecordFormats /\ rest # <<>> /\ ~ Full
  BY DEF TakeRecord
<1>2. mode = file.fmt /\ RecordsAt(file, Got, rest) /\ ~ Len(Got) >= Cap
  BY <1>1, FormatsAre, FullIs DEF RecordsInv
<1>3. PICK part : part = Head(rest)
  OBVIOUS
<1>4. \/ mode' = "rejected" /\ file' = file
      \/ /\ rest' = Tail(rest) /\ UNCHANGED <<file, mode, buf, scan>>
         /\ parsed' = IF part \in Object \/ (mode = ".log" /\ part \in Loose)
                      THEN Append(parsed, Made(part)) ELSE IF mode = ".log" /\ part # "blank" THEN Append(parsed, Made("raw"))
                      ELSE parsed
  BY <1>3 DEF TakeRecord, Finish
<1>5. CASE mode' = "rejected" /\ file' = file
  BY <1>5, FormatsAre DEF RecordsInv
<1>6. CASE /\ rest' = Tail(rest) /\ UNCHANGED <<file, mode, buf, scan>>
           /\ parsed' = IF part \in Object \/ (mode = ".log" /\ part \in Loose)
                        THEN Append(parsed, Made(part)) ELSE IF mode = ".log" /\ part # "blank" THEN Append(parsed, Made("raw"))
                        ELSE parsed
  <2>1. part \in Normal => part # "blank"
    BY IngestAssumption, Zenon DEF Valid, Normal
  <2>2. part \in Range(file.parts)
    <3>1. PICK i \in 0..Len(file.parts) : rest = From(file.parts, i)
      BY <1>2 DEF RecordsAt
    <3>2. List(file.parts)
      BY RecordsTell
    <3>3. i + 1 \in 1..Len(file.parts) /\ part = file.parts[i + 1]
      BY <1>1, <1>3, <3>1, <3>2, FromTail
    <3>4. i + 1 \in DOMAIN file.parts
      BY <3>2, <3>3, ListHas
    <3> QED
      BY <3>3, <3>4 DEF Range
  <2>3. CASE part \in Object \/ (mode = ".log" /\ part \in Loose)
    <3>1. part \in Listing(file) /\ Report(file, part) = part
      BY <1>2, <2>1, <2>2, <2>3 DEF Listing, Report, Normal
    <3>2. RecordsAt(file, Append(Got, part), Tail(rest))
      BY <1>1, <1>2, <1>3, <3>1, RecordPassed
    <3>3. Got' = Append(Got, part)
      <4>1. parsed' = Append(parsed, Made(part))
        BY <1>6, <2>3
      <4> QED
        BY <4>1, GotGrows
    <3> QED
      BY <1>2, <1>6, <3>2, <3>3, FormatsAre DEF RecordsInv
  <2>4. CASE part \notin Normal /\ mode = ".log" /\ part # "blank"
    <3>1. part \in Listing(file) /\ Report(file, part) = "raw"
      BY <1>2, <2>2, <2>4 DEF Listing, Report
    <3>2. RecordsAt(file, Append(Got, "raw"), Tail(rest))
      BY <1>1, <1>2, <1>3, <3>1, RecordPassed
    <3>3. Got' = Append(Got, "raw")
      <4>1. parsed' = Append(parsed, Made("raw"))
        BY <1>6, <2>4 DEF Normal
      <4> QED
        BY <4>1, GotGrows
    <3> QED
      BY <1>2, <1>6, <3>2, <3>3, FormatsAre DEF RecordsInv
  <2>5. CASE /\ ~(part \in Object \/ (mode = ".log" /\ part \in Loose))
             /\ ~(mode = ".log" /\ part # "blank")
    <3>1. part \notin Listing(file)
      BY <1>2, <2>5 DEF Listing
    <3>2. RecordsAt(file, Got, Tail(rest))
      BY <1>1, <1>2, <1>3, <3>1, RecordPassed
    <3>3. Got' = Got
      BY <1>6, <2>5, GotStays
    <3> QED
      BY <1>2, <1>6, <3>2, <3>3, FormatsAre DEF RecordsInv
  <2> QED
    BY <2>3, <2>4, <2>5 DEF Normal
<1> QED
  BY <1>4, <1>5, <1>6

LEMMA RecordsEnded ==
  ASSUME file \in Files, file.fmt \in RecordFormats, RecordsInv, ParsedFrom(parsed), EndOfInput
  PROVE  RecordsInv'
<1>1. mode' = "parsed" /\ file' = file /\ parsed' = parsed
  BY DEF EndOfInput, Finish
<1>2. mode = file.fmt
  BY FormatsAre DEF EndOfInput, RecordsInv
<1>3. RecordsAt(file, Got, rest) /\ (rest = <<>> \/ Len(Got) >= Cap)
  BY <1>2, FullIs DEF RecordsInv, EndOfInput
<1>4. RecordsTold(file, Got) /\ Got' = Got
  BY <1>1, <1>3, RecordsEnd, GotStays
<1> QED
  BY <1>1, <1>4, FormatsAre DEF RecordsInv

\* One turn of a parser of records.
LEMMA RecordsTurn ==
  ASSUME file \in Files, file.fmt \in RecordFormats, RecordsInv, ParsedFrom(parsed), Parse
  PROVE  RecordsInv'
<1>1. mode \in {"idle", file.fmt, "parsed", "rejected"} /\ mode \notin JsonModes /\ mode # ".csv"
  <2>1. mode \in {"idle", file.fmt, "parsed", "rejected"}
    BY DEF RecordsInv
  <2> QED
    BY <2>1, FormatsAre DEF JsonModes
<1>2. ~ Probe /\ ~ Peek
  BY <1>1, Zenon DEF Probe, Peek, JsonModes
<1>3. ~ TakeElement
  BY <1>1, Zenon DEF TakeElement, JsonModes
<1>4. ~ TakeLine /\ ~ Load /\ ~ ReadChunk /\ ~ TakeCharacter /\ ~ TakeRow
  BY <1>1 DEF TakeLine, Load, ReadChunk, TakeCharacter, TakeRow, JsonModes
<1>5. ParseFile \/ TakeRecord \/ EndOfInput
  BY <1>2, <1>3, <1>4 DEF Parse
<1> QED
  BY <1>5, RecordsFileParsed, RecordTaken, RecordsEnded

(***************************************************************************)
(* Every event of an accepted file is told once.                           *)
(***************************************************************************)

OnceInv ==
    /\ stage = "parsing" => file.size # "huge"
    /\ mode # "idle" => file.fmt \in Accepted
    /\ JsonInv
    /\ RecordsInv

LEMMA OnceInitially == Init => OnceInv
<1> SUFFICES ASSUME Init PROVE OnceInv
  OBVIOUS
<1>1. stage = "received" /\ mode = "idle" /\ parsed = <<>>
  BY DEF Init, IngestInit
<1>2. JsonInv
  BY <1>1 DEF JsonInv
<1>3. RecordsInv
  BY <1>1, FormatsAre DEF RecordsInv
<1> QED
  BY <1>1, <1>2, <1>3 DEF OnceInv

LEMMA OnceStays ==
  ASSUME OnceInv, UNCHANGED ingestVars, stage' = "parsing" => stage = "parsing" \/ file.size # "huge"
  PROVE  OnceInv'
<1>1. file' = file /\ mode' = mode /\ rest' = rest /\ buf' = buf /\ scan' = scan /\ parsed' = parsed
  BY DEF ingestVars
<1>2. Got' = Got
  BY <1>1, GotStays
<1>3. JsonInv'
  BY <1>1, <1>2 DEF OnceInv, JsonInv
<1>4. RecordsInv'
  BY <1>1, <1>2 DEF OnceInv, RecordsInv
<1> QED
  BY <1>1, <1>3, <1>4 DEF OnceInv

LEMMA OnceStep == PipelineInv /\ TurnInv /\ OnceInv /\ [Next]_vars => OnceInv'
<1> SUFFICES ASSUME PipelineInv, TurnInv, OnceInv, [Next]_vars PROVE OnceInv'
  OBVIOUS
<1>1. CASE Receive
  <2>1. UNCHANGED ingestVars /\ (stage' = "parsing" => file.size # "huge")
    BY <1>1 DEF Receive
  <2> QED
    BY <2>1, OnceStays
<1>2. CASE ParseSome
  <2>1. stage = "parsing" /\ stage' = "parsing" /\ Parse
    BY <1>2 DEF ParseSome
  <2>2. file \in Files /\ file.fmt \in Accepted /\ file.size # "huge" /\ ParsedFrom(parsed) /\ mode \in Modes
    BY <2>1 DEF PipelineInv, FileInv, OnceInv
  <2>3. file' = file
    BY <2>1, <2>2, ParsingReads
  <2>4. JsonInv'
    <3>1. SUFFICES ASSUME JsonFile(file) PROVE JsonInv'
      BY <2>3 DEF JsonInv
    <3> QED
      BY <2>1, <2>2, <3>1, JsonTurn DEF OnceInv, TurnInv
  <2>5. RecordsInv'
    <3>1. SUFFICES ASSUME file.fmt \in RecordFormats PROVE RecordsInv'
      BY <2>3 DEF RecordsInv
    <3> QED
      BY <2>1, <2>2, <3>1, RecordsTurn DEF OnceInv
  <2> QED
    BY <2>2, <2>3, <2>4, <2>5 DEF OnceInv
<1>3. CASE \/ Parsed \/ Refuse \/ Evaluate \/ DrawEvent \/ CutGraph \/ KeepParent
           \/ FinishDrawing \/ Group \/ Respond \/ UNCHANGED vars
  <2>1. UNCHANGED ingestVars
    BY <1>3 DEF Parsed, Refuse, Evaluate, DrawEvent, CutGraph, KeepParent, FinishDrawing, Group, Respond, vars
  <2>2. stage' = "parsing" => stage = "parsing"
    BY <1>3 DEF Parsed, Refuse, Evaluate, DrawEvent, CutGraph, KeepParent, FinishDrawing, Group, Respond, vars
  <2> QED
    BY <2>1, <2>2, OnceStays
<1> QED
  BY <1>1, <1>2, <1>3 DEF Next

LEMMA OnceTold == PipelineInv /\ OnceInv => EveryEventOnce
<1> SUFFICES ASSUME PipelineInv, OnceInv, mode = "parsed", file.fmt # ".csv",
                    file.fmt = ".json" => Range(file.parts) \subseteq Valid
             PROVE  \E S \in Counted(file) :
                        /\ IsPrefix(Got, Reported(file, S))
                        /\ Len(Got) >= Min2(Cap, Len(Reported(file, S)))
                        /\ file.fmt # ".json" \/ file.sep # <<>> \/ file.shape = "array" => Len(Got) <= Cap
  BY DEF EveryEventOnce
<1>1. file \in Files /\ file.fmt \in {".json"} \cup RecordFormats
  BY DEF PipelineInv, FileInv, OnceInv, Accepted
<1>2. CASE file.fmt = ".json"
  <2>1. JsonFile(file)
    BY <1>1, <1>2 DEF JsonFile
  <2>2. Delivered(file, Got)
    BY <2>1 DEF OnceInv, JsonInv
  <2> QED
    BY <1>2, <2>2 DEF Delivered
<1>3. CASE file.fmt \in RecordFormats
  <2>1. RecordsTold(file, Got)
    BY <1>3 DEF OnceInv, RecordsInv
  <2>2. Listing(file) \in Counted(file)
    BY <1>3 DEF Listing, Counted, RecordFormats
  <2> QED
    BY <2>1, <2>2 DEF RecordsTold
<1> QED
  BY <1>1, <1>2, <1>3

\* Whatever the cuts of the chunks, the parsers tried, the braces inside strings and the end
\* of an interrupted upload, an accepted file gives the first Cap events it reports, each
\* once and in its place; the strings and lists that _normalize makes events of are all
\* among them or all left out (parse_file and the parsers of ingest.py).
THEOREM EventsOnce == Spec => []EveryEventOnce
<1>1. Init => TurnInv /\ OnceInv
  BY TurnInitially, OnceInitially
<1>2. PipelineInv /\ TurnInv /\ PipelineInv' /\ [Next]_vars => TurnInv'
  BY TurnStep
<1>3. PipelineInv /\ TurnInv /\ OnceInv /\ [Next]_vars => OnceInv'
  BY OnceStep
<1>4. PipelineInv /\ OnceInv => EveryEventOnce
  BY OnceTold
<1> QED
  BY <1>1, <1>2, <1>3, <1>4, PipelineInvariant, PTL DEF Spec
=================================================================================
