------------------------------ MODULE HuntIR_proofs -----------------------------
(***************************************************************************)
(* Proofs about hunt queries, for any predicates, steps, relations and     *)
(* datasets and any of the limits of hunt_ir.py: validation only leaves    *)
(* references to steps that are there, and the executor answers what the   *)
(* query means, although it compares with the earliest or the latest       *)
(* partner only and applies the relations in turn.                         *)
(***************************************************************************)
EXTENDS HuntIR, FiniteSetTheorems, SequenceTheorems, TLAPS

(***************************************************************************)
(* Finite sets of numbers.                                                 *)
(***************************************************************************)

\* A finite set that has elements has a least one for any total order: removing one
\* from a smallest set without a least element leaves one with a least element.
LEMMA LeastExists ==
  ASSUME NEW S \in SUBSET Int, IsFiniteSet(S), S # {}
  PROVE  \E x \in S : \A y \in S : x <= y
<1> DEFINE Counter == {T \in FiniteSubsetsOf(Int) : T # {} /\ ~\E x \in T : \A y \in T : x <= y}
<1> SUFFICES ASSUME Counter # {} PROVE FALSE
  BY DEF FiniteSubsetsOf
<1>1. IsWellFoundedOn(StrictSubsetOrdering(Int), FiniteSubsetsOf(Int))
  BY FS_StrictSubsetOrderingWellFounded
<1>2. Counter \subseteq FiniteSubsetsOf(Int)
  OBVIOUS
<1>3. PICK T \in Counter : \A U \in Counter : ~(<<U, T>> \in StrictSubsetOrdering(Int))
  <2> HIDE DEF Counter
  <2> QED
    BY <1>1, <1>2, WFMin
<1>4. PICK t \in T : TRUE
  BY <1>3
<1> DEFINE U == T \ {t}
<1>5. T \in SUBSET Int /\ IsFiniteSet(T) /\ t \in Int
  BY <1>3 DEF FiniteSubsetsOf
<1>6. U \in FiniteSubsetsOf(Int)
  BY <1>5, FS_RemoveElement DEF FiniteSubsetsOf
<1>7. <<U, T>> \in StrictSubsetOrdering(Int)
  BY <1>4, <1>5 DEF StrictSubsetOrdering
<1>8. CASE U = {}
  <2>1. T = {t}
    BY <1>8, <1>4
  <2>2. \A y \in T : t <= y
    BY <2>1, <1>5
  <2> QED
    BY <2>2, <1>3, <1>4
<1>9. CASE U # {}
  <2>1. U \notin Counter
    BY <1>3, <1>7
  <2>2. PICK x \in U : \A y \in U : x <= y
    BY <2>1, <1>6, <1>9
  <2>3. x \in Int /\ \A y \in U : y \in Int
    BY <1>5
  <2>4. CASE x <= t
    <3>1. \A y \in T : x <= y
      BY <2>2, <2>4
    <3> QED
      BY <3>1, <1>3
  <2>5. CASE ~(x <= t)
    <3>1. \A y \in T : t <= y
      BY <2>2, <2>3, <2>5, <1>5
    <3> QED
      BY <3>1, <1>3, <1>4
  <2> QED
    BY <2>4, <2>5
<1> QED
  BY <1>8, <1>9

LEMMA ImageFinite ==
  ASSUME NEW S, IsFiniteSet(S), NEW f, DOMAIN f = S, f = [x \in S |-> f[x]]
  PROVE  IsFiniteSet({f[x] : x \in S})
<1> DEFINE T == {f[x] : x \in S}
<1>1. f \in [S -> T]
  OBVIOUS
<1>2. f \in Surjection(S, T)
  BY <1>1 DEF Surjection
<1> QED
  BY <1>2, FS_Surjection

\* The greatest one is the one whose negative is least.
LEMMA GreatestExists ==
  ASSUME NEW S \in SUBSET Int, IsFiniteSet(S), S # {}
  PROVE  \E x \in S : \A y \in S : x >= y
<1> DEFINE f == [x \in S |-> -x]
           T == {f[x] : x \in S}
<1>1. IsFiniteSet(T)
  BY ImageFinite
<1>2. \A x \in S : f[x] = -x /\ -x \in Int /\ f[x] \in T
  OBVIOUS
<1>3. PICK t \in T : \A y \in T : t <= y
  <2>1. T \in SUBSET Int /\ T # {}
    BY <1>2
  <2> HIDE DEF T
  <2> QED
    BY <1>1, <2>1, LeastExists
<1>4. PICK x \in S : t = f[x]
  BY <1>3
<1>5. ASSUME NEW y \in S PROVE x >= y
  <2>1. -x <= -y
    BY <1>2, <1>3, <1>4
  <2> QED
    BY <2>1
<1> QED
  BY <1>5

LEMMA MinIsLeast ==
  ASSUME NEW S \in SUBSET Int, IsFiniteSet(S), S # {}
  PROVE  Min(S) \in S /\ \A y \in S : Min(S) <= y
BY LeastExists DEF Min

LEMMA MaxIsGreatest ==
  ASSUME NEW S \in SUBSET Int, IsFiniteSet(S), S # {}
  PROVE  Max(S) \in S /\ \A y \in S : Max(S) >= y
BY GreatestExists DEF Max

LEMMA MinOfTwo ==
  ASSUME NEW m \in Int, NEW n \in Int
  PROVE  Min({m, n}) = IF m <= n THEN m ELSE n
BY DEF Min

LEMMA MaxOfTwo ==
  ASSUME NEW m \in Int, NEW n \in Int
  PROVE  Max({m, n}) = IF m >= n THEN m ELSE n
BY DEF Max

(***************************************************************************)
(* Types.                                                                  *)
(***************************************************************************)

StepSet == [id : Id, mode : {"all", "any"}, preds : SUBSET Pred]
RelationSet == [type : {"after", "same", "within"}, left : Id, right : Id, secs : Int]

\* The lists grow with what was looked at, which is bounded.
IRTyped ==
    /\ stage \in {"steps", "relations", "rejected", "match", "relate", "done"}
    /\ count \in Nat
    /\ stage = "steps" => count <= MaxSteps /\ Len(steps) <= count /\ relations = <<>>
    /\ stage = "relations" => count <= MaxRelations /\ Len(relations) <= count
    /\ stage \notin {"steps", "relations"} => count = 0
    /\ steps \in Seq(StepSet) /\ Len(steps) <= MaxSteps
    /\ relations \in Seq(RelationSet) /\ Len(relations) <= MaxRelations

LEMMA Limits ==
  /\ MaxSteps \in Nat /\ MaxSteps > 0 /\ MaxRelations \in Nat /\ MaxRelations > 0
  /\ MaxWindow \in Nat /\ MaxWindow > 0 /\ MaxMatches \in Nat /\ MaxMatches > 0
  /\ MaxResults \in Nat /\ MaxResults > 0
BY HuntIRAssumption

LEMMA ClampType ==
  ASSUME NEW secs \in Int
  PROVE  Clamp(secs) \in Int
<1>1. Min({secs, MaxWindow}) \in Int
  BY Limits, MinOfTwo
<1> QED
  BY <1>1, MaxOfTwo DEF Clamp

LEMMA RenamedType ==
  ASSUME IRTyped, NEW raw \in RawSteps
  PROVE  Renamed(raw.id) \in Id
<1>1. raw.id \in Seq(Nat) /\ raw.id # <<>> /\ count \in Nat
  BY HuntIRAssumption DEF Id, IRTyped
<1>2. Append(raw.id, count) \in Seq(Nat) /\ Append(raw.id, count) # <<>>
  BY <1>1, AppendProperties
<1> QED
  BY <1>1, <1>2 DEF Renamed, Id

LEMMA TakeStepTyped ==
  ASSUME IRTyped, NEW raw \in RawSteps, TakeStep(raw)
  PROVE  IRTyped'
<1> DEFINE new == [id |-> Renamed(raw.id), mode |-> raw.mode, preds |-> raw.preds \cap Pred]
<1>1. new \in StepSet
  BY RenamedType, HuntIRAssumption DEF StepSet
<1>2. steps' = steps \/ steps' = Append(steps, new)
  BY DEF TakeStep
<1> HIDE DEF new
<1>3. Len(steps) \in Nat
  BY DEF IRTyped
<1>4. steps' \in Seq(StepSet) /\ Len(steps') <= Len(steps) + 1
  BY <1>1, <1>2, <1>3, AppendProperties DEF IRTyped
<1>5. /\ stage = "steps" /\ count < MaxSteps /\ count' = count + 1
      /\ stage' = stage /\ relations' = relations
  BY DEF TakeStep, ir
<1>6. Len(steps') \in Nat
  BY <1>4
<1> QED
  BY <1>3, <1>4, <1>5, <1>6, Limits DEF IRTyped

LEMMA TakeRelationTyped ==
  ASSUME IRTyped, NEW raw \in RawRelations, TakeRelation(raw)
  PROVE  IRTyped'
<1> DEFINE new == [raw EXCEPT !.secs = Clamp(@)]
<1>1. raw \in RelationSet
  BY HuntIRAssumption DEF RelationSet
<1>2. new \in RelationSet
  BY <1>1, ClampType DEF RelationSet
<1>3. relations' = relations \/ relations' = Append(relations, new)
  BY DEF TakeRelation
<1> HIDE DEF new
<1>4. Len(relations) \in Nat
  BY DEF IRTyped
<1>5. relations' \in Seq(RelationSet) /\ Len(relations') <= Len(relations) + 1
  BY <1>2, <1>3, <1>4, AppendProperties DEF IRTyped
<1>6. /\ stage = "relations" /\ count < MaxRelations /\ count' = count + 1
      /\ stage' = stage /\ steps' = steps
  BY DEF TakeRelation
<1>7. Len(relations') \in Nat
  BY <1>5
<1> QED
  BY <1>4, <1>5, <1>6, <1>7, Limits DEF IRTyped

LEMMA NextTyped ==
  ASSUME IRTyped, [Next]_vars
  PROVE  IRTyped'
<1>1. ASSUME NEW raw \in RawSteps, TakeStep(raw) PROVE IRTyped'
  BY <1>1, TakeStepTyped
<1>2. ASSUME NEW raw \in RawRelations, TakeRelation(raw) PROVE IRTyped'
  BY <1>2, TakeRelationTyped
<1>3. ASSUME EndSteps PROVE IRTyped'
  <2>1. stage = "steps" /\ relations = <<>> /\ steps' = steps /\ relations' = relations /\ count' = 0
        /\ stage' \in {"rejected", "relations"}
    BY <1>3 DEF EndSteps, ir, IRTyped
  <2> QED
    BY <2>1, Limits DEF IRTyped
<1>4. ASSUME NEW raw \in RawSteps, Choose(raw.id) PROVE IRTyped'
  BY <1>4 DEF IRTyped, Choose
<1>5. ASSUME NEW data \in Datasets, NEW previous \in Previous, Match(data, previous) PROVE IRTyped'
  BY <1>5 DEF IRTyped, Match, ir
<1>6. ASSUME Relate PROVE IRTyped'
  BY <1>6 DEF IRTyped, Relate, ir
<1>7. ASSUME Return PROVE IRTyped'
  BY <1>7 DEF IRTyped, Return, ir
<1>8. ASSUME Again PROVE IRTyped'
  BY <1>8, Limits DEF IRTyped, Again
<1>9. ASSUME UNCHANGED vars PROVE IRTyped'
  BY <1>9 DEF IRTyped, vars, ir
<1> QED
  BY <1>1, <1>2, <1>3, <1>4, <1>5, <1>6, <1>7, <1>8, <1>9 DEF Next

(***************************************************************************)
(* References.                                                             *)
(***************************************************************************)

\* Relations and the selected step name steps of the IR, from the stage on in which
\* they are made.
Refers == IRTyped /\ RefersToItsSteps

LEMMA StepIdsFrame ==
  ASSUME steps' = steps
  PROVE  StepIds' = StepIds
BY DEF StepIds

LEMMA NextRefers ==
  ASSUME IRTyped, RefersToItsSteps, [Next]_vars
  PROVE  RefersToItsSteps'
<1>1. ASSUME NEW raw \in RawSteps, TakeStep(raw) PROVE RefersToItsSteps'
  BY <1>1 DEF TakeStep, RefersToItsSteps
<1>2. ASSUME NEW raw \in RawRelations, TakeRelation(raw) PROVE RefersToItsSteps'
  <2> DEFINE new == [raw EXCEPT !.secs = Clamp(@)]
  <2>1. /\ stage = "relations" /\ stage' = stage /\ steps' = steps
        /\ \/ relations' = relations
           \/ relations' = Append(relations, new) /\ {raw.left, raw.right} \subseteq StepIds
    BY <1>2 DEF TakeRelation, ValidIds
  <2>2. raw \in RelationSet
    BY HuntIRAssumption DEF RelationSet
  <2>3. new \in RelationSet /\ new.left = raw.left /\ new.right = raw.right
    BY <2>2, ClampType DEF RelationSet
  <2> HIDE DEF new
  <2>4. /\ steps # <<>>
        /\ \A k \in DOMAIN relations : {relations[k].left, relations[k].right} \subseteq StepIds
    BY <2>1 DEF RefersToItsSteps
  <2>5. CASE relations' = relations
    BY <2>1, <2>4, <2>5, StepIdsFrame DEF RefersToItsSteps
  <2>6. CASE relations' = Append(relations, new) /\ {raw.left, raw.right} \subseteq StepIds
    <3>1. /\ relations \in Seq(RelationSet) /\ Len(relations) \in Nat
          /\ DOMAIN relations = 1..Len(relations)
      BY DEF IRTyped
    <3>2. /\ relations' \in Seq(RelationSet)
          /\ Len(relations') = Len(relations) + 1
          /\ \A k \in 1..Len(relations) : relations'[k] = relations[k]
          /\ relations'[Len(relations) + 1] = new
      BY <2>3, <2>6, <3>1, AppendProperties
    <3>3. DOMAIN relations' = 1..(Len(relations) + 1)
      BY <3>2
    <3>4. ASSUME NEW k \in DOMAIN relations'
          PROVE  {relations'[k].left, relations'[k].right} \subseteq StepIds
      <4>1. CASE k \in 1..Len(relations)
        BY <4>1, <3>1, <3>2, <2>4
      <4>2. CASE k = Len(relations) + 1
        BY <4>2, <3>2, <2>3, <2>6
      <4> QED
        BY <4>1, <4>2, <3>1, <3>3
    <3> QED
      BY <2>1, <2>4, <3>4, StepIdsFrame DEF RefersToItsSteps
  <2> QED
    BY <2>1, <2>5, <2>6
<1>3. ASSUME EndSteps PROVE RefersToItsSteps'
  <2>1. /\ stage = "steps" /\ relations = <<>> /\ steps' = steps /\ relations' = relations
        /\ stage' = IF steps = <<>> THEN "rejected" ELSE "relations"
    BY <1>3 DEF EndSteps, ir, IRTyped
  <2> QED
    BY <2>1 DEF RefersToItsSteps
<1>4. ASSUME NEW raw \in RawSteps, Choose(raw.id) PROVE RefersToItsSteps'
  <2>1. /\ stage = "relations" /\ steps' = steps /\ relations' = relations
        /\ \/ select' = raw.id /\ raw.id \in StepIds
           \/ select' = Last(steps).id
    BY <1>4 DEF Choose, ValidIds
  <2>2. steps # <<>> /\ steps \in Seq(StepSet)
    BY <2>1 DEF RefersToItsSteps, IRTyped
  <2>3. Last(steps).id \in StepIds
    <3>1. Len(steps) \in DOMAIN steps
      BY <2>2, EmptySeq, LenProperties
    <3> QED
      BY <3>1 DEF Last, StepIds
  <2> QED
    BY <2>1, <2>3, StepIdsFrame DEF RefersToItsSteps
<1>5. ASSUME \/ \E data \in Datasets, previous \in Previous : Match(data, previous)
             \/ Relate \/ Return \/ UNCHANGED vars
      PROVE RefersToItsSteps'
  <2>1. /\ steps' = steps /\ relations' = relations /\ select' = select
        /\ stage' = stage \/ stage \in {"match", "relate"}
    BY <1>5 DEF Match, Relate, Return, vars, ir
  <2> QED
    BY <2>1, StepIdsFrame DEF RefersToItsSteps
<1>6. ASSUME Again PROVE RefersToItsSteps'
  BY <1>6 DEF Again, RefersToItsSteps
<1> QED
  BY <1>1, <1>2, <1>3, <1>4, <1>5, <1>6 DEF Next

LEMMA RefersInductive == Spec => []Refers
<1>1. Init => Refers
  BY Limits, EmptySeq DEF Init, Refers, IRTyped, RefersToItsSteps
<1>2. Refers /\ [Next]_vars => Refers'
  BY NextTyped, NextRefers DEF Refers
<1> QED
  BY <1>1, <1>2, PTL DEF Spec

\* Whatever was sent, a validated IR selects and joins only steps it has
\* (hunt_ir.py:131): the executor never looks up a step that is not there.
THEOREM ReferencesResolve == Spec => []RefersToItsSteps
BY RefersInductive, PTL DEF Refers

(***************************************************************************)
(* Execution.                                                              *)
(***************************************************************************)

\* An event stands or falls with a relation by itself, whatever else is left.
Passes(rel, i) == i \in Related(rel, {i})

\* The matches of the selected step that are left after k relations.
Kept(k) == {i \in matches[select] : \A j \in 1..k : Passes(relations[j], i)}

TimesTyped ==
    /\ Len(events) \in Nat /\ DOMAIN events = 1..Len(events)
    /\ \A i \in DOMAIN events :
          events[i].ts = NoTime \/ (events[i].ts \in Int /\ events[i].ts <= AfterAll)

Sorted(s) == \A k \in 1..(Len(s) - 1) : InOrder(s[k], s[k + 1])

Returned ==
    \E s \in SetToSeqs(candidates) :
        Sorted(s) /\ result = SubSeq(s, 1, Min({Len(s), MaxResults}))

Running == stage \in {"relate", "done"}

Executed ==
    /\ matches = [id \in StepIds |-> Bounded(Satisfying(id))]
    /\ \E k \in 0..Len(relations) :
          todo = SubSeq(relations, k + 1, Len(relations)) /\ candidates = Kept(k)

QueryInv ==
    /\ TimesTyped
    /\ base \subseteq DOMAIN events
    /\ Running => Executed
    /\ ~Running => matches = <<>> /\ candidates = {}
    /\ IF stage = "done" THEN (todo = <<>> \/ candidates = {}) /\ Returned ELSE result = <<>>

LEMMA RelatedFilters ==
  ASSUME NEW rel, NEW S
  PROVE  Related(rel, S) = {i \in S : Passes(rel, i)}
BY DEF Related, Passes, SameAsSome, NearSome, LaterThanSome, EarlierThanSome

\* As long as the query, the dataset and the matches stay, so does what is derived.
LEMMA Frame ==
  ASSUME UNCHANGED <<steps, relations, select, events, base, matches>>
  PROVE  /\ \A k : Kept(k)' = Kept(k)
         /\ [id \in StepIds |-> Bounded(Satisfying(id))]'
               = [id \in StepIds |-> Bounded(Satisfying(id))]
         /\ TimesTyped' = TimesTyped
<1>1. \A rel, i : Passes(rel, i)' = Passes(rel, i)
  BY DEF Passes, Related, SameAsSome, NearSome, LaterThanSome, EarlierThanSome, Partner,
         Times, Keys, TimeOr
<1>2. ASSUME NEW k PROVE Kept(k)' = Kept(k)
  BY <1>1 DEF Kept
<1>3. \A id : Satisfying(id)' = Satisfying(id)
  BY DEF Satisfying, StepOf, Holds
<1>4. StepIds' = StepIds
  BY StepIdsFrame
<1> QED
  BY <1>2, <1>3, <1>4 DEF TimesTyped

LEMMA MatchExecutes ==
  ASSUME IRTyped, RefersToItsSteps, QueryInv,
         NEW data \in Datasets, NEW previous \in Previous, Match(data, previous)
  PROVE  QueryInv'
<1>1. /\ stage = "match" /\ stage' = "relate" /\ events' = data
      /\ base' \subseteq DOMAIN data
      /\ matches' = [id \in StepIds |-> Bounded({i \in base' : Holds(StepOf(id), data[i])})]
      /\ candidates' = matches'[select] /\ todo' = relations
      /\ steps' = steps /\ relations' = relations /\ select' = select /\ result' = result
  BY DEF Match, ir
<1>2. TimesTyped'
  <2>1. /\ Len(data) \in Nat /\ DOMAIN data = 1..Len(data)
        /\ \A i \in DOMAIN data :
              data[i].ts = NoTime \/ (data[i].ts \in Int /\ data[i].ts <= AfterAll)
    BY HuntIRAssumption
  <2> QED
    BY <1>1, <2>1 DEF TimesTyped
<1>3. matches' = [id \in StepIds |-> Bounded(Satisfying(id))]'
  <2>1. StepIds' = StepIds
    BY <1>1, StepIdsFrame
  <2>2. \A id : Satisfying(id)' = {i \in base' : Holds(StepOf(id), data[i])}
    BY <1>1 DEF Satisfying, StepOf, Holds
  <2> QED
    BY <1>1, <2>1, <2>2
<1>4. Len(relations) \in Nat /\ todo' = SubSeq(relations', 0 + 1, Len(relations'))
  BY <1>1, SubSeqFull DEF IRTyped
<1>5. candidates' = Kept(0)'
  BY <1>1 DEF Kept
<1>6. Executed'
  <2>1. Len(relations') \in Nat /\ 0 \in 0..Len(relations')
    BY <1>1, <1>4
  <2>2. \E k \in 0..Len(relations') :
           todo' = SubSeq(relations', k + 1, Len(relations')) /\ candidates' = Kept(k)'
    BY <1>4, <1>5, <2>1
  <2> QED
    BY <1>3, <2>2 DEF Executed
<1> QED
  BY <1>1, <1>2, <1>6 DEF QueryInv, Running

LEMMA RelateExecutes ==
  ASSUME IRTyped, QueryInv, Relate
  PROVE  QueryInv'
<1>1. /\ stage = "relate" /\ todo # <<>> /\ stage' = stage
      /\ candidates' = Related(Head(todo), candidates) /\ todo' = Tail(todo)
      /\ UNCHANGED <<steps, relations, select, events, base, matches, result>>
  BY DEF Relate, ir
<1>2. PICK k \in 0..Len(relations) :
         todo = SubSeq(relations, k + 1, Len(relations)) /\ candidates = Kept(k)
  BY <1>1 DEF QueryInv, Executed, Running
<1>3. relations \in Seq(RelationSet) /\ Len(relations) \in Nat /\ k \in Nat
  BY DEF IRTyped
<1>4. k + 1 \in 1..Len(relations)
  BY <1>1, <1>2, <1>3, SubSeqEmpty
<1>5. /\ Head(todo) = relations[k + 1]
      /\ Tail(todo) = SubSeq(relations, (k + 1) + 1, Len(relations))
  <2>1. Len(relations) \in (k + 1)..Len(relations)
    BY <1>3, <1>4
  <2> QED
    BY <1>2, <1>3, <1>4, <2>1, HeadTailOfSubSeq
<1>6. Related(relations[k + 1], Kept(k)) = Kept(k + 1)
  <2>1. Related(relations[k + 1], Kept(k)) = {i \in Kept(k) : Passes(relations[k + 1], i)}
    BY RelatedFilters
  <2>2. 1..(k + 1) = 1..k \cup {k + 1}
    BY <1>3
  <2> QED
    BY <2>1, <2>2 DEF Kept
<1>7. Executed'
  <2>1. /\ todo' = SubSeq(relations', (k + 1) + 1, Len(relations'))
        /\ candidates' = Kept(k + 1)' /\ k + 1 \in 0..Len(relations')
    BY <1>1, <1>2, <1>4, <1>5, <1>6, Frame
  <2>2. matches' = [id \in StepIds |-> Bounded(Satisfying(id))]'
    BY <1>1, Frame DEF QueryInv, Executed, Running
  <2>3. \E j \in 0..Len(relations') :
           todo' = SubSeq(relations', j + 1, Len(relations')) /\ candidates' = Kept(j)'
    <3> DEFINE j == k + 1
    <3> HIDE DEF j
    <3>1. todo' = SubSeq(relations', j + 1, Len(relations')) /\ candidates' = Kept(j)'
          /\ j \in 0..Len(relations')
      BY <2>1 DEF j
    <3> QED
      BY <3>1
  <2> QED
    BY <2>2, <2>3 DEF Executed
<1> QED
  BY <1>1, <1>7, Frame DEF QueryInv, Running

LEMMA ReturnExecutes ==
  ASSUME QueryInv, Return
  PROVE  QueryInv'
<1>1. /\ stage = "relate" /\ stage' = "done" /\ (todo = <<>> \/ candidates = {})
      /\ UNCHANGED <<steps, relations, select, events, base, matches, candidates, todo>>
  BY DEF Return, ir
<1>2. Executed'
  BY <1>1, Frame DEF QueryInv, Executed, Running
<1>3. Returned'
  BY <1>1 DEF Return, Returned, Sorted, InOrder
<1> QED
  BY <1>1, <1>2, <1>3, Frame DEF QueryInv, Running

LEMMA NextExecutes ==
  ASSUME IRTyped, RefersToItsSteps, QueryInv, [Next]_vars
  PROVE  QueryInv'
<1>1. ASSUME NEW data \in Datasets, NEW previous \in Previous, Match(data, previous)
      PROVE  QueryInv'
  BY <1>1, MatchExecutes
<1>2. ASSUME Relate PROVE QueryInv'
  BY <1>2, RelateExecutes
<1>3. ASSUME Return PROVE QueryInv'
  BY <1>3, ReturnExecutes
<1>4. ASSUME Again PROVE QueryInv'
  BY <1>4 DEF Again, QueryInv, TimesTyped, Running
<1>5. ASSUME \/ \E raw \in RawSteps : TakeStep(raw)
             \/ EndSteps
             \/ \E raw \in RawRelations : TakeRelation(raw)
             \/ \E raw \in RawSteps : Choose(raw.id)
      PROVE QueryInv'
  <2>1. /\ stage \notin {"relate", "done"} /\ stage' \notin {"relate", "done"}
        /\ UNCHANGED <<events, base, matches, candidates, todo, result>>
    BY <1>5 DEF TakeStep, EndSteps, TakeRelation, Choose, run
  <2> QED
    BY <2>1 DEF QueryInv, TimesTyped, Running
<1>6. ASSUME UNCHANGED vars PROVE QueryInv'
  <2>1. UNCHANGED <<stage, steps, relations, select, events, base, matches, candidates, todo, result>>
    BY <1>6 DEF vars, ir, run
  <2>2. Executed' = Executed
    BY <2>1, Frame DEF Executed
  <2>3. Returned' = Returned
    BY <2>1 DEF Returned, Sorted, InOrder
  <2> QED
    BY <2>1, <2>2, <2>3, Frame DEF QueryInv, Running
<1> QED
  BY <1>1, <1>2, <1>3, <1>4, <1>5, <1>6 DEF Next

Inv == Refers /\ QueryInv

LEMMA Inductive == Spec => []Inv
<1>1. Init => QueryInv
  BY DEF Init, QueryInv, TimesTyped, Running
<1>2. Refers /\ QueryInv /\ [Next]_vars => QueryInv'
  BY NextExecutes DEF Refers
<1>3. Spec => []Refers
  BY RefersInductive
<1> QED
  BY <1>1, <1>2, <1>3, PTL DEF Spec, Inv

(***************************************************************************)
(* Cuts.                                                                   *)
(***************************************************************************)

LEMMA RangeFinite ==
  ASSUME NEW n \in Nat, NEW S \in SUBSET (1..n)
  PROVE  IsFiniteSet(S) /\ Cardinality(S) \in Nat /\ S \in SUBSET Int
<1>1. IsFiniteSet(1..n)
  BY FS_Interval
<1>2. IsFiniteSet(S)
  BY <1>1, FS_Subset
<1>3. S \in SUBSET Int
  OBVIOUS
<1> QED
  BY <1>2, <1>3, FS_CardinalityType

\* The greatest that is kept has all the others before it, and was kept because
\* these are fewer than MaxMatches.
LEMMA BoundedFits ==
  ASSUME NEW n \in Nat, NEW S \in SUBSET (1..n)
  PROVE  Bounded(S) \subseteq S /\ Cardinality(Bounded(S)) <= MaxMatches
<1> DEFINE B == Bounded(S)
<1>1. B \subseteq S
  BY DEF Bounded
<1>2. /\ IsFiniteSet(S) /\ IsFiniteSet(B) /\ Cardinality(B) \in Nat
      /\ B \in SUBSET Int
  <2> HIDE DEF B
  <2> QED
    BY <1>1, RangeFinite
<1>3. CASE B = {}
  BY <1>1, <1>3, FS_EmptySet, Limits
<1>4. CASE B # {}
  <2>1. PICK m \in B : \A j \in B : m >= j
    <3> HIDE DEF B
    <3> QED
      BY <1>2, <1>4, GreatestExists
  <2> DEFINE Before == {j \in S : j < m}
  <2>2. Cardinality(Before) < MaxMatches
    BY <2>1 DEF Bounded
  <2>3. B \ {m} \subseteq Before
    <3>1. \A j \in B : j \in S /\ j \in Int
      BY <1>1, <1>2
    <3> HIDE DEF B
    <3> QED
      BY <2>1, <3>1, <1>2
  <2>4. IsFiniteSet(Before) /\ Cardinality(Before) \in Nat
    BY RangeFinite
  <2>5. Cardinality(B \ {m}) <= Cardinality(Before)
    <3> HIDE DEF B, Before
    <3> QED
      BY <2>3, <2>4, FS_Subset
  <2>6. Cardinality(B \ {m}) = Cardinality(B) - 1
    <3> HIDE DEF B
    <3> QED
      BY <1>2, <2>1, FS_RemoveElement
  <2> QED
    BY <1>1, <1>2, <2>2, <2>4, <2>5, <2>6, Limits
<1> QED
  BY <1>3, <1>4

LEMMA BoundedKeepsAll ==
  ASSUME NEW n \in Nat, NEW S \in SUBSET (1..n), Cardinality(S) <= MaxMatches
  PROVE  Bounded(S) = S
<1> SUFFICES ASSUME NEW i \in S PROVE Cardinality({j \in S : j < i}) < MaxMatches
  BY DEF Bounded
<1> DEFINE Before == {j \in S : j < i}
<1>1. IsFiniteSet(S) /\ Cardinality(S) \in Nat
  BY RangeFinite
<1>2. IsFiniteSet(Before) /\ Cardinality(Before) \in Nat
  BY RangeFinite
<1>3. i \notin Before /\ Before \subseteq S
  OBVIOUS
<1>4. Cardinality(Before) <= Cardinality(S) /\ Cardinality(Before) # Cardinality(S)
  <2> HIDE DEF Before
  <2> QED
    BY <1>1, <1>3, FS_Subset
<1> QED
  BY <1>1, <1>2, <1>4, Limits

LEMMA Listing ==
  ASSUME NEW C, IsFiniteSet(C), NEW s \in SetToSeqs(C)
  PROVE  /\ s \in Seq(C) /\ Len(s) = Cardinality(C) /\ Len(s) \in Nat
         /\ \A i \in C : \E k \in 1..Len(s) : s[k] = i
<1>1. Cardinality(C) \in Nat
  BY FS_CardinalityType
<1>2. s \in [1..Cardinality(C) -> C]
      /\ \A i, j \in 1..Cardinality(C) : i # j => s[i] # s[j]
  BY DEF SetToSeqs
<1>3. s \in Seq(C) /\ Len(s) = Cardinality(C)
  BY <1>1, <1>2
<1>4. s \in Injection(1..Cardinality(C), C)
  BY <1>2 DEF Injection, IsInjective
<1>5. s \in Surjection(1..Cardinality(C), C)
  <2>1. IsFiniteSet(1..Cardinality(C)) /\ Cardinality(1..Cardinality(C)) = Cardinality(C)
    BY <1>1, FS_Interval
  <2> QED
    BY <2>1, <1>4, FS_Injection
<1> QED
  BY <1>1, <1>3, <1>5 DEF Surjection

LEMMA InOrderTransitive ==
  ASSUME TimesTyped, NEW i \in DOMAIN events, NEW j \in DOMAIN events, NEW l \in DOMAIN events,
         InOrder(i, j), InOrder(j, l)
  PROVE  InOrder(i, l)
<1>1. CASE events[l].ts = NoTime
  BY <1>1 DEF InOrder
<1>2. CASE events[l].ts # NoTime
  <2>1. events[j].ts # NoTime /\ events[j].ts <= events[l].ts
    BY <1>2 DEF InOrder
  <2>2. events[i].ts # NoTime /\ events[i].ts <= events[j].ts
    BY <2>1 DEF InOrder
  <2>3. events[i].ts \in Int /\ events[j].ts \in Int /\ events[l].ts \in Int
    BY <1>2, <2>1, <2>2 DEF TimesTyped
  <2>4. events[i].ts <= events[l].ts
    BY <2>1, <2>2, <2>3
  <2> QED
    BY <1>2, <2>2, <2>4 DEF InOrder
<1> QED
  BY <1>1, <1>2

\* Sorted neighbours are sorted at any distance: otherwise take the first position
\* that is not in order with an earlier one.
LEMMA SortedAnywhere ==
  ASSUME TimesTyped, NEW s \in Seq(DOMAIN events), Sorted(s),
         NEW a \in 1..Len(s), NEW b \in 1..Len(s), a < b
  PROVE  InOrder(s[a], s[b])
<1> DEFINE Wrong == {k \in (a + 1)..Len(s) : ~InOrder(s[a], s[k])}
<1> SUFFICES ASSUME Wrong # {} PROVE FALSE
  BY LenProperties
<1>1. Len(s) \in Nat /\ a \in Nat /\ \A k \in 1..Len(s) : s[k] \in DOMAIN events
  BY LenProperties
<1>2. IsFiniteSet(Wrong) /\ Wrong \in SUBSET Int
  <2>1. Wrong \in SUBSET (1..Len(s))
    BY <1>1
  <2> HIDE DEF Wrong
  <2> QED
    BY <1>1, <2>1, RangeFinite
<1>3. PICK k \in Wrong : \A j \in Wrong : k <= j
  <2> HIDE DEF Wrong
  <2> QED
    BY <1>2, LeastExists
<1>4. k \in (a + 1)..Len(s) /\ ~InOrder(s[a], s[k])
  BY <1>3
<1>5. CASE k = a + 1
  <2>1. InOrder(s[a], s[a + 1])
    BY <1>1, <1>4, <1>5 DEF Sorted
  <2> QED
    BY <2>1, <1>4, <1>5
<1>6. CASE k # a + 1
  <2>1. k - 1 \in (a + 1)..Len(s) /\ ~(k <= k - 1)
    BY <1>1, <1>4, <1>6
  <2>2. InOrder(s[a], s[k - 1])
    BY <1>3, <2>1
  <2>3. InOrder(s[k - 1], s[k])
    <3>1. k - 1 \in 1..(Len(s) - 1) /\ (k - 1) + 1 = k
      BY <1>1, <1>4, <2>1
    <3> QED
      BY <3>1 DEF Sorted
  <2>4. s[a] \in DOMAIN events /\ s[k - 1] \in DOMAIN events /\ s[k] \in DOMAIN events
    BY <1>1, <1>4, <2>1
  <2> QED
    BY <2>2, <2>3, <2>4, <1>4, InOrderTransitive
<1> QED
  BY <1>5, <1>6

\* What the executor returns, in terms of the candidates that were left.
LEMMA ReturnedAnswers ==
  ASSUME TimesTyped, candidates \subseteq DOMAIN events, Returned
  PROVE  /\ Len(result) <= MaxResults
         /\ Answers \subseteq candidates
         /\ Cardinality(candidates) <= MaxResults => Answers = candidates
         /\ \A i \in Answers, j \in candidates \ Answers : InOrder(i, j)
<1>1. Len(events) \in Nat /\ candidates \in SUBSET (1..Len(events))
  BY DEF TimesTyped
<1>2. IsFiniteSet(candidates)
  BY <1>1, RangeFinite
<1>3. PICK s \in SetToSeqs(candidates) :
         Sorted(s) /\ result = SubSeq(s, 1, Min({Len(s), MaxResults}))
  BY DEF Returned
<1>4. /\ s \in Seq(candidates) /\ Len(s) = Cardinality(candidates) /\ Len(s) \in Nat
      /\ \A i \in candidates : \E k \in 1..Len(s) : s[k] = i
  BY <1>2, Listing
<1> DEFINE n == IF Len(s) <= MaxResults THEN Len(s) ELSE MaxResults
<1>5. n \in Nat /\ n <= MaxResults /\ n <= Len(s) /\ (Len(s) <= MaxResults => n = Len(s))
  BY <1>4, Limits
<1>0. 1..n \subseteq 1..Len(s)
  <2> HIDE DEF n
  <2> QED
    BY <1>4, <1>5
<1>6. result = SubSeq(s, 1, n)
  BY <1>3, <1>4, MinOfTwo, Limits
<1> HIDE DEF n
<1>7. DOMAIN s = 1..Len(s) /\ \A k \in 1..Len(s) : s[k] \in candidates
  BY <1>4, LenProperties
<1>8. /\ result \in Seq(candidates) /\ Len(result) = n
      /\ \A k \in 1..n : result[k] = s[k]
  <2>1. \A k \in 1..n : s[k] \in candidates
    BY <1>0, <1>7
  <2>2. /\ SubSeq(s, 1, n) \in Seq(candidates)
        /\ Len(SubSeq(s, 1, n)) = IF 1 <= n THEN n - 1 + 1 ELSE 0
        /\ \A k \in 1..(n - 1 + 1) : SubSeq(s, 1, n)[k] = s[1 + k - 1]
    BY <1>5, <2>1, SubSeqProperties
  <2>3. n - 1 + 1 = n /\ \A k \in 1..n : 1 + k - 1 = k
    BY <1>5
  <2> QED
    BY <1>5, <1>6, <2>2, <2>3
<1>9. DOMAIN result = 1..n
  BY <1>8, LenProperties
<1>10. Answers = {s[k] : k \in 1..n}
  BY <1>8, <1>9 DEF Answers
<1>11. Answers \subseteq candidates
  BY <1>0, <1>7, <1>10
<1>12. ASSUME Cardinality(candidates) <= MaxResults PROVE candidates \subseteq Answers
  <2>1. n = Len(s)
    BY <1>4, <1>5, <1>12
  <2> QED
    BY <1>4, <1>10, <2>1
<1>13. ASSUME NEW i \in Answers, NEW j \in candidates \ Answers PROVE InOrder(i, j)
  <2>1. PICK a \in 1..n : i = s[a]
    BY <1>10
  <2>2. PICK b \in 1..Len(s) : j = s[b]
    BY <1>4
  <2>3. ~(b \in 1..n)
    BY <1>10, <2>2
  <2>4. a \in 1..Len(s) /\ a < b
    BY <1>4, <1>5, <2>1, <2>2, <2>3
  <2>5. s \in Seq(DOMAIN events)
    BY <1>4, SeqMonotonic
  <2> QED
    BY <1>3, <2>1, <2>2, <2>4, <2>5, SortedAnywhere
<1> QED
  BY <1>5, <1>8, <1>11, <1>12, <1>13

(***************************************************************************)
(* What a relation asks of one event.                                      *)
(***************************************************************************)

\* The matches of a step, and the times among them.
LEMMA MatchesOf ==
  ASSUME Inv, Running, NEW id \in StepIds
  PROVE  /\ matches[id] = Bounded(Satisfying(id))
         /\ matches[id] \subseteq Satisfying(id)
         /\ Satisfying(id) \subseteq base /\ base \subseteq DOMAIN events
         /\ Cardinality(matches[id]) <= MaxMatches
         /\ Cardinality(Satisfying(id)) <= MaxMatches => matches[id] = Satisfying(id)
<1>1. matches[id] = Bounded(Satisfying(id))
  BY DEF Inv, QueryInv, Executed
<1>2. Satisfying(id) \subseteq base /\ base \subseteq DOMAIN events
  BY DEF Satisfying, Inv, QueryInv
<1>3. Len(events) \in Nat /\ Satisfying(id) \in SUBSET (1..Len(events))
  BY <1>2 DEF Inv, QueryInv, TimesTyped
<1> QED
  BY <1>1, <1>2, <1>3, BoundedFits, BoundedKeepsAll

LEMMA TimesOf ==
  ASSUME Inv, Running, NEW id \in StepIds
  PROVE  /\ Times(id) \in SUBSET Int /\ IsFiniteSet(Times(id))
         /\ \A t \in Times(id) :
               t <= AfterAll /\ \E j \in Satisfying(id) : events[j].ts # NoTime /\ events[j].ts = t
         /\ \A j \in matches[id] : events[j].ts # NoTime => events[j].ts \in Times(id)
<1> DEFINE M == matches[id]
           f == [j \in M |-> events[j].ts]
           T == {f[j] : j \in M}
<1>1. /\ M \subseteq Satisfying(id) /\ M \subseteq DOMAIN events
      /\ Len(events) \in Nat /\ DOMAIN events = 1..Len(events)
  BY MatchesOf DEF Inv, QueryInv, TimesTyped
<1>2. IsFiniteSet(M)
  <2> HIDE DEF M
  <2> QED
    BY <1>1, RangeFinite
<1>3. IsFiniteSet(T)
  <2> DEFINE g == f
  <2>1. DOMAIN f = M /\ f = [j \in M |-> f[j]]
    OBVIOUS
  <2> HIDE DEF M, f
  <2> QED
    BY <1>2, <2>1, ImageFinite
<1>4. T = {events[j].ts : j \in M}
  OBVIOUS
<1>5. Times(id) = T \ {NoTime}
  BY <1>4 DEF Times
<1>6. IsFiniteSet(Times(id))
  <2> HIDE DEF T
  <2> QED
    BY <1>3, <1>5, FS_Subset
<1> HIDE DEF M, T, f
<1>7. ASSUME NEW t \in Times(id)
      PROVE  /\ t \in Int /\ t <= AfterAll
             /\ \E j \in Satisfying(id) : events[j].ts # NoTime /\ events[j].ts = t
  <2>1. PICK j \in M : t = events[j].ts /\ t # NoTime
    BY <1>4, <1>5
  <2>2. t \in Int /\ t <= AfterAll
    BY <1>1, <2>1 DEF Inv, QueryInv, TimesTyped
  <2> QED
    BY <1>1, <2>1, <2>2
<1>8. \A j \in M : events[j].ts # NoTime => events[j].ts \in Times(id)
  BY <1>4, <1>5
<1> QED
  BY <1>6, <1>7, <1>8 DEF M

LEMMA ConstraintsAreRelations ==
  ASSUME Inv, Running, NEW rel \in Constraints
  PROVE  /\ Partner(rel) \in StepIds
         /\ select \in {rel.left, rel.right}
         /\ \E k \in DOMAIN relations : rel = relations[k]
<1>1. PICK k \in DOMAIN relations : rel = relations[k] /\ select \in {rel.left, rel.right}
  BY DEF Constraints
<1>2. {rel.left, rel.right} \subseteq StepIds
  BY <1>1 DEF Inv, Refers, RefersToItsSteps, Running
<1> QED
  BY <1>1, <1>2 DEF Partner

\* The time of an event, with the value that stands for a missing one.
LEMMA TimeOfEvent ==
  ASSUME Inv, NEW i \in base
  PROVE  /\ events[i].ts = NoTime \/ (events[i].ts \in Int /\ events[i].ts <= AfterAll)
         /\ NoTime \notin Int /\ AfterAll \in Int
         /\ events[i].ts \notin {NoTime, 0} =>
               \A default : TimeOr(i, default) = events[i].ts
         /\ events[i].ts \in {NoTime, 0} =>
               \A default : TimeOr(i, default) = default
BY HuntIRAssumption DEF Inv, QueryInv, TimesTyped, TimeOr

\* Comparing with the earliest or the latest partner finds a partner.
LEMMA PassingIsSound ==
  ASSUME Inv, Running, NEW rel \in Constraints, NEW i \in base, Passes(rel, i),
         events[i].ts # NoTime \/ (\A j \in base : events[j].ts # NoTime => events[j].ts >= 0)
  PROVE  \E j \in Satisfying(Partner(rel)) : Joined(rel, i, j, select = rel.right)
<1> DEFINE other == Partner(rel)
<1>1. other \in StepIds /\ select \in {rel.left, rel.right}
  BY ConstraintsAreRelations
<1> HIDE DEF other
<1>2. /\ Times(other) \in SUBSET Int /\ IsFiniteSet(Times(other))
      /\ \A t \in Times(other) :
            t <= AfterAll /\ \E j \in Satisfying(other) : events[j].ts # NoTime /\ events[j].ts = t
  BY <1>1, TimesOf
<1>3. /\ matches[other] \subseteq Satisfying(other)
      /\ Satisfying(other) \subseteq base
  BY <1>1, MatchesOf
<1>4. i \in Related(rel, {i})
  BY DEF Passes
<1>5. CASE rel.type = "same"
  <2>1. events[i].key \in Keys(other)
    BY <1>1, <1>4, <1>5 DEF Related, SameAsSome, other
  <2>2. PICK j \in matches[other] : events[j].key = events[i].key /\ events[i].key # NoKey
    BY <2>1 DEF Keys
  <2> QED
    BY <1>3, <1>5, <2>2 DEF Joined, other
<1>6. CASE rel.type # "same"
  <2>1. Times(other) # {}
    BY <1>1, <1>4, <1>6 DEF Related, other
  <2>2. CASE rel.type = "within"
    <3>1. i \in NearSome({i}, other, rel.secs)
      BY <1>1, <1>4, <1>6, <2>1, <2>2 DEF Related, other
    <3>2. PICK t \in Times(other) : events[i].ts # NoTime /\ events[i].ts - t \in -rel.secs..rel.secs
      BY <3>1 DEF NearSome
    <3>3. PICK j \in Satisfying(other) : events[j].ts # NoTime /\ events[j].ts = t
      BY <1>2
    <3> QED
      BY <2>2, <3>2, <3>3 DEF Joined, other
  <2>3. CASE rel.type # "within" /\ select = rel.right
    <3>1. TimeOr(i, BeforeAll) > Min(Times(other))
      BY <1>1, <1>4, <1>6, <2>1, <2>3 DEF Related, other, LaterThanSome
    <3>2. Min(Times(other)) \in Times(other)
      BY <1>2, <2>1, MinIsLeast
    <3>3. PICK j \in Satisfying(other) : events[j].ts # NoTime /\ events[j].ts = Min(Times(other))
      BY <1>2, <3>2
    <3>4. events[j].ts \in Int /\ j \in base
      BY <1>2, <1>3, <3>2, <3>3
    <3>5. events[i].ts # NoTime /\ events[j].ts < events[i].ts
      <4>1. CASE events[i].ts = NoTime
        <5>1. events[j].ts >= 0 /\ TimeOr(i, BeforeAll) = -1
          BY <3>3, <3>4, <4>1, TimeOfEvent DEF BeforeAll
        <5> QED
          BY <3>1, <3>3, <3>4, <5>1
      <4>2. CASE events[i].ts = 0
        <5>1. TimeOr(i, BeforeAll) = -1 /\ events[i].ts # NoTime
          BY <4>2, TimeOfEvent DEF BeforeAll
        <5> QED
          BY <3>1, <3>3, <3>4, <4>2, <5>1
      <4>3. CASE events[i].ts \notin {NoTime, 0}
        <5>1. TimeOr(i, BeforeAll) = events[i].ts /\ events[i].ts \in Int
          BY <4>3, TimeOfEvent
        <5> QED
          BY <3>1, <3>3, <3>4, <4>3, <5>1
      <4> QED
        BY <4>1, <4>2, <4>3
    <3> QED
      BY <1>6, <2>3, <3>3, <3>5 DEF Joined, other
  <2>4. CASE rel.type # "within" /\ select # rel.right
    <3>1. TimeOr(i, AfterAll) < Max(Times(other))
      BY <1>1, <1>4, <1>6, <2>1, <2>4 DEF Related, other, EarlierThanSome
    <3>2. Max(Times(other)) \in Times(other) /\ Max(Times(other)) <= AfterAll
      BY <1>2, <2>1, MaxIsGreatest
    <3>3. PICK j \in Satisfying(other) : events[j].ts # NoTime /\ events[j].ts = Max(Times(other))
      BY <1>2, <3>2
    <3>4. events[j].ts \in Int /\ AfterAll \in Int
      BY <1>2, <3>2, <3>3, TimeOfEvent
    <3>5. events[i].ts \notin {NoTime, 0}
      <4>1. ASSUME events[i].ts \in {NoTime, 0} PROVE FALSE
        <5>1. TimeOr(i, AfterAll) = AfterAll
          BY <4>1, TimeOfEvent
        <5> QED
          BY <3>1, <3>2, <3>3, <3>4, <5>1
      <4> QED
        BY <4>1
    <3>6. TimeOr(i, AfterAll) = events[i].ts /\ events[i].ts \in Int
      BY <3>5, TimeOfEvent
    <3> QED
      BY <1>6, <2>4, <3>1, <3>3, <3>5, <3>6 DEF Joined, other
  <2> QED
    BY <2>2, <2>3, <2>4
<1> QED
  BY <1>5, <1>6

\* And an event that has a partner passes, if the matches of the partner's step were
\* not cut and the event is not of time zero.
LEMMA PassingIsComplete ==
  ASSUME Inv, Running, NEW rel \in Constraints, NEW i \in base, events[i].ts # 0,
         matches[Partner(rel)] = Satisfying(Partner(rel)),
         NEW j \in Satisfying(Partner(rel)), Joined(rel, i, j, select = rel.right)
  PROVE  Passes(rel, i)
<1> DEFINE other == Partner(rel)
<1>1. other \in StepIds /\ select \in {rel.left, rel.right}
  BY ConstraintsAreRelations
<1> HIDE DEF other
<1>2. /\ Times(other) \in SUBSET Int /\ IsFiniteSet(Times(other))
      /\ \A k \in matches[other] : events[k].ts # NoTime => events[k].ts \in Times(other)
  BY <1>1, TimesOf
<1>3. j \in matches[other]
  BY DEF other
<1> SUFFICES i \in Related(rel, {i})
  BY DEF Passes
<1>4. CASE rel.type = "same"
  <2>1. events[i].key \in Keys(other)
    BY <1>3, <1>4 DEF Joined, Keys
  <2> QED
    BY <1>1, <1>4, <2>1 DEF Related, SameAsSome, other
<1>5. CASE rel.type # "same"
  <2>1. events[i].ts # NoTime /\ events[j].ts # NoTime
    BY <1>5 DEF Joined
  <2>2. events[j].ts \in Times(other) /\ events[j].ts \in Int
    BY <1>2, <1>3, <2>1
  <2>3. events[i].ts \in Int /\ \A default : TimeOr(i, default) = events[i].ts
    BY <2>1, TimeOfEvent
  <2>4. CASE rel.type = "within"
    <3>1. events[i].ts - events[j].ts \in -rel.secs..rel.secs
      BY <2>4 DEF Joined
    <3>2. i \in NearSome({i}, other, rel.secs)
      BY <2>1, <2>2, <3>1 DEF NearSome
    <3> QED
      BY <1>1, <1>5, <2>2, <2>4, <3>2 DEF Related, other
  <2>5. CASE rel.type # "within" /\ select = rel.right
    <3>1. events[j].ts < events[i].ts
      BY <1>5, <2>5 DEF Joined
    <3>2. Min(Times(other)) <= events[j].ts /\ Min(Times(other)) \in Int
      BY <1>2, <2>2, MinIsLeast
    <3>3. TimeOr(i, BeforeAll) > Min(Times(other))
      BY <2>2, <2>3, <3>1, <3>2
    <3> QED
      BY <1>1, <1>5, <2>2, <2>5, <3>3 DEF Related, other, LaterThanSome
  <2>6. CASE rel.type # "within" /\ select # rel.right
    <3>1. events[i].ts < events[j].ts
      BY <1>5, <2>6 DEF Joined
    <3>2. Max(Times(other)) >= events[j].ts /\ Max(Times(other)) \in Int
      BY <1>2, <2>2, MaxIsGreatest
    <3>3. TimeOr(i, AfterAll) < Max(Times(other))
      BY <2>2, <2>3, <3>1, <3>2
    <3> QED
      BY <1>1, <1>5, <2>2, <2>6, <3>3 DEF Related, other, EarlierThanSome
  <2> QED
    BY <2>4, <2>5, <2>6
<1> QED
  BY <1>4, <1>5

(***************************************************************************)
(* What the answers are.                                                   *)
(***************************************************************************)

LEMMA DoneFacts ==
  ASSUME Inv, stage = "done"
  PROVE  /\ Running /\ select \in StepIds
         /\ \E k \in 0..Len(relations) : candidates = Kept(k) /\ (candidates # {} => k = Len(relations))
         /\ candidates \subseteq matches[select] /\ candidates \subseteq DOMAIN events
         /\ Len(result) <= MaxResults
         /\ Answers \subseteq candidates
         /\ Cardinality(candidates) <= MaxResults => Answers = candidates
         /\ \A i \in Answers, j \in candidates \ Answers : InOrder(i, j)
<1>1. Running /\ select \in StepIds
  BY DEF Running, Inv, Refers, RefersToItsSteps
<1>2. PICK k \in 0..Len(relations) :
         todo = SubSeq(relations, k + 1, Len(relations)) /\ candidates = Kept(k)
  BY <1>1 DEF Inv, QueryInv, Executed
<1>3. ASSUME candidates # {} PROVE k = Len(relations)
  <2>1. todo = <<>> /\ relations \in Seq(RelationSet) /\ Len(relations) \in Nat
    BY <1>3 DEF Inv, QueryInv, Refers, IRTyped
  <2>2. SUFFICES ASSUME k < Len(relations) PROVE FALSE
    BY <2>1
  <2>3. Len(SubSeq(relations, k + 1, Len(relations))) = Len(relations) - (k + 1) + 1
    <3>0. k + 1 <= Len(relations) /\ k + 1 \in Int
      BY <2>1, <2>2
    <3>1. \A i \in (k + 1)..Len(relations) : relations[i] \in RelationSet
      BY <2>1
    <3> QED
      BY <2>1, <3>0, <3>1, SubSeqProperties
  <2>4. Len(todo) = 0
    BY <2>1
  <2>5. Len(todo) = Len(relations) - k
    BY <1>2, <2>1, <2>3
  <2> QED
    BY <2>1, <2>2, <2>4, <2>5
<1>4. candidates \subseteq matches[select]
  BY <1>2 DEF Kept
<1>5. candidates \subseteq DOMAIN events
  BY <1>1, <1>4, MatchesOf
<1>6. TimesTyped /\ Returned
  BY DEF Inv, QueryInv
<1> QED
  BY <1>1, <1>2, <1>3, <1>4, <1>5, <1>6, ReturnedAnswers

LEMMA InvImpliesTypeOK ==
  ASSUME Inv
  PROVE  TypeOK
<1>1. count \in 0..Max({MaxSteps, MaxRelations})
  BY Limits, MaxOfTwo DEF Inv, Refers, IRTyped
<1>2. base \subseteq DOMAIN events
  BY DEF Inv, QueryInv
<1>3. CASE Running
  <2>1. DOMAIN matches = StepIds /\ select \in StepIds
    BY <1>3 DEF Inv, QueryInv, Executed, Running, Refers, RefersToItsSteps
  <2>2. \A id \in DOMAIN matches : matches[id] \subseteq base /\ Cardinality(matches[id]) <= MaxMatches
    BY <1>3, <2>1, MatchesOf
  <2>3. candidates \subseteq matches[select]
    BY <1>3 DEF Inv, QueryInv, Executed, Kept
  <2>4. Len(result) <= MaxResults
    BY <1>3, DoneFacts, Limits, EmptySeq DEF Inv, QueryInv, Running
  <2> QED
    BY <1>1, <1>2, <2>1, <2>2, <2>3, <2>4 DEF TypeOK, Inv, Refers, IRTyped
<1>4. CASE ~Running
  <2>1. matches = <<>> /\ candidates = {} /\ result = <<>>
    BY <1>4 DEF Inv, QueryInv, Running
  <2> QED
    BY <1>1, <1>2, <2>1, Limits DEF TypeOK, Inv, Refers, IRTyped
<1> QED
  BY <1>3, <1>4

\* The lists and counters of the query stay within MAX_STEPS, MAX_RELATIONS,
\* MAX_STEP_MATCHES and MAX_RESULTS (hunt_ir.py), and every index is one of the dataset.
THEOREM TypeCorrect == Spec => []TypeOK
BY Inductive, InvImpliesTypeOK, PTL

\* An answer satisfies the selected step and has a partner for every relation, for any
\* dataset, query and limits (HuntIRExecutor.execute, _apply_relation).
THEOREM OnlyWitnessed == Spec => []AnswersAreWitnessed
<1>1. Inv => AnswersAreWitnessed
  <2> SUFFICES ASSUME Inv, stage = "done", NEW i \in Answers
               PROVE  /\ i \in Satisfying(select)
                      /\ events[i].ts # NoTime \/ (\A j \in base : events[j].ts # NoTime => events[j].ts >= 0)
                         => Witnessed(i)
    BY DEF AnswersAreWitnessed
  <2>1. /\ Running /\ select \in StepIds /\ i \in candidates
        /\ candidates = Kept(Len(relations))
    BY DoneFacts
  <2>2. i \in Satisfying(select) /\ i \in base
    BY <2>1, MatchesOf DEF Kept
  <2>3. ASSUME events[i].ts # NoTime \/ (\A j \in base : events[j].ts # NoTime => events[j].ts >= 0),
               NEW rel \in Constraints
        PROVE  \E j \in Satisfying(Partner(rel)) : Joined(rel, i, j, select = rel.right)
    <3>1. DOMAIN relations = 1..Len(relations)
      BY DEF Inv, Refers, IRTyped
    <3>2. Passes(rel, i)
      BY <2>1, <3>1, ConstraintsAreRelations DEF Kept
    <3> QED
      BY <2>1, <2>2, <2>3, <3>2, PassingIsSound
  <2> QED
    BY <2>2, <2>3 DEF Witnessed
<1> QED
  BY <1>1, Inductive, PTL

\* If no list had to be cut, every event that satisfies the query is answered, other
\* than one of time zero, which the code takes for one without a time.
THEOREM AllAnswered == Spec => []NothingIsMissed
<1>1. Inv => NothingIsMissed
  <2> SUFFICES ASSUME Inv, stage = "done", Uncut,
                      NEW i \in Satisfying(select), Witnessed(i), events[i].ts # 0
               PROVE  i \in Answers
    BY DEF NothingIsMissed
  <2>1. /\ Running /\ select \in StepIds
        /\ \E k \in 0..Len(relations) : candidates = Kept(k)
    BY DoneFacts
  <2>2. /\ \A id \in StepIds : matches[id] = Satisfying(id)
        /\ Answers = candidates
    BY <2>1, DoneFacts, MatchesOf DEF Uncut
  <2>3. i \in base
    BY <2>1, MatchesOf
  <2>4. \A rel \in Constraints : Passes(rel, i)
    <3> SUFFICES ASSUME NEW rel \in Constraints PROVE Passes(rel, i)
      OBVIOUS
    <3>1. PICK j \in Satisfying(Partner(rel)) : Joined(rel, i, j, select = rel.right)
      BY DEF Witnessed
    <3>2. matches[Partner(rel)] = Satisfying(Partner(rel))
      BY <2>1, <2>2, ConstraintsAreRelations
    <3> QED
      BY <2>1, <2>3, <3>1, <3>2, PassingIsComplete
  <2>5. ASSUME NEW j \in DOMAIN relations PROVE Passes(relations[j], i)
    <3>1. CASE select \in {relations[j].left, relations[j].right}
      BY <2>4, <3>1 DEF Constraints
    <3>2. CASE select \notin {relations[j].left, relations[j].right}
      BY <3>2 DEF Passes, Related
    <3> QED
      BY <3>1, <3>2
  <2>6. \A k \in 0..Len(relations) : 1..k \subseteq DOMAIN relations
    BY DEF Inv, Refers, IRTyped
  <2> QED
    BY <2>1, <2>2, <2>5, <2>6 DEF Kept
<1> QED
  BY <1>1, Inductive, PTL

\* When the answer has to be cut, what is left out is not earlier than what is kept
\* (the sort before the cut to MAX_RESULTS in execute).
THEOREM EarliestKept == Spec => []EarliestAreKept
<1>1. Inv => EarliestAreKept
  BY DoneFacts DEF EarliestAreKept, InOrder
<1> QED
  BY <1>1, Inductive, PTL
=============================================================================
