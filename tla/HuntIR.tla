--------------------------------- MODULE HuntIR ---------------------------------
(***************************************************************************)
(* The life of one hunt query (hunt_ir.py): validate_ir turns what a model *)
(* or a client sent into an IR step by step, and the executor matches the  *)
(* steps against the events of a dataset, applies the relations one after  *)
(* the other, sorts and cuts.                                              *)
(*                                                                         *)
(* A predicate is a model value that holds for some events; Bad is any     *)
(* predicate that validation rejects.  The four fields that "same" may     *)
(* compare are one, the key of an event.                                   *)
(***************************************************************************)
EXTENDS Integers, Sequences, FiniteSets, FiniteSetsExt, SequencesExt

CONSTANTS
    Pred,           \* predicates on allowed fields with allowed operators
    Bad,            \* a predicate that is not
    RawSteps,       \* steps that may be sent: [id, mode, preds] records
    RawRelations,   \* relations that may be sent: [type, left, right, secs] records
    Datasets,       \* what the hunt may run over: sequences of [ts, key, holds] records
    Previous,       \* remembered results: sets of indices
    NoTime,         \* the time of an event whose timestamp cannot be parsed
    NoKey,          \* the key of an event without a value in the field
    AfterAll,       \* 1e18 in the code: no event is later
    MaxSteps, MaxRelations,     \* MAX_STEPS, MAX_RELATIONS
    MaxWindow,                  \* 7 * 24 * 3600
    MaxMatches, MaxResults      \* MAX_STEP_MATCHES, MAX_RESULTS

\* A step id is a name and the positions that renaming appended to it.
Id == Seq(Nat) \ {<<>>}

ASSUME HuntIRAssumption ==
    /\ Bad \notin Pred
    /\ RawSteps \subseteq [id : Id, mode : {"all", "any"}, preds : SUBSET (Pred \cup {Bad})]
    /\ RawRelations \subseteq
          [type : {"after", "same", "within"}, left : Id, right : Id, secs : Int]
    /\ \A data \in Datasets :
          /\ Len(data) \in Nat /\ DOMAIN data = 1..Len(data)
          /\ \A i \in DOMAIN data :
                /\ data[i].ts = NoTime \/ (data[i].ts \in Int /\ data[i].ts <= AfterAll)
                /\ data[i].holds \subseteq Pred
    /\ AfterAll \in Int
    /\ Previous \subseteq SUBSET Nat
    /\ NoTime \notin Int
    /\ {MaxSteps, MaxRelations, MaxWindow, MaxMatches, MaxResults} \subseteq Nat \ {0}

VARIABLES
    stage,          \* where validation or execution is
    count,          \* raw steps or relations looked at so far
    seen,           \* seen_ids
    steps, relations, select,   \* the IR
    events,         \* the dataset
    base,           \* the indices searched: all, or a previous result
    matches,        \* step_matches: the last step of an id counts
    candidates, todo,           \* what is left, and the relations still to apply
    result          \* result_idx

ir == <<steps, relations, select>>
run == <<events, base, matches, candidates, todo, result>>
vars == <<stage, count, seen, ir, run>>

Init ==
    /\ stage = "steps"
    /\ count = 0
    /\ seen = {}
    /\ steps = <<>>
    /\ relations = <<>>
    /\ select = <<>>
    /\ events = <<>>
    /\ base = {}
    /\ matches = <<>>
    /\ candidates = {}
    /\ todo = <<>>
    /\ result = <<>>

(***************************************************************************)
(* validate_ir.                                                            *)
(***************************************************************************)

\* Variant with a planted error: a step that was dropped can be referred to.
SeenIds(ids) == seen

\* valid_ids: the steps that were kept.
ValidIds(ids) == ids

StepIds == {steps[k].id : k \in DOMAIN steps}

Renamed(id) == IF id \in seen THEN Append(id, count) ELSE id

\* A step keeps its valid predicates; without any it is dropped, but its id stays taken.
TakeStep(raw) ==
    /\ stage = "steps"
    /\ count < MaxSteps
    /\ count' = count + 1
    /\ seen' = seen \cup {Renamed(raw.id)}
    /\ steps' = IF raw.preds \cap Pred = {} THEN steps
                ELSE Append(steps, [id |-> Renamed(raw.id), mode |-> raw.mode,
                                    preds |-> raw.preds \cap Pred])
    /\ UNCHANGED <<stage, relations, select, run>>

\* An IR without a valid step is refused.
EndSteps ==
    /\ stage = "steps"
    /\ count > 0
    /\ stage' = IF steps = <<>> THEN "rejected" ELSE "relations"
    /\ count' = 0
    /\ UNCHANGED <<seen, ir, run>>

Clamp(secs) == Max({1, Min({secs, MaxWindow})})

\* A relation that does not join two different steps is dropped.
TakeRelation(raw) ==
    /\ stage = "relations"
    /\ count < MaxRelations
    /\ count' = count + 1
    /\ relations' = IF raw.left # raw.right /\ {raw.left, raw.right} \subseteq ValidIds(StepIds)
                    THEN Append(relations, [raw EXCEPT !.secs = Clamp(@)])
                    ELSE relations
    /\ UNCHANGED <<stage, seen, steps, select, run>>

\* The selected step, the last one if the IR names none that is valid.
Choose(id) ==
    /\ stage = "relations"
    /\ select' = IF id \in ValidIds(StepIds) THEN id ELSE Last(steps).id
    /\ stage' = "match"
    /\ count' = 0
    /\ seen' = {}
    /\ UNCHANGED <<steps, relations, run>>

(***************************************************************************)
(* execute.                                                                *)
(***************************************************************************)

Holds(step, ev) ==
    IF step.mode = "all" THEN step.preds \subseteq ev.holds ELSE step.preds \cap ev.holds # {}

\* Variant with a planted error: a step's matches are not bounded.
Unbounded(S) == S

\* The first MaxMatches indices.
Bounded(S) == {i \in S : Cardinality({j \in S : j < i}) < MaxMatches}

\* The step that answers to an id: a dict keeps the last.
StepOf(id) == steps[Max({k \in DOMAIN steps : steps[k].id = id})]

\* A follow-up searches what is left of a previous result; if nothing is, or the
\* question is not a follow-up, all the events are searched.
Match(data, previous) ==
    /\ stage = "match"
    /\ events' = data
    /\ base' = IF previous \cap DOMAIN data # {} THEN previous \cap DOMAIN data ELSE DOMAIN data
    /\ matches' = [id \in StepIds |->
                    Bounded({i \in base' : Holds(StepOf(id), data[i])})]
    /\ candidates' = matches'[select]
    /\ todo' = relations
    /\ stage' = "relate"
    /\ UNCHANGED <<count, seen, ir, result>>

Times(id) == {events[i].ts : i \in matches[id]} \ {NoTime}

Keys(id) == {events[i].key : i \in matches[id]} \ {NoKey}

\* "ts or default": a missing time is replaced, and so is the time zero.
TimeOr(i, default) == IF events[i].ts \in {NoTime, 0} THEN default ELSE events[i].ts

\* What stands for a missing time in "after": before the times since 1970.
BeforeAll == -1

\* Variant with a planted error: an event at the partner's own time counts.
NotBefore(S, id) == {i \in S : TimeOr(i, BeforeAll) >= Min(Times(id))}

\* Variant with a planted error: every partner must come before, not just one.
LaterThanAll(S, id) == {i \in S : TimeOr(i, BeforeAll) > Max(Times(id))}

LaterThanSome(S, id) == {i \in S : TimeOr(i, BeforeAll) > Min(Times(id))}

EarlierThanSome(S, id) == {i \in S : TimeOr(i, AfterAll) < Max(Times(id))}

SameAsSome(S, id) == {i \in S : events[i].key \in Keys(id)}

NearSome(S, id, secs) ==
    {i \in S : /\ events[i].ts # NoTime
              /\ \E t \in Times(id) : events[i].ts - t \in -secs..secs}

\* The step a relation joins the selected one to; a relation between other steps
\* does not constrain the selected one.
Partner(rel) == IF rel.left = select THEN rel.right ELSE rel.left

\* _apply_relation, to the set S.
Related(rel, S) ==
    LET other == Partner(rel) IN
    IF select \notin {rel.left, rel.right} THEN S
    ELSE IF rel.type = "same" THEN SameAsSome(S, other)
    ELSE IF Times(other) = {} THEN {}
    ELSE IF rel.type = "within" THEN NearSome(S, other, rel.secs)
    ELSE IF select = rel.right THEN LaterThanSome(S, other)
    ELSE EarlierThanSome(S, other)

\* The relations are applied in turn, until nothing is left.
Relate ==
    /\ stage = "relate"
    /\ todo # <<>> /\ candidates # {}
    /\ candidates' = Related(Head(todo), candidates)
    /\ todo' = Tail(todo)
    /\ UNCHANGED <<stage, count, seen, ir, events, base, matches, result>>

\* Variant with a planted error: what has no time comes first.
UntimedFirst(i, j) ==
    \/ events[i].ts = NoTime
    \/ events[i].ts # NoTime /\ events[j].ts # NoTime /\ events[i].ts <= events[j].ts

\* The sort key: by time, what has none last.
InOrder(i, j) ==
    \/ events[j].ts = NoTime
    \/ events[i].ts # NoTime /\ events[j].ts # NoTime /\ events[i].ts <= events[j].ts

\* The order of equal times is that of a Python set: any.
Return ==
    /\ stage = "relate"
    /\ todo = <<>> \/ candidates = {}
    /\ \E s \in SetToSeqs(candidates) :
          /\ \A k \in 1..(Len(s) - 1) : InOrder(s[k], s[k + 1])
          /\ result' = SubSeq(s, 1, Min({Len(s), MaxResults}))
    /\ stage' = "done"
    /\ UNCHANGED <<count, seen, ir, events, base, matches, candidates, todo>>

\* The next query: nothing is kept of this one.
Again ==
    /\ stage \in {"done", "rejected"}
    /\ stage' = "steps"
    /\ count' = 0
    /\ seen' = {}
    /\ steps' = <<>> /\ relations' = <<>> /\ select' = <<>>
    /\ events' = <<>> /\ base' = {} /\ matches' = <<>>
    /\ candidates' = {} /\ todo' = <<>> /\ result' = <<>>

Next ==
    \/ \E raw \in RawSteps : TakeStep(raw)
    \/ EndSteps
    \/ \E raw \in RawRelations : TakeRelation(raw)
    \/ \E raw \in RawSteps : Choose(raw.id)
    \/ \E data \in Datasets, previous \in Previous : Match(data, previous)
    \/ Relate
    \/ Return
    \/ Again

Spec == Init /\ [][Next]_vars

(***************************************************************************)
(* What a query means.                                                     *)
(***************************************************************************)

\* The events of the base that satisfy a step, however many.
Satisfying(id) == {i \in base : Holds(StepOf(id), events[i])}

\* Does event i stand in the relation to event j, as the right side or the left?
Joined(rel, i, j, isRight) ==
    LET a == events[i]
        b == events[j]
    IN  IF rel.type = "same" THEN a.key # NoKey /\ a.key = b.key
        ELSE /\ a.ts # NoTime /\ b.ts # NoTime
             /\ IF rel.type = "within" THEN a.ts - b.ts \in -rel.secs..rel.secs
                ELSE IF isRight THEN b.ts < a.ts ELSE a.ts < b.ts

\* The relations that constrain the selected step.
Constraints == {rel \in {relations[k] : k \in DOMAIN relations} : select \in {rel.left, rel.right}}

\* Every constraint has a partner for event i.
Witnessed(i) ==
    \A rel \in Constraints : \E j \in Satisfying(Partner(rel)) : Joined(rel, i, j, select = rel.right)

Answers == {result[k] : k \in DOMAIN result}

(***************************************************************************)
(* Properties.                                                             *)
(***************************************************************************)

TypeOK ==
    /\ stage \in {"steps", "relations", "rejected", "match", "relate", "done"}
    /\ count \in 0..Max({MaxSteps, MaxRelations})
    /\ Len(steps) <= MaxSteps /\ Len(relations) <= MaxRelations
    /\ base \subseteq DOMAIN events
    /\ \A id \in DOMAIN matches : matches[id] \subseteq base /\ Cardinality(matches[id]) <= MaxMatches
    /\ candidates \subseteq base
    /\ Len(result) <= MaxResults

\* Whatever was sent, and whichever steps were dropped or renamed, a validated IR
\* selects and joins only steps it has, so the executor never looks up a step that
\* is not there ("valid_ids", hunt_ir.py:131).
RefersToItsSteps ==
    stage \notin {"steps", "rejected"} =>
        /\ steps # <<>>
        /\ \A k \in DOMAIN relations : {relations[k].left, relations[k].right} \subseteq StepIds
        /\ stage # "relations" => select \in StepIds

\* An answer satisfies the selected step and has a partner for each relation,
\* although the executor compares only with the earliest, the latest or the nearest
\* partner, in turn, and although its lists of matches are cut.  An event without
\* a time is only safe from "after" as long as no time is before 1970.
AnswersAreWitnessed ==
    stage = "done" =>
        \A i \in Answers :
            /\ i \in Satisfying(select)
            /\ events[i].ts # NoTime \/ (\A j \in base : events[j].ts # NoTime => events[j].ts >= 0)
               => Witnessed(i)

\* No list was cut in this run.
Uncut ==
    /\ \A id \in StepIds : Cardinality(Satisfying(id)) <= MaxMatches
    /\ Cardinality(candidates) <= MaxResults

\* And every event that satisfies the query is answered if no list had to be cut.
\* The exception is an event of time zero, which the code takes for one without a
\* time.
NothingIsMissed ==
    stage = "done" /\ Uncut =>
        \A i \in Satisfying(select) : Witnessed(i) /\ events[i].ts # 0 => i \in Answers

\* When the answer has to be cut, what is left out is not earlier than what is kept.
EarliestAreKept ==
    stage = "done" =>
        \A i \in Answers, j \in candidates \ Answers :
            events[j].ts # NoTime => events[i].ts # NoTime /\ events[i].ts <= events[j].ts
=============================================================================
