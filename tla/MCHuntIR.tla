-------------------------------- MODULE MCHuntIR --------------------------------
(* A small instance of HuntIR for TLC: two predicates, up to three steps, two   *)
(* relations, and every dataset of at most three of seven events.               *)
EXTENDS HuntIR

CONSTANTS p, q, u1, u2

\* Two steps a and b, a step that takes either, one that is dropped, and one whose
\* name is what a repeated a becomes.
a == <<1>>
b == <<2>>
RawStep(id, mode, preds) == [id |-> id, mode |-> mode, preds |-> preds]
MCRawSteps ==
    {RawStep(a, "all", {p}), RawStep(a, "any", {p, q}), RawStep(b, "all", {q, Bad}),
     RawStep(b, "all", {Bad}), RawStep(<<1, 2>>, "all", {p, q})}

Relation(type, left, right, secs) == [type |-> type, left |-> left, right |-> right, secs |-> secs]
MCRawRelations ==
    {Relation("after", a, b, 0), Relation("after", b, a, 0), Relation("same", a, b, 0),
     Relation("within", a, b, 0), Relation("within", a, a, 9)}

Event(ts, key, holds) == [ts |-> ts, key |-> key, holds |-> holds]
MCEvents ==
    <<Event(1, u2, {p}), Event(2, u1, {q}), Event(3, u1, {p}), Event(0, u1, {p}),
      Event(NoTime, u1, {q}), Event(-5, NoKey, {p}), Event(2, u2, {p, q})>>
MCDatasets ==
    {SetToSortSeq(S, <) : S \in {T \in SUBSET DOMAIN MCEvents : Cardinality(T) \in 1..3}}
MCPrevious == {{}, {2, 3}}
MCData == {[i \in DOMAIN d |-> MCEvents[d[i]]] : d \in MCDatasets}
=============================================================================
