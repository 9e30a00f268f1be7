------------------------------ MODULE Correlation ------------------------------
(***************************************************************************)
(* correlate_findings of triage.py: the findings of one upload are grouped *)
(* into incidents, with a union-find over the findings of each host.  The  *)
(* pairs are visited in order; for each linked pair find walks up from     *)
(* both ends, halving the paths, and union hangs one root under the other. *)
(* One step of the model is one turn of one of these loops.                *)
(*                                                                         *)
(* Findings of different hosts are never linked and never share a          *)
(* bucket, so one forest over all of them stands for one per bucket.       *)
(***************************************************************************)
EXTENDS Integers, FiniteSets, Sequences

CONSTANT Window         \* DEFAULT_CORR_WINDOW_SECONDS

VARIABLES
    group,      \* the findings that are correlated
    parent,     \* _UnionFind.parent
    left, right,    \* the pair of the loop
    a, b        \* where find stands, from left and from right

corrVars == <<group, parent, left, right, a, b>>

Member == 1..Len(group)

(***************************************************************************)
(* What is correlated, and what links two findings.                        *)
(***************************************************************************)

SeverityRank == [critical |-> 4, high |-> 3, medium |-> 2, low |-> 1, benign |-> 0]

Rank(s) == IF s \in DOMAIN SeverityRank THEN SeverityRank[s] ELSE 0

\* Findings with a severity that the table does not know are left out.
Actionable(fs) == {f \in fs : f.severity \in DOMAIN SeverityRank \ {"benign"}}

\* Findings without a host share the bucket of a host called "unknown".
Bucket(f) == IF f.host = {} THEN {"unknown"} ELSE f.host

Near(s, t) == s >= 0 /\ t >= 0 /\ s - t <= Window /\ t - s <= Window

\* Variant with a planted error: the process no longer links.
LinkedByUserOrTime(f, g) ==
    /\ f.host = g.host
    /\ \/ f.user # {} /\ f.user = g.user
       \/ Near(f.ts, g.ts)

\* _linked.  A time that could not be parsed is negative here and links nothing.
Linked(f, g) ==
    /\ f.host = g.host
    /\ \/ f.user # {} /\ f.user = g.user
       \/ f.guid = g.guid
       \/ Near(f.ts, g.ts)

PairLinked(i, j) == Bucket(group[i]) = Bucket(group[j]) /\ Linked(group[i], group[j])

(***************************************************************************)
(* The union-find, one turn at a time.                                     *)
(***************************************************************************)

\* Start with every finding alone.  The two cursors wait at the first pair.
StartCorrelation(fs) ==
    /\ group' = fs
    /\ parent' = [i \in 1..Len(fs) |-> i]
    /\ left' = 1 /\ right' = 2
    /\ a' = 1 /\ b' = 2

PairsLeft == left < Len(group)

\* The next pair of the two nested loops.
NextPair ==
    LET l == IF right < Len(group) THEN left ELSE left + 1
        r == IF right < Len(group) THEN right + 1 ELSE left + 2
    IN left' = l /\ right' = r /\ a' = l /\ b' = r

SkipPair ==
    /\ PairsLeft
    /\ ~PairLinked(left, right)
    /\ NextPair
    /\ UNCHANGED <<group, parent>>

\* Variant with a planted error: find does not move on.
HalveInPlace ==
    /\ PairsLeft
    /\ PairLinked(left, right)
    /\ parent[a] # a
    /\ parent' = [parent EXCEPT ![a] = parent[parent[a]]]
    /\ UNCHANGED <<group, left, right, a, b>>

\* One turn of find for the left end ...
HalveLeft ==
    /\ PairsLeft
    /\ PairLinked(left, right)
    /\ parent[a] # a
    /\ parent' = [parent EXCEPT ![a] = parent[parent[a]]]
    /\ a' = parent[parent[a]]
    /\ UNCHANGED <<group, left, right, b>>

\* ... and then for the right one.
HalveRight ==
    /\ PairsLeft
    /\ PairLinked(left, right)
    /\ parent[a] = a
    /\ parent[b] # b
    /\ parent' = [parent EXCEPT ![b] = parent[parent[b]]]
    /\ b' = parent[parent[b]]
    /\ UNCHANGED <<group, left, right, a>>

\* Variant with a planted error: the finding is moved, its root is not.
JoinLeaves ==
    /\ PairsLeft
    /\ PairLinked(left, right)
    /\ parent[a] = a
    /\ parent[b] = b
    /\ parent' = [parent EXCEPT ![right] = left]
    /\ NextPair
    /\ UNCHANGED group

\* union: both ends are roots now.  Nothing changes when they are one root.
Join ==
    /\ PairsLeft
    /\ PairLinked(left, right)
    /\ parent[a] = a
    /\ parent[b] = b
    /\ parent' = [parent EXCEPT ![b] = a]
    /\ NextPair
    /\ UNCHANGED group

Correlate == SkipPair \/ HalveLeft \/ HalveRight \/ Join

\* The correlation of any findings, by itself.
CorrelationInit ==
    /\ Len(group) \in Nat
    /\ parent = [i \in Member |-> i]
    /\ left = 1 /\ right = 2
    /\ a = 1 /\ b = 2

CorrelationSpec == CorrelationInit /\ [][Correlate]_corrVars

(***************************************************************************)
(* The incidents.                                                          *)
(***************************************************************************)

\* The findings on the way up from finding i, itself included.
Above(i) ==
    {j \in Member : \A S \in SUBSET Member : i \in S /\ (\A k \in S : parent[k] \in S) => j \in S}

\* Where find ends.
Root(i) == CHOOSE r \in {j \in Above(i) : parent[j] = j} : TRUE

\* The findings of a cluster, by number, and the clusters in the order of the
\* dict: by their first finding, host after host.
ClusterOf(i) == {j \in Member : Root(j) = Root(i)}

Clusters == {ClusterOf(i) : i \in Member}

RollUp(C) ==
    LET best == CHOOSE i \in C : \A j \in C : Rank(group[i].severity) >= Rank(group[j].severity)
    IN group[best].severity

\* _incident_fingerprint: what each member is, without its time or its source,
\* sorted: a bag.  The command line is left out here.
Identity(f) == <<f.rule, f.host, f.user, f.guid>>

Fingerprint(C) ==
    LET ids == {Identity(group[i]) : i \in C}
    IN [id \in ids |-> Cardinality({i \in C : Identity(group[i]) = id})]

Incident(C) == [id |-> Fingerprint(C), severity |-> RollUp(C), members |-> C]

Incidents == {Incident(C) : C \in Clusters}

(***************************************************************************)
(* Properties.                                                             *)
(***************************************************************************)

\* No link leaves a closed set of findings, and no edge of the forest a tree.
Closed(S) == \A i \in S, j \in Member \ S : ~Linked(group[i], group[j])
IsTrees(S) == \A i \in Member : i \in S <=> parent[i] \in S

\* What is left to do: the pairs, and the walks from the ends of this one.
CorrelationLeft ==
    << Len(group) + 1 - left, Len(group) + 2 - right, Cardinality(Above(a)) + Cardinality(Above(b)) >>

Connected(i, j) == \A S \in SUBSET Member : Closed(S) => (i \in S <=> j \in S)
Together(i, j) == \A S \in SUBSET Member : IsTrees(S) => (i \in S <=> j \in S)

\* When the loops are through, the clusters are the connected groups of linked
\* findings, whatever the order of unions and halved paths (triage.py:58-71 and
\* 159-163): no incident mixes strangers, none is torn apart.
TreesAreComponents ==
    ~PairsLeft => \A i, j \in Member : j \in ClusterOf(i) <=> Connected(i, j)
=============================================================================
