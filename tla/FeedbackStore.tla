------------------------------ MODULE FeedbackStore -----------------------------
(***************************************************************************)
(* feedback_store.py: the dataset of analysts' corrections, in memory and  *)
(* in a JSON file, and the choice of the corrections that are shown to the *)
(* model as examples.                                                      *)
(***************************************************************************)
EXTENDS Embeddings

CONSTANTS
    Context,        \* where a command ran: its process_name, event_id and hostname
    MaxRecords,     \* _MAX_RECORDS
    K,              \* examples that are given at most
    MinSimilarity,  \* min_similarity, in percent
    NotLoaded,
    ReadFaults,     \* may reading the file fail?
    MaxFaults       \* bound of the model: writes that go wrong

Label == {"malicious", "benign", "unknown"}

Record == [n : Nat, cmd : TextSet, ctx : Context, trusted : BOOLEAN, label : Label,
           vec : Vector \cup {NoVector}]

\* _fingerprint: the id of a record is a hash of these two.
Fingerprint(rec) == <<rec.cmd, rec.ctx>>

\* A record is stored with the vector of its own command, if with any.
OwnVector(rec) == rec.vec = NoVector \/ rec.vec.text = rec.cmd

ASSUME FeedbackAssumption ==
    /\ MaxRecords \in Nat \ {0}
    /\ K \in Nat \ {0}
    /\ MinSimilarity \in 1..100
    /\ MaxFaults \in Nat
    /\ ReadFaults \in BOOLEAN
    /\ NotLoaded \notin Seq(Record)

VARIABLES
    memory,     \* _cache: the records, or NotLoaded
    disk,       \* what the file holds; no file is no records
    log,        \* history: every record that was appended, in order
    acked,      \* history: the numbers in log of those that were answered 200
    faults      \* how many writes went wrong

storeVars == <<memory, disk, log, acked, faults>>

\* A correction wins; without one the analyst agrees with the verdict or not.
LabelOf(corrected, verdict, agree) ==
    IF corrected # "unknown" \/ verdict = "unknown" THEN corrected
    ELSE IF agree = (verdict = "malicious") THEN "malicious" ELSE "benign"

\* _load.  A file that cannot be read counts as no records.
Loads ==
    IF memory = NotLoaded THEN {disk} \cup (IF ReadFaults THEN {<<>>} ELSE {}) ELSE {memory}

\* Variant with a planted error: the oldest records stay.
KeepOldest(data) ==
    IF Len(data) >= MaxRecords THEN SubSeq(data, 1, MaxRecords - 1) ELSE data

\* At the limit the oldest records make room for one.
MakeRoom(data) ==
    IF Len(data) >= MaxRecords THEN SubSeq(data, Len(data) - MaxRecords + 2, Len(data)) ELSE data

Failed == faults < MaxFaults /\ faults' = faults + 1 /\ UNCHANGED acked

\* The end of add: append and _flush.  The record is in memory before it is written,
\* except at the limit, where a copy is changed.
AppendRecord(rec, out) ==
    \E data \in Loads :
        LET full == Append(MakeRoom(data), rec) IN
        /\ log' = Append(log, rec)
        /\ \/ /\ out = "ok"
              /\ memory' = full /\ disk' = full
              /\ acked' = acked \cup {rec.n} /\ UNCHANGED faults
           \/ /\ out = "error" /\ Failed
              /\ memory' = IF Len(data) >= MaxRecords THEN data ELSE full
              /\ UNCHANGED disk
           \/ /\ out = "crash" /\ Failed
              /\ memory' = NotLoaded
              /\ disk' \in {disk, full}

\* export_jsonl and the lookup of retrieve_fewshot only load.
Read(data) ==
    /\ data \in Loads
    /\ memory' = data
    /\ UNCHANGED <<disk, log, acked, faults>>

(***************************************************************************)
(* retrieve_fewshot.                                                       *)
(***************************************************************************)

Teaches(rec) == rec.trusted /\ rec.label # "unknown"

\* Variant with a planted error: no label is disputed.
NewestWins(data) == {}

\* _disputed_fingerprints: ids whose trusted labels disagree.
Disputed(data) ==
    {f \in TextSet \X Context : \E i, j \in DOMAIN data :
        /\ Fingerprint(data[i]) = f /\ Teaches(data[i])
        /\ Fingerprint(data[j]) = f /\ Teaches(data[j])
        /\ data[i].label # data[j].label}

Candidates(data) ==
    LET out == Disputed(data)
    IN {rec \in {data[i] : i \in DOMAIN data} : Teaches(rec) /\ Fingerprint(rec) \notin out}

\* The candidates that were stored without a vector.  They are embedded in the order
\* they were stored in.
Unembedded(cands) == {rec \in cands : rec.vec = NoVector}

Place(rec, recs) == Cardinality({other \in recs : other.n <= rec.n})

\* Variant with a planted error: a better score than the minimum is wanted.
BeyondMinimum(score) == score > MinSimilarity

NearEnough(score) == score >= MinSimilarity

\* How near each candidate is, given the vectors of the query and of those candidates.
Scores(cands, vecs) ==
    [rec \in cands |->
        Cosine(vecs[1], IF rec.vec # NoVector THEN rec.vec
                        ELSE vecs[1 + Place(rec, Unembedded(cands))])]

Nearer(score, a, b) == score[a] > score[b] \/ (score[a] = score[b] /\ a.n < b.n)

\* The nearest record of each id that is near enough.
Nearest(cands, score) ==
    {a \in cands : NearEnough(score[a])
        /\ \A b \in cands : Fingerprint(b) = Fingerprint(a) => ~Nearer(score, b, a)}

\* The first K of them.
Chosen(near, score) == {a \in near : Cardinality({b \in near : Nearer(score, b, a)}) < K}

\* The answer names command, label and score; the context is kept to state properties.
Examples(cands, vecs) ==
    LET score == Scores(cands, vecs)
    IN {[cmd |-> a.cmd, ctx |-> a.ctx, label |-> a.label, score |-> score[a]] :
            a \in Chosen(Nearest(cands, score), score)}
=============================================================================
