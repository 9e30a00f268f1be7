----------------------------- MODULE FewShot_proofs ----------------------------
(***************************************************************************)
(* Proofs about the corrections of analysts and the vectors of commands,   *)
(* for any number of requests, corrections, faults and restarts and any    *)
(* capacity: what was acknowledged is kept, what is shown to the model is  *)
(* safe, what is near is found, and a known-bad command is recognised.     *)
(***************************************************************************)
EXTENDS FewShot, FiniteSetTheorems, SequenceTheorems, TLAPS

(***************************************************************************)
(* What is kept.                                                           *)
(***************************************************************************)

\* What was ever appended, numbered in this order.
Logged == {log[i] : i \in DOMAIN log}
HistoryOK == log \in Seq(Logged) /\ \A i \in DOMAIN log : log[i].n = i

\* Records that were appended, in order, within the limit.
Dataset(d) ==
    /\ d \in Seq(Logged) /\ Len(d) <= MaxRecords
    /\ \A i, j \in DOMAIN d : i < j => d[i].n < d[j].n

Keeps(d) ==
    \A n \in acked : \/ \E i \in DOMAIN d : d[i].n = n
                     \/ Len(d) = MaxRecords /\ \A i \in DOMAIN d : d[i].n > n

\* Memory is what the next write stores, so it must keep what the file keeps.
KeptInv ==
    /\ HistoryOK
    /\ acked \subseteq 1..Len(log)
    /\ Dataset(disk) /\ Keeps(disk)
    /\ memory # NotLoaded => Dataset(memory) /\ Keeps(memory)

LEMMA Limit ==
  MaxRecords \in Nat /\ MaxRecords >= 1
BY FeedbackAssumption

LEMMA OwnElements ==
  ASSUME NEW S, NEW d \in Seq(S)
  PROVE  d \in Seq({d[i] : i \in DOMAIN d})
<1> DEFINE T == {d[i] : i \in DOMAIN d}
<1>1. Len(d) \in Nat /\ DOMAIN d = 1..Len(d) /\ d \in [1..Len(d) -> S]
  BY LenProperties
<1>2. \A i \in 1..Len(d) : d[i] \in T
  BY <1>1
<1>3. d = [i \in 1..Len(d) |-> d[i]]
  BY <1>1
<1> HIDE DEF T
<1>4. d \in [1..Len(d) -> T]
  BY <1>2, <1>3
<1>5. d \in Seq(T)
  BY <1>1, <1>4, SeqDef
<1> QED
  BY <1>5 DEF T

\* A sequence, where its elements are and what a limit makes of it.
LEMMA Appended ==
  ASSUME NEW S, NEW d \in Seq(S), NEW x
  PROVE  LET full == Append(d, x) IN
         /\ full \in Seq(S \cup {x}) /\ Len(full) = Len(d) + 1
         /\ DOMAIN d = 1..Len(d) /\ DOMAIN full = 1..(Len(d) + 1) /\ Len(d) \in Nat
         /\ \A i \in 1..Len(d) : full[i] = d[i]
         /\ full[Len(d) + 1] = x
<1>1. d \in Seq(S \cup {x}) /\ x \in S \cup {x}
  BY SeqMonotonic
<1> QED
  BY <1>1

(***************************************************************************)
(* Appending a record.                                                     *)
(***************************************************************************)

\* With a record appended, the log is a longer history and what was a dataset is one.
LEMMA LogGrows ==
  ASSUME HistoryOK, NEW rec, rec.n = Len(log) + 1, log' = Append(log, rec)
  PROVE  /\ HistoryOK' /\ Len(log') = Len(log) + 1
         /\ Logged' = Logged \cup {rec}
         /\ \A d : Dataset(d) => Dataset(d)'
         /\ \A x \in Logged : x.n \in 1..Len(log)
<1>1. /\ log' \in Seq(Logged \cup {rec}) /\ Len(log') = Len(log) + 1 /\ Len(log) \in Nat
      /\ DOMAIN log = 1..Len(log) /\ DOMAIN log' = 1..(Len(log) + 1)
      /\ \A i \in 1..Len(log) : log'[i] = log[i]
      /\ log'[Len(log) + 1] = rec
  BY Appended DEF HistoryOK
<1>2. Logged' = Logged \cup {rec}
  <2>1. \A i \in DOMAIN log' : log'[i] \in Logged \cup {rec}
    BY <1>1 DEF Logged
  <2>2. \A i \in DOMAIN log : log[i] \in Logged'
    BY <1>1 DEF Logged
  <2>3. rec \in Logged'
    BY <1>1 DEF Logged
  <2> QED
    BY <2>1, <2>2, <2>3 DEF Logged
<1>3. HistoryOK'
  BY <1>1, <1>2 DEF HistoryOK
<1>4. ASSUME NEW d, Dataset(d) PROVE Dataset(d)'
  BY <1>2, <1>4, SeqMonotonic DEF Dataset
<1>5. \A x \in Logged : x.n \in 1..Len(log)
  BY <1>1 DEF HistoryOK, Logged
<1> QED
  BY <1>1, <1>2, <1>3, <1>4, <1>5

LEMMA RoomIsMade ==
  ASSUME HistoryOK, NEW d, Dataset(d)
  PROVE  LET kept == MakeRoom(d) IN
         /\ Dataset(kept) /\ Len(kept) < MaxRecords
         /\ \/ kept = d
            \/ /\ Len(d) = MaxRecords /\ Len(kept) = MaxRecords - 1
               /\ \A i \in DOMAIN kept : kept[i] = d[i + 1] /\ i + 1 \in DOMAIN d
               /\ \A i \in DOMAIN d : i > 1 => i - 1 \in DOMAIN kept
<1> DEFINE kept == SubSeq(d, Len(d) - MaxRecords + 2, Len(d))
           Goal == LET left == MakeRoom(d) IN
                   /\ Dataset(left) /\ Len(left) < MaxRecords
                   /\ \/ left = d
                      \/ /\ Len(d) = MaxRecords /\ Len(left) = MaxRecords - 1
                         /\ \A i \in DOMAIN left : left[i] = d[i + 1] /\ i + 1 \in DOMAIN d
                         /\ \A i \in DOMAIN d : i > 1 => i - 1 \in DOMAIN left
<1>1. /\ d \in Seq(Logged) /\ Len(d) \in Nat /\ DOMAIN d = 1..Len(d) /\ Len(d) <= MaxRecords
      /\ \A i \in 1..Len(d) : d[i] \in Logged
  BY LenProperties DEF Dataset
<1>2. ASSUME Len(d) < MaxRecords PROVE Goal
  <2>1. ~(Len(d) >= MaxRecords)
    BY <1>1, <1>2, Limit
  <2> QED
    BY <1>2, <2>1 DEF MakeRoom
<1>3. ASSUME Len(d) = MaxRecords PROVE Goal
  <2>1. MakeRoom(d) = kept
    BY <1>1, <1>3, Limit DEF MakeRoom
  <2>2. Len(d) - MaxRecords + 2 = 2
    BY <1>3, Limit
  <2>3. kept = SubSeq(d, 2, Len(d))
    BY <2>2
  <2> HIDE DEF kept
  <2>4. /\ kept \in Seq(Logged)
        /\ Len(kept) = IF 2 <= Len(d) THEN Len(d) - 2 + 1 ELSE 0
        /\ \A i \in 1..(Len(d) - 2 + 1) : kept[i] = d[2 + i - 1]
    <3>1. \A i \in 2..Len(d) : d[i] \in Logged
      BY <1>1
    <3> QED
      BY <1>1, <2>3, <3>1, SubSeqProperties
  <2>5. Len(kept) = MaxRecords - 1 /\ DOMAIN kept = 1..(MaxRecords - 1)
    BY <1>1, <1>3, <2>4, Limit, LenProperties
  <2>6. \A i \in DOMAIN kept : kept[i] = d[i + 1] /\ i + 1 \in DOMAIN d
    <3>1. ASSUME NEW i \in DOMAIN kept PROVE kept[i] = d[i + 1] /\ i + 1 \in DOMAIN d
      <4>1. i \in 1..(Len(d) - 2 + 1) /\ 2 + i - 1 = i + 1 /\ i + 1 \in 1..Len(d)
        BY <1>1, <1>3, <2>5, Limit
      <4> QED
        BY <1>1, <2>4, <4>1
    <3> QED
      BY <3>1
  <2>7. \A i \in DOMAIN d : i > 1 => i - 1 \in DOMAIN kept
    BY <1>1, <1>3, <2>5, Limit
  <2>8. \A i, j \in DOMAIN kept : i < j => kept[i].n < kept[j].n
    <3>1. ASSUME NEW i \in DOMAIN kept, NEW j \in DOMAIN kept, i < j
          PROVE  kept[i].n < kept[j].n
      <4>1. i + 1 < j + 1
        BY <2>5, <3>1
      <4> QED
        BY <2>6, <4>1 DEF Dataset
    <3> QED
      BY <3>1
  <2>9. Dataset(kept) /\ Len(kept) < MaxRecords
    BY <2>4, <2>5, <2>8, Limit DEF Dataset
  <2> QED
    BY <1>3, <2>1, <2>5, <2>6, <2>7, <2>9
<1> HIDE DEF Goal
<1>4. Goal
  <2>1. Len(d) \in Nat /\ Len(d) <= MaxRecords
    BY <1>1
  <2>2. Len(d) < MaxRecords \/ Len(d) = MaxRecords
    BY <2>1, Limit
  <2> QED
    BY <1>2, <1>3, <2>2
<1> QED
  BY <1>4 DEF Goal

\* The dataset with a record is one.
LEMMA RecordFits ==
  ASSUME HistoryOK, NEW d, Dataset(d), NEW rec, rec.n = Len(log) + 1, log' = Append(log, rec)
  PROVE  LET full == Append(MakeRoom(d), rec) IN
         /\ Dataset(full)'
         /\ \A i \in DOMAIN full : full[i] = rec \/ \E j \in DOMAIN d : full[i] = d[j]
<1> DEFINE kept == MakeRoom(d)
           full == Append(kept, rec)
<1>1. /\ Dataset(kept) /\ Len(kept) < MaxRecords
      /\ \/ kept = d
         \/ \A i \in DOMAIN kept : kept[i] = d[i + 1] /\ i + 1 \in DOMAIN d
  BY RoomIsMade
<1> HIDE DEF kept
<1>2. kept \in Seq(Logged) /\ Len(log) \in Nat /\ \A i \in DOMAIN kept : kept[i] \in Logged
  BY <1>1, LenProperties DEF Dataset, HistoryOK
<1>3. /\ full \in Seq(Logged \cup {rec}) /\ Len(full) = Len(kept) + 1 /\ Len(kept) \in Nat
      /\ DOMAIN kept = 1..Len(kept) /\ DOMAIN full = 1..(Len(kept) + 1)
      /\ \A i \in 1..Len(kept) : full[i] = kept[i]
      /\ full[Len(kept) + 1] = rec
  BY <1>2, Appended
<1> HIDE DEF full
<1>4. Logged' = Logged \cup {rec} /\ \A x \in Logged : x.n \in 1..Len(log)
  BY LogGrows
<1>5. \A i \in DOMAIN kept : kept[i].n < rec.n
  BY <1>2, <1>4
<1>6. \A i, j \in DOMAIN full : i < j => full[i].n < full[j].n
  <2>1. ASSUME NEW i \in DOMAIN full, NEW j \in DOMAIN full, i < j PROVE full[i].n < full[j].n
    <3>1. i \in DOMAIN kept /\ full[i] = kept[i]
      BY <1>3, <2>1
    <3>2. CASE j = Len(kept) + 1
      BY <1>3, <1>5, <3>1, <3>2
    <3>3. CASE j \in DOMAIN kept
      BY <1>1, <1>3, <2>1, <3>1, <3>3 DEF Dataset
    <3> QED
      BY <1>3, <3>2, <3>3
  <2> QED
    BY <2>1
<1>7. Dataset(full)'
  BY <1>1, <1>3, <1>4, <1>6, Limit DEF Dataset
<1>8. \A i \in DOMAIN full : full[i] = rec \/ \E j \in DOMAIN d : full[i] = d[j]
  <2>1. \A i \in DOMAIN kept : \E j \in DOMAIN d : kept[i] = d[j]
    BY <1>1
  <2> QED
    BY <1>3, <2>1
<1> QED
  BY <1>7, <1>8 DEF full, kept

\* The dataset with the record is one, and keeps what was acknowledged, the record too.
LEMMA RecordIsAdded ==
  ASSUME HistoryOK, NEW d, Dataset(d), Keeps(d), acked \subseteq 1..Len(log),
         NEW rec, rec.n = Len(log) + 1, log' = Append(log, rec),
         acked' \subseteq acked \cup {rec.n}
  PROVE  Dataset(Append(MakeRoom(d), rec))' /\ Keeps(Append(MakeRoom(d), rec))'
<1> DEFINE kept == MakeRoom(d)
           full == Append(kept, rec)
<1>1. /\ Dataset(kept) /\ Len(kept) < MaxRecords
      /\ \/ kept = d
         \/ /\ Len(d) = MaxRecords /\ Len(kept) = MaxRecords - 1
            /\ \A i \in DOMAIN kept : kept[i] = d[i + 1] /\ i + 1 \in DOMAIN d
            /\ \A i \in DOMAIN d : i > 1 => i - 1 \in DOMAIN kept
  BY RoomIsMade
<1> HIDE DEF kept
<1>2. kept \in Seq(Logged) /\ Len(log) \in Nat /\ \A i \in DOMAIN kept : kept[i] \in Logged
  BY <1>1, LenProperties DEF Dataset, HistoryOK
<1>3. /\ full \in Seq(Logged \cup {rec}) /\ Len(full) = Len(kept) + 1 /\ Len(kept) \in Nat
      /\ DOMAIN kept = 1..Len(kept) /\ DOMAIN full = 1..(Len(kept) + 1)
      /\ \A i \in 1..Len(kept) : full[i] = kept[i]
      /\ full[Len(kept) + 1] = rec
  BY <1>2, Appended
<1> HIDE DEF full
<1>4. Logged' = Logged \cup {rec} /\ \A x \in Logged : x.n \in 1..Len(log)
  BY LogGrows
<1>5. \A i \in DOMAIN kept : kept[i].n < rec.n
  BY <1>2, <1>4
<1>6. Dataset(full)'
  BY RecordFits DEF full, kept
<1>7. Keeps(full)'
  <2>1. SUFFICES ASSUME NEW n \in acked'
                 PROVE  \/ \E i \in DOMAIN full : full[i].n = n
                        \/ Len(full) = MaxRecords /\ \A i \in DOMAIN full : full[i].n > n
    BY DEF Keeps
  <2>2. CASE n = rec.n
    BY <1>3, <2>2
  <2>3. ASSUME n \in acked, NEW i \in DOMAIN kept, kept[i].n = n
        PROVE  \E k \in DOMAIN full : full[k].n = n
    BY <1>3, <2>3
  <2>4. ASSUME n \in acked, Len(full) = MaxRecords, \A i \in DOMAIN kept : kept[i].n > n
        PROVE  Len(full) = MaxRecords /\ \A i \in DOMAIN full : full[i].n > n
    <3>1. rec.n > n
      BY <1>2, <2>4
    <3>2. \A i \in DOMAIN full : i \in DOMAIN kept \/ i = Len(kept) + 1
      BY <1>3
    <3> QED
      BY <1>3, <2>4, <3>1, <3>2
  <2>5. CASE n \in acked /\ kept = d
    <3>1. \/ \E i \in DOMAIN kept : kept[i].n = n
          \/ Len(kept) = MaxRecords
      BY <2>5 DEF Keeps
    <3>2. Len(kept) # MaxRecords
      <4>1. Len(kept) < MaxRecords
        BY <1>1
      <4>2. Len(kept) \in Nat
        BY <1>3
      <4> QED
        BY <4>1, <4>2, Limit
    <3> QED
      BY <2>3, <2>5, <3>1, <3>2
  <2>6. CASE /\ n \in acked
             /\ Len(d) = MaxRecords /\ Len(kept) = MaxRecords - 1
             /\ \A i \in DOMAIN kept : kept[i] = d[i + 1] /\ i + 1 \in DOMAIN d
             /\ \A i \in DOMAIN d : i > 1 => i - 1 \in DOMAIN kept
    <3>1. Len(full) = MaxRecords
      BY <1>3, <2>6, Limit
    <3>2. \A i \in DOMAIN d : i \in Nat /\ i >= 1
      BY LenProperties DEF Dataset
    <3>3. CASE \A i \in DOMAIN d : d[i].n > n
      BY <2>4, <2>6, <3>1, <3>3
    <3>4. ASSUME NEW i \in DOMAIN d, d[i].n = n, i > 1
          PROVE  \E k \in DOMAIN kept : kept[k].n = n
      <4>1. i - 1 \in DOMAIN kept /\ (i - 1) + 1 = i
        BY <2>6, <3>2, <3>4
      <4> QED
        BY <2>6, <3>4, <4>1
    <3>5. ASSUME NEW i \in DOMAIN d, d[i].n = n, i = 1
          PROVE  \A k \in DOMAIN kept : kept[k].n > n
      <4>1. ASSUME NEW k \in DOMAIN kept PROVE kept[k].n > n
        <5>1. k \in Nat /\ k >= 1 /\ i < k + 1 /\ k + 1 \in DOMAIN d /\ kept[k] = d[k + 1]
          BY <1>3, <2>6, <3>5
        <5>2. d[i].n < d[k + 1].n
          BY <5>1 DEF Dataset
        <5>3. d[i].n \in Nat /\ d[k + 1].n \in Nat
          BY <1>4, <5>1, ElementOfSeq, LenProperties DEF Dataset
        <5> QED
          BY <3>5, <5>1, <5>2, <5>3
      <4> QED
        BY <4>1
    <3>6. \/ \E i \in DOMAIN d : d[i].n = n
          \/ \A i \in DOMAIN d : d[i].n > n
      BY <2>6 DEF Keeps
    <3>7. CASE \E i \in DOMAIN d : d[i].n = n /\ i > 1
      BY <2>3, <2>6, <3>4, <3>7
    <3>8. CASE \E i \in DOMAIN d : d[i].n = n /\ i = 1
      BY <2>4, <2>6, <3>1, <3>5, <3>8
    <3> QED
      BY <2>4, <2>6, <3>1, <3>2, <3>3, <3>6, <3>7, <3>8
  <2> QED
    BY <1>1, <2>1, <2>2, <2>5, <2>6
<1> QED
  BY <1>6, <1>7 DEF full, kept

(***************************************************************************)
(* The steps of the handlers, as far as the corrections are concerned.     *)
(***************************************************************************)

Adds == \E rec, out : rec.n = Len(log) + 1 /\ out \in {"ok", "error", "crash"} /\ AppendRecord(rec, out)

Forgets == memory' = NotLoaded /\ UNCHANGED <<disk, log, acked>>

LEMMA AddingAdds ==
  ASSUME NEW r, NEW req, NEW vecs, AdvanceAdd(r, req, vecs)
  PROVE  Adds \/ UNCHANGED storeVars
<1>1. ASSUME NEW out \in {"ok", "error"},
             AppendRecord([n |-> Len(log) + 1, cmd |-> req.query, ctx |-> req.ctx, trusted |-> req.trusted,
                           label |-> req.label, vec |-> vecs[1]], out)
      PROVE  Adds
  <2> DEFINE rec == [n |-> Len(log) + 1, cmd |-> req.query, ctx |-> req.ctx, trusted |-> req.trusted,
                     label |-> req.label, vec |-> vecs[1]]
  <2>1. rec.n = Len(log) + 1 /\ AppendRecord(rec, out)
    BY <1>1
  <2> HIDE DEF rec
  <2> QED
    BY <2>1 DEF Adds
<1> QED
  BY <1>1 DEF AdvanceAdd

LEMMA AdvancingAdds ==
  ASSUME NEW r, NEW req, NEW done, NEW cached, NEW source, Advance(r, req, done, cached, source)
  PROVE  Adds \/ UNCHANGED storeVars
<1> DEFINE vecs == Extended(req.texts, done, cached)
<1>1. AdvanceAdd(r, req, vecs) \/ UNCHANGED storeVars
  BY DEF Advance
<1> HIDE DEF vecs
<1> QED
  BY <1>1, AddingAdds

LEMMA StepKinds ==
  ASSUME Next
  PROVE  \/ Adds
         \/ \E data : Read(data)
         \/ Forgets
         \/ UNCHANGED storeVars
<1>1. ASSUME NEW r \in Request, NEW sub \in Submission, SubmitFeedback(r, sub)
      PROVE  Adds \/ UNCHANGED storeVars
  BY <1>1, AdvancingAdds DEF SubmitFeedback
<1>2. ASSUME NEW r \in Request, NEW c \in Command, Analyze(r, c)
      PROVE  \E data : Read(data)
  BY <1>2 DEF Analyze
<1>3. ASSUME NEW r \in Request, NEW c \in Command, LlmSimilar(r, c)
      PROVE  Adds \/ UNCHANGED storeVars
  BY <1>3, AdvancingAdds DEF LlmSimilar
<1>4. ASSUME NEW r \in Request, NEW t \in Source, Embedded(r, t)
      PROVE  Adds \/ UNCHANGED storeVars
  BY <1>4, AdvancingAdds DEF Embedded
<1>5. ASSUME NEW r \in Request, NEW t \in Source, Crash(r, t)
      PROVE  Adds
  <2> DEFINE rec == [n |-> Len(log) + 1, cmd |-> reqs[r].query, ctx |-> reqs[r].ctx, trusted |-> reqs[r].trusted,
                     label |-> reqs[r].label, vec |-> [text |-> reqs[r].query, src |-> t]]
  <2>1. rec.n = Len(log) + 1 /\ AppendRecord(rec, "crash")
    BY <1>5 DEF Crash
  <2> HIDE DEF rec
  <2> QED
    BY <2>1 DEF Adds
<1>6. Export => \E data : Read(data)
  BY DEF Export
<1>7. Restart => Forgets
  BY DEF Restart, Forgets
<1> QED
  BY <1>1, <1>2, <1>3, <1>4, <1>5, <1>6, <1>7 DEF Next

(***************************************************************************)
(* The invariant.                                                          *)
(***************************************************************************)

LEMMA KeptAtFirst ==
  Init => KeptInv
<1> SUFFICES ASSUME Init PROVE KeptInv
  OBVIOUS
<1>1. /\ log = disk /\ memory = NotLoaded /\ acked = {disk[i].n : i \in DOMAIN disk}
      /\ disk \in Seq(Record) /\ Len(disk) <= MaxRecords
      /\ \A i \in DOMAIN disk : disk[i].n = i
  BY FewShotAssumption DEF Init
<1>2. disk \in Seq(Logged)
  <2>1. disk \in Seq({disk[i] : i \in DOMAIN disk})
    BY <1>1, OwnElements
  <2> QED
    BY <1>1, <2>1 DEF Logged
<1>3. Len(disk) \in Nat /\ DOMAIN disk = 1..Len(disk)
  BY <1>1, LenProperties
<1>4. HistoryOK
  BY <1>1, <1>2 DEF HistoryOK
<1>5. acked \subseteq 1..Len(log)
  BY <1>1, <1>3
<1>6. Dataset(disk)
  BY <1>1, <1>2, <1>3 DEF Dataset
<1>7. Keeps(disk)
  BY <1>1 DEF Keeps
<1> QED
  BY <1>1, <1>4, <1>5, <1>6, <1>7 DEF KeptInv

LEMMA LoadedIsKept ==
  ASSUME KeptInv, ReadFaults = FALSE, NEW data \in Loads
  PROVE  Dataset(data) /\ Keeps(data)
BY DEF KeptInv, Loads

LEMMA AddingKeeps ==
  ASSUME KeptInv, ReadFaults = FALSE, Adds
  PROVE  KeptInv'
<1>1. PICK rec, out : rec.n = Len(log) + 1 /\ out \in {"ok", "error", "crash"} /\ AppendRecord(rec, out)
  BY DEF Adds
<1>2. PICK data \in Loads :
         LET full == Append(MakeRoom(data), rec) IN
         /\ log' = Append(log, rec)
         /\ \/ /\ out = "ok"
               /\ memory' = full /\ disk' = full
               /\ acked' = acked \cup {rec.n} /\ UNCHANGED faults
            \/ /\ out = "error" /\ Failed
               /\ memory' = IF Len(data) >= MaxRecords THEN data ELSE full
               /\ UNCHANGED disk
            \/ /\ out = "crash" /\ Failed
               /\ memory' = NotLoaded
               /\ disk' \in {disk, full}
  BY <1>1 DEF AppendRecord
<1> DEFINE full == Append(MakeRoom(data), rec)
<1> HIDE DEF full
<1>3. /\ log' = Append(log, rec)
      /\ \/ acked' = acked \cup {rec.n} /\ memory' = full /\ disk' = full
         \/ acked' = acked /\ memory' \in {data, full, NotLoaded} /\ disk' \in {disk, full}
  BY <1>2 DEF Failed, full
<1>4. /\ HistoryOK /\ acked \subseteq 1..Len(log) /\ Dataset(disk) /\ Keeps(disk)
      /\ Dataset(data) /\ Keeps(data)
  BY LoadedIsKept DEF KeptInv
<1>5. HistoryOK' /\ Len(log') = Len(log) + 1 /\ \A d : Dataset(d) => Dataset(d)'
  BY <1>1, <1>3, <1>4, LogGrows
<1>6. acked' \subseteq acked \cup {rec.n}
  BY <1>3
<1>7. Dataset(full)' /\ Keeps(full)'
  BY <1>1, <1>3, <1>4, <1>6, RecordIsAdded DEF full
<1>8. acked' \subseteq 1..Len(log')
  <2>1. Len(log) \in Nat
    BY <1>4, LenProperties DEF HistoryOK
  <2> QED
    BY <1>1, <1>4, <1>5, <1>6, <2>1
<1>9. ASSUME NEW d, Dataset(d), Keeps(d), acked' = acked PROVE Dataset(d)' /\ Keeps(d)'
  BY <1>5, <1>9 DEF Keeps
<1>10. CASE acked' = acked /\ memory' \in {data, full, NotLoaded} /\ disk' \in {disk, full}
  <2>1. Dataset(disk)' /\ Keeps(disk)'
    <3>1. CASE disk' = full
      BY <1>7, <3>1 DEF Dataset, Keeps
    <3>2. CASE disk' = disk
      <4>1. Dataset(disk) /\ Keeps(disk) /\ acked' = acked
        BY <1>4, <1>10
      <4> QED
        BY <1>5, <3>2, <4>1 DEF Dataset, Keeps
    <3> QED
      BY <1>10, <3>1, <3>2
  <2>2. memory' # NotLoaded => Dataset(memory)' /\ Keeps(memory)'
    <3>1. CASE memory' = full
      BY <1>7, <3>1 DEF Dataset, Keeps
    <3>2. CASE memory' = data
      <4>1. Dataset(data)' /\ Keeps(data)'
        BY <1>4, <1>9, <1>10
      <4> QED
        BY <3>2, <4>1 DEF Dataset, Keeps
    <3> QED
      BY <1>10, <3>1, <3>2
  <2> QED
    BY <1>5, <1>8, <2>1, <2>2 DEF KeptInv
<1>11. CASE memory' = full /\ disk' = full
  <2>1. Dataset(disk)' /\ Keeps(disk)' /\ Dataset(memory)' /\ Keeps(memory)'
    BY <1>7, <1>11 DEF Dataset, Keeps
  <2> QED
    BY <1>5, <1>8, <2>1 DEF KeptInv
<1> QED
  BY <1>3, <1>10, <1>11

LEMMA StepKeeps ==
  ASSUME KeptInv, ReadFaults = FALSE, [Next]_vars
  PROVE  KeptInv'
<1>1. CASE Adds
  BY <1>1, AddingKeeps
<1>2. ASSUME NEW data, Read(data) PROVE KeptInv'
  <2>1. data \in Loads /\ memory' = data /\ UNCHANGED <<disk, log, acked>>
    BY <1>2 DEF Read
  <2>2. Dataset(data) /\ Keeps(data)
    BY <2>1, LoadedIsKept
  <2> QED
    BY <2>1, <2>2 DEF KeptInv, HistoryOK, Logged, Dataset, Keeps
<1>3. CASE Forgets
  BY <1>3 DEF Forgets, KeptInv, HistoryOK, Logged, Dataset, Keeps
<1>4. CASE UNCHANGED storeVars
  BY <1>4 DEF storeVars, KeptInv, HistoryOK, Logged, Dataset, Keeps
<1>5. CASE UNCHANGED vars
  BY <1>4, <1>5 DEF vars
<1> QED
  BY <1>1, <1>2, <1>3, <1>4, <1>5, StepKinds

(***************************************************************************)
(* The theorem.                                                            *)
(***************************************************************************)

\* As long as the file can be read, a correction that was answered 200 is in it, or
\* as many newer ones as fit are, whatever fails, ends or overlaps (add, feedback_store.py).
THEOREM CorrectionsAreKept ==
  ASSUME ReadFaults = FALSE
  PROVE  Spec => []AcknowledgedIsKept
<1>1. Init => KeptInv
  BY KeptAtFirst
<1>2. KeptInv /\ [Next]_vars => KeptInv'
  BY StepKeeps
<1>3. KeptInv => AcknowledgedIsKept
  BY DEF KeptInv, Keeps, AcknowledgedIsKept
<1> QED
  BY <1>1, <1>2, <1>3, PTL DEF Spec

(***************************************************************************)
(* Places in an order.                                                     *)
(***************************************************************************)

\* R orders S strictly and totally.
Orders(R, S) ==
    /\ \A x \in S : <<x, x>> \notin R
    /\ \A x, y, z \in S : <<x, y>> \in R /\ <<y, z>> \in R => <<x, z>> \in R
    /\ \A x, y \in S : x = y \/ <<x, y>> \in R \/ <<y, x>> \in R

Before(R, S, x) == {y \in S : <<y, x>> \in R}

\* As many elements come before one as its place says, and there is one for each place.
LEMMA Places ==
  ASSUME NEW S, IsFiniteSet(S), NEW R, Orders(R, S)
  PROVE  LET rank == [x \in S |-> Cardinality(Before(R, S, x))] IN
         /\ rank \in Bijection(S, 0..(Cardinality(S) - 1))
         /\ Cardinality(S) \in Nat
<1> DEFINE n == Cardinality(S)
           rank == [x \in S |-> Cardinality(Before(R, S, x))]
<1>1. n \in Nat
  BY FS_CardinalityType
<1>2. ASSUME NEW x \in S
      PROVE  /\ IsFiniteSet(Before(R, S, x)) /\ rank[x] \in 0..(n - 1)
  <2>1. Before(R, S, x) \subseteq S \ {x}
    BY DEF Before, Orders
  <2>2. IsFiniteSet(S \ {x}) /\ Cardinality(S \ {x}) = n - 1
    BY FS_RemoveElement
  <2>3. IsFiniteSet(Before(R, S, x)) /\ Cardinality(Before(R, S, x)) <= n - 1
    BY <2>1, <2>2, FS_Subset
  <2>4. Cardinality(Before(R, S, x)) \in Nat
    BY <2>3, FS_CardinalityType
  <2> QED
    BY <1>1, <2>3, <2>4
<1>3. ASSUME NEW x \in S, NEW y \in S, <<x, y>> \in R
      PROVE  rank[x] # rank[y]
  <2>1. Before(R, S, x) \subseteq Before(R, S, y)
    BY <1>3 DEF Before, Orders
  <2>2. x \in Before(R, S, y) /\ x \notin Before(R, S, x)
    BY <1>3 DEF Before, Orders
  <2>3. IsFiniteSet(Before(R, S, y))
    BY <1>2
  <2>4. Cardinality(Before(R, S, x)) # Cardinality(Before(R, S, y))
    BY <2>1, <2>2, <2>3, FS_Subset
  <2> QED
    BY <2>4
<1>4. rank \in [S -> 0..(n - 1)]
  BY <1>2
<1>5. \A x, y \in S : rank[x] = rank[y] => x = y
  BY <1>3 DEF Orders
<1> HIDE DEF rank
<1>6. rank \in Injection(S, 0..(n - 1))
  BY <1>4, <1>5 DEF Injection, IsInjective
<1>7. IsFiniteSet(0..(n - 1)) /\ Cardinality(0..(n - 1)) = n
  <2>1. 0 \in Int /\ n - 1 \in Int
    BY <1>1
  <2>2. IsFiniteSet(0..(n - 1)) /\ Cardinality(0..(n - 1)) = IF 0 > n - 1 THEN 0 ELSE n - 1 - 0 + 1
    BY <2>1, FS_Interval
  <2> QED
    BY <1>1, <2>2
<1>8. rank \in Surjection(S, 0..(n - 1))
  BY <1>6, <1>7, FS_Injection
<1> QED
  BY <1>1, <1>6, <1>8 DEF Bijection, rank

\* A set that has elements has a first one.
LEMMA FirstExists ==
  ASSUME NEW S, IsFiniteSet(S), S # {}, NEW R, Orders(R, S)
  PROVE  \E x \in S : \A y \in S : <<y, x>> \notin R
<1> DEFINE rank == [x \in S |-> Cardinality(Before(R, S, x))]
<1>1. rank \in Bijection(S, 0..(Cardinality(S) - 1)) /\ Cardinality(S) \in Nat
  BY Places
<1>2. Cardinality(S) # 0
  BY FS_EmptySet
<1>3. 0 \in 0..(Cardinality(S) - 1)
  BY <1>1, <1>2
<1>4. PICK x \in S : rank[x] = 0
  BY <1>1, <1>3 DEF Bijection, Surjection
<1>5. Before(R, S, x) \subseteq S /\ Cardinality(Before(R, S, x)) = 0
  BY <1>4 DEF Before
<1>6. IsFiniteSet(Before(R, S, x))
  BY <1>5, FS_Subset
<1>7. Before(R, S, x) = {}
  BY <1>5, <1>6, FS_EmptySet
<1> QED
  BY <1>7 DEF Before

\* The first k elements are k, if there are so many, and come before the others.
LEMMA FirstOnes ==
  ASSUME NEW S, IsFiniteSet(S), NEW R, Orders(R, S), NEW k \in Nat
  PROVE  LET first == {x \in S : Cardinality(Before(R, S, x)) < k} IN
         /\ IsFiniteSet(first) /\ Cardinality(first) <= k
         /\ \A x \in S \ first : /\ Cardinality(first) = k
                                 /\ \A y \in first : <<y, x>> \in R
<1> DEFINE n == Cardinality(S)
           rank == [x \in S |-> Cardinality(Before(R, S, x))]
           first == {x \in S : Cardinality(Before(R, S, x)) < k}
           place == [x \in first |-> rank[x]]
<1>1. rank \in Bijection(S, 0..(n - 1)) /\ n \in Nat
  BY Places
<1>2. \A x \in S : rank[x] = Cardinality(Before(R, S, x))
  OBVIOUS
<1>3. first \subseteq S /\ \A x \in S : x \in first <=> rank[x] < k
  BY <1>2
<1> HIDE DEF rank, first
<1>4. /\ \A x \in S : rank[x] \in 0..(n - 1)
      /\ \A x, y \in S : rank[x] = rank[y] => x = y
      /\ \A i \in 0..(n - 1) : \E x \in S : rank[x] = i
  BY <1>1 DEF Bijection, Injection, IsInjective, Surjection
<1>5. IsFiniteSet(0..(k - 1)) /\ Cardinality(0..(k - 1)) = k
  <2>1. 0 \in Int /\ k - 1 \in Int
    OBVIOUS
  <2>2. IsFiniteSet(0..(k - 1)) /\ Cardinality(0..(k - 1)) = IF 0 > k - 1 THEN 0 ELSE k - 1 - 0 + 1
    BY <2>1, FS_Interval
  <2> QED
    BY <2>2
<1>6. place \in Injection(first, 0..(k - 1))
  <2>1. \A x \in first : place[x] \in 0..(k - 1)
    BY <1>1, <1>3, <1>4
  <2>2. \A x, y \in first : place[x] = place[y] => x = y
    BY <1>3, <1>4
  <2> QED
    BY <2>1, <2>2 DEF Injection, IsInjective
<1>7. IsFiniteSet(first) /\ Cardinality(first) <= k
  <2> HIDE DEF place
  <2> QED
    BY <1>5, <1>6, FS_Injection
<1>8. ASSUME NEW x \in S, x \notin first PROVE Cardinality(first) = k
  <2>1. rank[x] >= k /\ rank[x] <= n - 1 /\ rank[x] \in Nat
    BY <1>1, <1>3, <1>4, <1>8
  <2>2. \A i \in 0..(k - 1) : i \in 0..(n - 1)
    BY <1>1, <2>1
  <2>3. ASSUME NEW i \in 0..(k - 1) PROVE \E y \in first : place[y] = i
    <3>1. PICK y \in S : rank[y] = i
      BY <1>4, <2>2, <2>3
    <3>2. y \in first
      BY <1>3, <3>1
    <3> QED
      BY <3>1, <3>2
  <2>4. place \in Surjection(first, 0..(k - 1))
    BY <1>6, <2>3 DEF Surjection, Injection
  <2> HIDE DEF place
  <2>5. Cardinality(first) = Cardinality(0..(k - 1))
    BY <1>5, <1>6, <2>4, FS_Injection
  <2> QED
    BY <1>5, <2>5
<1>9. ASSUME NEW x \in S, x \notin first, NEW y \in first PROVE <<y, x>> \in R
  <2>1. y \in S /\ rank[y] < k /\ ~(rank[x] < k) /\ rank[y] \in Nat /\ rank[x] \in Nat
    BY <1>1, <1>3, <1>4, <1>9
  <2>2. CASE <<x, y>> \in R
    <3>1. Before(R, S, x) \subseteq Before(R, S, y)
      BY <2>1, <2>2 DEF Before, Orders
    <3>2. Before(R, S, y) \subseteq S
      BY DEF Before
    <3>3. Cardinality(Before(R, S, x)) <= Cardinality(Before(R, S, y))
      BY <3>1, <3>2, FS_Subset
    <3> QED
      BY <1>2, <2>1, <3>3
  <2> QED
    BY <2>1, <2>2 DEF Orders
<1> QED
  BY <1>7, <1>8, <1>9 DEF first

(***************************************************************************)
(* The examples.                                                           *)
(***************************************************************************)

\* Numbered records, each with a score.
Numbered(recs) == /\ IsFiniteSet(recs)
                  /\ \A a \in recs : a.n \in Int
                  /\ \A a, b \in recs : a.n = b.n => a = b
Scored(recs, score) == \A a \in recs : score[a] \in Int

NearerFirst(score, recs) == {p \in recs \X recs : Nearer(score, p[1], p[2])}
StoredFirst(recs) == {p \in recs \X recs : p[1].n < p[2].n}

LEMMA NearerOrders ==
  ASSUME NEW recs, NEW score, Numbered(recs), Scored(recs, score), NEW some \in SUBSET recs
  PROVE  Orders(NearerFirst(score, recs), some)
<1>1. \A a, b \in recs : <<a, b>> \in NearerFirst(score, recs) <=> Nearer(score, a, b)
  BY DEF NearerFirst
<1> QED
  BY <1>1 DEF Orders, Nearer, Numbered, Scored

LEMMA StoredOrders ==
  ASSUME NEW recs, Numbered(recs)
  PROVE  Orders(StoredFirst(recs), recs)
<1>1. \A a, b \in recs : <<a, b>> \in StoredFirst(recs) <=> a.n < b.n
  BY DEF StoredFirst
<1> QED
  BY <1>1 DEF Orders, Numbered

\* The place of a record is one more than the number of those before it.
LEMMA PlaceInOrder ==
  ASSUME NEW recs, Numbered(recs)
  PROVE  /\ \A rec \in recs : Place(rec, recs) \in 1..Cardinality(recs)
         /\ \A k \in 1..Cardinality(recs) : \E rec \in recs : Place(rec, recs) = k
<1> DEFINE R == StoredFirst(recs)
           rank == [x \in recs |-> Cardinality(Before(R, recs, x))]
<1>1. rank \in Bijection(recs, 0..(Cardinality(recs) - 1)) /\ Cardinality(recs) \in Nat
  BY StoredOrders, Places DEF Numbered
<1>2. ASSUME NEW rec \in recs PROVE Place(rec, recs) = rank[rec] + 1
  <2> DEFINE B == Before(R, recs, rec)
  <2>1. {other \in recs : other.n <= rec.n} = B \cup {rec}
    BY DEF Before, StoredFirst, Numbered
  <2>2. rec \notin B
    BY DEF Before, StoredFirst, Numbered
  <2>3. IsFiniteSet(B)
    BY FS_Subset DEF Before, Numbered
  <2>4. rank[rec] = Cardinality(B)
    OBVIOUS
  <2> HIDE DEF B, rank
  <2>5. Cardinality(B \cup {rec}) = Cardinality(B) + 1
    BY <2>2, <2>3, FS_AddElement
  <2> QED
    BY <2>1, <2>4, <2>5 DEF Place
<1> HIDE DEF rank
<1>3. \A rec \in recs : rank[rec] \in 0..(Cardinality(recs) - 1)
  BY <1>1 DEF Bijection, Surjection
<1>4. \A k \in 1..Cardinality(recs) : k - 1 \in 0..(Cardinality(recs) - 1)
  BY <1>1
<1>5. \A k \in 1..Cardinality(recs) : \E rec \in recs : rank[rec] = k - 1
  BY <1>1, <1>4 DEF Bijection, Surjection
<1>6. ASSUME NEW rec \in recs PROVE Place(rec, recs) \in 1..Cardinality(recs)
  BY <1>1, <1>2, <1>3
<1>7. ASSUME NEW k \in 1..Cardinality(recs) PROVE \E rec \in recs : Place(rec, recs) = k
  <2>1. PICK rec \in recs : rank[rec] = k - 1
    BY <1>5
  <2>2. Place(rec, recs) = k
    BY <1>2, <2>1
  <2> QED
    BY <2>2
<1> QED
  BY <1>6, <1>7

\* One record stands for its command, the nearest.
LEMMA NearestStands ==
  ASSUME NEW cands, NEW score, Numbered(cands), Scored(cands, score)
  PROVE  /\ Nearest(cands, score) \subseteq cands
         /\ \A a, b \in Nearest(cands, score) : Fingerprint(a) = Fingerprint(b) => a = b
         /\ \A rec \in cands : NearEnough(score[rec]) =>
               \E a \in Nearest(cands, score) : Fingerprint(a) = Fingerprint(rec) /\ score[a] >= score[rec]
<1> DEFINE R == NearerFirst(score, cands)
<1>1. \A a, b \in cands : <<a, b>> \in R <=> Nearer(score, a, b)
  BY DEF NearerFirst
<1>2. \A a, b \in Nearest(cands, score) : Fingerprint(a) = Fingerprint(b) => a = b
  BY DEF Nearest, Nearer, Numbered, Scored
<1>3. ASSUME NEW rec \in cands, NearEnough(score[rec])
      PROVE  \E a \in Nearest(cands, score) : Fingerprint(a) = Fingerprint(rec) /\ score[a] >= score[rec]
  <2> DEFINE same == {b \in cands : Fingerprint(b) = Fingerprint(rec)}
  <2>1. IsFiniteSet(same) /\ same # {}
    BY FS_Subset DEF Numbered
  <2>2. Orders(R, same)
    BY NearerOrders
  <2>3. PICK a \in same : \A y \in same : <<y, a>> \notin R
    <3> HIDE DEF same, R
    <3> QED
      BY <2>1, <2>2, FirstExists
  <2>4. \A y \in cands : Fingerprint(y) = Fingerprint(a) => ~Nearer(score, y, a)
    BY <1>1, <2>3
  <2>5. score[a] >= score[rec]
    BY <2>3, <2>4 DEF Nearer, Scored
  <2>6. NearEnough(score[a])
    BY <1>3, <2>3, <2>5, FeedbackAssumption DEF NearEnough, Scored
  <2> QED
    BY <2>3, <2>4, <2>5, <2>6 DEF Nearest
<1> QED
  BY <1>2, <1>3 DEF Nearest

\* At most K are chosen, and where one is not, K nearer ones are.
LEMMA ChosenAreFirst ==
  ASSUME NEW recs, NEW score, Numbered(recs), Scored(recs, score), NEW near \in SUBSET recs
  PROVE  /\ Chosen(near, score) \subseteq near
         /\ IsFiniteSet(Chosen(near, score)) /\ Cardinality(Chosen(near, score)) <= K
         /\ \A a \in near \ Chosen(near, score) :
               /\ Cardinality(Chosen(near, score)) = K
               /\ \A b \in Chosen(near, score) : score[b] >= score[a]
<1> DEFINE R == NearerFirst(score, recs)
           first == {x \in near : Cardinality(Before(R, near, x)) < K}
<1>1. ASSUME NEW a \in near PROVE {b \in near : Nearer(score, b, a)} = Before(R, near, a)
  BY DEF NearerFirst, Before
<1>2. first = Chosen(near, score)
  BY <1>1 DEF Chosen
<1>3. IsFiniteSet(near) /\ Orders(R, near) /\ K \in Nat
  BY NearerOrders, FS_Subset, FeedbackAssumption DEF Numbered
<1>4. /\ IsFiniteSet(first) /\ Cardinality(first) <= K
      /\ \A a \in near \ first : /\ Cardinality(first) = K
                                 /\ \A b \in first : <<b, a>> \in R
  <2> HIDE DEF R
  <2> QED
    BY <1>3, FirstOnes
<1>5. \A a, b \in recs : <<b, a>> \in R => score[b] >= score[a]
  BY DEF NearerFirst, Nearer, Scored
<1> HIDE DEF R, first
<1> QED
  BY <1>2, <1>4, <1>5 DEF Chosen

\* What the examples are: one for each of the chosen.
LEMMA ExamplesAreChosen ==
  ASSUME NEW cands, NEW vecs, Numbered(cands), Scored(cands, Scores(cands, vecs))
  PROVE  LET examples == Examples(cands, vecs)
             score == Scores(cands, vecs)
         IN /\ Cardinality({Fingerprint(e) : e \in examples}) = Cardinality(examples)
            /\ Cardinality(examples) <= K
            /\ \A e \in examples : \E a \in cands : Fingerprint(e) = Fingerprint(a) /\ e.label = a.label
            /\ \A rec \in cands : NearEnough(score[rec]) =>
                  \/ \E e \in examples :
                           \E a \in cands : Fingerprint(e) = Fingerprint(rec) /\ Fingerprint(a) = Fingerprint(rec) /\ e.label = a.label
                  \/ /\ Cardinality(examples) = K
                     /\ \A e \in examples : e.score >= score[rec]
<1> DEFINE score == Scores(cands, vecs)
           near == Nearest(cands, score)
           chosen == Chosen(near, score)
           examples == Examples(cands, vecs)
           commands == {Fingerprint(e) : e \in examples}
           f == [a \in chosen |-> [cmd |-> a.cmd, ctx |-> a.ctx, label |-> a.label, score |-> score[a]]]
           g == [e \in examples |-> Fingerprint(e)]
<1> HIDE DEF score
<1>1. /\ near \subseteq cands
      /\ \A a, b \in near : Fingerprint(a) = Fingerprint(b) => a = b
      /\ \A rec \in cands : NearEnough(score[rec]) =>
            \E a \in near : Fingerprint(a) = Fingerprint(rec) /\ score[a] >= score[rec]
  BY NearestStands DEF score
<1> HIDE DEF near
<1>2. /\ chosen \subseteq near
      /\ IsFiniteSet(chosen) /\ Cardinality(chosen) <= K
      /\ \A a \in near \ chosen : /\ Cardinality(chosen) = K
                                  /\ \A b \in chosen : score[b] >= score[a]
  BY <1>1, ChosenAreFirst DEF score
<1>3. examples = {[cmd |-> a.cmd, ctx |-> a.ctx, label |-> a.label, score |-> score[a]] : a \in chosen}
  BY DEF Examples, score, near
<1> HIDE DEF chosen, examples
<1>4. /\ \A a \in chosen : /\ f[a] \in examples
                           /\ Fingerprint(f[a]) = Fingerprint(a)
                           /\ f[a].label = a.label /\ f[a].score = score[a]
      /\ \A e \in examples : \E a \in chosen : e = f[a]
      /\ f \in [chosen -> examples]
  BY <1>3 DEF Fingerprint
<1> HIDE DEF f
<1>5. \A a, b \in chosen : f[a] = f[b] => a = b
  BY <1>1, <1>2, <1>4
<1>6. f \in Surjection(chosen, examples) /\ f \in Injection(chosen, examples)
  BY <1>4, <1>5 DEF Surjection, Injection, IsInjective
<1>7. IsFiniteSet(examples) /\ Cardinality(examples) = Cardinality(chosen)
  BY <1>2, <1>6, FS_Surjection
<1>8. Cardinality(commands) = Cardinality(examples)
  <2>1. g \in [examples -> commands] /\ \A c \in commands : \E e \in examples : g[e] = c
    OBVIOUS
  <2>2. \A d, e \in examples : g[d] = g[e] => d = e
    <3>1. ASSUME NEW d \in examples, NEW e \in examples, g[d] = g[e] PROVE d = e
      <4>1. PICK a \in chosen : d = f[a]
        BY <1>4
      <4>2. PICK b \in chosen : e = f[b]
        BY <1>4
      <4>3. Fingerprint(a) = Fingerprint(b)
        BY <1>4, <3>1, <4>1, <4>2
      <4> QED
        BY <1>1, <1>2, <4>1, <4>2, <4>3
    <3> QED
      BY <3>1
  <2> HIDE DEF g, commands
  <2>3. g \in Surjection(examples, commands) /\ g \in Injection(examples, commands)
    BY <2>1, <2>2 DEF Surjection, Injection, IsInjective
  <2> QED
    BY <1>7, <2>3, FS_Surjection
<1>9. ASSUME NEW rec \in cands, NearEnough(score[rec])
      PROVE  \/ \E e \in examples :
                      \E a \in cands : Fingerprint(e) = Fingerprint(rec) /\ Fingerprint(a) = Fingerprint(rec) /\ e.label = a.label
             \/ /\ Cardinality(examples) = K
                /\ \A e \in examples : e.score >= score[rec]
  <2>1. PICK a \in near : Fingerprint(a) = Fingerprint(rec) /\ score[a] >= score[rec]
    BY <1>1, <1>9
  <2>2. CASE a \in chosen
    BY <1>1, <1>2, <1>4, <2>1, <2>2
  <2>3. CASE a \notin chosen
    <3>1. Cardinality(examples) = K /\ \A b \in chosen : score[b] >= score[a]
      BY <1>2, <1>7, <2>3
    <3>2. ASSUME NEW e \in examples PROVE e.score >= score[rec]
      <4>1. PICK b \in chosen : e = f[b]
        BY <1>4
      <4>2. e.score = score[b] /\ score[b] >= score[a]
        BY <1>4, <3>1, <4>1
      <4>3. score[a] \in Int /\ score[b] \in Int /\ score[rec] \in Int
        BY <1>1, <1>2 DEF Scored, score
      <4> QED
        BY <2>1, <4>2, <4>3
    <3> QED
      BY <3>1, <3>2
  <2> QED
    BY <2>2, <2>3
<1>10. \A e \in examples : \E a \in cands : Fingerprint(e) = Fingerprint(a) /\ e.label = a.label
  BY <1>1, <1>2, <1>4
<1> QED
  BY <1>2, <1>7, <1>8, <1>9, <1>10 DEF score, examples

(***************************************************************************)
(* The state the answers depend on.                                        *)
(***************************************************************************)

\* The vectors of the first of some texts.
Embeds(vecs, texts) ==
    /\ vecs \in Seq(Vector) /\ Len(vecs) <= Len(texts)
    /\ \A i \in DOMAIN vecs : vecs[i].text = texts[i]

\* The cache has what its order names, within the limit.
Cache(vs, ord) ==
    /\ ord \in Seq(TextSet) /\ Len(ord) <= CacheCap
    /\ \A i, j \in DOMAIN ord : ord[i] = ord[j] => i = j
    /\ vs \in [TextSet -> Vector \cup {NoVector}]
    /\ \A t \in TextSet : vs[t] # NoVector => vs[t] \in Vector /\ vs[t].text = t
    /\ \A t \in TextSet : vs[t] # NoVector <=> \E i \in DOMAIN ord : ord[i] = t

Complete(known) == Embeds(known, Corpus) /\ Len(known) = Len(Corpus)

Stores ==
    /\ HistoryOK /\ log \in Seq(Record) /\ \A i \in DOMAIN log : OwnVector(log[i])
    /\ Dataset(disk)
    /\ memory # NotLoaded => Dataset(memory)

\* Of what was stored when a request came the candidates are records that teach; what
\* is in memory of it does not contradict them, and what the log agrees with is one.
Snapshot(cands, since) ==
    /\ memory # NotLoaded
    /\ since \in Nat /\ since <= Len(log)
    /\ \A a \in cands : a \in Logged /\ Teaches(a) /\ a.n <= since
    /\ \A a \in cands : \A j \in DOMAIN memory :
          (memory[j].n <= since /\ Teaches(memory[j]) /\ Fingerprint(memory[j]) = Fingerprint(a))
          => memory[j].label = a.label
    /\ \A i \in DOMAIN memory :
          (/\ memory[i].n <= since /\ Teaches(memory[i])
           /\ \A j \in DOMAIN log : (Fingerprint(log[j]) = Fingerprint(memory[i]) /\ Teaches(log[j]))
                                    => log[j].label = memory[i].label)
          => memory[i] \in cands

AddReq == [st : {"waiting"}, kind : {"add"}, query : TextSet, texts : Seq(TextSet),
           vecs : Seq(Vector), ctx : Context, trusted : BOOLEAN, label : Label]
RetrieveReq == [st : {"waiting"}, kind : {"retrieve"}, query : TextSet, texts : Seq(TextSet),
                vecs : Seq(Vector), since : Nat, cands : SUBSET Record]
SimilarReq == [st : {"waiting"}, kind : {"similar"}, query : TextSet, texts : Seq(TextSet),
               vecs : Seq(Vector), since : Nat, building : BOOLEAN]

AddOK(q) == q \in AddReq /\ q.texts = <<q.query>> /\ q.vecs = <<>>

RetrieveOK(q) ==
    /\ q \in RetrieveReq /\ q.texts = <<q.query>> \o Lacking(q.cands)
    /\ q.cands # {} /\ Snapshot(q.cands, q.since)

\* A request that does not build the index finds it complete.
SimilarOK(q) ==
    /\ q \in SimilarReq
    /\ q.texts = IF q.building THEN Corpus ELSE <<q.query>>
    /\ ~q.building => Complete(index)

RequestOK(q) == Embeds(q.vecs, q.texts) /\ (AddOK(q) \/ RetrieveOK(q) \/ SimilarOK(q))

Provides ==
    /\ Cache(vectors, order) /\ lastSource \in Source
    /\ index = NotBuilt \/ Complete(index)
    /\ reqs \in [Request -> {Idle} \cup AddReq \cup RetrieveReq \cup SimilarReq]
    /\ \A r \in Request : reqs[r] = Idle
                          \/ (RequestOK(reqs[r]) /\ Len(reqs[r].vecs) < Len(reqs[r].texts))

\* What an answer was made of.
AnswerOK ==
    /\ answer.kind = "retrieve" =>
          /\ answer.query \in TextSet
          /\ \E cands, vecs :
                /\ Snapshot(cands, answer.since)
                /\ answer.examples = Examples(cands, vecs)
                /\ cands # {} => /\ Embeds(vecs, <<answer.query>> \o Lacking(cands))
                                /\ Len(vecs) = Len(<<answer.query>> \o Lacking(cands))
                                /\ answer.vec = vecs[1]
    /\ answer.kind = "similar" =>
          /\ answer.query \in TextSet
          /\ answer.vec \in Vector /\ answer.vec.text = answer.query
          /\ Complete(index)
          /\ answer.similar = Similar(answer.vec, index, lastSource)

Inv == Stores /\ Provides /\ AnswerOK

(***************************************************************************)
(* The provider.                                                           *)
(***************************************************************************)

LEMMA StoredFits ==
  ASSUME Cache(vectors, order), NEW t \in TextSet, NEW s \in Source
  PROVE  Cache(Stored(t, s).vectors, Stored(t, s).order)
<1> DEFINE v == [text |-> t, src |-> s]
           all == Append(order, t)
           kept == [vectors EXCEPT ![t] = v]
<1>1. CASE vectors[t] # NoVector
  BY <1>1 DEF Stored
<1>2. CASE vectors[t] = NoVector
  <2>1. v \in Vector /\ v.text = t /\ v # NoVector
    BY EmbeddingsAssumption DEF Vector
  <2>2. /\ kept \in [TextSet -> Vector \cup {NoVector}]
        /\ kept[t] = v /\ \A u \in TextSet : u # t => kept[u] = vectors[u]
    BY <2>1 DEF Cache
  <2>3. /\ order \in Seq(TextSet) /\ Len(order) \in Nat /\ Len(order) <= CacheCap
        /\ DOMAIN order = 1..Len(order) /\ \A i \in 1..Len(order) : order[i] \in TextSet
    BY LenProperties DEF Cache
  <2>4. /\ all \in Seq(TextSet) /\ Len(all) = Len(order) + 1 /\ DOMAIN all = 1..(Len(order) + 1)
        /\ \A i \in 1..Len(order) : all[i] = order[i]
        /\ all[Len(order) + 1] = t
    BY <2>3
  <2>5. \A i \in 1..Len(order) : order[i] # t
    BY <1>2, <2>3 DEF Cache
  <2>6. /\ \A i, j \in DOMAIN all : all[i] = all[j] => i = j
        /\ \A u \in TextSet : kept[u] # NoVector <=> \E i \in DOMAIN all : all[i] = u
    <3>1. ASSUME NEW i \in DOMAIN all, NEW j \in DOMAIN all, all[i] = all[j] PROVE i = j
      BY <2>3, <2>4, <2>5, <3>1 DEF Cache
    <3>2. ASSUME NEW u \in TextSet PROVE kept[u] # NoVector <=> \E i \in DOMAIN all : all[i] = u
      <4>1. CASE u = t
        BY <2>1, <2>2, <2>3, <2>4, <4>1
      <4>2. CASE u # t
        <5>1. (\E i \in DOMAIN all : all[i] = u) <=> (\E i \in DOMAIN order : order[i] = u)
          <6>1. ASSUME NEW i \in DOMAIN all, all[i] = u PROVE \E k \in DOMAIN order : order[k] = u
            <7>1. i # Len(order) + 1
              BY <2>4, <4>2, <6>1
            <7>2. i \in DOMAIN order
              BY <2>3, <2>4, <7>1
            <7> QED
              BY <2>3, <2>4, <6>1, <7>2
          <6>2. \A i \in DOMAIN order : i \in DOMAIN all /\ all[i] = order[i]
            BY <2>3, <2>4
          <6> QED
            BY <6>1, <6>2
        <5> QED
          BY <2>2, <4>2, <5>1 DEF Cache
      <4> QED
        BY <4>1, <4>2
    <3> QED
      BY <3>1, <3>2
  <2>7. \A u \in TextSet : kept[u] # NoVector => kept[u] \in Vector /\ kept[u].text = u
    BY <2>1, <2>2 DEF Cache
  <2>8. CASE Len(all) <= CacheCap
    <3>1. Cache(kept, all)
      BY <2>2, <2>4, <2>6, <2>7, <2>8 DEF Cache
    <3>2. Stored(t, s).vectors = kept /\ Stored(t, s).order = all
      BY <1>2, <2>8 DEF Stored
    <3> QED
      BY <3>1, <3>2
  <2>9. CASE ~(Len(all) <= CacheCap)
    <3> DEFINE rest == Tail(all)
               left == [kept EXCEPT ![Head(all)] = NoVector]
    <3>1. Stored(t, s).vectors = left /\ Stored(t, s).order = rest
      BY <1>2, <2>9 DEF Stored
    <3>2. Len(order) = CacheCap /\ Len(order) >= 1
      BY <2>3, <2>4, <2>9, EmbeddingsAssumption
    <3>3. Head(all) = all[1] /\ all[1] \in TextSet
      BY <2>3, <2>4, <3>2
    <3>4. /\ rest \in Seq(TextSet) /\ Len(rest) = CacheCap /\ DOMAIN rest = 1..CacheCap
          /\ \A i \in 1..CacheCap : rest[i] = all[i + 1]
      <4>1. all # <<>>
        BY <2>4, <3>2
      <4> QED
        BY <2>4, <3>2, <4>1, HeadTailProperties
    <3> HIDE DEF rest, all, kept
    <3>5. \A i \in DOMAIN rest : i + 1 \in DOMAIN all /\ rest[i] = all[i + 1] /\ i + 1 # 1
      BY <2>4, <3>2, <3>4
    <3>6. \A i \in DOMAIN all : i # 1 => i - 1 \in DOMAIN rest /\ rest[i - 1] = all[i]
      BY <2>4, <3>2, <3>4
    <3>7. \A i, j \in DOMAIN rest : rest[i] = rest[j] => i = j
      <4>1. ASSUME NEW i \in DOMAIN rest, NEW j \in DOMAIN rest, rest[i] = rest[j] PROVE i = j
        <5>1. i + 1 = j + 1
          BY <2>6, <3>5, <4>1
        <5> QED
          BY <3>2, <3>4, <5>1, EmbeddingsAssumption
      <4> QED
        BY <4>1
    <3>8. /\ left \in [TextSet -> Vector \cup {NoVector}]
          /\ left[all[1]] = NoVector /\ \A u \in TextSet : u # all[1] => left[u] = kept[u]
      BY <2>2, <3>3
    <3>9. 1 \in DOMAIN all
      BY <2>4, <3>2
    <3>10. \A u \in TextSet : left[u] # NoVector <=> \E i \in DOMAIN rest : rest[i] = u
      <4>1. ASSUME NEW u \in TextSet, u = all[1]
            PROVE  left[u] = NoVector /\ \A i \in DOMAIN rest : rest[i] # u
        BY <2>6, <3>5, <3>8, <3>9, <4>1
      <4>2. ASSUME NEW u \in TextSet, u # all[1]
            PROVE  (\E i \in DOMAIN all : all[i] = u) <=> (\E i \in DOMAIN rest : rest[i] = u)
        BY <3>5, <3>6, <4>2
      <4>3. ASSUME NEW u \in TextSet, u # all[1]
            PROVE  left[u] # NoVector <=> \E i \in DOMAIN rest : rest[i] = u
        BY <2>6, <3>8, <4>2, <4>3
      <4> QED
        BY <4>1, <4>3
    <3>11. \A u \in TextSet : left[u] # NoVector => left[u] \in Vector /\ left[u].text = u
      BY <2>7, <3>8
    <3>12. CacheCap \in Nat
      BY EmbeddingsAssumption
    <3>13. Cache(left, rest)
      BY <3>4, <3>7, <3>8, <3>10, <3>11, <3>12 DEF Cache
    <3> QED
      BY <3>1, <3>13
  <2> QED
    BY <2>8, <2>9
<1> QED
  BY <1>1, <1>2

\* The vectors a handler gets as far with are those of the first texts.
LEMMA ExtendedEmbeds ==
  ASSUME NEW texts \in Seq(TextSet), NEW done, Embeds(done, texts),
         NEW vs, NEW ord, Cache(vs, ord)
  PROVE  Embeds(Extended(texts, done, vs), texts)
<1> DEFINE missing == {i \in (Len(done) + 1)..Len(texts) : vs[texts[i]] = NoVector}
           first == CHOOSE i \in missing : \A j \in missing : i <= j
           stop == IF missing = {} THEN Len(texts) ELSE first - 1
           vecs == [i \in 1..stop |-> IF i <= Len(done) THEN done[i] ELSE vs[texts[i]]]
<1>1. /\ Len(done) \in Nat /\ Len(texts) \in Nat /\ Len(done) <= Len(texts)
      /\ DOMAIN done = 1..Len(done) /\ DOMAIN texts = 1..Len(texts)
      /\ \A i \in 1..Len(done) : done[i] \in Vector /\ done[i].text = texts[i]
      /\ \A i \in 1..Len(texts) : texts[i] \in TextSet
  BY LenProperties, ElementOfSeq DEF Embeds
<1>2. ASSUME missing # {} PROVE first \in missing /\ \A j \in missing : first <= j
  <2> DEFINE R == {p \in missing \X missing : p[1] < p[2]}
  <2>1. missing \subseteq Int /\ missing \subseteq (Len(done) + 1)..Len(texts)
    BY <1>1
  <2>2. IsFiniteSet(missing)
    <3> DEFINE range == (Len(done) + 1)..Len(texts)
    <3>1. Len(done) + 1 \in Int /\ Len(texts) \in Int
      BY <1>1
    <3>2. IsFiniteSet(range)
      BY <3>1, FS_Interval
    <3>3. missing \in SUBSET range
      BY <2>1
    <3> HIDE DEF missing, range
    <3> QED
      BY <3>2, <3>3, FS_Subset
  <2> HIDE DEF missing
  <2>3. \A i, j \in missing : <<i, j>> \in R <=> i < j
    OBVIOUS
  <2>4. Orders(R, missing)
    BY <2>1, <2>3 DEF Orders
  <2>5. PICK i \in missing : \A j \in missing : <<j, i>> \notin R
    <3> HIDE DEF R
    <3> QED
      BY <1>2, <2>2, <2>4, FirstExists
  <2> HIDE DEF R
  <2>6. ASSUME NEW j \in missing PROVE i <= j
    <3>1. i \in Int /\ j \in Int
      BY <2>1, <2>5
    <3>2. ~(j < i)
      BY <2>3, <2>5
    <3> QED
      BY <3>1, <3>2
  <2> QED
    BY <2>6
<1> HIDE DEF first
<1>3. stop \in Nat /\ stop <= Len(texts)
  BY <1>1, <1>2
<1>4. \A i \in 1..stop : i > Len(done) => i \in 1..Len(texts) /\ vs[texts[i]] # NoVector
  <2>1. CASE missing = {}
    BY <1>1, <2>1
  <2>2. CASE missing # {}
    BY <1>1, <1>2, <2>2
  <2> QED
    BY <2>1, <2>2
<1> HIDE DEF stop, missing
<1>5. \A i \in 1..stop : vecs[i] \in Vector /\ vecs[i].text = texts[i]
  <2>1. ASSUME NEW i \in 1..stop PROVE vecs[i] \in Vector /\ vecs[i].text = texts[i]
    <3>1. CASE i <= Len(done)
      BY <1>1, <1>3, <3>1
    <3>2. CASE ~(i <= Len(done))
      BY <1>1, <1>3, <1>4, <3>2 DEF Cache
    <3> QED
      BY <3>1, <3>2
  <2> QED
    BY <2>1
<1>6. vecs \in Seq(Vector) /\ Len(vecs) = stop /\ DOMAIN vecs = 1..stop
  <2>1. vecs \in [1..stop -> Vector]
    BY <1>5
  <2> HIDE DEF vecs
  <2> QED
    BY <1>3, <2>1, SeqDef, LenProperties
<1>7. Extended(texts, done, vs) = vecs
  BY DEF Extended, stop, missing, first
<1> QED
  BY <1>3, <1>5, <1>6, <1>7 DEF Embeds

(***************************************************************************)
(* The steps of the store, and what they leave of a snapshot.              *)
(***************************************************************************)

SnapshotsStay == \A cands, since : Snapshot(cands, since) => Snapshot(cands, since)'

LEMMA DatasetIsLoaded ==
  ASSUME log \in Seq(Record), NEW d, Dataset(d)
  PROVE  d # NotLoaded /\ d \in Seq(Record) /\ \A i \in DOMAIN d : d[i] \in Logged
<1>1. Logged \subseteq Record
  BY LenProperties, ElementOfSeq DEF Logged
<1>2. d \in Seq(Logged)
  BY DEF Dataset
<1>3. d \in Seq(Record)
  BY <1>1, <1>2, SeqMonotonic
<1>4. \A i \in DOMAIN d : d[i] \in Logged
  BY <1>2, LenProperties, ElementOfSeq
<1> QED
  BY <1>3, <1>4, FeedbackAssumption

LEMMA LoadsDatasets ==
  ASSUME Stores, NEW data \in Loads
  PROVE  /\ Dataset(data) /\ data # NotLoaded
         /\ memory # NotLoaded => data = memory
<1>1. Dataset(<<>>)
  <2>1. <<>> \in Seq(Logged) /\ Len(<<>>) = 0
    BY EmptySeq
  <2>2. DOMAIN <<>> = {}
    OBVIOUS
  <2> QED
    BY <2>1, <2>2, Limit DEF Dataset
<1>2. Dataset(data)
  BY <1>1 DEF Stores, Loads
<1> QED
  BY <1>2, DatasetIsLoaded DEF Stores, Loads

\* What memory holds of the time of the request may become less; the log becomes more.
LEMMA SnapshotStays ==
  ASSUME NEW cands, NEW since, Snapshot(cands, since),
         memory' # NotLoaded, Logged \subseteq Logged', Len(log) <= Len(log)', Len(log)' \in Nat, Len(log) \in Nat,
         \A i \in DOMAIN log : i \in DOMAIN log' /\ log'[i] = log[i],
         \A i \in DOMAIN memory' : \/ ~(memory'[i].n <= since)
                                   \/ \E j \in DOMAIN memory : memory'[i] = memory[j]
  PROVE  Snapshot(cands, since)'
<1>1. since \in Nat /\ since <= Len(log)'
  BY DEF Snapshot
<1>2. \A a \in cands : a \in Logged' /\ Teaches(a) /\ a.n <= since
  BY DEF Snapshot
<1>3. ASSUME NEW a \in cands, NEW i \in DOMAIN memory',
             memory'[i].n <= since, Teaches(memory'[i]), Fingerprint(memory'[i]) = Fingerprint(a)
      PROVE  memory'[i].label = a.label
  <2>1. PICK j \in DOMAIN memory : memory'[i] = memory[j]
    BY <1>3
  <2> QED
    BY <1>3, <2>1 DEF Snapshot
<1>4. ASSUME NEW i \in DOMAIN memory', memory'[i].n <= since, Teaches(memory'[i]),
             \A j \in DOMAIN log' : (Fingerprint(log'[j]) = Fingerprint(memory'[i]) /\ Teaches(log'[j]))
                                    => log'[j].label = memory'[i].label
      PROVE  memory'[i] \in cands
  <2>1. PICK k \in DOMAIN memory : memory'[i] = memory[k]
    BY <1>4
  <2>2. \A j \in DOMAIN log : (Fingerprint(log[j]) = Fingerprint(memory[k]) /\ Teaches(log[j]))
                              => log[j].label = memory[k].label
    BY <1>4, <2>1
  <2> QED
    BY <1>4, <2>1, <2>2 DEF Snapshot
<1> QED
  BY <1>1, <1>2, <1>3, <1>4 DEF Snapshot, Teaches

LEMMA AppendingStores ==
  ASSUME Stores, NEW rec \in Record, rec.n = Len(log) + 1, OwnVector(rec),
         NEW out \in {"ok", "error", "crash"}, AppendRecord(rec, out)
  PROVE  Stores' /\ (out # "crash" => SnapshotsStay)
<1>1. PICK data \in Loads :
         LET full == Append(MakeRoom(data), rec) IN
         /\ log' = Append(log, rec)
         /\ \/ /\ out = "ok"
               /\ memory' = full /\ disk' = full
               /\ acked' = acked \cup {rec.n} /\ UNCHANGED faults
            \/ /\ out = "error" /\ Failed
               /\ memory' = IF Len(data) >= MaxRecords THEN data ELSE full
               /\ UNCHANGED disk
            \/ /\ out = "crash" /\ Failed
               /\ memory' = NotLoaded
               /\ disk' \in {disk, full}
  BY DEF AppendRecord
<1> DEFINE full == Append(MakeRoom(data), rec)
<1>2. Dataset(data) /\ data # NotLoaded /\ (memory # NotLoaded => data = memory)
  BY LoadsDatasets
<1>3. HistoryOK /\ log \in Seq(Record) /\ Len(log) \in Nat /\ DOMAIN log = 1..Len(log)
  BY LenProperties DEF Stores
<1>4. /\ Dataset(full)'
      /\ \A i \in DOMAIN full : full[i] = rec \/ \E j \in DOMAIN data : full[i] = data[j]
  BY <1>1, <1>2, <1>3, RecordFits
<1>5. HistoryOK' /\ Len(log') = Len(log) + 1 /\ Logged' = Logged \cup {rec}
      /\ \A d : Dataset(d) => Dataset(d)'
  BY <1>1, <1>3, LogGrows
<1>6. log' \in Seq(Record) /\ \A i \in DOMAIN log : i \in DOMAIN log' /\ log'[i] = log[i]
  BY <1>1, <1>3
<1>7. memory' \in {data, full, NotLoaded} /\ disk' \in {disk, full}
  BY <1>1
<1> HIDE DEF full
<1>8. Dataset(disk)'
  <2>1. CASE disk' = full
    BY <1>4, <2>1 DEF Dataset
  <2>2. CASE disk' = disk
    <3>1. Dataset(disk)
      BY DEF Stores
    <3> QED
      BY <1>5, <2>2, <3>1 DEF Dataset
  <2> QED
    BY <1>7, <2>1, <2>2
<1>9. memory' # NotLoaded => Dataset(memory)'
  <2>1. CASE memory' = full
    BY <1>4, <2>1 DEF Dataset
  <2>2. CASE memory' = data
    <3>1. Dataset(data)'
      BY <1>2, <1>5
    <3> QED
      BY <2>2, <3>1 DEF Dataset
  <2> QED
    BY <1>7, <2>1, <2>2
<1>10. Stores'
  <2>1. \A i \in DOMAIN log' : OwnVector(log'[i])
    <3>1. \A i \in DOMAIN log' : log'[i] = rec \/ \E j \in DOMAIN log : log'[i] = log[j]
      BY <1>1, <1>3, Appended
    <3> QED
      BY <3>1 DEF Stores, OwnVector
  <2> QED
    BY <1>5, <1>6, <1>8, <1>9, <2>1 DEF Stores, OwnVector
<1>11. ASSUME out # "crash", NEW cands, NEW since, Snapshot(cands, since)
       PROVE  Snapshot(cands, since)'
  <2>1. memory # NotLoaded /\ data = memory /\ since \in Nat /\ since <= Len(log)
    BY <1>2, <1>11 DEF Snapshot
  <2>2. memory' = data \/ memory' = full
    BY <1>1, <1>11 DEF full
  <2>3. log' \in Seq(Record) /\ full # NotLoaded
    <3>1. full # NotLoaded
      <4>1. Logged' \subseteq Record
        BY <1>6, LenProperties, ElementOfSeq DEF Logged
      <4>2. full \in Seq(Record)
        BY <1>4, <4>1, SeqMonotonic DEF Dataset
      <4> QED
        BY <4>2, FeedbackAssumption
    <3> QED
      BY <1>6, <3>1
  <2>4. memory' # NotLoaded
    BY <1>2, <2>2, <2>3
  <2>5. ~(rec.n <= since)
    BY <1>3, <2>1
  <2>6. \A i \in DOMAIN memory' : \/ ~(memory'[i].n <= since)
                                  \/ \E j \in DOMAIN memory : memory'[i] = memory[j]
    BY <1>4, <2>1, <2>2, <2>5
  <2>7. Len(log)' = Len(log) + 1 /\ Len(log)' \in Nat /\ Len(log) <= Len(log)'
    BY <1>3, <1>5
  <2> QED
    BY <1>3, <1>5, <1>6, <1>11, <2>4, <2>6, <2>7, SnapshotStays
<1>12. out # "crash" => SnapshotsStay
  BY <1>11 DEF SnapshotsStay
<1> QED
  BY <1>10, <1>12

LEMMA ReadingStores ==
  ASSUME Stores, NEW data, Read(data)
  PROVE  Stores' /\ SnapshotsStay /\ memory' = data /\ Dataset(data)' /\ memory' # NotLoaded
<1>1. data \in Loads /\ memory' = data /\ UNCHANGED <<disk, log, acked, faults>>
  BY DEF Read
<1>2. Dataset(data) /\ data # NotLoaded /\ (memory # NotLoaded => data = memory)
  BY <1>1, LoadsDatasets
<1>3. Stores' /\ Dataset(data)'
  BY <1>1, <1>2 DEF Stores, HistoryOK, Dataset, Logged, OwnVector
<1>4. SnapshotsStay
  BY <1>1, <1>2 DEF SnapshotsStay, Snapshot, Logged
<1> QED
  BY <1>1, <1>2, <1>3, <1>4

LEMMA StillStores ==
  ASSUME Stores, UNCHANGED storeVars
  PROVE  Stores' /\ SnapshotsStay
<1>1. Stores'
  BY DEF storeVars, Stores, HistoryOK, Dataset, Logged, OwnVector
<1>2. SnapshotsStay
  BY DEF storeVars, SnapshotsStay, Snapshot, Logged
<1> QED
  BY <1>1, <1>2

(***************************************************************************)
(* What an answer shows.                                                   *)
(***************************************************************************)

\* Logged records are numbered, and finitely many.
LEMMA LoggedAreNumbered ==
  ASSUME Stores, NEW cands \in SUBSET Logged
  PROVE  Numbered(cands) /\ cands \in SUBSET Record /\ \A a \in cands : OwnVector(a)
<1>1. /\ log \in Seq(Record) /\ Len(log) \in Nat /\ DOMAIN log = 1..Len(log)
      /\ \A i \in 1..Len(log) : log[i].n = i /\ log[i] \in Record /\ OwnVector(log[i])
  BY LenProperties, ElementOfSeq DEF Stores, HistoryOK
<1>2. IsFiniteSet(Logged)
  <2>1. IsFiniteSet(1..Len(log))
    BY <1>1, FS_Interval
  <2>2. log \in Surjection(1..Len(log), Logged)
    <3>1. log \in [1..Len(log) -> Logged]
      BY LenProperties DEF Stores, HistoryOK
    <3> QED
      BY <1>1, <3>1 DEF Surjection, Logged
  <2> QED
    BY <2>1, <2>2, FS_Surjection
<1>3. IsFiniteSet(cands)
  BY <1>2, FS_Subset
<1>4. \A a \in cands : \E i \in 1..Len(log) : a = log[i]
  BY <1>1 DEF Logged
<1> QED
  BY <1>1, <1>3, <1>4 DEF Numbered, OwnVector

\* The texts to embed beside the query: one for each candidate without a vector.
LEMMA TextsToEmbed ==
  ASSUME NEW cands \in SUBSET Record, Numbered(cands), NEW c \in TextSet
  PROVE  LET texts == <<c>> \o Lacking(cands) IN
         /\ texts \in Seq(TextSet) /\ texts[1] = c
         /\ Len(texts) = 1 + Cardinality(Unembedded(cands))
         /\ \A a \in Unembedded(cands) : 1 + Place(a, Unembedded(cands)) \in 1..Len(texts)
<1> DEFINE recs == Unembedded(cands)
           n == Cardinality(recs)
           texts == <<c>> \o Lacking(cands)
<1>1. recs \in SUBSET cands
  BY DEF Unembedded
<1>2. Numbered(recs)
  BY <1>1, FS_Subset DEF Numbered
<1>3. n \in Nat
  BY <1>2, FS_CardinalityType DEF Numbered
<1>4. /\ \A rec \in recs : Place(rec, recs) \in 1..n
      /\ \A k \in 1..n : \E rec \in recs : Place(rec, recs) = k
  BY <1>2, PlaceInOrder
<1>5. Lacking(cands) = [k \in 1..n |-> (CHOOSE rec \in recs : Place(rec, recs) = k).cmd]
  BY DEF Lacking
<1> HIDE DEF recs
<1>6. \A k \in 1..n : (CHOOSE rec \in recs : Place(rec, recs) = k) \in recs
  BY <1>4
<1>7. \A rec \in recs : rec.cmd \in TextSet
  BY <1>1 DEF Record
<1>8. Lacking(cands) \in [1..n -> TextSet]
  BY <1>5, <1>6, <1>7
<1>9. Lacking(cands) \in Seq(TextSet) /\ Len(Lacking(cands)) = n
  BY <1>3, <1>8, SeqDef, LenProperties
<1>10. texts \in Seq(TextSet) /\ Len(texts) = 1 + n /\ texts[1] = c
  BY <1>9
<1> QED
  BY <1>3, <1>4, <1>10 DEF recs

\* The scores of the candidates: what their own vectors are compared with is the query's.
LEMMA CandidatesAreScored ==
  ASSUME NEW cands \in SUBSET Record, Numbered(cands), \A a \in cands : OwnVector(a),
         NEW c \in TextSet, NEW vecs, Embeds(vecs, <<c>> \o Lacking(cands)),
         Len(vecs) = Len(<<c>> \o Lacking(cands))
  PROVE  LET score == Scores(cands, vecs) IN
         /\ vecs[1] \in Vector /\ vecs[1].text = c
         /\ Scored(cands, score)
         /\ \A a \in cands : (a.vec # NoVector /\ a.vec.src = vecs[1].src)
                             => score[a] = Similarity[a.vec.src][c][a.cmd]
<1> DEFINE texts == <<c>> \o Lacking(cands)
           recs == Unembedded(cands)
           w == [a \in cands |-> IF a.vec # NoVector THEN a.vec ELSE vecs[1 + Place(a, recs)]]
           score == Scores(cands, vecs)
<1>1. /\ texts[1] = c /\ Len(texts) = 1 + Cardinality(recs)
      /\ \A a \in recs : 1 + Place(a, recs) \in 1..Len(texts)
  BY TextsToEmbed
<1>2. Cardinality(recs) \in Nat
  <2>1. IsFiniteSet(recs)
    BY FS_Subset DEF Unembedded, Numbered
  <2> QED
    BY <2>1, FS_CardinalityType
<1>3. /\ vecs \in Seq(Vector) /\ Len(vecs) = Len(texts) /\ DOMAIN vecs = 1..Len(texts)
      /\ \A i \in DOMAIN vecs : vecs[i].text = texts[i] /\ vecs[i] \in Vector
  BY LenProperties, ElementOfSeq DEF Embeds
<1>4. 1 \in DOMAIN vecs
  BY <1>1, <1>2, <1>3
<1>5. vecs[1] \in Vector /\ vecs[1].text = c
  BY <1>1, <1>3, <1>4
<1>6. \A a \in cands : w[a] \in Vector
  <2>1. ASSUME NEW a \in cands, a.vec = NoVector PROVE vecs[1 + Place(a, recs)] \in Vector
    BY <1>1, <1>3, <2>1 DEF Unembedded
  <2>2. ASSUME NEW a \in cands, a.vec # NoVector PROVE a.vec \in Vector
    BY <2>2 DEF Record
  <2> QED
    BY <2>1, <2>2
<1>7. \A a \in cands : score[a] = Cosine(vecs[1], w[a])
  BY DEF Scores
<1>8. ASSUME NEW u \in Vector, NEW v \in Vector PROVE Cosine(u, v) \in Int
  <2>1. u.src \in Source /\ u.text \in TextSet /\ v.text \in TextSet
    BY DEF Vector
  <2>2. Similarity[u.src] \in [TextSet -> [TextSet -> 0..100]]
    BY <2>1, EmbeddingsAssumption
  <2>3. Similarity[u.src][u.text][v.text] \in 0..100
    BY <2>1, <2>2
  <2>4. Cosine(u, v) = 0 \/ Cosine(u, v) = Similarity[u.src][u.text][v.text]
    BY DEF Cosine
  <2>5. 0 \in Int /\ \A n \in 0..100 : n \in Int
    OBVIOUS
  <2> QED
    BY <2>3, <2>4, <2>5
<1> HIDE DEF score
<1>9. Scored(cands, score)
  <2>1. ASSUME NEW a \in cands PROVE score[a] \in Int
    BY <1>5, <1>6, <1>7, <1>8
  <2> QED
    BY <2>1 DEF Scored
<1>10. ASSUME NEW a \in cands, a.vec # NoVector, a.vec.src = vecs[1].src
       PROVE  score[a] = Similarity[a.vec.src][c][a.cmd]
  <2>1. w[a] = a.vec /\ a.vec.text = a.cmd
    BY <1>10 DEF OwnVector
  <2> QED
    BY <1>5, <1>7, <1>10, <2>1 DEF Cosine
<1> QED
  BY <1>5, <1>9, <1>10 DEF score

\* What the examples of a request are, in the terms of the properties.
LEMMA ExamplesShow ==
  ASSUME Stores, NEW cands, NEW vecs, answer.query \in TextSet, Snapshot(cands, answer.since),
         answer.examples = Examples(cands, vecs),
         cands # {} => /\ Embeds(vecs, <<answer.query>> \o Lacking(cands))
                       /\ Len(vecs) = Len(<<answer.query>> \o Lacking(cands))
                       /\ answer.vec = vecs[1]
  PROVE  /\ Cardinality({Fingerprint(e) : e \in answer.examples}) = Cardinality(answer.examples)
         /\ Cardinality(answer.examples) <= K
         /\ \A e \in answer.examples : \E a \in cands : Fingerprint(e) = Fingerprint(a) /\ e.label = a.label
         /\ \A rec \in cands :
              (/\ rec.vec # NoVector /\ rec.vec.src = answer.vec.src
               /\ Similarity[rec.vec.src][answer.query][rec.cmd] >= MinSimilarity)
              => \/ \E e \in answer.examples : \E a \in cands :
                       Fingerprint(e) = Fingerprint(rec) /\ Fingerprint(a) = Fingerprint(rec) /\ e.label = a.label
                 \/ /\ Cardinality(answer.examples) = K
                    /\ \A e \in answer.examples :
                          e.score >= Similarity[rec.vec.src][answer.query][rec.cmd]
<1> DEFINE score == Scores(cands, vecs)
           examples == Examples(cands, vecs)
<1>1. Numbered(cands) /\ cands \in SUBSET Record /\ \A a \in cands : OwnVector(a)
  BY LoggedAreNumbered DEF Snapshot
<1>2. Scored(cands, score)
  <2>1. CASE cands = {}
    BY <2>1 DEF Scored
  <2>2. CASE cands # {}
    BY <1>1, <2>2, CandidatesAreScored
  <2> QED
    BY <2>1, <2>2
<1>3. ASSUME NEW rec \in cands, rec.vec # NoVector, rec.vec.src = answer.vec.src
      PROVE  score[rec] = Similarity[rec.vec.src][answer.query][rec.cmd]
  <2>1. /\ Embeds(vecs, <<answer.query>> \o Lacking(cands))
        /\ Len(vecs) = Len(<<answer.query>> \o Lacking(cands))
        /\ answer.vec = vecs[1]
    BY <1>3
  <2>2. \A a \in cands : (a.vec # NoVector /\ a.vec.src = vecs[1].src)
                         => score[a] = Similarity[a.vec.src][answer.query][a.cmd]
    BY <1>1, <2>1, CandidatesAreScored
  <2> QED
    BY <1>3, <2>1, <2>2
<1>4. /\ Cardinality({Fingerprint(e) : e \in examples}) = Cardinality(examples)
      /\ Cardinality(examples) <= K
      /\ \A e \in examples : \E a \in cands : Fingerprint(e) = Fingerprint(a) /\ e.label = a.label
      /\ \A rec \in cands : NearEnough(score[rec]) =>
            \/ \E e \in examples :
                     \E a \in cands : Fingerprint(e) = Fingerprint(rec) /\ Fingerprint(a) = Fingerprint(rec) /\ e.label = a.label
            \/ /\ Cardinality(examples) = K
               /\ \A e \in examples : e.score >= score[rec]
  BY <1>1, <1>2, ExamplesAreChosen
<1> HIDE DEF score, examples
<1>5. ASSUME NEW rec \in cands, rec.vec # NoVector, rec.vec.src = answer.vec.src,
             Similarity[rec.vec.src][answer.query][rec.cmd] >= MinSimilarity
      PROVE  \/ \E e \in examples :
                      \E a \in cands : Fingerprint(e) = Fingerprint(rec) /\ Fingerprint(a) = Fingerprint(rec) /\ e.label = a.label
             \/ /\ Cardinality(examples) = K
                /\ \A e \in examples : e.score >= Similarity[rec.vec.src][answer.query][rec.cmd]
  BY <1>3, <1>4, <1>5 DEF NearEnough
<1>6. answer.examples = examples
  BY DEF examples
<1> QED
  BY <1>4, <1>5, <1>6

LEMMA SafeByInv ==
  ASSUME Stores, AnswerOK
  PROVE  ExamplesAreSafe
<1> DEFINE examples == answer.examples
<1> SUFFICES ASSUME answer.kind = "retrieve"
             PROVE  /\ Cardinality({Fingerprint(e) : e \in examples}) = Cardinality(examples)
                    /\ Cardinality(examples) <= K
                    /\ \A e \in examples :
                          /\ \E i \in Taught : Fingerprint(log[i]) = Fingerprint(e) /\ log[i].label = e.label
                          /\ ~\E i, j \in StillKept : /\ Fingerprint(log[i]) = Fingerprint(e)
                                                      /\ Fingerprint(log[j]) = Fingerprint(e)
                                                 /\ log[i].label # log[j].label
  BY DEF ExamplesAreSafe
<1>1. PICK cands, vecs :
        /\ Snapshot(cands, answer.since)
        /\ answer.examples = Examples(cands, vecs)
        /\ cands # {} => /\ Embeds(vecs, <<answer.query>> \o Lacking(cands))
                         /\ Len(vecs) = Len(<<answer.query>> \o Lacking(cands))
                         /\ answer.vec = vecs[1]
  BY DEF AnswerOK
<1>2. answer.query \in TextSet
  BY DEF AnswerOK
<1>3. /\ Cardinality({Fingerprint(e) : e \in examples}) = Cardinality(examples)
      /\ Cardinality(examples) <= K
      /\ \A e \in examples : \E a \in cands : Fingerprint(e) = Fingerprint(a) /\ e.label = a.label
  BY <1>1, <1>2, ExamplesShow
<1>4. ASSUME NEW e \in examples
      PROVE  /\ \E i \in Taught : Fingerprint(log[i]) = Fingerprint(e) /\ log[i].label = e.label
             /\ \A i \in StillKept : Fingerprint(log[i]) = Fingerprint(e) => log[i].label = e.label
  <2>1. PICK a \in cands : Fingerprint(e) = Fingerprint(a) /\ e.label = a.label
    BY <1>3
  <2>2. a \in Logged /\ Teaches(a) /\ a.n <= answer.since
    BY <1>1 DEF Snapshot
  <2>3. PICK i \in DOMAIN log : a = log[i]
    BY <2>2 DEF Logged
  <2>4. ASSUME NEW k \in StillKept, Fingerprint(log[k]) = Fingerprint(e) PROVE log[k].label = e.label
    <3>1. PICK j \in DOMAIN memory : memory[j] = log[k]
      BY <2>4 DEF StillKept
    <3>2. log[k].n <= answer.since /\ Teaches(log[k])
      BY <2>4 DEF StillKept, Taught
    <3> QED
      BY <1>1, <2>1, <2>4, <3>1, <3>2 DEF Snapshot
  <2>5. i \in Taught
    BY <2>2, <2>3 DEF Taught
  <2> QED
    BY <2>1, <2>3, <2>4, <2>5
<1>5. ASSUME NEW e \in examples, NEW i \in StillKept, NEW j \in StillKept,
             Fingerprint(log[i]) = Fingerprint(e), Fingerprint(log[j]) = Fingerprint(e)
      PROVE  log[i].label = log[j].label
  <2>1. log[i].label = e.label /\ log[j].label = e.label
    BY <1>4, <1>5
  <2> QED
    BY <2>1
<1> QED
  BY <1>3, <1>4, <1>5

LEMMA FoundByInv ==
  ASSUME Stores, AnswerOK
  PROVE  CorrectionsAreFound
<1> DEFINE examples == answer.examples
<1> SUFFICES ASSUME answer.kind = "retrieve", NEW i \in DOMAIN memory,
                    memory[i].n <= answer.since, Teaches(memory[i]),
                    \A j \in DOMAIN log : Fingerprint(log[j]) = Fingerprint(memory[i]) /\ Teaches(log[j])
                                          => log[j].label = memory[i].label,
                    memory[i].vec # NoVector, memory[i].vec.src = answer.vec.src,
                    Similarity[memory[i].vec.src][answer.query][memory[i].cmd] >= MinSimilarity
             PROVE  \/ \E e \in examples : Fingerprint(e) = Fingerprint(memory[i]) /\ e.label = memory[i].label
                    \/ /\ Cardinality(examples) = K
                       /\ \A e \in examples :
                             e.score >= Similarity[memory[i].vec.src][answer.query][memory[i].cmd]
  BY DEF CorrectionsAreFound
<1>1. PICK cands, vecs :
        /\ Snapshot(cands, answer.since)
        /\ answer.examples = Examples(cands, vecs)
        /\ cands # {} => /\ Embeds(vecs, <<answer.query>> \o Lacking(cands))
                         /\ Len(vecs) = Len(<<answer.query>> \o Lacking(cands))
                         /\ answer.vec = vecs[1]
  BY DEF AnswerOK
<1>2. answer.query \in TextSet
  BY DEF AnswerOK
<1>3. memory[i] \in cands
  BY <1>1 DEF Snapshot
<1>4. \/ \E e \in examples : \E a \in cands :
              Fingerprint(e) = Fingerprint(memory[i]) /\ Fingerprint(a) = Fingerprint(memory[i]) /\ e.label = a.label
      \/ /\ Cardinality(examples) = K
         /\ \A e \in examples :
               e.score >= Similarity[memory[i].vec.src][answer.query][memory[i].cmd]
  BY <1>1, <1>2, <1>3, ExamplesShow
<1>5. \A a \in cands : Fingerprint(a) = Fingerprint(memory[i]) => a.label = memory[i].label
  BY <1>1 DEF Snapshot, Logged
<1> QED
  BY <1>4, <1>5

LEMMA FlaggedByInv ==
  ASSUME Provides, AnswerOK
  PROVE  KnownBadIsFlagged
<1> DEFINE v == answer.vec
<1> SUFFICES ASSUME answer.kind = "similar", v.src = lastSource,
                    \A i \in DOMAIN index : index[i].src = lastSource
             PROVE  answer.similar <=>
                      \E i \in DOMAIN Corpus :
                         Similarity[lastSource][answer.query][Corpus[i]] >= Threshold[lastSource]
  BY DEF KnownBadIsFlagged
<1>1. /\ v.text = answer.query /\ Complete(index)
      /\ answer.similar = Similar(v, index, lastSource)
  BY DEF AnswerOK
<1>2. /\ DOMAIN index = DOMAIN Corpus
      /\ \A i \in DOMAIN index : index[i].text = Corpus[i]
  BY <1>1, LenProperties, EmbeddingsAssumption DEF Complete, Embeds
<1>3. \A i \in DOMAIN index : Cosine(v, index[i]) = Similarity[lastSource][answer.query][Corpus[i]]
  BY <1>1, <1>2 DEF Cosine
<1> QED
  BY <1>1, <1>2, <1>3 DEF Similar

(***************************************************************************)
(* The steps of a request.                                                 *)
(***************************************************************************)

\* What was in order for a request stays so when others go on.
LEMMA RequestStays ==
  ASSUME NEW q, RequestOK(q), SnapshotsStay, index' = index \/ Complete(index')
  PROVE  RequestOK(q)'
<1>1. CASE AddOK(q)
  BY <1>1 DEF RequestOK, AddOK
<1>2. CASE RetrieveOK(q)
  <2>1. Snapshot(q.cands, q.since)'
    BY <1>2 DEF RetrieveOK, SnapshotsStay
  <2>2. RetrieveOK(q)'
    BY <1>2, <2>1 DEF RetrieveOK
  <2> QED
    BY <2>2 DEF RequestOK
<1>3. CASE SimilarOK(q)
  <2>1. SimilarOK(q)'
    BY <1>3 DEF SimilarOK, Complete
  <2> QED
    BY <2>1 DEF RequestOK
<1> QED
  BY <1>1, <1>2, <1>3 DEF RequestOK

\* One request changes, to what is in order too, and the others stay.
LEMMA RequestChanges ==
  ASSUME Provides, Cache(vectors, order)', lastSource' \in Source,
         index' = index \/ Complete(index'), SnapshotsStay,
         NEW r \in Request, NEW q,
         q = Idle \/ (RequestOK(q)' /\ Len(q.vecs) < Len(q.texts)),
         reqs' = [reqs EXCEPT ![r] = q]
  PROVE  Provides'
<1>1. q \in {Idle} \cup AddReq \cup RetrieveReq \cup SimilarReq
  BY DEF RequestOK, AddOK, RetrieveOK, SimilarOK
<1>2. reqs' \in [Request -> {Idle} \cup AddReq \cup RetrieveReq \cup SimilarReq]
  BY <1>1 DEF Provides
<1>3. reqs'[r] = q /\ \A o \in Request : o # r => reqs'[o] = reqs[o]
  BY DEF Provides
<1>4. ASSUME NEW o \in Request
      PROVE  reqs'[o] = Idle \/ (RequestOK(reqs[o])' /\ Len(reqs'[o].vecs) < Len(reqs'[o].texts))
  <2>1. CASE o = r
    BY <1>3, <2>1
  <2>2. CASE o # r
    <3>1. PICK p : p = reqs[o]
      OBVIOUS
    <3>2. p = Idle \/ (RequestOK(p) /\ Len(p.vecs) < Len(p.texts))
      BY <3>1 DEF Provides
    <3>3. RequestOK(p) => RequestOK(p)'
      BY RequestStays
    <3>4. reqs'[o] = p
      BY <1>3, <2>2, <3>1
    <3> QED
      BY <3>2, <3>3, <3>4
  <2> QED
    BY <2>1, <2>2
<1>5. index' = NotBuilt \/ Complete(index)'
  BY DEF Provides, Complete
<1> QED
  BY <1>2, <1>4, <1>5 DEF Provides

LEMMA NoAnswerOK ==
  ASSUME answer' = NoAnswer
  PROVE  AnswerOK'
BY DEF NoAnswer, AnswerOK

\* A retrieval goes on, with candidates of a snapshot.
LEMMA RetrievalKeeps ==
  ASSUME Provides, Stores', SnapshotsStay, Cache(vectors, order)', lastSource' \in Source,
         NEW r \in Request, NEW req \in RetrieveReq,
         req.texts = <<req.query>> \o Lacking(req.cands), req.cands # {},
         Snapshot(req.cands, req.since)',
         NEW vecs, Embeds(vecs, req.texts), AdvanceRetrieve(r, req, vecs)
  PROVE  Inv'
<1>1. Len(vecs) \in Nat /\ Len(req.texts) \in Nat /\ Len(vecs) <= Len(req.texts)
  BY LenProperties DEF Embeds, RetrieveReq
<1>2. CASE Len(vecs) < Len(req.texts)
  <2>1. PICK q : q = [req EXCEPT !.vecs = vecs]
    OBVIOUS
  <2>2. /\ q \in RetrieveReq /\ q.vecs = vecs /\ q.texts = req.texts /\ q.query = req.query
        /\ q.cands = req.cands /\ q.since = req.since
    BY <2>1 DEF RetrieveReq, Embeds
  <2>3. RetrieveOK(q)'
    BY <2>2 DEF RetrieveOK
  <2>4. RequestOK(q)'
    BY <2>2, <2>3 DEF RequestOK
  <2>5. reqs' = [reqs EXCEPT ![r] = q] /\ answer' = NoAnswer /\ index' = index
    BY <1>2, <2>1 DEF AdvanceRetrieve, Becomes
  <2>6. Provides'
    BY <1>2, <2>2, <2>4, <2>5, RequestChanges
  <2> QED
    BY <2>5, <2>6, NoAnswerOK DEF Inv
<1>3. CASE ~(Len(vecs) < Len(req.texts))
  <2>1. reqs' = [reqs EXCEPT ![r] = Idle] /\ index' = index
    BY <1>3 DEF AdvanceRetrieve, Answers
  <2>2. /\ answer'.kind = "retrieve" /\ answer'.query = req.query /\ answer'.since = req.since
        /\ answer'.vec = vecs[1] /\ answer'.examples = Examples(req.cands, vecs)
    BY <1>3 DEF AdvanceRetrieve, Answers, RetrieveReq
  <2>3. Len(vecs) = Len(req.texts)
    BY <1>1, <1>3
  <2>4. AnswerOK'
    <3>1. PICK cands, since : cands = req.cands /\ since = req.since
      OBVIOUS
    <3>2. answer'.query \in TextSet /\ answer'.kind # "similar"
      BY <2>2 DEF RetrieveReq
    <3>3. /\ Snapshot(cands, since)' /\ answer'.since = since
          /\ answer'.examples = Examples(cands, vecs)
          /\ Embeds(vecs, <<answer'.query>> \o Lacking(cands))
          /\ Len(vecs) = Len(<<answer'.query>> \o Lacking(cands))
          /\ answer'.vec = vecs[1]
      BY <2>2, <2>3, <3>1
    <3>4. Snapshot(cands, answer.since)'
      BY <3>3 DEF Snapshot
    <3> QED
      BY <3>2, <3>3, <3>4 DEF AnswerOK
  <2>5. Provides'
    BY <2>1, RequestChanges
  <2> QED
    BY <2>4, <2>5 DEF Inv
<1> QED
  BY <1>2, <1>3

\* A comparison goes on: with the index, which is complete when it is published.
LEMMA ComparisonKeeps ==
  ASSUME Provides, Stores', SnapshotsStay, NEW vs, NEW ord, Cache(vs, ord),
         NEW s \in Source, vectors' = vs, order' = ord, lastSource' = s,
         NEW r \in Request, NEW req, SimilarOK(req), NEW vecs, Embeds(vecs, req.texts),
         AdvanceSimilar(r, req, vecs, vs, s)
  PROVE  Inv'
<1> DEFINE query == IF req.building THEN Extended(<<req.query>>, <<>>, vs) ELSE vecs
<1>1. Cache(vectors, order)' /\ lastSource' \in Source
  BY DEF Cache
<1>2. /\ req \in SimilarReq /\ req.query \in TextSet /\ req.texts \in Seq(TextSet)
      /\ req.building \in BOOLEAN /\ req.since \in Nat
      /\ req.texts = IF req.building THEN Corpus ELSE <<req.query>>
      /\ ~req.building => Complete(index)
  BY DEF SimilarOK, SimilarReq
<1>3. <<req.query>> \in Seq(TextSet) /\ Len(<<req.query>>) = 1 /\ <<req.query>>[1] = req.query
  BY <1>2
<1>4. Embeds(<<>>, <<req.query>>)
  BY <1>3 DEF Embeds
<1>5. Embeds(Extended(<<req.query>>, <<>>, vs), <<req.query>>)
  BY <1>3, <1>4, ExtendedEmbeds
<1>6. Embeds(query, <<req.query>>)
  BY <1>2, <1>5
<1>7. ASSUME NEW q \in SimilarReq, Embeds(q.vecs, q.texts), Len(q.vecs) < Len(q.texts),
             q.texts = IF q.building THEN Corpus ELSE <<q.query>>,
             ~q.building => Complete(index'), index' = index \/ Complete(index'),
             Becomes(r, q)
      PROVE  Inv'
  <2>1. SimilarOK(q)'
    BY <1>7 DEF SimilarOK, Complete
  <2>2. RequestOK(q)'
    BY <1>7, <2>1 DEF RequestOK
  <2>3. reqs' = [reqs EXCEPT ![r] = q] /\ answer' = NoAnswer
    BY <1>7 DEF Becomes
  <2>4. Provides'
    BY <1>1, <1>7, <2>2, <2>3, RequestChanges
  <2> QED
    BY <2>3, <2>4, NoAnswerOK DEF Inv
<1>8. CASE /\ Len(vecs) < Len(req.texts)
           /\ Becomes(r, [req EXCEPT !.vecs = vecs])
           /\ UNCHANGED index
  <2>1. PICK q : q = [req EXCEPT !.vecs = vecs]
    OBVIOUS
  <2>2. /\ q \in SimilarReq /\ q.vecs = vecs /\ q.texts = req.texts /\ q.query = req.query
        /\ q.building = req.building
    BY <1>2, <2>1 DEF SimilarReq, Embeds
  <2> QED
    BY <1>2, <1>7, <1>8, <2>1, <2>2
<1>9. CASE /\ Len(vecs) = Len(req.texts)
           /\ IF req.building THEN Publish(vecs) ELSE UNCHANGED index
           /\ IF query = <<>>
              THEN Becomes(r, [req EXCEPT !.building = FALSE, !.texts = <<req.query>>, !.vecs = <<>>])
              ELSE Answers(r, req, query[1], {}, Similar(query[1], index', s))
  <2>1. Complete(index') /\ (index' = index \/ Complete(index'))
    BY <1>2, <1>9 DEF Publish, Complete
  <2>2. CASE query = <<>>
    <3>1. PICK q : q = [req EXCEPT !.building = FALSE, !.texts = <<req.query>>, !.vecs = <<>>]
      OBVIOUS
    <3>2. /\ q \in SimilarReq /\ q.vecs = <<>> /\ q.texts = <<req.query>> /\ q.query = req.query
          /\ q.building = FALSE
      <4>1. <<>> \in Seq(Vector)
        BY EmptySeq
      <4> QED
        BY <1>2, <1>3, <3>1, <4>1 DEF SimilarReq
    <3>3. Embeds(q.vecs, q.texts) /\ Len(q.vecs) < Len(q.texts)
      BY <1>3, <1>4, <3>2
    <3> QED
      BY <1>7, <1>9, <2>1, <2>2, <3>1, <3>2, <3>3
  <2>3. CASE query # <<>>
    <3>1. query[1] \in Vector /\ query[1].text = req.query
      <4> HIDE DEF query
      <4>1. query \in Seq(Vector) /\ Len(query) \in Nat \ {0} /\ DOMAIN query = 1..Len(query)
        BY <1>6, <2>3, EmptySeq, LenProperties DEF Embeds
      <4>2. 1 \in DOMAIN query
        BY <4>1
      <4> QED
        BY <1>3, <1>6, <4>1, <4>2, ElementOfSeq DEF Embeds
    <3>2. reqs' = [reqs EXCEPT ![r] = Idle]
      BY <1>9, <2>3 DEF Answers
    <3>3. /\ answer'.kind = "similar" /\ answer'.query = req.query
          /\ answer'.vec = query[1] /\ answer'.similar = Similar(query[1], index', s)
      <4> HIDE DEF query
      <4>1. req.kind = "similar"
        BY <1>2 DEF SimilarReq
      <4>2. Answers(r, req, query[1], {}, Similar(query[1], index', s))
        BY <1>9, <2>3 DEF query
      <4> QED
        BY <4>1, <4>2 DEF Answers
    <3> HIDE DEF query
    <3>4. AnswerOK'
      <4>1. answer'.similar = Similar(answer'.vec, index', lastSource')
        BY <3>3
      <4>2. answer'.kind # "retrieve" /\ answer'.query \in TextSet /\ answer'.vec \in Vector
            /\ answer'.vec.text = answer'.query
        BY <1>2, <3>1, <3>3
      <4> QED
        BY <2>1, <4>1, <4>2 DEF AnswerOK, Complete
    <3>5. Provides'
      BY <1>1, <2>1, <3>2, RequestChanges
    <3> QED
      BY <3>4, <3>5 DEF Inv
  <2> QED
    BY <2>2, <2>3
<1> QED
  BY <1>8, <1>9 DEF AdvanceSimilar

LEMMA RecordIsTyped ==
  ASSUME Stores, NEW q, AddOK(q), NEW v \in Vector, v.text = q.query
  PROVE  LET rec == [n |-> Len(log) + 1, cmd |-> q.query, ctx |-> q.ctx, trusted |-> q.trusted,
                     label |-> q.label, vec |-> v]
         IN rec \in Record /\ rec.n = Len(log) + 1 /\ OwnVector(rec)
<1>1. Len(log) \in Nat
  BY LenProperties DEF Stores
<1> QED
  BY <1>1 DEF AddOK, AddReq, Record, OwnVector

\* A correction is stored, or waits for its vector.
LEMMA AdditionKeeps ==
  ASSUME Inv, Cache(vectors, order)', lastSource' \in Source,
         NEW r \in Request, NEW req, AddOK(req), NEW vecs, Embeds(vecs, req.texts),
         AdvanceAdd(r, req, vecs)
  PROVE  Inv'
<1>1. req.texts = <<req.query>> /\ req.query \in TextSet /\ req.vecs = <<>>
  BY DEF AddOK, AddReq
<1>2. CASE vecs = <<>> /\ Becomes(r, req) /\ UNCHANGED storeVars /\ UNCHANGED index
  <2>1. Stores' /\ SnapshotsStay
    BY <1>2, StillStores DEF Inv
  <2>2. RequestOK(req)' /\ Len(req.vecs) < Len(req.texts)
    BY <1>1, <1>2 DEF RequestOK, AddOK
  <2>3. reqs' = [reqs EXCEPT ![r] = req] /\ answer' = NoAnswer
    BY <1>2 DEF Becomes
  <2>4. Provides'
    BY <1>2, <2>1, <2>2, <2>3, RequestChanges DEF Inv
  <2> QED
    BY <2>1, <2>3, <2>4, NoAnswerOK DEF Inv
<1>3. ASSUME vecs # <<>>, NEW out \in {"ok", "error"},
             AppendRecord([n |-> Len(log) + 1, cmd |-> req.query, ctx |-> req.ctx, trusted |-> req.trusted,
                           label |-> req.label, vec |-> vecs[1]], out),
             Becomes(r, Idle), UNCHANGED index
      PROVE  Inv'
  <2> DEFINE rec == [n |-> Len(log) + 1, cmd |-> req.query, ctx |-> req.ctx, trusted |-> req.trusted,
                     label |-> req.label, vec |-> vecs[1]]
  <2>1. vecs[1] \in Vector /\ vecs[1].text = req.query
    <3>1. vecs \in Seq(Vector) /\ Len(vecs) \in Nat \ {0} /\ DOMAIN vecs = 1..Len(vecs)
      BY <1>3, EmptySeq, LenProperties DEF Embeds
    <3>2. 1 \in DOMAIN vecs
      BY <3>1
    <3> QED
      BY <1>1, <3>1, <3>2, ElementOfSeq DEF Embeds
  <2>2. rec \in Record /\ rec.n = Len(log) + 1 /\ OwnVector(rec)
    BY <2>1, RecordIsTyped DEF Inv
  <2> HIDE DEF rec
  <2>3. AppendRecord(rec, out) /\ out \in {"ok", "error", "crash"} /\ out # "crash"
    BY <1>3 DEF rec
  <2>4. Stores' /\ SnapshotsStay
    BY <2>2, <2>3, AppendingStores DEF Inv
  <2>5. reqs' = [reqs EXCEPT ![r] = Idle] /\ answer' = NoAnswer
    BY <1>3 DEF Becomes
  <2>6. Provides'
    BY <1>3, <2>4, <2>5, RequestChanges DEF Inv
  <2> QED
    BY <2>4, <2>5, <2>6, NoAnswerOK DEF Inv
<1> QED
  BY <1>2, <1>3 DEF AdvanceAdd

\* A handler goes on with a request in order.
LEMMA AdvanceKeeps ==
  ASSUME Inv, NEW vs, NEW ord, Cache(vs, ord), NEW s \in Source,
         vectors' = vs, order' = ord, lastSource' = s,
         NEW r \in Request, NEW req, RequestOK(req), NEW done, Embeds(done, req.texts),
         Advance(r, req, done, vs, s)
  PROVE  Inv'
<1> DEFINE vecs == Extended(req.texts, done, vs)
<1>1. req.texts \in Seq(TextSet)
  BY DEF RequestOK, AddOK, RetrieveOK, SimilarOK, AddReq, RetrieveReq, SimilarReq
<1>2. Embeds(vecs, req.texts)
  BY <1>1, ExtendedEmbeds
<1>3. Cache(vectors, order)' /\ lastSource' \in Source
  BY DEF Cache
<1>4. /\ req.kind = "add" => AddOK(req)
      /\ req.kind = "retrieve" => RetrieveOK(req)
      /\ req.kind = "similar" => SimilarOK(req)
  BY DEF RequestOK, AddOK, RetrieveOK, SimilarOK, AddReq, RetrieveReq, SimilarReq
<1>5. \/ req.kind = "add" /\ AdvanceAdd(r, req, vecs)
      \/ req.kind = "retrieve" /\ AdvanceRetrieve(r, req, vecs) /\ UNCHANGED storeVars
      \/ req.kind = "similar" /\ AdvanceSimilar(r, req, vecs, vs, s) /\ UNCHANGED storeVars
  BY DEF Advance
<1> HIDE DEF vecs
<1>6. CASE req.kind = "add" /\ AdvanceAdd(r, req, vecs)
  BY <1>2, <1>3, <1>4, <1>6, AdditionKeeps
<1>7. CASE req.kind = "retrieve" /\ AdvanceRetrieve(r, req, vecs) /\ UNCHANGED storeVars
  <2>1. Stores' /\ SnapshotsStay
    BY <1>7, StillStores DEF Inv
  <2>2. req \in RetrieveReq /\ req.texts = <<req.query>> \o Lacking(req.cands) /\ req.cands # {}
        /\ Snapshot(req.cands, req.since)
    BY <1>4, <1>7 DEF RetrieveOK
  <2>3. Snapshot(req.cands, req.since)'
    BY <2>1, <2>2 DEF SnapshotsStay
  <2> QED
    BY <1>2, <1>3, <1>7, <2>1, <2>2, <2>3, RetrievalKeeps DEF Inv
<1>8. CASE req.kind = "similar" /\ AdvanceSimilar(r, req, vecs, vs, s) /\ UNCHANGED storeVars
  <2>1. Stores' /\ SnapshotsStay
    BY <1>8, StillStores DEF Inv
  <2> QED
    BY <1>2, <1>4, <1>8, <2>1, ComparisonKeeps DEF Inv
<1> QED
  BY <1>5, <1>6, <1>7, <1>8

(***************************************************************************)
(* The steps.                                                              *)
(***************************************************************************)

LEMMA FreshCache ==
  Cache(FreshProvider.vectors, FreshProvider.order)
<1> DEFINE none == [t \in TextSet |-> NoVector]
<1>1. FreshProvider.vectors = none /\ FreshProvider.order = <<>>
  BY DEF FreshProvider
<1>2. <<>> \in Seq(TextSet) /\ Len(<<>>) = 0 /\ DOMAIN <<>> = {}
  BY EmptySeq
<1>3. CacheCap \in Nat
  BY EmbeddingsAssumption
<1>4. Cache(none, <<>>)
  BY <1>2, <1>3 DEF Cache
<1> QED
  BY <1>1, <1>4

LEMMA ProcessStarts ==
  ASSUME NewProcess
  PROVE  Provides' /\ AnswerOK'
<1>1. Cache(vectors, order)'
  BY FreshCache DEF NewProcess, Cache
<1>2. lastSource' \in Source
  BY EmbeddingsAssumption DEF NewProcess
<1>3. reqs' = [r \in Request |-> Idle] /\ index' = NotBuilt /\ answer' = NoAnswer
  BY DEF NewProcess
<1>4. Provides'
  BY <1>1, <1>2, <1>3 DEF Provides
<1> QED
  BY <1>3, <1>4, NoAnswerOK

LEMMA InvAtFirst ==
  Init => Inv
<1> SUFFICES ASSUME Init PROVE Inv
  OBVIOUS
<1>1. /\ log = disk /\ memory = NotLoaded
      /\ disk \in Seq(Record) /\ Len(disk) <= MaxRecords
      /\ \A i \in DOMAIN disk : disk[i].n = i /\ OwnVector(disk[i])
  BY FewShotAssumption DEF Init
<1>2. disk \in Seq(Logged)
  <2>1. disk \in Seq({disk[i] : i \in DOMAIN disk})
    BY <1>1, OwnElements
  <2> QED
    BY <1>1, <2>1 DEF Logged
<1>3. Len(disk) \in Nat /\ DOMAIN disk = 1..Len(disk)
  BY <1>1, LenProperties
<1>4. Stores
  BY <1>1, <1>2, <1>3 DEF Stores, HistoryOK, Dataset
<1>5. Cache(vectors, order) /\ lastSource \in Source
  BY FreshCache, EmbeddingsAssumption DEF Init
<1>6. reqs = [r \in Request |-> Idle] /\ index = NotBuilt /\ answer = NoAnswer
  BY DEF Init
<1>7. Provides /\ AnswerOK
  BY <1>5, <1>6 DEF Provides, AnswerOK, NoAnswer
<1> QED
  BY <1>4, <1>7 DEF Inv

\* The candidates of what is loaded are a snapshot of it.
LEMMA CandidatesAreSnapshot ==
  ASSUME Stores, NEW data, Read(data), NEW since, since = Len(log)
  PROVE  Candidates(data) \in SUBSET Logged /\ Snapshot(Candidates(data), since)'
<1> DEFINE cands == Candidates(data)
<1>1. data \in Loads /\ memory' = data /\ log' = log
  BY DEF Read
<1>2. Dataset(data) /\ data # NotLoaded
  BY <1>1, LoadsDatasets
<1>3. log \in Seq(Record) /\ Len(log) \in Nat /\ \A i \in DOMAIN log : log[i].n = i /\ i <= Len(log)
  BY LenProperties DEF Stores, HistoryOK
<1>4. /\ data \in Seq(Record)
      /\ \A i \in DOMAIN data : data[i] \in Logged /\ Fingerprint(data[i]) \in TextSet \X Context
  <2>1. data \in Seq(Record) /\ \A i \in DOMAIN data : data[i] \in Logged
    BY <1>2, <1>3, DatasetIsLoaded
  <2>2. \A i \in DOMAIN data : data[i] \in Record
    BY <2>1, LenProperties, ElementOfSeq
  <2> QED
    BY <2>1, <2>2 DEF Record, Fingerprint
<1>5. \A a : a \in cands <=> /\ \E i \in DOMAIN data : a = data[i]
                             /\ Teaches(a) /\ Fingerprint(a) \notin Disputed(data)
  BY DEF Candidates
<1> HIDE DEF cands
<1>6. \A a \in cands : a \in Logged /\ Teaches(a) /\ a.n <= since
  BY <1>3, <1>4, <1>5 DEF Logged
<1>7. ASSUME NEW a \in cands, NEW j \in DOMAIN data, Teaches(data[j]), Fingerprint(data[j]) = Fingerprint(a)
      PROVE  data[j].label = a.label
  <2>1. PICK i \in DOMAIN data : a = data[i]
    BY <1>5
  <2>2. Fingerprint(a) \in TextSet \X Context /\ Fingerprint(a) \notin Disputed(data) /\ Teaches(a)
    BY <1>4, <1>5, <2>1
  <2> QED
    BY <1>7, <2>1, <2>2 DEF Disputed
<1>8. ASSUME NEW i \in DOMAIN data, Teaches(data[i]),
             \A j \in DOMAIN log : (Fingerprint(log[j]) = Fingerprint(data[i]) /\ Teaches(log[j]))
                                   => log[j].label = data[i].label
      PROVE  data[i] \in cands
  <2>1. \A k \in DOMAIN data : (Fingerprint(data[k]) = Fingerprint(data[i]) /\ Teaches(data[k]))
                               => data[k].label = data[i].label
    BY <1>4, <1>8 DEF Logged
  <2>2. Fingerprint(data[i]) \notin Disputed(data)
    BY <2>1 DEF Disputed
  <2> QED
    BY <1>5, <1>8, <2>2
<1>9. Snapshot(cands, since)'
  <2>1. Logged' = Logged /\ since \in Nat /\ since <= Len(log')
    BY <1>1, <1>3 DEF Logged
  <2> QED
    BY <1>1, <1>2, <1>6, <1>7, <1>8, <2>1 DEF Snapshot, Teaches
<1> QED
  BY <1>6, <1>9 DEF cands

LEMMA SubmittingKeeps ==
  ASSUME Inv, NEW r \in Request, NEW sub \in Submission, SubmitFeedback(r, sub)
  PROVE  Inv'
<1>1. PICK vs, ord, s : vs = vectors /\ ord = order /\ s = lastSource
  OBVIOUS
<1>2. Cache(vs, ord) /\ s \in Source /\ vectors' = vs /\ order' = ord /\ lastSource' = s
  BY <1>1 DEF Inv, Provides, SubmitFeedback
<1>3. PICK req : req = Adding(sub)
  OBVIOUS
<1>4. sub \in [cmd : TextSet, ctx : Context, trusted : BOOLEAN, corrected : Label, verdict : Label, agree : BOOLEAN]
  BY FewShotAssumption
<1>5. LabelOf(sub.corrected, sub.verdict, sub.agree) \in Label
  BY <1>4 DEF LabelOf, Label
<1>6. /\ <<sub.cmd>> \in Seq(TextSet) /\ <<>> \in Seq(Vector) /\ Len(<<sub.cmd>>) = 1
      /\ Len(<<>>) = 0 /\ DOMAIN <<>> = {}
  BY <1>4, EmptySeq
<1>7. AddOK(req) /\ req.texts = <<sub.cmd>> /\ req.vecs = <<>>
  BY <1>3, <1>4, <1>5, <1>6 DEF Adding, AddOK, AddReq
<1>8. Embeds(<<>>, req.texts)
  BY <1>6, <1>7 DEF Embeds
<1>9. RequestOK(req)
  BY <1>7, <1>8 DEF RequestOK
<1>10. Advance(r, req, <<>>, vs, s)
  BY <1>1, <1>3 DEF SubmitFeedback
<1> QED
  BY <1>2, <1>8, <1>9, <1>10, AdvanceKeeps

LEMMA ComparingKeeps ==
  ASSUME Inv, NEW r \in Request, NEW c \in Command, LlmSimilar(r, c)
  PROVE  Inv'
<1>1. PICK vs, ord, s : vs = vectors /\ ord = order /\ s = lastSource
  OBVIOUS
<1>2. Cache(vs, ord) /\ s \in Source /\ vectors' = vs /\ order' = ord /\ lastSource' = s
  BY <1>1 DEF Inv, Provides, LlmSimilar
<1>3. PICK req : req = Comparing(c)
  OBVIOUS
<1>4. c \in TextSet /\ Corpus \in Seq(TextSet) /\ Len(log) \in Nat
  BY FewShotAssumption, EmbeddingsAssumption, LenProperties DEF Inv, Stores
<1>5. /\ <<c>> \in Seq(TextSet) /\ <<>> \in Seq(Vector) /\ Len(<<>>) = 0 /\ DOMAIN <<>> = {}
  BY <1>4, EmptySeq
<1>6. /\ req.texts = (IF index = NotBuilt THEN Corpus ELSE <<c>>)
      /\ req.vecs = <<>> /\ req.query = c /\ req.building = (index = NotBuilt)
      /\ req \in SimilarReq
  BY <1>3, <1>4, <1>5 DEF Comparing, SimilarReq
<1>7. SimilarOK(req)
  BY <1>6 DEF SimilarOK, Inv, Provides
<1>8. Embeds(<<>>, req.texts)
  <2>1. req.texts \in Seq(TextSet)
    BY <1>6 DEF SimilarReq
  <2>2. Len(req.texts) \in Nat
    BY <2>1, LenProperties
  <2> QED
    BY <1>5, <2>2 DEF Embeds
<1>9. RequestOK(req)
  BY <1>6, <1>7, <1>8 DEF RequestOK
<1>10. Advance(r, req, <<>>, vs, s)
  BY <1>1, <1>3 DEF LlmSimilar
<1> QED
  BY <1>2, <1>8, <1>9, <1>10, AdvanceKeeps

LEMMA AnalyzingKeeps ==
  ASSUME Inv, NEW r \in Request, NEW c \in Command, Analyze(r, c)
  PROVE  Inv'
<1>1. PICK data \in Loads :
         LET req == Retrieving(c, Candidates(data)) IN
         /\ Read(data)
         /\ IF req.cands = {}
            THEN Answers(r, req, NoVector, {}, FALSE) /\ UNCHANGED index
            ELSE AdvanceRetrieve(r, req, Extended(req.texts, <<>>, vectors))
  BY DEF Analyze
<1>2. UNCHANGED <<vectors, order, lastSource>>
  BY DEF Analyze
<1>3. PICK vs, ord, since : vs = vectors /\ ord = order /\ since = Len(log)
  OBVIOUS
<1>4. PICK cands, req : cands = Candidates(data) /\ req = Retrieving(c, cands)
  OBVIOUS
<1>5. Provides /\ Stores /\ Cache(vs, ord) /\ Cache(vectors, order)' /\ lastSource' \in Source
  BY <1>2, <1>3 DEF Inv, Provides, Cache
<1>6. Stores' /\ SnapshotsStay
  BY <1>1, <1>5, ReadingStores
<1>7. cands \in SUBSET Logged /\ Snapshot(cands, since)'
  BY <1>1, <1>3, <1>4, <1>5, CandidatesAreSnapshot
<1>8. c \in TextSet /\ Numbered(cands) /\ cands \in SUBSET Record /\ since \in Nat
  BY <1>3, <1>5, <1>7, FewShotAssumption, LoggedAreNumbered, LenProperties DEF Stores
<1>9. <<c>> \o Lacking(cands) \in Seq(TextSet)
  BY <1>8, TextsToEmbed
<1>10. /\ req.texts = <<c>> \o Lacking(cands) /\ req.query = c /\ req.cands = cands
       /\ req.since = since /\ req.kind = "retrieve"
  BY <1>3, <1>4 DEF Retrieving
<1>11. req \in RetrieveReq
  <2>1. <<>> \in Seq(Vector)
    BY EmptySeq
  <2> QED
    BY <1>3, <1>4, <1>8, <1>9, <2>1 DEF Retrieving, RetrieveReq
<1>12. CASE cands = {}
  <2>1. Answers(r, req, NoVector, {}, FALSE) /\ index' = index
    BY <1>1, <1>4, <1>10, <1>12
  <2>2. reqs' = [reqs EXCEPT ![r] = Idle]
    BY <2>1 DEF Answers
  <2>3. Provides'
    BY <1>5, <1>6, <2>1, <2>2, RequestChanges
  <2>4. /\ answer'.kind = "retrieve" /\ answer'.query = c /\ answer'.since = since
        /\ answer'.examples = {}
    BY <1>10, <2>1 DEF Answers
  <2>5. Examples({}, <<>>) = {}
    BY DEF Examples, Chosen, Nearest
  <2>6. AnswerOK'
    <3>1. Snapshot({}, answer.since)'
      BY <1>7, <1>12, <2>4 DEF Snapshot
    <3>2. \E cs, vecs :
            /\ Snapshot(cs, answer.since)'
            /\ answer'.examples = Examples(cs, vecs)
            /\ cs # {} => /\ Embeds(vecs, <<answer'.query>> \o Lacking(cs))
                          /\ Len(vecs) = Len(<<answer'.query>> \o Lacking(cs))
                          /\ answer'.vec = vecs[1]
      BY <2>4, <2>5, <3>1
    <3> QED
      BY <1>8, <2>4, <3>2 DEF AnswerOK
  <2> QED
    BY <1>6, <2>3, <2>6 DEF Inv
<1>13. CASE cands # {}
  <2> DEFINE vecs == Extended(req.texts, <<>>, vs)
  <2>1. AdvanceRetrieve(r, req, vecs)
    BY <1>1, <1>3, <1>4, <1>10, <1>13
  <2>2. Embeds(<<>>, req.texts)
    <3>1. <<>> \in Seq(Vector) /\ Len(<<>>) = 0 /\ DOMAIN <<>> = {}
      BY EmptySeq
    <3>2. Len(req.texts) \in Nat
      BY <1>9, <1>10, LenProperties
    <3> QED
      BY <3>1, <3>2 DEF Embeds
  <2>3. Embeds(vecs, req.texts)
    BY <1>5, <1>9, <1>10, <2>2, ExtendedEmbeds
  <2> HIDE DEF vecs
  <2>4. Snapshot(req.cands, req.since)'
    BY <1>7, <1>10
  <2>5. req.texts = <<req.query>> \o Lacking(req.cands) /\ req.cands # {}
    BY <1>10, <1>13
  <2> QED
    BY <1>5, <1>6, <1>11, <2>1, <2>3, <2>4, <2>5, RetrievalKeeps
<1> QED
  BY <1>12, <1>13

LEMMA EmbeddedKeeps ==
  ASSUME Inv, NEW r \in Request, NEW s \in Source, Embedded(r, s)
  PROVE  Inv'
<1>1. PICK req : req = reqs[r]
  OBVIOUS
<1>2. RequestOK(req) /\ Len(req.vecs) < Len(req.texts)
  BY <1>1 DEF Inv, Provides, Embedded, Idle
<1> DEFINE t == req.texts[Len(req.vecs) + 1]
           done == Append(req.vecs, [text |-> t, src |-> s])
<1>3. PICK vs, ord : vs = Stored(t, s).vectors /\ ord = Stored(t, s).order
  OBVIOUS
<1>4. /\ vectors' = vs /\ order' = ord /\ lastSource' = s
      /\ Advance(r, req, done, vs, s)
  BY <1>1, <1>3 DEF Embedded
<1>5. req.texts \in Seq(TextSet) /\ req.vecs \in Seq(Vector)
  BY <1>2 DEF RequestOK, AddOK, RetrieveOK, SimilarOK, AddReq, RetrieveReq, SimilarReq
<1>6. /\ Len(req.vecs) \in Nat /\ Len(req.texts) \in Nat /\ DOMAIN req.vecs = 1..Len(req.vecs)
      /\ Len(req.vecs) + 1 \in 1..Len(req.texts)
  BY <1>2, <1>5, LenProperties
<1>7. t \in TextSet
  BY <1>5, <1>6, ElementOfSeq
<1>8. Cache(vs, ord)
  BY <1>3, <1>7, StoredFits DEF Inv, Provides
<1>9. Embeds(done, req.texts)
  <2>1. [text |-> t, src |-> s] \in Vector
    BY <1>7 DEF Vector
  <2>2. /\ done \in Seq(Vector) /\ Len(done) = Len(req.vecs) + 1
        /\ DOMAIN done = 1..(Len(req.vecs) + 1)
        /\ \A i \in 1..Len(req.vecs) : done[i] = req.vecs[i]
        /\ done[Len(req.vecs) + 1] = [text |-> t, src |-> s]
    BY <1>5, <1>6, <2>1
  <2>3. \A i \in 1..Len(req.vecs) : req.vecs[i].text = req.texts[i]
    BY <1>2, <1>6 DEF RequestOK, Embeds
  <2>4. \A i \in DOMAIN done : i \in 1..Len(req.vecs) \/ i = Len(req.vecs) + 1
    BY <1>6, <2>2
  <2>5. [text |-> t, src |-> s].text = req.texts[Len(req.vecs) + 1]
    OBVIOUS
  <2> HIDE DEF done, t
  <2>6. \A i \in DOMAIN done : done[i].text = req.texts[i]
    BY <2>2, <2>3, <2>4, <2>5
  <2> QED
    BY <1>6, <2>2, <2>6 DEF Embeds
<1> HIDE DEF done, t
<1> QED
  BY <1>2, <1>4, <1>8, <1>9, AdvanceKeeps

LEMMA CrashKeeps ==
  ASSUME Inv, NEW r \in Request, NEW s \in Source, Crash(r, s)
  PROVE  Inv'
<1>1. PICK req : req = reqs[r]
  OBVIOUS
<1>2. RequestOK(req) /\ req.kind = "add"
  BY <1>1 DEF Inv, Provides, Crash, Idle
<1>3. AddOK(req) /\ req.query \in TextSet
  BY <1>2 DEF RequestOK, AddOK, RetrieveOK, SimilarOK, AddReq, RetrieveReq, SimilarReq
<1> DEFINE v == [text |-> req.query, src |-> s]
           rec == [n |-> Len(log) + 1, cmd |-> req.query, ctx |-> req.ctx, trusted |-> req.trusted,
                   label |-> req.label, vec |-> v]
<1>4. v \in Vector /\ v.text = req.query
  BY <1>3 DEF Vector
<1>5. AppendRecord(rec, "crash")
  BY <1>1 DEF Crash
<1>6. rec \in Record /\ rec.n = Len(log) + 1 /\ OwnVector(rec)
  <2> HIDE DEF v
  <2> QED
    BY <1>3, <1>4, RecordIsTyped DEF Inv
<1> HIDE DEF rec
<1>7. Stores'
  BY <1>5, <1>6, AppendingStores DEF Inv
<1> QED
  BY <1>7, ProcessStarts DEF Crash, Inv

LEMMA InvStays ==
  ASSUME Inv, [Next]_vars
  PROVE  Inv'
<1>1. ASSUME NEW r \in Request, NEW sub \in Submission, SubmitFeedback(r, sub) PROVE Inv'
  BY <1>1, SubmittingKeeps
<1>2. ASSUME NEW r \in Request, NEW c \in Command, Analyze(r, c) \/ LlmSimilar(r, c) PROVE Inv'
  BY <1>2, AnalyzingKeeps, ComparingKeeps
<1>3. ASSUME NEW r \in Request, NEW s \in Source, Embedded(r, s) \/ Crash(r, s) PROVE Inv'
  BY <1>3, EmbeddedKeeps, CrashKeeps
<1>4. CASE Export
  <2>1. PICK data : Read(data)
    BY <1>4 DEF Export
  <2>2. Stores' /\ SnapshotsStay
    BY <2>1, ReadingStores DEF Inv
  <2>3. answer' = NoAnswer /\ vectors' = vectors /\ order' = order /\ lastSource' = lastSource
        /\ index' = index /\ reqs' = reqs
    BY <1>4 DEF Export, embedVars
  <2>4. Provides'
    <3>1. ASSUME NEW r \in Request
          PROVE  reqs[r] = Idle \/ (RequestOK(reqs[r])' /\ Len(reqs[r].vecs) < Len(reqs[r].texts))
      <4>1. PICK q : q = reqs[r]
        OBVIOUS
      <4>2. q = Idle \/ (RequestOK(q) /\ Len(q.vecs) < Len(q.texts))
        BY <4>1 DEF Inv, Provides
      <4>3. RequestOK(q) => RequestOK(q)'
        BY <2>2, <2>3, RequestStays
      <4> QED
        BY <2>3, <4>1, <4>2, <4>3
    <3> QED
      BY <2>3, <3>1 DEF Inv, Provides, Cache, Complete
  <2> QED
    BY <2>2, <2>3, <2>4, NoAnswerOK DEF Inv
<1>5. CASE Restart
  <2>1. Stores'
    BY <1>5 DEF Restart, Inv, Stores, HistoryOK, Dataset, Logged, OwnVector
  <2> QED
    BY <1>5, <2>1, ProcessStarts DEF Restart, Inv
<1>6. CASE UNCHANGED vars
  <2>1. /\ vectors' = vectors /\ order' = order /\ lastSource' = lastSource /\ index' = index
        /\ log' = log /\ memory' = memory /\ reqs' = reqs /\ answer' = answer
        /\ UNCHANGED storeVars
    BY <1>6 DEF vars, embedVars, storeVars
  <2>2. Stores'
    BY <2>1, StillStores DEF Inv
  <2>3. \A cands, since : Snapshot(cands, since)' <=> Snapshot(cands, since)
    BY <2>1 DEF Snapshot, Logged
  <2>4. \A q : RequestOK(q)' <=> RequestOK(q)
    BY <2>1, <2>3 DEF RequestOK, AddOK, RetrieveOK, SimilarOK, Complete
  <2>5. Provides'
    BY <2>1, <2>4 DEF Inv, Provides, Cache, Complete
  <2>6. AnswerOK'
    BY <2>1, <2>3 DEF Inv, AnswerOK, Complete
  <2> QED
    BY <2>2, <2>5, <2>6 DEF Inv
<1> QED
  BY <1>1, <1>2, <1>3, <1>4, <1>5, <1>6 DEF Next

(***************************************************************************)
(* The theorems.                                                           *)
(***************************************************************************)

LEMMA InvHolds ==
  Spec => []Inv
<1>1. Init => Inv
  BY InvAtFirst
<1>2. Inv /\ [Next]_vars => Inv'
  BY InvStays
<1> QED
  BY <1>1, <1>2, PTL DEF Spec

LEMMA TypedByInv ==
  ASSUME Stores, Provides
  PROVE  TypeOK
<1>1. /\ order \in Seq(TextSet) /\ Len(order) <= CacheCap /\ lastSource \in Source
      /\ \A i, j \in DOMAIN order : order[i] = order[j] => i = j
  BY DEF Provides, Cache
<1>2. Cardinality({order[i] : i \in DOMAIN order}) = Len(order)
  <2> DEFINE T == {order[i] : i \in DOMAIN order}
  <2>1. Len(order) \in Nat /\ DOMAIN order = 1..Len(order) /\ order \in [1..Len(order) -> T]
    BY <1>1, OwnElements, LenProperties
  <2>2. IsFiniteSet(1..Len(order)) /\ Cardinality(1..Len(order)) = Len(order)
    <3>1. 1 \in Int /\ Len(order) \in Int
      BY <2>1
    <3>2. IsFiniteSet(1..Len(order))
          /\ Cardinality(1..Len(order)) = IF 1 > Len(order) THEN 0 ELSE Len(order) - 1 + 1
      BY <3>1, FS_Interval
    <3> QED
      BY <2>1, <3>2
  <2>3. \A t \in T : \E i \in 1..Len(order) : order[i] = t
    BY <2>1
  <2> HIDE DEF T
  <2>4. order \in Surjection(1..Len(order), T) /\ order \in Injection(1..Len(order), T)
    BY <1>1, <2>1, <2>3 DEF Surjection, Injection, IsInjective
  <2>5. Cardinality(T) = Len(order)
    BY <2>2, <2>4, FS_Surjection
  <2> QED
    BY <2>5 DEF T
<1>3. \A t \in TextSet : IF \E i \in DOMAIN order : order[i] = t
                         THEN vectors[t] \in Vector /\ vectors[t].text = t
                         ELSE vectors[t] = NoVector
  BY DEF Provides, Cache
<1>4. \A s \in {memory, disk, log} :
        s = NotLoaded \/ (s \in Seq(Record) /\ \A i, j \in DOMAIN s : i < j => s[i].n < s[j].n)
  <2>1. log \in Seq(Record) /\ \A i, j \in DOMAIN log : i < j => log[i].n < log[j].n
    BY DEF Stores, HistoryOK
  <2>2. disk \in Seq(Record) /\ \A i, j \in DOMAIN disk : i < j => disk[i].n < disk[j].n
    BY <2>1, DatasetIsLoaded DEF Stores, Dataset
  <2>3. memory # NotLoaded =>
           memory \in Seq(Record) /\ \A i, j \in DOMAIN memory : i < j => memory[i].n < memory[j].n
    BY <2>1, DatasetIsLoaded DEF Stores, Dataset
  <2> QED
    BY <2>1, <2>2, <2>3
<1>5. \A r \in Request : reqs[r].st = "waiting" =>
        /\ Len(reqs[r].vecs) < Len(reqs[r].texts)
        /\ \A i \in DOMAIN reqs[r].vecs : reqs[r].vecs[i].text = reqs[r].texts[i]
  BY DEF Provides, RequestOK, Embeds, Idle
<1> QED
  BY <1>1, <1>2, <1>3, <1>4, <1>5 DEF TypeOK

\* Whatever calls for one text overlap, the cache and its order name the same texts, once
\* each, within the cap, and every request has the vectors of the texts it is past
\* (EmbeddingProvider, embeddings.py).
THEOREM ProviderIsConsistent ==
  Spec => []TypeOK
<1>1. Inv => TypeOK
  BY TypedByInv DEF Inv
<1> QED
  BY <1>1, InvHolds, PTL

\* What the model is shown are at most k commands in a context, each as a trusted analyst
\* labelled it there, and none that trusted analysts disagreed about there when the request
\* came, whatever was stored, lost or reloaded meanwhile (retrieve_fewshot,
\* feedback_store.py).  Contexts are told apart as _fingerprint does (51-54): one command
\* in two contexts may be shown with both labels.
THEOREM ExamplesAreTrusted ==
  Spec => []ExamplesAreSafe
<1>1. Inv => ExamplesAreSafe
  BY SafeByInv DEF Inv
<1> QED
  BY <1>1, InvHolds, PTL

\* A trusted correction nobody contradicted in its context is among the examples of a request that came
\* after it if it is near enough, or k nearer ones are (retrieve_fewshot, feedback_store.py).
THEOREM NearCorrectionsAreFound ==
  Spec => []CorrectionsAreFound
<1>1. Inv => CorrectionsAreFound
  BY FoundByInv DEF Inv
<1> QED
  BY <1>1, InvHolds, PTL

\* Whichever requests build the index together, a command is compared with every
\* known-bad one (SimilarityIndex, embeddings.py).
THEOREM EveryKnownBadIsCompared ==
  Spec => []KnownBadIsFlagged
<1>1. Inv => KnownBadIsFlagged
  BY FlaggedByInv DEF Inv
<1> QED
  BY <1>1, InvHolds, PTL
=============================================================================
