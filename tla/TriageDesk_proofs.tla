--------------------------- MODULE TriageDesk_proofs ----------------------------
(***************************************************************************)
(* Proofs about the triage store and the page in front of it: for any      *)
(* incidents, findings, statuses, requests and bounds, the variables keep  *)
(* their types; as long as the file can be read, acknowledged decisions    *)
(* are durable, and a card on which everything is settled shows what a     *)
(* reload would.                                                           *)
(***************************************************************************)
EXTENDS TriageDesk, TLAPS

(***************************************************************************)
(* What every step is: an update of one record that is flushed, or a step  *)
(* that changes nothing but what is in memory.                             *)
(***************************************************************************)

Change(data, i, rec) == [data EXCEPT ![i] = rec]

Flushes(i, rec, out) == \E data \in Loads : Flush(Change(data, i, rec), i, out)

OnlyMemory ==
    /\ cache' \in Loads \cup {NotLoaded}
    /\ UNCHANGED <<file, acked, unacked, faults>>

LEMMA LoadsType ==
  ASSUME StoreTypeOK
  PROVE  Loads \subseteq Data
BY DEF StoreTypeOK, Loads, Empty, Data

\* A record a partial update is built on or leads to is a record.
LEMMA RecordType ==
  ASSUME NEW data \in Data, NEW i \in Incident, NEW st \in Status \cup {Unset},
         NEW pr \in Priority \cup {Unset}
  PROVE  Updated(Before(data, i, pr), st, pr) \in Record
<1>1. DefaultTriage(IF pr = Unset THEN "P3" ELSE pr) \in Record
  BY TriageStoreAssumption DEF DefaultTriage, Record, Priority
<1>2. Before(data, i, pr) \in Record
  BY <1>1 DEF Before, Data
<1>3. ASSUME NEW rec \in Record PROVE Updated(rec, st, pr) \in Record
  BY DEF Updated, Record
<1> QED
  BY <1>2, <1>3

LEMMA StoreStepCases ==
  ASSUME StoreTypeOK, StoreNext
  PROVE  \/ \E i \in Incident, rec \in Record, out \in Outcome : Flushes(i, rec, out)
         \/ OnlyMemory
<1>1. ASSUME NEW i \in Incident, NEW out \in Outcome, NEW st \in Status \cup {Unset},
             NEW pr \in Priority \cup {Unset}, Upsert(i, st, pr, out)
      PROVE  (\E rec \in Record : Flushes(i, rec, out)) \/ OnlyMemory
  <2>1. PICK data \in Loads :
           IF data[i] = NoRecord /\ Cardinality(Stored(data)) >= MaxRecords
           THEN out = "full" /\ cache' = data /\ UNCHANGED <<file, acked, unacked, faults>>
           ELSE Flush([data EXCEPT ![i] = Updated(Before(data, i, pr), st, pr)], i, out)
    BY <1>1 DEF Upsert
  <2>2. Updated(Before(data, i, pr), st, pr) \in Record
    BY LoadsType, RecordType
  <2>3. CASE data[i] = NoRecord /\ Cardinality(Stored(data)) >= MaxRecords
    BY <2>1, <2>3 DEF OnlyMemory
  <2>4. CASE ~(data[i] = NoRecord /\ Cardinality(Stored(data)) >= MaxRecords)
    <3>1. Flush(Change(data, i, Updated(Before(data, i, pr), st, pr)), i, out)
      BY <2>1, <2>4 DEF Change
    <3> QED
      BY <2>2, <3>1 DEF Flushes
  <2> QED
    BY <2>3, <2>4
<1>2. ASSUME NEW i \in Incident, NEW out \in Outcome, NEW f \in Finding,
             NEW excluded \in BOOLEAN, NEW sp \in Priority, Exclude(i, f, excluded, sp, out)
      PROVE  \E rec \in Record : Flushes(i, rec, out)
  <2> DEFINE Rec(data) == IF data[i] = NoRecord THEN DefaultTriage(sp) ELSE data[i]
             Ex(data)  == IF excluded THEN Rec(data).excluded \cup {f}
                                      ELSE Rec(data).excluded \ {f}
             Edited(data) == [Rec(data) EXCEPT !.excluded = Ex(data)]
  <2>1. PICK data \in Loads : Flush([data EXCEPT ![i] = Edited(data)], i, out)
    BY <1>2 DEF Exclude
  <2>2. Edited(data) \in Record
    <3>1. Rec(data) \in Record
      BY LoadsType, TriageStoreAssumption DEF Data, DefaultTriage, Record
    <3>2. Ex(data) \in SUBSET Finding
      BY <3>1 DEF Record
    <3> QED
      BY <3>1, <3>2 DEF Record
  <2> HIDE DEF Edited
  <2>3. Flush(Change(data, i, Edited(data)), i, out)
    BY <2>1 DEF Change
  <2> QED
    BY <2>2, <2>3 DEF Flushes
<1>3. ASSUME Read \/ StoreRestart PROVE OnlyMemory
  BY <1>3 DEF Read, StoreRestart, OnlyMemory
<1> QED
  BY <1>1, <1>2, <1>3 DEF StoreNext

\* What an update leaves behind, incident by incident.
LEMMA ChangeAt ==
  ASSUME NEW data \in Data, NEW i \in Incident, NEW rec \in Record
  PROVE  /\ Change(data, i, rec) \in Data
         /\ \A j \in Incident : Change(data, i, rec)[j] = IF j = i THEN rec ELSE data[j]
BY DEF Change, Data

(***************************************************************************)
(* Types.                                                                  *)
(***************************************************************************)

LEMMA FlushType ==
  ASSUME StoreTypeOK, NEW i \in Incident, NEW data \in Data, data[i] \in Record,
         NEW out \in Outcome, Flush(data, i, out)
  PROVE  StoreTypeOK'
<1>1. CASE out = "ok"
  BY <1>1, TriageStoreAssumption DEF StoreTypeOK, Flush, Written, Outcome, Data
<1>2. CASE out = "error" \/ out = "crash"
  <2>1. Failed(data, i)
    BY <1>2 DEF Flush
  <2>2. unacked' \in [Incident -> SUBSET Record] /\ acked' \in Data /\ faults' \in 0..MaxFaults
    BY <2>1, TriageStoreAssumption DEF Failed, StoreTypeOK
  <2>3. cache' \in Data \cup {NotLoaded} /\ file' \in Data
    BY <1>2 DEF Flush, StoreTypeOK
  <2> QED
    BY <2>2, <2>3 DEF StoreTypeOK
<1> QED
  BY <1>1, <1>2 DEF Flush

LEMMA StoreKeepsType ==
  ASSUME StoreTypeOK, [StoreNext]_storeVars
  PROVE  StoreTypeOK'
<1>1. CASE UNCHANGED storeVars
  BY <1>1 DEF storeVars, StoreTypeOK
<1>2. CASE OnlyMemory
  BY <1>2, LoadsType DEF OnlyMemory, StoreTypeOK
<1>3. ASSUME NEW i \in Incident, NEW rec \in Record, NEW out \in Outcome, Flushes(i, rec, out)
      PROVE  StoreTypeOK'
  <2>1. PICK data \in Loads : Flush(Change(data, i, rec), i, out)
    BY <1>3 DEF Flushes
  <2>2. Change(data, i, rec) \in Data /\ Change(data, i, rec)[i] \in Record
    BY LoadsType, ChangeAt
  <2> QED
    BY <2>1, <2>2, FlushType
<1> QED
  BY <1>1, <1>2, <1>3, StoreStepCases

\* Every variable of the store keeps its type (triage_store.py keeps whatever
\* _load and the updates put into _cache).
THEOREM StoreTypeCorrect == StoreSpec => []StoreTypeOK
<1>1. StoreInit => StoreTypeOK
  BY TriageStoreAssumption DEF StoreInit, StoreTypeOK, Empty, Data
<1> QED
  BY <1>1, StoreKeepsType, PTL DEF StoreSpec

(***************************************************************************)
(* Durability.                                                             *)
(***************************************************************************)

\* The records incident i may hold: the acknowledged one, or one whose own update
\* failed since then.
Explained == [i \in Incident |-> {acked[i]} \cup unacked[i]]

\* What an update that is flushed does to the history.
LEMMA FlushExplains ==
  ASSUME StoreTypeOK, NEW i \in Incident, NEW data \in Data, data[i] \in Record,
         NEW out \in Outcome, Flush(data, i, out)
  PROVE  \A j \in Incident :
            /\ j = i => data[j] \in Explained'[j]
            /\ j = i /\ out # "ok" => data[j] \in unacked'[j] /\ Explained[j] \subseteq Explained'[j]
            /\ j # i => Explained'[j] = Explained[j] /\ unacked'[j] = unacked[j]
<1> SUFFICES ASSUME NEW j \in Incident
             PROVE  /\ j = i => data[j] \in {acked'[j]} \cup unacked'[j]
                    /\ j = i /\ out # "ok" =>
                          data[j] \in unacked'[j] /\ acked'[j] = acked[j] /\ unacked[j] \subseteq unacked'[j]
                    /\ j # i => acked'[j] = acked[j] /\ unacked'[j] = unacked[j]
  BY DEF Explained
<1>1. CASE out = "ok"
  BY <1>1 DEF Flush, Written, StoreTypeOK, Data
<1>2. CASE out = "error" \/ out = "crash"
  <2>1. Failed(data, i)
    BY <1>2 DEF Flush
  <2> QED
    BY <2>1, <1>2 DEF Failed, StoreTypeOK, Data
<1> QED
  BY <1>1, <1>2 DEF Flush

DurableInv == StoreTypeOK /\ AcknowledgedIsDurable /\ AheadOnlyAfterFailure

LEMMA FlushKeeps ==
  ASSUME DurableInv, ReadFaults = FALSE, NEW i \in Incident, NEW rec \in Record,
         NEW out \in Outcome, NEW data \in Loads, Flush(Change(data, i, rec), i, out)
  PROVE  AcknowledgedIsDurable' /\ AheadOnlyAfterFailure'
<1> DEFINE changed == Change(data, i, rec)
<1>1. /\ changed \in Data
      /\ \A j \in Incident : changed[j] = IF j = i THEN rec ELSE data[j]
  BY LoadsType, ChangeAt DEF DurableInv
<1>2. \A j \in Incident : /\ data[j] \in {acked[j]} \cup unacked[j]
                          /\ data[j] # file[j] => data[j] \in unacked[j]
  BY DEF Loads, DurableInv, AcknowledgedIsDurable, AheadOnlyAfterFailure
<1>3. \A j \in Incident :
            /\ j = i => changed[j] \in Explained'[j]
            /\ j = i /\ out # "ok" =>
                  changed[j] \in unacked'[j] /\ Explained[j] \subseteq Explained'[j]
            /\ j # i => Explained'[j] = Explained[j] /\ unacked'[j] = unacked[j]
  <2> HIDE DEF changed
  <2>1. Flush(changed, i, out) /\ changed[i] \in Record
    BY <1>1 DEF changed
  <2> QED
    BY <2>1, <1>1, FlushExplains DEF DurableInv
<1>4. \A j \in Incident : Explained[j] = {acked[j]} \cup unacked[j]
  BY DEF Explained
<1>5. \A j \in Incident : Explained'[j] = {acked'[j]} \cup unacked'[j]
  BY DEF Explained
<1>6. \A j \in Incident : changed[j] \in Explained'[j]
  BY <1>1, <1>2, <1>3, <1>4
<1>7. \A j \in Incident : file[j] \in Explained[j]
  BY <1>4 DEF DurableInv, AcknowledgedIsDurable
<1>8. NotLoaded \notin Data
  BY TriageStoreAssumption DEF Data
<1>9. Flush(changed, i, out)
  OBVIOUS
<1> HIDE DEF changed
<1>10. CASE out = "ok"
  <2>1. cache' = changed /\ file' = changed
    BY <1>9, <1>10 DEF Flush, Written
  <2> QED
    BY <2>1, <1>5, <1>6 DEF AcknowledgedIsDurable, AheadOnlyAfterFailure
<1>11. CASE out # "ok"
  <2>1. \A j \in Incident : file[j] \in Explained'[j]
    BY <1>11, <1>3, <1>7
  <2>2. file' \in {file, changed} /\ cache' \in {changed, NotLoaded}
    BY <1>9, <1>11 DEF Flush
  <2>3. AcknowledgedIsDurable'
    BY <2>1, <2>2, <1>5, <1>6 DEF AcknowledgedIsDurable
  <2>4. cache' # NotLoaded => file' = file /\ cache' = changed
    BY <1>9, <1>11, <1>8 DEF Flush
  <2>5. ASSUME NEW j \in Incident, changed[j] # file[j] PROVE changed[j] \in unacked'[j]
    BY <2>5, <1>1, <1>2, <1>3, <1>11
  <2>6. AheadOnlyAfterFailure'
    BY <2>4, <2>5 DEF AheadOnlyAfterFailure
  <2> QED
    BY <2>3, <2>6
<1> QED
  BY <1>10, <1>11

LEMMA DurableInductive ==
  ASSUME ReadFaults = FALSE
  PROVE  StoreSpec => []DurableInv
<1>1. StoreInit => AcknowledgedIsDurable /\ AheadOnlyAfterFailure
  BY DEF StoreInit, AcknowledgedIsDurable, AheadOnlyAfterFailure, Empty
<1>2. DurableInv /\ [StoreNext]_storeVars => (AcknowledgedIsDurable /\ AheadOnlyAfterFailure)'
  <2> SUFFICES ASSUME DurableInv, [StoreNext]_storeVars
               PROVE  AcknowledgedIsDurable' /\ AheadOnlyAfterFailure'
    OBVIOUS
  <2>1. CASE UNCHANGED storeVars
    BY <2>1 DEF storeVars, DurableInv, AcknowledgedIsDurable, AheadOnlyAfterFailure
  <2>2. CASE OnlyMemory
    <3>1. file' = file /\ acked' = acked /\ unacked' = unacked
      BY <2>2 DEF OnlyMemory
    <3>2. cache' = NotLoaded \/ cache' = file \/ cache' = cache
      BY <2>2 DEF OnlyMemory, Loads
    <3> QED
      BY <3>1, <3>2 DEF DurableInv, AcknowledgedIsDurable, AheadOnlyAfterFailure
  <2>3. ASSUME NEW i \in Incident, NEW rec \in Record, NEW out \in Outcome, Flushes(i, rec, out)
        PROVE  AcknowledgedIsDurable' /\ AheadOnlyAfterFailure'
    BY <2>3, FlushKeeps DEF Flushes
  <2> QED
    BY <2>1, <2>2, <2>3, StoreStepCases DEF DurableInv
<1>3. StoreSpec => []StoreTypeOK
  BY StoreTypeCorrect
<1> QED
  BY <1>1, <1>2, <1>3, PTL DEF StoreSpec, DurableInv

\* As long as the file can be read, an acknowledged decision survives any failed
\* writes, crashes, restarts and updates of other incidents (triage_store.py:4).
THEOREM Durable ==
  ASSUME ReadFaults = FALSE
  PROVE  StoreSpec => []AcknowledgedIsDurable
<1>1. DurableInv => AcknowledgedIsDurable
  BY DEF DurableInv
<1>2. StoreSpec => []DurableInv
  BY DurableInductive
<1> QED
  BY <1>1, <1>2, PTL

\* As long as the file can be read, memory differs from it only by decisions that were
\* refused and not replaced by an acknowledged one since (upsert changes the cached object
\* before _flush, triage_store.py:100-101).
THEOREM AheadOnlyFailed ==
  ASSUME ReadFaults = FALSE
  PROVE  StoreSpec => []AheadOnlyAfterFailure
<1>1. DurableInv => AheadOnlyAfterFailure
  BY DEF DurableInv
<1>2. StoreSpec => []DurableInv
  BY DurableInductive
<1> QED
  BY <1>1, <1>2, PTL

(***************************************************************************)
(* The page: types.                                                        *)
(***************************************************************************)

\* What is in flight is a save, a toggle or a load; the fields of each.
LEMMA RequestCases ==
  ASSUME NEW req \in Request
  PROVE  /\ req.st = "idle" <=> req = Idle
         /\ req.st # "idle" /\ req.kind = "save" => req \in SaveReq
         /\ req.st # "idle" /\ req.kind = "toggle" => req \in ToggleReq
         /\ req.st # "idle" /\ req.kind = "load" => req \in LoadReq
         /\ req.st # "idle" => req.kind \in {"save", "toggle", "load"}
<1>1. CASE req = Idle
  BY <1>1 DEF Idle
<1>2. CASE req \in SaveReq
  BY <1>2 DEF SaveReq, Idle, Outcome
<1>3. CASE req \in ToggleReq
  BY <1>3 DEF ToggleReq, Idle, Outcome
<1>4. CASE req \in LoadReq
  <2>1. req.st \in {"sent", "ok"} /\ req.kind = "load"
    BY <1>4 DEF LoadReq
  <2>2. req # Idle
    BY <2>1 DEF Idle
  <2> QED
    BY <1>4, <2>1, <2>2
<1> QED
  BY <1>1, <1>2, <1>3, <1>4 DEF Request

\* The answer to a save or a toggle is the request with its outcome.
LEMMA AnsweredFields ==
  ASSUME NEW req \in SaveReq \cup ToggleReq, NEW out \in Outcome
  PROVE  LET ans == [req EXCEPT !.st = out]
         IN  /\ ans \in Request
             /\ ans.st = out /\ ans.kind = req.kind /\ ans.inc = req.inc
             /\ ans.find = req.find /\ ans.fresh = req.fresh
             /\ req \in SaveReq => ans.status = req.status /\ ans.priority = req.priority
             /\ req \in ToggleReq => ans.excluded = req.excluded /\ ans.suggested = req.suggested
<1>1. CASE req \in SaveReq
  BY <1>1 DEF SaveReq, ToggleReq, Request
<1>2. CASE req \in ToggleReq
  BY <1>2 DEF SaveReq, ToggleReq, Request
<1> QED
  BY <1>1, <1>2

LEMMA RollupType == \A S : Rollup(S) \in Priority
BY DEF Rollup, Priority

LEMMA DefaultType ==
  ASSUME NEW sp \in Priority
  PROVE  DefaultTriage(sp) \in Record
BY TriageStoreAssumption DEF DefaultTriage, Record

LEMMA MergedType ==
  ASSUME NEW data \in Data, NEW i \in Incident
  PROVE  Merged(data, i) \in Record
BY RollupType, DefaultType DEF Merged, Suggested, Data

LEMMA ShownType ==
  ASSUME NEW rec \in Record
  PROVE  Shown(rec) \in [rec : Record, severity : Priority]
BY RollupType DEF Shown, Active

\* What an answer does to a card.
LEMMA SaveApplied ==
  ASSUME NEW shown \in [rec : Record, severity : Priority], NEW req \in SaveReq
  PROVE  /\ Applied(shown, req) \in [rec : Record, severity : Priority]
         /\ Applied(shown, req).rec.status = req.status
         /\ Applied(shown, req).rec.priority = req.priority
         /\ Applied(shown, req).rec.excluded = shown.rec.excluded
         /\ Applied(shown, req).severity = shown.severity
BY DEF Applied, SaveReq, Record

LEMMA ToggleApplied ==
  ASSUME NEW shown \in [rec : Record, severity : Priority], NEW req \in ToggleReq
  PROVE  /\ Applied(shown, req) \in [rec : Record, severity : Priority]
         /\ Applied(shown, req).rec.status = shown.rec.status
         /\ Applied(shown, req).rec.priority = shown.rec.priority
         /\ Applied(shown, req).rec.excluded =
               IF req.excluded THEN shown.rec.excluded \cup {req.find}
                               ELSE shown.rec.excluded \ {req.find}
         /\ Applied(shown, req).severity =
               Recompute(shown.severity, Applied(shown, req).rec.excluded)
<1> DEFINE ex == IF req.excluded THEN shown.rec.excluded \cup {req.find}
                                 ELSE shown.rec.excluded \ {req.find}
<1>1. ex \in SUBSET Finding
  BY DEF ToggleReq, Record
<1>2. Recompute(shown.severity, ex) \in Priority
  BY RollupType DEF Recompute
<1>3. req.kind # "save"
  BY DEF ToggleReq
<1>4. Applied(shown, req) = [rec |-> [shown.rec EXCEPT !.excluded = ex],
                             severity |-> Recompute(shown.severity, ex)]
  BY <1>3 DEF Applied
<1>5. shown.rec \in Record
  OBVIOUS
<1> HIDE DEF ex
<1>6. /\ [shown.rec EXCEPT !.excluded = ex] \in Record
      /\ [shown.rec EXCEPT !.excluded = ex].status = shown.rec.status
      /\ [shown.rec EXCEPT !.excluded = ex].priority = shown.rec.priority
      /\ [shown.rec EXCEPT !.excluded = ex].excluded = ex
  BY <1>1, <1>5 DEF Record
<1>7. /\ Applied(shown, req).rec = [shown.rec EXCEPT !.excluded = ex]
      /\ Applied(shown, req).severity = Recompute(shown.severity, ex)
  BY <1>4
<1>8. Applied(shown, req) \in [rec : Record, severity : Priority]
  BY <1>2, <1>4, <1>6
<1> QED
  BY <1>6, <1>7, <1>8 DEF ex

(***************************************************************************)
(* Seen from the store, each step of the page or the server is a step of   *)
(* the store or none.                                                      *)
(***************************************************************************)

LEMMA SaveStores ==
  ASSUME TypeOK, NEW r \in Slot, HandleSave(r)
  PROVE  StoreNext
<1>1. reqs[r] \in SaveReq
  BY RequestCases DEF HandleSave, TypeOK
<1>2. PICK out \in Outcome : Upsert(reqs[r].inc, reqs[r].status, reqs[r].priority, out)
  BY DEF HandleSave
<1>3. reqs[r].inc \in Incident /\ reqs[r].status \in Status /\ reqs[r].priority \in Priority
  BY <1>1 DEF SaveReq
<1> QED
  BY <1>2, <1>3 DEF StoreNext

LEMMA ToggleStores ==
  ASSUME TypeOK, NEW r \in Slot, HandleToggle(r)
  PROVE  StoreNext
<1>1. reqs[r] \in ToggleReq
  BY RequestCases DEF HandleToggle, TypeOK
<1>2. PICK out \in Outcome :
        Exclude(reqs[r].inc, reqs[r].find, reqs[r].excluded, reqs[r].suggested, out)
  BY DEF HandleToggle
<1>3. /\ reqs[r].inc \in Incident /\ reqs[r].find \in Finding
      /\ reqs[r].excluded \in BOOLEAN /\ reqs[r].suggested \in Priority
  BY <1>1 DEF ToggleReq
<1> QED
  BY <1>2, <1>3 DEF StoreNext

LEMMA StoreSteps ==
  ASSUME TypeOK, [Next]_vars
  PROVE  [StoreNext]_storeVars
<1>1. ASSUME NEW r \in Slot, HandleSave(r) \/ HandleToggle(r) \/ HandleLoad(r)
      PROVE  StoreNext
  <2>1. CASE HandleLoad(r)
    BY <2>1 DEF HandleLoad, StoreNext
  <2> QED
    BY <1>1, <2>1, SaveStores, ToggleStores
<1>2. CASE Restart
  BY <1>2 DEF Restart, StoreNext
<1>3. ASSUME NEW r \in Slot, NEW req, Send(r, req) PROVE UNCHANGED storeVars
  BY <1>3 DEF Send
<1>4. ASSUME NEW r \in Slot, Receive(r) \/ ReceiveLoad(r) PROVE UNCHANGED storeVars
  BY <1>4 DEF Receive, ReceiveLoad
<1>5. ASSUME NEW r \in Slot, NEW i \in Incident, NEW st \in Status, NEW pr \in Priority,
             Save(r, i, st, pr)
      PROVE  UNCHANGED storeVars
  BY <1>3, <1>5 DEF Save
<1>6. ASSUME NEW r \in Slot, NEW i \in Incident, NEW f \in Finding, Toggle(r, i, f)
      PROVE  UNCHANGED storeVars
  BY <1>3, <1>6 DEF Toggle
<1>7. ASSUME NEW r \in Slot, Load(r) PROVE UNCHANGED storeVars
  BY <1>3, <1>7 DEF Load
<1>8. CASE UNCHANGED vars
  BY <1>8 DEF vars
<1> QED
  BY <1>1, <1>2, <1>4, <1>5, <1>6, <1>7, <1>8 DEF Next

\* Requests and cards keep their types.
LEMMA PageType ==
  ASSUME TypeOK, Next, StoreTypeOK'
  PROVE  TypeOK'
<1> DEFINE Card == [rec : Record, severity : Priority]
<1> USE DEF TypeOK
<1>1. ASSUME NEW r \in Slot, NEW i \in Incident, NEW st \in Status, NEW pr \in Priority,
             Save(r, i, st, pr)
      PROVE  TypeOK'
  <2> DEFINE req == [st |-> "sent", kind |-> "save", inc |-> i, find |-> Unset, fresh |-> TRUE,
                     status |-> st, priority |-> pr]
  <2>1. req \in Request
    BY DEF Request, SaveReq
  <2>2. Send(r, req) /\ raced' \subseteq Incident
    BY <1>1 DEF Save
  <2> HIDE DEF req
  <2> QED
    BY <2>1, <2>2 DEF Send
<1>2. ASSUME NEW r \in Slot, NEW i \in Incident, NEW f \in Finding, Toggle(r, i, f)
      PROVE  TypeOK'
  <2> DEFINE req == [st |-> "sent", kind |-> "toggle", inc |-> i, find |-> f, fresh |-> TRUE,
                     excluded |-> f \notin card[i].rec.excluded, suggested |-> card[i].severity]
  <2>1. req \in Request
    BY DEF Request, ToggleReq
  <2>2. Send(r, req) /\ raced' \subseteq Incident
    BY <1>2 DEF Toggle
  <2> HIDE DEF req
  <2> QED
    BY <2>1, <2>2 DEF Send
<1>3. ASSUME NEW r \in Slot, Load(r) PROVE TypeOK'
  <2>1. [st |-> "sent", kind |-> "load"] \in Request
    BY DEF Request, LoadReq
  <2> QED
    BY <1>3, <2>1 DEF Load, Send
<1>4. ASSUME NEW r \in Slot, HandleSave(r) \/ HandleToggle(r) PROVE TypeOK'
  <2>1. reqs[r] \in SaveReq \cup ToggleReq
    BY <1>4, RequestCases DEF HandleSave, HandleToggle
  <2>2. PICK out \in Outcome : Answer(r, out)
    BY <1>4 DEF HandleSave, HandleToggle
  <2>3. [reqs[r] EXCEPT !.st = out] \in Request
    BY <2>1, AnsweredFields
  <2>4. reqs' = [reqs EXCEPT ![r] = [reqs[r] EXCEPT !.st = out]]
    BY <2>2 DEF Answer
  <2>5. reqs' \in [Slot -> Request]
    BY <2>3, <2>4
  <2> QED
    BY <1>4, <2>5 DEF HandleSave, HandleToggle
<1>5. ASSUME NEW r \in Slot, HandleLoad(r) PROVE TypeOK'
  <2> DEFINE loaded == [i \in Incident |-> Merged(cache', i)]
  <2>1. cache' \in Data
    BY <1>5, LoadsType DEF HandleLoad, Read
  <2>2. loaded \in [Incident -> Record]
    BY <2>1, MergedType
  <2> HIDE DEF loaded
  <2>3. [st |-> "ok", kind |-> "load", incidents |-> loaded] \in Request
    BY <2>2 DEF Request, LoadReq
  <2>4. reqs' = [reqs EXCEPT ![r] = [st |-> "ok", kind |-> "load", incidents |-> loaded]]
    BY <1>5 DEF HandleLoad, loaded
  <2> QED
    BY <1>5, <2>3, <2>4 DEF HandleLoad
<1>6. ASSUME NEW r \in Slot, Receive(r) PROVE TypeOK'
  <2>1. reqs' \in [Slot -> Request]
    BY <1>6 DEF Receive, Request
  <2>2. reqs[r] \in SaveReq \cup ToggleReq
    BY <1>6, RequestCases DEF Receive, Outcome
  <2>3. reqs[r].inc \in Incident
    BY <2>2 DEF SaveReq, ToggleReq
  <2>4. Applied(card[reqs[r].inc], reqs[r]) \in Card
    BY <2>2, <2>3, SaveApplied, ToggleApplied
  <2>5. card' \in [Incident -> Card]
    BY <1>6, <2>3, <2>4 DEF Receive
  <2> QED
    BY <1>6, <2>1, <2>5 DEF Receive
<1>7. ASSUME NEW r \in Slot, ReceiveLoad(r) PROVE TypeOK'
  <2>1. reqs[r].incidents \in [Incident -> Record]
    <3>1. reqs[r] \in LoadReq
      BY <1>7, RequestCases DEF ReceiveLoad
    <3> QED
      BY <1>7, <3>1 DEF ReceiveLoad, LoadReq
  <2>2. card' \in [Incident -> Card]
    BY <1>7, <2>1, ShownType DEF ReceiveLoad
  <2>3. ASSUME NEW q \in Slot, reqs[q].st # "idle", reqs[q].kind # "load"
        PROVE  [reqs[q] EXCEPT !.fresh = FALSE] \in Request
    <3>1. CASE reqs[q] \in SaveReq
      BY <3>1 DEF SaveReq, Request
    <3>2. CASE reqs[q] \in ToggleReq
      BY <3>2 DEF ToggleReq, Request
    <3> QED
      BY <2>3, <3>1, <3>2, RequestCases
  <2>4. reqs' \in [Slot -> Request]
    BY <1>7, <2>3 DEF ReceiveLoad, Request
  <2> QED
    BY <1>7, <2>2, <2>4 DEF ReceiveLoad
<1>8. CASE Restart
  BY <1>8 DEF Restart
<1> QED
  BY <1>1, <1>2, <1>3, <1>4, <1>5, <1>6, <1>7, <1>8 DEF Next

LEMMA TypeInit == Init => TypeOK
<1>1. StoreInit => StoreTypeOK
  BY TriageStoreAssumption DEF StoreInit, StoreTypeOK, Empty, Data
<1>2. Shown(DefaultTriage(Suggested)) \in [rec : Record, severity : Priority]
  BY RollupType, DefaultType, ShownType DEF Suggested
<1> QED
  BY <1>1, <1>2 DEF Init, TypeOK, Request

LEMMA TypeStep == TypeOK /\ [Next]_vars => TypeOK'
<1> SUFFICES ASSUME TypeOK, [Next]_vars PROVE TypeOK'
  OBVIOUS
<1>1. StoreTypeOK'
  BY StoreSteps, StoreKeepsType DEF TypeOK
<1>2. CASE UNCHANGED vars
  BY <1>1, <1>2 DEF vars, TypeOK
<1> QED
  BY <1>1, <1>2, PageType

\* Requests, answers and cards keep their types, and so does the store behind them
\* (incidents_panel.js, triage_store.py).
THEOREM TypeCorrect == Spec => []TypeOK
BY TypeInit, TypeStep, PTL DEF Spec

\* Whatever the page sends, and in whatever order it is handled and answered, the
\* store behaves as TriageStore says: what is proved of it holds here.
THEOREM ImplementsStore == Spec => StoreSpec
<1>1. Init => StoreInit
  BY DEF Init
<1>2. TypeOK /\ [Next]_vars => [StoreNext]_storeVars
  BY StoreSteps
<1> QED
  BY <1>1, <1>2, TypeCorrect, PTL DEF Spec, StoreSpec

(***************************************************************************)
(* A settled card shows what a reload would.                               *)
(*                                                                         *)
(* That says nothing of a card with requests in flight, so it is not       *)
(* inductive.  The invariant follows a change from the page to the file    *)
(* and back: a part of the card is what the file holds or, once the server *)
(* has made a change the page has not heard of, what the request in flight *)
(* asked for.                                                              *)
(***************************************************************************)

\* Request r, in flight, changes something of incident i.
Edits(r, i) == reqs[r].st # "idle" /\ reqs[r].kind # "load" /\ reqs[r].inc = i

Loading(r) == reqs[r].st # "idle" /\ reqs[r].kind = "load"

\* The store has made the change, and the page does not know yet.
Handled(r, i) == Edits(r, i) /\ reqs[r].st = "ok"
SavedBy(r, i) == Handled(r, i) /\ reqs[r].kind = "save"
ToggledBy(r, i, f) == Handled(r, i) /\ reqs[r].kind = "toggle" /\ reqs[r].find = f

\* Memory is not ahead of the file before a write goes wrong.
Synced == faults = 0 => cache \in {NotLoaded, file}

\* No two requests in flight write the same part of i or race a load.
Orderly(i) ==
    /\ \A r \in Slot : Edits(r, i) => reqs[r].fresh
    /\ \A r, q \in Slot :
          Edits(r, i) /\ Edits(q, i) /\ reqs[r].kind = reqs[q].kind /\ reqs[r].find = reqs[q].find
             => r = q
    /\ \A r, q \in Slot : ~ (Loading(r) /\ Edits(q, i))

\* The decision in the store is the one of a handled save, or the card's.
DecisionAgrees(i) ==
    /\ \A r \in Slot : SavedBy(r, i) => /\ Merged(file, i).status = reqs[r].status
                                        /\ Merged(file, i).priority = reqs[r].priority
    /\ (\A r \in Slot : ~ SavedBy(r, i)) => /\ Merged(file, i).status = card[i].rec.status
                                            /\ Merged(file, i).priority = card[i].rec.priority

\* So is, finding by finding, what it excludes.
ExclusionsAgree(i) ==
    \A f \in Finding :
       /\ \A r \in Slot : ToggledBy(r, i, f) => (f \in Merged(file, i).excluded <=> reqs[r].excluded)
       /\ (\A r \in Slot : ~ ToggledBy(r, i, f)) =>
             (f \in Merged(file, i).excluded <=> f \in card[i].rec.excluded)

\* Before the first change of i, the page suggests what the server would.
Untouched(i) ==
    file[i] = NoRecord =>
       /\ card[i].severity = Suggested
       /\ \A r \in Slot : ~ Handled(r, i)
       /\ \A r \in Slot : Edits(r, i) /\ reqs[r].kind = "toggle" => reqs[r].suggested = Suggested

\* A load on its way brings what the file holds.
LoadAgrees(i) ==
    \A r \in Slot : Loading(r) /\ reqs[r].st = "ok" => reqs[r].incidents[i] = Merged(file, i)

Agrees(i) == DecisionAgrees(i) /\ ExclusionsAgree(i) /\ Untouched(i) /\ LoadAgrees(i)

\* The severity of a card is that of its findings.
SeverityFits(shown) ==
    Finding \ shown.rec.excluded # {} => shown.severity = Rollup(Finding \ shown.rec.excluded)

DeskInv ==
    /\ TypeOK
    /\ Synced
    /\ \A i \in Incident : SeverityFits(card[i])
    /\ \A i \in Incident \ raced : Orderly(i)
    /\ faults = 0 => \A i \in Incident \ raced : Agrees(i)

(***************************************************************************)
(* The store, while nothing goes wrong.                                    *)
(***************************************************************************)

LEMMA CleanLoads ==
  ASSUME ReadFaults = FALSE, Synced, faults = 0
  PROVE  Loads = {file}
BY DEF Loads, Synced

LEMMA CleanFlush ==
  ASSUME StoreTypeOK, faults' = 0, NEW data, NEW i \in Incident, NEW out \in Outcome,
         Flush(data, i, out)
  PROVE  out = "ok" /\ cache' = data /\ file' = data
<1>1. faults + 1 # 0
  BY TriageStoreAssumption DEF StoreTypeOK
<1> QED
  BY <1>1 DEF Flush, Failed, Written

LEMMA FaultsStay ==
  ASSUME StoreTypeOK, [StoreNext]_storeVars, faults' = 0
  PROVE  faults = 0
<1>1. faults + 1 # 0
  BY TriageStoreAssumption DEF StoreTypeOK
<1>2. ASSUME NEW i \in Incident, NEW rec \in Record, NEW out \in Outcome, Flushes(i, rec, out)
      PROVE  faults = 0
  BY <1>1, <1>2 DEF Flushes, Flush, Failed, Written
<1>3. CASE UNCHANGED storeVars \/ OnlyMemory
  BY <1>3 DEF storeVars, OnlyMemory
<1> QED
  BY <1>2, <1>3, StoreStepCases

LEMMA StaysSynced ==
  ASSUME ReadFaults = FALSE, StoreTypeOK, Synced, [StoreNext]_storeVars
  PROVE  Synced'
<1> SUFFICES ASSUME faults' = 0 PROVE cache' \in {NotLoaded, file'}
  BY DEF Synced
<1>1. Loads = {file} /\ cache \in {NotLoaded, file}
  BY FaultsStay, CleanLoads DEF Synced
<1>2. CASE UNCHANGED storeVars \/ OnlyMemory
  BY <1>1, <1>2 DEF storeVars, OnlyMemory
<1>3. ASSUME NEW i \in Incident, NEW rec \in Record, NEW out \in Outcome, Flushes(i, rec, out)
      PROVE  cache' \in {NotLoaded, file'}
  BY <1>3, CleanFlush DEF Flushes
<1> QED
  BY <1>2, <1>3, StoreStepCases

\* A save changes the decision and nothing else, or the store is full.
LEMMA CleanSave ==
  ASSUME ReadFaults = FALSE, StoreTypeOK, Synced, faults = 0, faults' = 0,
         NEW i \in Incident, NEW st \in Status, NEW pr \in Priority, NEW out \in Outcome,
         Upsert(i, st, pr, out)
  PROVE  \/ out # "ok" /\ file' = file
         \/ /\ file'[i] # NoRecord
            /\ Merged(file', i).status = st
            /\ Merged(file', i).priority = pr
            /\ Merged(file', i).excluded = Merged(file, i).excluded
            /\ \A j \in Incident \ {i} : file'[j] = file[j]
<1> DEFINE rec == Updated(Before(file, i, pr), st, pr)
<1>1. Loads = {file} /\ file \in Data
  BY CleanLoads DEF StoreTypeOK
<1>2. CASE out = "full" /\ cache' = file /\ UNCHANGED <<file, acked, unacked, faults>>
  BY <1>2
<1>3. CASE Flush([file EXCEPT ![i] = rec], i, out)
  <2>1. file' = [file EXCEPT ![i] = rec]
    BY <1>3, CleanFlush
  <2>2. Before(file, i, pr) \in Record /\ Before(file, i, pr).excluded = Merged(file, i).excluded
    <3>1. pr # Unset
      BY TriageStoreAssumption
    <3>2. CASE file[i] = NoRecord
      BY <3>1, <3>2, DefaultType DEF Before, Merged, DefaultTriage
    <3>3. CASE file[i] # NoRecord
      BY <3>3, <1>1 DEF Before, Merged, Data
    <3> QED
      BY <3>2, <3>3
  <2>3. /\ rec \in Record /\ rec.status = st /\ rec.priority = pr
        /\ rec.excluded = Merged(file, i).excluded
    <3>1. st # Unset /\ pr # Unset
      BY TriageStoreAssumption
    <3>2. rec = [Before(file, i, pr) EXCEPT !.status = st, !.priority = pr]
      BY <3>1 DEF Updated
    <3> HIDE DEF rec
    <3> QED
      BY <2>2, <3>2 DEF Record
  <2> HIDE DEF rec
  <2>4. file'[i] = rec /\ rec # NoRecord /\ \A j \in Incident \ {i} : file'[j] = file[j]
    BY <1>1, <2>1, <2>3, TriageStoreAssumption DEF Data
  <2> QED
    BY <2>3, <2>4 DEF Merged
<1> QED
  BY <1>1, <1>2, <1>3 DEF Upsert

LEMMA ExcludeElsewhere ==
  ASSUME ReadFaults = FALSE, StoreTypeOK, Synced, faults = 0, faults' = 0,
         NEW i \in Incident, NEW f \in Finding, NEW excluded \in BOOLEAN, NEW sp \in Priority,
         NEW out \in Outcome, Exclude(i, f, excluded, sp, out)
  PROVE  out = "ok" /\ \A j \in Incident \ {i} : file'[j] = file[j]
<1> DEFINE old == IF file[i] = NoRecord THEN DefaultTriage(sp) ELSE file[i]
           ex == IF excluded THEN old.excluded \cup {f} ELSE old.excluded \ {f}
           rec == [old EXCEPT !.excluded = ex]
<1>1. Loads = {file} /\ file \in Data
  BY CleanLoads DEF StoreTypeOK
<1>2. Flush([file EXCEPT ![i] = rec], i, out)
  BY <1>1 DEF Exclude
<1> HIDE DEF rec
<1>3. out = "ok" /\ file' = [file EXCEPT ![i] = rec]
  BY <1>2, CleanFlush
<1> QED
  BY <1>1, <1>3 DEF Data

\* A toggle changes one exclusion and nothing else.
OnlyExcluded(i, f, excluded) ==
    /\ file'[i] # NoRecord
    /\ Merged(file', i).status = Merged(file, i).status
    /\ Merged(file', i).priority = Merged(file, i).priority
    /\ f \in Merged(file', i).excluded <=> excluded = TRUE
    /\ \A g \in Finding \ {f} : g \in Merged(file', i).excluded <=> g \in Merged(file, i).excluded

LEMMA CleanToggle ==
  ASSUME ReadFaults = FALSE, StoreTypeOK, Synced, faults = 0, faults' = 0,
         NEW i \in Incident, NEW f \in Finding, NEW excluded \in BOOLEAN, NEW sp \in Priority,
         NEW out \in Outcome, Exclude(i, f, excluded, sp, out), file[i] = NoRecord => sp = Suggested
  PROVE  OnlyExcluded(i, f, excluded)
<1> DEFINE ex == IF excluded THEN Merged(file, i).excluded \cup {f}
                             ELSE Merged(file, i).excluded \ {f}
           rec == [Merged(file, i) EXCEPT !.excluded = ex]
<1>1. Loads = {file} /\ file \in Data
  BY CleanLoads DEF StoreTypeOK
<1>2. (IF file[i] = NoRecord THEN DefaultTriage(sp) ELSE file[i]) = Merged(file, i)
  BY DEF Merged
<1>3. Flush([file EXCEPT ![i] = rec], i, out)
  BY <1>1, <1>2 DEF Exclude
<1>4. Merged(file, i) \in Record
  BY <1>1, MergedType
<1>5. /\ f \in ex <=> excluded = TRUE
      /\ \A g \in Finding \ {f} : g \in ex <=> g \in Merged(file, i).excluded
      /\ ex \in SUBSET Finding
  BY <1>4 DEF Record
<1> HIDE DEF ex
<1>6. /\ rec \in Record /\ rec.status = Merged(file, i).status
      /\ rec.priority = Merged(file, i).priority /\ rec.excluded = ex
  BY <1>4, <1>5 DEF Record
<1> HIDE DEF rec
<1>7. file' = [file EXCEPT ![i] = rec]
  BY <1>3, CleanFlush
<1>8. file'[i] = rec /\ rec # NoRecord
  BY <1>1, <1>6, <1>7, TriageStoreAssumption DEF Data
<1> QED
  BY <1>5, <1>6, <1>8 DEF Merged, OnlyExcluded

(***************************************************************************)
(* What a step that does not concern i leaves as it was.                   *)
(***************************************************************************)

\* What is in flight for i is no more than before.
LEMMA OrderlyFrame ==
  ASSUME NEW i \in Incident, Orderly(i),
         \A q \in Slot : Edits(q, i)' =>
            /\ Edits(q, i)
            /\ reqs'[q].kind = reqs[q].kind /\ reqs'[q].find = reqs[q].find
            /\ reqs'[q].fresh = reqs[q].fresh,
         \A q \in Slot : Loading(q)' => Loading(q)
  PROVE  Orderly(i)'
BY DEF Orderly

\* Neither the record nor the card of i changes, and no handled change of it comes or
\* goes.
LEMMA AgreesFrame ==
  ASSUME NEW i \in Incident, Agrees(i), file'[i] = file[i], card'[i] = card[i],
         \A q \in Slot : Handled(q, i) \/ Handled(q, i)' => reqs'[q] = reqs[q],
         \A q \in Slot : Loading(q)' /\ reqs'[q].st = "ok" =>
            reqs'[q] = reqs[q] \/ reqs'[q].incidents[i] = Merged(file, i),
         \A q \in Slot : Edits(q, i)' /\ reqs'[q].kind = "toggle" =>
            \/ /\ Edits(q, i) /\ reqs[q].kind = "toggle"
               /\ reqs'[q].suggested = reqs[q].suggested
            \/ reqs'[q].suggested = card[i].severity
  PROVE  Agrees(i)'
<1>1. Merged(file', i) = Merged(file, i)
  BY DEF Merged
<1>2. \A q \in Slot : Handled(q, i)' <=> Handled(q, i)
  BY DEF Handled, Edits
<1>3. \A q \in Slot : SavedBy(q, i)' <=> SavedBy(q, i)
  BY <1>2 DEF SavedBy
<1>4. \A q \in Slot : \A f \in Finding : ToggledBy(q, i, f)' <=> ToggledBy(q, i, f)
  BY <1>2 DEF ToggledBy
<1>5. DecisionAgrees(i)'
  BY <1>1, <1>3 DEF Agrees, DecisionAgrees, SavedBy
<1>6. ExclusionsAgree(i)'
  BY <1>1, <1>4 DEF Agrees, ExclusionsAgree, ToggledBy
<1>7. Untouched(i)'
  BY <1>2 DEF Agrees, Untouched
<1>8. LoadAgrees(i)'
  BY <1>1 DEF Agrees, LoadAgrees, Loading
<1> QED
  BY <1>5, <1>6, <1>7, <1>8 DEF Agrees

(***************************************************************************)
(* Step by step, for an incident that stays out of raced.                  *)
(***************************************************************************)

ItemOK(i) == Orderly(i) /\ (faults = 0 => Agrees(i))

\* A request is sent: a save, a toggle with the severity on its card, or a load.
LEMMA SentAgrees ==
  ASSUME TypeOK, NEW r \in Slot, NEW req \in Request, Send(r, req), req.st = "sent",
         NEW i \in Incident, Agrees(i),
         req.kind = "toggle" /\ req.inc = i => req.suggested = card[i].severity
  PROVE  Agrees(i)'
<1>1. reqs[r].st = "idle" /\ reqs'[r] = req /\ \A q \in Slot \ {r} : reqs'[q] = reqs[q]
  BY DEF Send, TypeOK
<1>2. file' = file /\ card' = card
  BY DEF Send, storeVars
<1>3. \A q \in Slot : Handled(q, i) \/ Handled(q, i)' => reqs'[q] = reqs[q]
  BY <1>1 DEF Handled, Edits
<1>4. \A q \in Slot : Loading(q)' /\ reqs'[q].st = "ok" => reqs'[q] = reqs[q]
  BY <1>1 DEF Loading
<1>5. \A q \in Slot : Edits(q, i)' /\ reqs'[q].kind = "toggle" =>
            \/ /\ Edits(q, i) /\ reqs[q].kind = "toggle"
               /\ reqs'[q].suggested = reqs[q].suggested
            \/ reqs'[q].suggested = card[i].severity
  BY <1>1 DEF Edits
<1> QED
  BY <1>2, <1>3, <1>4, <1>5, AgreesFrame

\* Of a save or a toggle that overlaps nothing, nothing else is in flight.
LEMMA SentOrderly ==
  ASSUME TypeOK, NEW r \in Slot, NEW req \in Request, Send(r, req), req.st = "sent",
         req.kind # "load", req.fresh = TRUE, req.inc \in Incident,
         raced' = IF Overlaps(req.inc, req.kind, req.find) THEN raced \cup {req.inc} ELSE raced,
         NEW i \in Incident, i \notin raced', Orderly(i)
  PROVE  Orderly(i)'
<1>1. reqs[r].st = "idle" /\ reqs'[r] = req /\ \A q \in Slot \ {r} : reqs'[q] = reqs[q]
  BY DEF Send, TypeOK
<1>2. \A q \in Slot : Loading(q)' <=> Loading(q)
  BY <1>1 DEF Loading
<1>3. CASE req.inc # i
  <2>1. \A q \in Slot : Edits(q, i)' => q # r
    BY <1>1, <1>3 DEF Edits
  <2>2. \A q \in Slot : Edits(q, i)' => Edits(q, i) /\ reqs'[q] = reqs[q]
    BY <1>1, <2>1 DEF Edits
  <2> QED
    BY <1>2, <2>2, OrderlyFrame
<1>4. CASE req.inc = i
  <2>1. ~ Overlaps(i, req.kind, req.find)
    BY <1>4
  <2>2. \A q \in Slot : ~ Loading(q)
    BY <2>1 DEF Overlaps, Loading
  <2>3. \A q \in Slot : Edits(q, i) => reqs[q].kind # req.kind \/ reqs[q].find # req.find
    BY <2>1 DEF Overlaps, Edits
  <2>4. \A q \in Slot \ {r} : (Edits(q, i)' <=> Edits(q, i)) /\ reqs'[q] = reqs[q]
    BY <1>1 DEF Edits
  <2>5. \A q \in Slot : Edits(q, i)' => reqs'[q].fresh
    BY <1>1, <2>4 DEF Orderly
  <2>6. ASSUME NEW p \in Slot, NEW q \in Slot, Edits(p, i)', Edits(q, i)',
               reqs'[p].kind = reqs'[q].kind, reqs'[p].find = reqs'[q].find
        PROVE  p = q
    <3>1. CASE p # r /\ q # r
      BY <2>4, <2>6, <3>1 DEF Orderly
    <3>2. CASE p = r /\ q # r
      BY <1>1, <2>3, <2>4, <2>6, <3>2
    <3>3. CASE p # r /\ q = r
      BY <1>1, <2>3, <2>4, <2>6, <3>3
    <3> QED
      BY <3>1, <3>2, <3>3
  <2> QED
    BY <1>2, <2>2, <2>5, <2>6 DEF Orderly
<1> QED
  BY <1>3, <1>4

LEMMA SaveKeeps ==
  ASSUME TypeOK, NEW r \in Slot, NEW j \in Incident, NEW st \in Status, NEW pr \in Priority,
         Save(r, j, st, pr), NEW i \in Incident, i \notin raced', ItemOK(i)
  PROVE  ItemOK(i)'
<1> DEFINE req == [st |-> "sent", kind |-> "save", inc |-> j, find |-> Unset, fresh |-> TRUE,
                   status |-> st, priority |-> pr]
<1>1. req \in Request
  BY DEF Request, SaveReq
<1>2. /\ Send(r, req)
      /\ raced' = IF Overlaps(req.inc, req.kind, req.find) THEN raced \cup {req.inc} ELSE raced
  BY DEF Save
<1>3. req.st = "sent" /\ req.kind = "save" /\ req.inc = j /\ req.fresh = TRUE
  OBVIOUS
<1> HIDE DEF req
<1>4. Orderly(i)'
  BY <1>1, <1>2, <1>3, SentOrderly DEF ItemOK
<1>5. Agrees(i) => Agrees(i)'
  BY <1>1, <1>2, <1>3, SentAgrees
<1>6. faults' = faults
  BY <1>2 DEF Send, storeVars
<1> QED
  BY <1>4, <1>5, <1>6 DEF ItemOK

LEMMA ToggleKeeps ==
  ASSUME TypeOK, NEW r \in Slot, NEW j \in Incident, NEW f \in Finding,
         Toggle(r, j, f), NEW i \in Incident, i \notin raced', ItemOK(i)
  PROVE  ItemOK(i)'
<1> DEFINE req == [st |-> "sent", kind |-> "toggle", inc |-> j, find |-> f, fresh |-> TRUE,
                   excluded |-> f \notin card[j].rec.excluded, suggested |-> card[j].severity]
<1>1. req \in Request
  BY DEF Request, ToggleReq, TypeOK
<1>2. /\ Send(r, req)
      /\ raced' = IF Overlaps(req.inc, req.kind, req.find) THEN raced \cup {req.inc} ELSE raced
  BY DEF Toggle
<1>3. req.st = "sent" /\ req.kind = "toggle" /\ req.inc = j /\ req.fresh = TRUE
      /\ req.suggested = card[j].severity
  OBVIOUS
<1> HIDE DEF req
<1>4. Orderly(i)'
  BY <1>1, <1>2, <1>3, SentOrderly DEF ItemOK
<1>5. Agrees(i) => Agrees(i)'
  BY <1>1, <1>2, <1>3, SentAgrees
<1>6. faults' = faults
  BY <1>2 DEF Send, storeVars
<1> QED
  BY <1>4, <1>5, <1>6 DEF ItemOK

LEMMA LoadKeeps ==
  ASSUME TypeOK, NEW r \in Slot, Load(r), NEW i \in Incident, i \notin raced', ItemOK(i)
  PROVE  ItemOK(i)'
<1> DEFINE req == [st |-> "sent", kind |-> "load"]
<1>1. req \in Request /\ req.st = "sent" /\ req.kind = "load"
  BY DEF Request, LoadReq
<1>2. Send(r, req)
  BY DEF Load
<1> HIDE DEF req
<1>3. \A q \in Slot : reqs[q].st = "idle"
  BY DEF Load
<1>4. \A q \in Slot : ~ Edits(q, i)'
  BY <1>1, <1>2, <1>3 DEF Send, Edits, TypeOK
<1>5. Orderly(i)'
  BY <1>4 DEF Orderly
<1>6. Agrees(i) => Agrees(i)'
  BY <1>1, <1>2, SentAgrees
<1>7. faults' = faults
  BY <1>2 DEF Send, storeVars
<1> QED
  BY <1>5, <1>6, <1>7 DEF ItemOK

\* The fields of an answered save or toggle.
LEMMA AnswerGives ==
  ASSUME TypeOK, NEW r \in Slot, reqs[r] \in SaveReq \cup ToggleReq, NEW out \in Outcome,
         Answer(r, out)
  PROVE  /\ \A q \in Slot \ {r} : reqs'[q] = reqs[q]
         /\ reqs'[r].st = out /\ out # "idle"
         /\ reqs'[r].kind = reqs[r].kind /\ reqs'[r].inc = reqs[r].inc
         /\ reqs'[r].find = reqs[r].find /\ reqs'[r].fresh = reqs[r].fresh
         /\ reqs[r] \in SaveReq =>
               reqs'[r].status = reqs[r].status /\ reqs'[r].priority = reqs[r].priority
         /\ reqs[r] \in ToggleReq =>
               reqs'[r].excluded = reqs[r].excluded /\ reqs'[r].suggested = reqs[r].suggested
<1>1. reqs' = [reqs EXCEPT ![r] = [reqs[r] EXCEPT !.st = out]]
  BY DEF Answer
<1>2. reqs'[r] = [reqs[r] EXCEPT !.st = out] /\ \A q \in Slot \ {r} : reqs'[q] = reqs[q]
  BY <1>1 DEF TypeOK
<1>3. out # "idle"
  BY DEF Outcome
<1> QED
  BY <1>2, <1>3, AnsweredFields

LEMMA AnswerOrderly ==
  ASSUME TypeOK, NEW r \in Slot, reqs[r] \in SaveReq \cup ToggleReq, reqs[r].st = "sent",
         NEW out \in Outcome, Answer(r, out), NEW i \in Incident, Orderly(i)
  PROVE  /\ Orderly(i)'
         /\ \A q \in Slot : Edits(q, i)' <=> Edits(q, i)
         /\ \A q \in Slot : Loading(q)' <=> Loading(q)
<1>1. \A q \in Slot : Edits(q, i)' <=> Edits(q, i)
  BY AnswerGives DEF Edits
<1>2. \A q \in Slot : Loading(q)' <=> Loading(q)
  BY AnswerGives DEF Loading
<1>3. \A q \in Slot : Edits(q, i)' =>
            /\ reqs'[q].kind = reqs[q].kind /\ reqs'[q].find = reqs[q].find
            /\ reqs'[q].fresh = reqs[q].fresh
  BY AnswerGives
<1> QED
  BY <1>1, <1>2, <1>3, OrderlyFrame

\* The answer to a change that was not made, or was made to another incident.
LEMMA AnswerElsewhere ==
  ASSUME TypeOK, NEW r \in Slot, reqs[r] \in SaveReq \cup ToggleReq, reqs[r].st = "sent",
         NEW out \in Outcome, Answer(r, out), card' = card,
         NEW i \in Incident, Agrees(i), Orderly(i), file'[i] = file[i],
         reqs[r].inc # i \/ out # "ok"
  PROVE  Agrees(i)'
<1>1. ~ Handled(r, i) /\ ~ Handled(r, i)'
  BY AnswerGives DEF Handled, Edits
<1>2. \A q \in Slot : Handled(q, i) \/ Handled(q, i)' => reqs'[q] = reqs[q]
  BY <1>1, AnswerGives
<1>3. reqs[r].kind # "load"
  BY DEF SaveReq, ToggleReq
<1>4. \A q \in Slot : Loading(q)' => reqs'[q] = reqs[q]
  BY <1>3, AnswerGives DEF Loading
<1>5. reqs[r].kind = "toggle" => reqs[r] \in ToggleReq
  BY DEF SaveReq
<1>6. \A q \in Slot : Edits(q, i)' /\ reqs'[q].kind = "toggle" =>
               /\ Edits(q, i) /\ reqs[q].kind = "toggle"
               /\ reqs'[q].suggested = reqs[q].suggested
  BY <1>5, AnswerGives, AnswerOrderly
<1> QED
  BY <1>2, <1>4, <1>6, AgreesFrame

\* The server made the change of a save.
LEMMA SaveHandled ==
  ASSUME TypeOK, NEW r \in Slot, reqs[r] \in SaveReq, reqs[r].st = "sent",
         Answer(r, "ok"), card' = card, NEW i \in Incident, reqs[r].inc = i,
         Agrees(i), Orderly(i), file'[i] # NoRecord,
         Merged(file', i).status = reqs[r].status,
         Merged(file', i).priority = reqs[r].priority,
         Merged(file', i).excluded = Merged(file, i).excluded
  PROVE  Agrees(i)'
<1>1. reqs[r].kind = "save" /\ Edits(r, i) /\ reqs[r] \in SaveReq \cup ToggleReq /\ "ok" \in Outcome
  BY DEF SaveReq, Edits, Outcome
<1>2. /\ \A q \in Slot \ {r} : reqs'[q] = reqs[q]
      /\ reqs'[r].st = "ok" /\ reqs'[r].kind = "save"
      /\ reqs'[r].status = reqs[r].status /\ reqs'[r].priority = reqs[r].priority
  BY <1>1, AnswerGives
<1>3. Orderly(i)' /\ \A q \in Slot : Edits(q, i)' <=> Edits(q, i)
  BY <1>1, AnswerOrderly
<1>4. SavedBy(r, i)'
  BY <1>1, <1>2, <1>3 DEF SavedBy, Handled
<1>5. ASSUME NEW q \in Slot, SavedBy(q, i)' PROVE q = r
  <2>1. reqs[q].kind = "save" /\ Edits(q, i)
    BY <1>1, <1>2, <1>3, <1>5 DEF SavedBy, Handled
  <2>2. reqs[q] \in SaveReq
    BY <2>1, RequestCases DEF Edits, TypeOK
  <2>3. reqs[q].find = reqs[r].find
    BY <2>2 DEF SaveReq
  <2> QED
    BY <1>1, <2>1, <2>3 DEF Orderly
<1>6. DecisionAgrees(i)'
  <2>1. \A q \in Slot : SavedBy(q, i)' =>
            Merged(file', i).status = reqs'[q].status /\ Merged(file', i).priority = reqs'[q].priority
    BY <1>2, <1>5
  <2> QED
    BY <1>4, <2>1 DEF DecisionAgrees
<1>7. ExclusionsAgree(i)'
  <2>1. \A q \in Slot : \A f \in Finding :
            /\ ToggledBy(q, i, f)' <=> ToggledBy(q, i, f)
            /\ ToggledBy(q, i, f) => reqs'[q].excluded = reqs[q].excluded
    BY <1>1, <1>2, <1>3 DEF ToggledBy, Handled
  <2> QED
    BY <2>1 DEF Agrees, ExclusionsAgree
<1>8. LoadAgrees(i)'
  BY <1>1, <1>3 DEF LoadAgrees, Orderly
<1>9. Untouched(i)'
  BY DEF Untouched
<1> QED
  BY <1>6, <1>7, <1>8, <1>9 DEF Agrees

\* The server made the change of a toggle.
LEMMA ToggleHandled ==
  ASSUME TypeOK, NEW r \in Slot, reqs[r] \in ToggleReq, reqs[r].st = "sent",
         Answer(r, "ok"), card' = card, NEW i \in Incident, reqs[r].inc = i,
         Agrees(i), Orderly(i), OnlyExcluded(i, reqs[r].find, reqs[r].excluded)
  PROVE  Agrees(i)'
<1>1. reqs[r].kind = "toggle" /\ Edits(r, i) /\ reqs[r] \in SaveReq \cup ToggleReq
      /\ "ok" \in Outcome
  BY DEF ToggleReq, Edits, Outcome
<1>2. /\ \A q \in Slot \ {r} : reqs'[q] = reqs[q]
      /\ reqs'[r].st = "ok" /\ reqs'[r].kind = "toggle"
      /\ reqs'[r].excluded = reqs[r].excluded /\ reqs'[r].find = reqs[r].find
  BY <1>1, AnswerGives
<1>3. Orderly(i)' /\ \A q \in Slot : Edits(q, i)' <=> Edits(q, i)
  BY <1>1, AnswerOrderly
<1>4. DecisionAgrees(i)'
  <2>1. \A q \in Slot : /\ SavedBy(q, i)' <=> SavedBy(q, i)
                        /\ SavedBy(q, i) =>
                              reqs'[q].status = reqs[q].status /\ reqs'[q].priority = reqs[q].priority
    BY <1>1, <1>2, <1>3 DEF SavedBy, Handled
  <2> QED
    BY <2>1 DEF Agrees, DecisionAgrees, OnlyExcluded
<1>5. ExclusionsAgree(i)'
  <2> SUFFICES ASSUME NEW f \in Finding
               PROVE  /\ \A q \in Slot : ToggledBy(q, i, f)' =>
                            (f \in Merged(file', i).excluded <=> reqs'[q].excluded)
                      /\ (\A q \in Slot : ~ ToggledBy(q, i, f)') =>
                            (f \in Merged(file', i).excluded <=> f \in card'[i].rec.excluded)
    BY DEF ExclusionsAgree
  <2>1. CASE f = reqs[r].find
    <3>1. ToggledBy(r, i, f)'
      BY <1>1, <1>2, <1>3, <2>1 DEF ToggledBy, Handled
    <3>2. ASSUME NEW q \in Slot, ToggledBy(q, i, f)' PROVE q = r
      BY <1>1, <1>2, <1>3, <2>1, <3>2 DEF ToggledBy, Handled, Orderly
    <3>3. reqs[r].excluded \in BOOLEAN
      BY DEF ToggleReq
    <3> QED
      BY <1>2, <2>1, <3>1, <3>2, <3>3 DEF OnlyExcluded
  <2>2. CASE f # reqs[r].find
    <3>1. \A q \in Slot : /\ ToggledBy(q, i, f)' <=> ToggledBy(q, i, f)
                          /\ ToggledBy(q, i, f) => reqs'[q].excluded = reqs[q].excluded
      BY <1>1, <1>2, <1>3, <2>2 DEF ToggledBy, Handled
    <3> QED
      BY <2>2, <3>1 DEF Agrees, ExclusionsAgree, OnlyExcluded
  <2> QED
    BY <2>1, <2>2
<1>6. LoadAgrees(i)'
  BY <1>1, <1>3 DEF LoadAgrees, Orderly
<1>7. Untouched(i)'
  BY DEF Untouched, OnlyExcluded
<1> QED
  BY <1>4, <1>5, <1>6, <1>7 DEF Agrees

LEMMA HandleSaveKeeps ==
  ASSUME ReadFaults = FALSE, TypeOK, Synced, NEW r \in Slot, HandleSave(r),
         NEW i \in Incident, ItemOK(i), faults' = 0 => faults = 0
  PROVE  ItemOK(i)'
<1>1. reqs[r] \in SaveReq /\ reqs[r].st = "sent" /\ card' = card
  BY RequestCases DEF HandleSave, TypeOK
<1>2. PICK out \in Outcome :
        Upsert(reqs[r].inc, reqs[r].status, reqs[r].priority, out) /\ Answer(r, out)
  BY DEF HandleSave
<1>3. Orderly(i)'
  BY <1>1, <1>2, AnswerOrderly DEF ItemOK
<1>4. ASSUME faults' = 0 PROVE Agrees(i)'
  <2> DEFINE j == reqs[r].inc
  <2>1. j \in Incident /\ reqs[r].status \in Status /\ reqs[r].priority \in Priority
    BY <1>1 DEF SaveReq
  <2>2. \/ out # "ok" /\ file' = file
        \/ /\ file'[j] # NoRecord
           /\ Merged(file', j).status = reqs[r].status
           /\ Merged(file', j).priority = reqs[r].priority
           /\ Merged(file', j).excluded = Merged(file, j).excluded
           /\ \A k \in Incident \ {j} : file'[k] = file[k]
    BY <1>2, <1>4, <2>1, CleanSave DEF TypeOK
  <2>3. Agrees(i) /\ Orderly(i)
    BY <1>4 DEF ItemOK
  <2>4. CASE out # "ok" \/ j # i
    <3>1. CASE file'[i] = file[i]
      BY <1>1, <1>2, <2>3, <2>4, <3>1, AnswerElsewhere
    <3>2. CASE j = i /\ out # "ok"
      <4>1. ASSUME NEW data, Flush(data, j, out) PROVE FALSE
        BY <1>4, <2>1, <3>2, <4>1, CleanFlush DEF TypeOK
      <4>2. file' = file
        BY <1>2, <4>1 DEF Upsert
      <4> QED
        BY <3>1, <4>2
    <3> QED
      BY <2>2, <2>4, <3>1, <3>2
  <2>5. CASE out = "ok" /\ j = i
    BY <1>1, <1>2, <2>2, <2>3, <2>5, SaveHandled
  <2> QED
    BY <2>4, <2>5
<1> QED
  BY <1>3, <1>4 DEF ItemOK

LEMMA HandleToggleKeeps ==
  ASSUME ReadFaults = FALSE, TypeOK, Synced, NEW r \in Slot, HandleToggle(r),
         NEW i \in Incident, ItemOK(i), faults' = 0 => faults = 0
  PROVE  ItemOK(i)'
<1>1. reqs[r] \in ToggleReq /\ reqs[r].st = "sent" /\ card' = card
  BY RequestCases DEF HandleToggle, TypeOK
<1>2. PICK out \in Outcome :
        /\ Exclude(reqs[r].inc, reqs[r].find, reqs[r].excluded, reqs[r].suggested, out)
        /\ Answer(r, out)
  BY DEF HandleToggle
<1>3. Orderly(i)'
  BY <1>1, <1>2, AnswerOrderly DEF ItemOK
<1>4. ASSUME faults' = 0 PROVE Agrees(i)'
  <2> DEFINE j == reqs[r].inc
  <2>1. /\ j \in Incident /\ reqs[r].find \in Finding
        /\ reqs[r].excluded \in BOOLEAN /\ reqs[r].suggested \in Priority
        /\ reqs[r].kind = "toggle"
    BY <1>1 DEF ToggleReq
  <2>2. Exclude(j, reqs[r].find, reqs[r].excluded, reqs[r].suggested, out)
    BY <1>2
  <2>3. Agrees(i) /\ Orderly(i)
    BY <1>4 DEF ItemOK
  <2>4. out = "ok" /\ \A k \in Incident \ {j} : file'[k] = file[k]
    BY <1>4, <2>1, <2>2, ExcludeElsewhere DEF TypeOK
  <2> HIDE DEF j
  <2>5. CASE j # i
    BY <1>1, <1>2, <2>3, <2>4, <2>5, AnswerElsewhere DEF j
  <2>6. CASE j = i
    <3>1. Edits(r, i)
      BY <1>1, <2>1, <2>6 DEF Edits, j
    <3>2. file[i] = NoRecord => reqs[r].suggested = Suggested
      BY <2>1, <2>3, <3>1 DEF Agrees, Untouched
    <3>3. Exclude(i, reqs[r].find, reqs[r].excluded, reqs[r].suggested, out)
      BY <2>2, <2>6
    <3>4. OnlyExcluded(i, reqs[r].find, reqs[r].excluded)
      BY <1>4, <2>1, <3>2, <3>3, CleanToggle DEF TypeOK
    <3> QED
      BY <1>1, <1>2, <2>3, <2>4, <2>6, <3>4, ToggleHandled DEF j
  <2> QED
    BY <2>5, <2>6
<1> QED
  BY <1>3, <1>4 DEF ItemOK

LEMMA HandleLoadKeeps ==
  ASSUME ReadFaults = FALSE, TypeOK, Synced, NEW r \in Slot, HandleLoad(r),
         NEW i \in Incident, ItemOK(i)
  PROVE  ItemOK(i)'
<1> DEFINE loaded == [k \in Incident |-> Merged(cache', k)]
<1>1. reqs[r].st = "sent" /\ reqs[r].kind = "load" /\ card' = card /\ file' = file
      /\ faults' = faults
  BY DEF HandleLoad, Read
<1>2. reqs'[r] = [st |-> "ok", kind |-> "load", incidents |-> loaded]
      /\ \A q \in Slot \ {r} : reqs'[q] = reqs[q]
  BY DEF HandleLoad, TypeOK
<1>3. loaded[i] = Merged(cache', i)
  OBVIOUS
<1> HIDE DEF loaded
<1>4. reqs'[r].st = "ok" /\ reqs'[r].kind = "load" /\ reqs'[r].incidents = loaded
  BY <1>2
<1>5. \A q \in Slot : /\ Edits(q, i)' <=> Edits(q, i)
                      /\ Edits(q, i) => reqs'[q] = reqs[q]
                      /\ Loading(q)' <=> Loading(q)
  BY <1>1, <1>2, <1>4 DEF Edits, Loading
<1>6. Orderly(i)'
  BY <1>5, OrderlyFrame DEF ItemOK
<1>7. ASSUME faults = 0 PROVE Agrees(i)'
  <2>1. cache' = file
    BY <1>7, CleanLoads DEF HandleLoad, Read
  <2>2. \A q \in Slot : Loading(q)' /\ reqs'[q].st = "ok" =>
            reqs'[q] = reqs[q] \/ reqs'[q].incidents[i] = Merged(file, i)
    BY <1>2, <1>3, <1>4, <2>1
  <2>3. \A q \in Slot : Handled(q, i) \/ Handled(q, i)' => reqs'[q] = reqs[q]
    BY <1>5 DEF Handled
  <2> QED
    BY <1>1, <1>5, <1>7, <2>2, <2>3, AgreesFrame DEF ItemOK
<1> QED
  BY <1>1, <1>6, <1>7 DEF ItemOK

\* The page hears of a change that was made, and applies it to its card.
LEMMA SaveReceived ==
  ASSUME TypeOK, NEW r \in Slot, reqs[r] \in SaveReq, reqs[r].st = "ok",
         reqs'[r] = Idle, \A q \in Slot \ {r} : reqs'[q] = reqs[q], file' = file,
         NEW i \in Incident, reqs[r].inc = i, card'[i] = Applied(card[i], reqs[r]),
         Agrees(i), Orderly(i)
  PROVE  Agrees(i)'
<1>1. reqs[r].kind = "save" /\ Edits(r, i) /\ Handled(r, i) /\ SavedBy(r, i)
  BY DEF SaveReq, Edits, Handled, SavedBy
<1>2. /\ card'[i].rec.status = reqs[r].status /\ card'[i].rec.priority = reqs[r].priority
      /\ card'[i].rec.excluded = card[i].rec.excluded
  BY SaveApplied DEF TypeOK
<1>3. \A q \in Slot : /\ Handled(q, i)' <=> (q # r /\ Handled(q, i))
                      /\ Edits(q, i)' <=> (q # r /\ Edits(q, i))
                      /\ Loading(q)' => q # r /\ Loading(q)
  BY DEF Handled, Edits, Loading, Idle
<1>4. ASSUME NEW q \in Slot, SavedBy(q, i) PROVE q = r
  <2>1. reqs[q].kind = "save" /\ Edits(q, i)
    BY <1>4 DEF SavedBy, Handled
  <2>2. reqs[q] \in SaveReq
    BY <2>1, RequestCases DEF Edits, TypeOK
  <2>3. reqs[q].find = reqs[r].find
    BY <2>2 DEF SaveReq
  <2> QED
    BY <1>1, <2>1, <2>3 DEF Orderly
<1>5. Merged(file', i) = Merged(file, i)
  OBVIOUS
<1>6. DecisionAgrees(i)'
  <2>1. \A q \in Slot : ~ SavedBy(q, i)'
    BY <1>3, <1>4 DEF SavedBy
  <2> QED
    BY <1>1, <1>2, <1>5, <2>1 DEF Agrees, DecisionAgrees
<1>7. ExclusionsAgree(i)'
  <2>1. \A q \in Slot : \A f \in Finding :
            /\ ToggledBy(q, i, f)' <=> ToggledBy(q, i, f)
            /\ ToggledBy(q, i, f) => reqs'[q] = reqs[q]
    BY <1>1, <1>3 DEF ToggledBy
  <2> QED
    BY <1>2, <1>5, <2>1 DEF Agrees, ExclusionsAgree
<1>8. Untouched(i)' /\ LoadAgrees(i)'
  BY <1>1, <1>3, <1>5 DEF Agrees, Untouched, LoadAgrees, Loading, Idle
<1> QED
  BY <1>6, <1>7, <1>8 DEF Agrees

LEMMA ToggleReceived ==
  ASSUME TypeOK, NEW r \in Slot, reqs[r] \in ToggleReq, reqs[r].st = "ok",
         reqs'[r] = Idle, \A q \in Slot \ {r} : reqs'[q] = reqs[q], file' = file,
         NEW i \in Incident, reqs[r].inc = i, card'[i] = Applied(card[i], reqs[r]),
         Agrees(i), Orderly(i)
  PROVE  Agrees(i)'
<1>1. reqs[r].kind = "toggle" /\ Edits(r, i) /\ Handled(r, i) /\ reqs[r].excluded \in BOOLEAN
      /\ reqs[r].find \in Finding
  BY DEF ToggleReq, Edits, Handled
<1>2. /\ card'[i].rec.status = card[i].rec.status /\ card'[i].rec.priority = card[i].rec.priority
      /\ card'[i].rec.excluded = IF reqs[r].excluded THEN card[i].rec.excluded \cup {reqs[r].find}
                                                    ELSE card[i].rec.excluded \ {reqs[r].find}
  <2>1. card[i] \in [rec : Record, severity : Priority]
    BY DEF TypeOK
  <2>2. /\ Applied(card[i], reqs[r]).rec.status = card[i].rec.status
        /\ Applied(card[i], reqs[r]).rec.priority = card[i].rec.priority
        /\ Applied(card[i], reqs[r]).rec.excluded =
              IF reqs[r].excluded THEN card[i].rec.excluded \cup {reqs[r].find}
                                  ELSE card[i].rec.excluded \ {reqs[r].find}
    BY <2>1, ToggleApplied
  <2> QED
    BY <2>2
<1>3. \A q \in Slot : /\ Handled(q, i)' <=> (q # r /\ Handled(q, i))
                      /\ Edits(q, i)' <=> (q # r /\ Edits(q, i))
                      /\ Loading(q)' => q # r /\ Loading(q)
  BY DEF Handled, Edits, Loading, Idle
<1>4. Merged(file', i) = Merged(file, i)
  OBVIOUS
<1>5. DecisionAgrees(i)'
  <2>1. \A q \in Slot : /\ SavedBy(q, i)' <=> SavedBy(q, i)
                        /\ SavedBy(q, i) => reqs'[q] = reqs[q]
    BY <1>1, <1>3 DEF SavedBy
  <2> QED
    BY <1>2, <1>4, <2>1 DEF Agrees, DecisionAgrees
<1>6. ExclusionsAgree(i)'
  <2> SUFFICES ASSUME NEW f \in Finding
               PROVE  /\ \A q \in Slot : ToggledBy(q, i, f)' =>
                            (f \in Merged(file', i).excluded <=> reqs'[q].excluded)
                      /\ (\A q \in Slot : ~ ToggledBy(q, i, f)') =>
                            (f \in Merged(file', i).excluded <=> f \in card'[i].rec.excluded)
    BY DEF ExclusionsAgree
  <2>1. CASE f = reqs[r].find
    <3>1. ToggledBy(r, i, f)
      BY <1>1, <2>1 DEF ToggledBy
    <3>2. ASSUME NEW q \in Slot, ToggledBy(q, i, f) PROVE q = r
      BY <1>1, <2>1, <3>2 DEF ToggledBy, Handled, Orderly
    <3>3. \A q \in Slot : ~ ToggledBy(q, i, f)'
      BY <1>3, <3>2 DEF ToggledBy
    <3>4. f \in Merged(file, i).excluded <=> reqs[r].excluded
      BY <3>1 DEF Agrees, ExclusionsAgree
    <3> QED
      BY <1>2, <1>4, <2>1, <3>3, <3>4
  <2>2. CASE f # reqs[r].find
    <3>1. \A q \in Slot : /\ ToggledBy(q, i, f)' <=> ToggledBy(q, i, f)
                          /\ ToggledBy(q, i, f) => reqs'[q] = reqs[q]
      BY <1>3, <2>2 DEF ToggledBy
    <3>2. f \in card'[i].rec.excluded <=> f \in card[i].rec.excluded
      BY <1>2, <2>2
    <3> QED
      BY <1>4, <3>1, <3>2 DEF Agrees, ExclusionsAgree
  <2> QED
    BY <2>1, <2>2
<1>7. Untouched(i)' /\ LoadAgrees(i)'
  BY <1>1, <1>3, <1>4 DEF Agrees, Untouched, LoadAgrees, Loading, Idle
<1> QED
  BY <1>5, <1>6, <1>7 DEF Agrees

LEMMA ReceiveKeeps ==
  ASSUME TypeOK, NEW r \in Slot, Receive(r), NEW i \in Incident, ItemOK(i)
  PROVE  ItemOK(i)'
<1>1. reqs[r] \in SaveReq \cup ToggleReq /\ reqs[r].st # "idle"
  BY RequestCases DEF Receive, Outcome, TypeOK
<1>2. reqs[r].inc \in Incident
  BY <1>1 DEF SaveReq, ToggleReq
<1>3. /\ reqs'[r] = Idle /\ \A q \in Slot \ {r} : reqs'[q] = reqs[q]
      /\ file' = file /\ faults' = faults
  BY DEF Receive, TypeOK, storeVars
<1>4. \A q \in Slot : /\ Edits(q, i)' => Edits(q, i) /\ reqs'[q] = reqs[q]
                      /\ Loading(q)' => Loading(q) /\ reqs'[q] = reqs[q]
  BY <1>3 DEF Edits, Loading, Idle
<1>5. Orderly(i)'
  BY <1>4, OrderlyFrame DEF ItemOK
<1>6. ASSUME Agrees(i) PROVE Agrees(i)'
  <2>1. CASE Handled(r, i)
    <3>1. reqs[r].inc = i /\ reqs[r].st = "ok" /\ reqs[r].fresh
      BY <2>1 DEF Handled, Edits, ItemOK, Orderly
    <3>2. card'[i] = Applied(card[i], reqs[r])
      BY <1>2, <3>1 DEF Receive, TypeOK
    <3>3. Orderly(i)
      BY DEF ItemOK
    <3> QED
      BY <1>1, <1>3, <1>6, <3>1, <3>2, <3>3, SaveReceived, ToggleReceived
  <2>2. CASE ~ Handled(r, i)
    <3>1. card'[i] = card[i]
      <4>1. reqs[r].inc # i \/ reqs[r].st # "ok"
        BY <1>1, <2>2 DEF Handled, Edits, SaveReq, ToggleReq
      <4> QED
        BY <1>2, <4>1 DEF Receive, TypeOK
    <3>2. \A q \in Slot : Handled(q, i) \/ Handled(q, i)' => reqs'[q] = reqs[q]
      BY <1>3, <1>4, <2>2 DEF Handled
    <3> QED
      BY <1>3, <1>4, <1>6, <3>1, <3>2, AgreesFrame
  <2> QED
    BY <2>1, <2>2
<1> QED
  BY <1>3, <1>5, <1>6 DEF ItemOK

\* A load replaces every card; requests for i would have raced it.
LEMMA ReceiveLoadKeeps ==
  ASSUME TypeOK, NEW r \in Slot, ReceiveLoad(r), NEW i \in Incident, ItemOK(i)
  PROVE  ItemOK(i)'
<1>1. reqs[r].st = "ok" /\ Loading(r) /\ file' = file /\ faults' = faults
  BY DEF ReceiveLoad, Loading, storeVars
<1>2. \A q \in Slot : ~ Edits(q, i)
  BY <1>1 DEF ItemOK, Orderly
<1>3. /\ \A q \in Slot : ~ Edits(q, i)'
      /\ \A q \in Slot : Loading(q)' => reqs'[q] = reqs[q]
  <2> SUFFICES ASSUME NEW q \in Slot
               PROVE  ~ Edits(q, i)' /\ (Loading(q)' => reqs'[q] = reqs[q])
    OBVIOUS
  <2>1. CASE q = r
    BY <2>1 DEF ReceiveLoad, Edits, Loading, Idle
  <2>2. CASE q # r /\ reqs[q].st # "idle" /\ reqs[q].kind # "load"
    <3>1. reqs'[q] = [reqs[q] EXCEPT !.fresh = FALSE]
      BY <2>2 DEF ReceiveLoad
    <3>2. reqs[q] \in SaveReq \cup ToggleReq
      BY <2>2, RequestCases DEF TypeOK
    <3>3. reqs'[q].st = reqs[q].st /\ reqs'[q].kind = reqs[q].kind /\ reqs'[q].inc = reqs[q].inc
      <4>1. CASE reqs[q] \in SaveReq
        BY <3>1, <4>1 DEF SaveReq
      <4>2. CASE reqs[q] \in ToggleReq
        BY <3>1, <4>2 DEF ToggleReq
      <4> QED
        BY <3>2, <4>1, <4>2
    <3> QED
      BY <1>2, <2>2, <3>3 DEF Edits, Loading
  <2>3. CASE q # r /\ ~ (reqs[q].st # "idle" /\ reqs[q].kind # "load")
    <3>1. reqs'[q] = reqs[q]
      BY <2>3 DEF ReceiveLoad
    <3> QED
      BY <1>2, <3>1 DEF Edits
  <2> QED
    BY <2>1, <2>2, <2>3
<1>4. Orderly(i)'
  BY <1>3 DEF Orderly
<1>5. ASSUME Agrees(i) PROVE Agrees(i)'
  <2> DEFINE m == Merged(file, i)
  <2>1. reqs[r].incidents[i] = m
    BY <1>1, <1>5 DEF Agrees, LoadAgrees
  <2>2. card'[i].rec = m /\ card'[i].severity = Active(m.excluded)
    BY <2>1 DEF ReceiveLoad, Shown
  <2>3. \A q \in Slot : ~ Handled(q, i)'
    BY <1>3 DEF Handled
  <2>4. DecisionAgrees(i)' /\ ExclusionsAgree(i)'
    BY <1>1, <2>2, <2>3 DEF DecisionAgrees, ExclusionsAgree, SavedBy, ToggledBy
  <2>5. file[i] = NoRecord => card'[i].severity = Suggested
    <3>1. file[i] = NoRecord => m.excluded = {}
      BY DEF Merged, DefaultTriage
    <3>2. Active({}) = Suggested
      BY DEF Active, Suggested
    <3> QED
      BY <2>2, <3>1, <3>2
  <2>6. Untouched(i)'
    BY <1>1, <1>3, <2>3, <2>5 DEF Untouched
  <2>7. LoadAgrees(i)'
    BY <1>1, <1>3, <1>5 DEF Agrees, LoadAgrees, Loading
  <2> QED
    BY <2>4, <2>6, <2>7 DEF Agrees
<1> QED
  BY <1>1, <1>4, <1>5 DEF ItemOK

\* The server's restart and steps that change nothing.
LEMMA NothingKeeps ==
  ASSUME TypeOK, UNCHANGED <<file, faults, card, reqs>>, NEW i \in Incident, ItemOK(i)
  PROVE  ItemOK(i)'
<1>1. Orderly(i)'
  BY DEF ItemOK, Orderly, Edits, Loading
<1>2. Agrees(i) => Agrees(i)'
  BY AgreesFrame DEF Handled, Edits, Loading
<1> QED
  BY <1>1, <1>2 DEF ItemOK

LEMMA SeveritiesFit ==
  ASSUME TypeOK, [Next]_vars, \A i \in Incident : SeverityFits(card[i])
  PROVE  \A i \in Incident : SeverityFits(card'[i])
<1>1. CASE card' = card
  BY <1>1
<1>2. ASSUME NEW r \in Slot, Receive(r) PROVE \A i \in Incident : SeverityFits(card'[i])
  <2>1. reqs[r] \in SaveReq \cup ToggleReq
    BY <1>2, RequestCases DEF Receive, Outcome, TypeOK
  <2>2. reqs[r].inc \in Incident
    BY <2>1 DEF SaveReq, ToggleReq
  <2>3. SeverityFits(Applied(card[reqs[r].inc], reqs[r]))
    <3>1. SeverityFits(card[reqs[r].inc])
          /\ card[reqs[r].inc] \in [rec : Record, severity : Priority]
      BY <2>2 DEF TypeOK
    <3>2. CASE reqs[r] \in SaveReq
      BY <3>1, <3>2, SaveApplied DEF SeverityFits
    <3>3. CASE reqs[r] \in ToggleReq
      BY <3>1, <3>3, ToggleApplied DEF SeverityFits, Recompute
    <3> QED
      BY <2>1, <3>2, <3>3
  <2> QED
    BY <1>1, <1>2, <2>2, <2>3 DEF Receive, TypeOK
<1>3. ASSUME NEW r \in Slot, ReceiveLoad(r) PROVE \A i \in Incident : SeverityFits(card'[i])
  BY <1>3 DEF ReceiveLoad, Shown, SeverityFits, Active
<1>4. ASSUME NEW r \in Slot, HandleSave(r) \/ HandleToggle(r) \/ HandleLoad(r) PROVE card' = card
  BY <1>4 DEF HandleSave, HandleToggle, HandleLoad
<1>5. ASSUME NEW r \in Slot, NEW req, Send(r, req) PROVE card' = card
  BY <1>5 DEF Send
<1>6. ASSUME NEW r \in Slot, NEW i \in Incident, NEW st \in Status, NEW pr \in Priority,
             Save(r, i, st, pr)
      PROVE  card' = card
  BY <1>5, <1>6 DEF Save
<1>7. ASSUME NEW r \in Slot, NEW i \in Incident, NEW f \in Finding, Toggle(r, i, f)
      PROVE  card' = card
  BY <1>5, <1>7 DEF Toggle
<1>8. ASSUME NEW r \in Slot, Load(r) PROVE card' = card
  BY <1>5, <1>8 DEF Load
<1>9. CASE Restart \/ UNCHANGED vars
  BY <1>9 DEF Restart, vars
<1> QED
  BY <1>1, <1>2, <1>3, <1>4, <1>6, <1>7, <1>8, <1>9 DEF Next

LEMMA RacedGrows ==
  ASSUME TypeOK, [Next]_vars
  PROVE  raced \subseteq raced'
<1>1. ASSUME NEW r \in Slot, NEW i \in Incident, NEW st \in Status, NEW pr \in Priority,
             Save(r, i, st, pr)
      PROVE  raced \subseteq raced'
  BY <1>1 DEF Save
<1>2. ASSUME NEW r \in Slot, NEW i \in Incident, NEW f \in Finding, Toggle(r, i, f)
      PROVE  raced \subseteq raced'
  BY <1>2 DEF Toggle
<1>3. ASSUME NEW r \in Slot, Load(r) PROVE raced \subseteq raced'
  BY <1>3 DEF Load, TypeOK
<1>4. ASSUME NEW r \in Slot,
             HandleSave(r) \/ HandleToggle(r) \/ HandleLoad(r) \/ Receive(r) \/ ReceiveLoad(r)
      PROVE  raced' = raced
  BY <1>4 DEF HandleSave, HandleToggle, HandleLoad, Receive, ReceiveLoad
<1>5. CASE Restart \/ UNCHANGED vars
  BY <1>5 DEF Restart, vars
<1> QED
  BY <1>1, <1>2, <1>3, <1>4, <1>5 DEF Next

LEMMA DeskInvInit == Init => DeskInv
<1> SUFFICES ASSUME Init PROVE DeskInv
  OBVIOUS
<1>1. TypeOK
  BY TypeInit
<1>2. Synced
  BY DEF Init, StoreInit, Synced
<1>3. \A r \in Slot : reqs[r].st = "idle"
  BY DEF Init, Idle
<1>4. \A i \in Incident : /\ file[i] = NoRecord
                          /\ card[i].rec = DefaultTriage(Suggested)
                          /\ card[i].severity = Active({})
  BY DEF Init, StoreInit, Empty, Shown, DefaultTriage
<1>5. Active({}) = Suggested
  BY DEF Active, Suggested
<1>6. ASSUME NEW i \in Incident PROVE SeverityFits(card[i])
  <2>1. card[i].rec.excluded = {}
    BY <1>4 DEF DefaultTriage
  <2> QED
    BY <1>4, <2>1 DEF SeverityFits, Active
<1>7. ASSUME NEW i \in Incident PROVE Orderly(i) /\ Agrees(i)
  <2>1. Orderly(i) /\ LoadAgrees(i)
    BY <1>3 DEF Orderly, Edits, Loading, LoadAgrees
  <2>2. Merged(file, i) = card[i].rec
    BY <1>4 DEF Merged
  <2>3. \A r \in Slot : ~ Handled(r, i) /\ ~ Edits(r, i)
    BY <1>3 DEF Handled, Edits
  <2>4. DecisionAgrees(i) /\ ExclusionsAgree(i)
    BY <2>2, <2>3 DEF DecisionAgrees, ExclusionsAgree, SavedBy, ToggledBy
  <2>5. Untouched(i)
    BY <1>4, <1>5, <2>3 DEF Untouched
  <2> QED
    BY <2>1, <2>4, <2>5 DEF Agrees
<1> QED
  BY <1>1, <1>2, <1>6, <1>7 DEF DeskInv

LEMMA DeskInvStep ==
  ASSUME ReadFaults = FALSE, DeskInv, [Next]_vars
  PROVE  DeskInv'
<1>1. TypeOK /\ TypeOK'
  BY TypeStep DEF DeskInv
<1>2. [StoreNext]_storeVars /\ StoreTypeOK
  BY <1>1, StoreSteps DEF TypeOK
<1>3. Synced /\ Synced'
  BY <1>2, StaysSynced DEF DeskInv
<1>4. \A i \in Incident : SeverityFits(card'[i])
  BY <1>1, SeveritiesFit DEF DeskInv
<1>5. faults' = 0 => faults = 0
  BY <1>2, FaultsStay
<1>6. ASSUME NEW i \in Incident \ raced' PROVE ItemOK(i)'
  <2>1. i \in Incident /\ i \notin raced' /\ ItemOK(i)
    BY <1>1, RacedGrows DEF DeskInv, ItemOK
  <2>2. ASSUME NEW r \in Slot, NEW j \in Incident, NEW st \in Status, NEW pr \in Priority,
               Save(r, j, st, pr)
        PROVE  ItemOK(i)'
    BY <1>1, <2>1, <2>2, SaveKeeps
  <2>3. ASSUME NEW r \in Slot, NEW j \in Incident, NEW f \in Finding, Toggle(r, j, f)
        PROVE  ItemOK(i)'
    BY <1>1, <2>1, <2>3, ToggleKeeps
  <2>4. ASSUME NEW r \in Slot, Load(r) PROVE ItemOK(i)'
    BY <1>1, <2>1, <2>4, LoadKeeps
  <2>5. ASSUME NEW r \in Slot, HandleSave(r) PROVE ItemOK(i)'
    BY <1>1, <1>3, <1>5, <2>1, <2>5, HandleSaveKeeps
  <2>6. ASSUME NEW r \in Slot, HandleToggle(r) PROVE ItemOK(i)'
    BY <1>1, <1>3, <1>5, <2>1, <2>6, HandleToggleKeeps
  <2>7. ASSUME NEW r \in Slot, HandleLoad(r) PROVE ItemOK(i)'
    BY <1>1, <1>3, <2>1, <2>7, HandleLoadKeeps
  <2>8. ASSUME NEW r \in Slot, Receive(r) PROVE ItemOK(i)'
    BY <1>1, <2>1, <2>8, ReceiveKeeps
  <2>9. ASSUME NEW r \in Slot, ReceiveLoad(r) PROVE ItemOK(i)'
    BY <1>1, <2>1, <2>9, ReceiveLoadKeeps
  <2>10. CASE Restart
    BY <1>1, <2>1, <2>10, NothingKeeps DEF Restart, StoreRestart
  <2>11. CASE UNCHANGED vars
    BY <1>1, <2>1, <2>11, NothingKeeps DEF vars, storeVars
  <2> QED
    BY <2>2, <2>3, <2>4, <2>5, <2>6, <2>7, <2>8, <2>9, <2>10, <2>11 DEF Next
<1> QED
  BY <1>1, <1>3, <1>4, <1>6 DEF DeskInv, ItemOK

LEMMA ScreenFromInv == DeskInv => ScreenMatchesReload
<1> SUFFICES ASSUME DeskInv, NEW i \in Incident, Settled(i)
             PROVE  /\ card[i].rec = Reloaded(i).rec
                    /\ Finding \ card[i].rec.excluded # {} => card[i].severity = Reloaded(i).severity
  BY DEF ScreenMatchesReload
<1> DEFINE m == Merged(file, i)
<1>1. Agrees(i) /\ SeverityFits(card[i]) /\ cache \in {NotLoaded, file}
  BY DEF DeskInv, Settled, Synced
<1>2. \A r \in Slot : ~ Handled(r, i)
  BY DEF Settled, Handled, Edits
<1>3. /\ m.status = card[i].rec.status /\ m.priority = card[i].rec.priority
      /\ \A f \in Finding : f \in m.excluded <=> f \in card[i].rec.excluded
  BY <1>1, <1>2 DEF Agrees, DecisionAgrees, ExclusionsAgree, SavedBy, ToggledBy
<1>4. m \in Record /\ card[i].rec \in Record
  BY MergedType DEF DeskInv, TypeOK, StoreTypeOK
<1> HIDE DEF m
<1>5. m.excluded = card[i].rec.excluded
  BY <1>3, <1>4 DEF Record
<1>6. m = card[i].rec
  BY <1>3, <1>4, <1>5 DEF Record
<1>7. Reloaded(i).rec = m /\ Reloaded(i).severity = Active(m.excluded)
  BY <1>1 DEF Reloaded, Shown, m
<1> QED
  BY <1>1, <1>6, <1>7 DEF SeverityFits, Active

\* As long as the file can be read: however saves, exclusions and reloads overtake each
\* other, once nothing is in flight, a card whose own requests did not overlap and that
\* saw no failed write shows what a reload would (incidents_panel.js:230).
THEOREM ScreenIsTrue ==
  ASSUME ReadFaults = FALSE
  PROVE  Spec => []ScreenMatchesReload
<1>1. DeskInv /\ [Next]_vars => DeskInv'
  BY DeskInvStep
<1> QED
  BY <1>1, DeskInvInit, ScreenFromInv, PTL DEF Spec
=============================================================================
