------------------------------ MODULE TriageStore ------------------------------
(***************************************************************************)
(* The analyst's triage decisions and the file that keeps them             *)
(* (triage_store.py, triage.py, the /api/triage handlers).                 *)
(*                                                                         *)
(* The store is a cached JSON object: it is read from the file by the      *)
(* first call, changed in memory, and written back as a whole to a         *)
(* temporary file that replaces the old one.  Every call holds the lock,   *)
(* so each is one action; what may go wrong inside it is the write (the    *)
(* call fails, or the process dies) and the first read.  Note, analyst and *)
(* updated_at are overwritten like status and are not modelled.            *)
(***************************************************************************)
EXTENDS Integers, FiniteSets

CONSTANTS
    Incident,       \* incident ids
    Finding,        \* the keys of the findings of an incident
    Critical,       \* the findings of severity critical; the others are low
    Status,         \* VALID_STATUSES
    New,            \* STATUS_NEW
    MaxRecords,     \* _MAX_RECORDS
    NoRecord,       \* the incident is not in the store
    NotLoaded,      \* _cache is None
    Unset,          \* a field that an update leaves out
    MaxFaults,      \* bound of the model: how many writes go wrong
    ReadFaults      \* can the file be there and yet fail to be read?

\* severity_to_priority of the two severities modelled.
Priority == {"P0", "P3"}

Record == [status : Status, priority : Priority, excluded : SUBSET Finding]

ASSUME TriageStoreAssumption ==
    /\ Critical \subseteq Finding
    /\ New \in Status
    /\ MaxRecords \in Nat
    /\ MaxFaults \in Nat
    /\ ReadFaults \in BOOLEAN
    /\ NoRecord \notin Record
    /\ NotLoaded \notin [Incident -> Record \cup {NoRecord}]
    /\ Unset \notin Status \cup Priority

VARIABLES
    cache,          \* _cache: a record or NoRecord for each incident, or NotLoaded
    file,           \* what the file holds; no file is the empty store
    acked,          \* history: the record of the last update that was answered 200
    unacked,        \* history: the records of the updates that failed since then
    faults          \* how many writes went wrong

storeVars == <<cache, file, acked, unacked, faults>>

Data == [Incident -> Record \cup {NoRecord}]
Empty == [i \in Incident |-> NoRecord]
Stored(data) == {i \in Incident : data[i] # NoRecord}

StoreTypeOK ==
    /\ cache \in Data \cup {NotLoaded}
    /\ file \in Data
    /\ acked \in Data
    /\ unacked \in [Incident -> SUBSET Record]
    /\ faults \in 0..MaxFaults

StoreInit ==
    /\ cache = NotLoaded
    /\ file = Empty
    /\ acked = Empty
    /\ unacked = [i \in Incident |-> {}]
    /\ faults = 0

(***************************************************************************)
(* triage.py: what an incident shows.                                      *)
(***************************************************************************)

\* Variant with a planted error: the severity is not turned into a priority.
RollupSeverity(S) == IF S \cap Critical # {} THEN "critical" ELSE "low"

\* severity_to_priority of _rollup_severity, which starts from low.
Rollup(S) == IF S \cap Critical # {} THEN "P0" ELSE "P3"

\* suggested_priority of a freshly correlated incident.
Suggested == Rollup(Finding)

\* recompute_active: the findings that are not excluded decide, if there are any.
Active(excluded) == Rollup(IF Finding \ excluded = {} THEN Finding ELSE Finding \ excluded)

DefaultTriage(suggested) == [status |-> New, priority |-> suggested, excluded |-> {}]

\* merge_into_incidents: the triage state a freshly loaded incident shows.
Merged(data, i) == IF data[i] = NoRecord THEN DefaultTriage(Suggested) ELSE data[i]

(***************************************************************************)
(* _load and _flush.                                                       *)
(***************************************************************************)

\* Variant with a planted error: an update starts from an empty store.
LoadNothing == IF cache = NotLoaded THEN {Empty} ELSE {cache}

\* What _load may return.  A file that cannot be read counts as an empty store.
Loads ==
    IF cache = NotLoaded THEN {file} \cup (IF ReadFaults THEN {Empty} ELSE {}) ELSE {cache}

\* Variant with a planted error: the write is left to a later call.
WrittenLater(data, i) ==
    /\ cache' = data
    /\ acked' = [acked EXCEPT ![i] = data[i]]
    /\ unacked' = [unacked EXCEPT ![i] = {}]
    /\ UNCHANGED <<file, faults>>

\* The write succeeds and the request is answered 200.
Written(data, i) ==
    /\ cache' = data
    /\ file' = data
    /\ acked' = [acked EXCEPT ![i] = data[i]]
    /\ unacked' = [unacked EXCEPT ![i] = {}]
    /\ UNCHANGED faults

\* The write goes wrong: the request fails.
Failed(data, i) ==
    /\ faults < MaxFaults
    /\ faults' = faults + 1
    /\ unacked' = [unacked EXCEPT ![i] = @ \cup {data[i]}]
    /\ UNCHANGED acked

\* _flush of the changed data.  The update changed the cached object before: a
\* failed write leaves it in memory.  A crash is before or after os.replace.
Flush(data, i, out) ==
    \/ out = "ok" /\ Written(data, i)
    \/ out = "error" /\ Failed(data, i) /\ cache' = data /\ UNCHANGED file
    \/ out = "crash" /\ Failed(data, i) /\ cache' = NotLoaded /\ file' \in {file, data}

Outcome == {"ok", "error", "crash", "full"}

(***************************************************************************)
(* Operations.                                                             *)
(***************************************************************************)

\* The record a partial update starts from: the priority of a new one is the
\* update's own, or P3.
Before(data, i, pr) ==
    IF data[i] = NoRecord THEN DefaultTriage(IF pr = Unset THEN "P3" ELSE pr) ELSE data[i]

\* A partial update: fields that are left out keep their value.
Updated(rec, st, pr) ==
    [rec EXCEPT !.status = IF st = Unset THEN @ ELSE st,
                !.priority = IF pr = Unset THEN @ ELSE pr]

\* upsert, for a status and a priority that validate_triage_update accepts.
Upsert(i, st, pr, out) ==
    \E data \in Loads :
        IF data[i] = NoRecord /\ Cardinality(Stored(data)) >= MaxRecords
        THEN out = "full" /\ cache' = data /\ UNCHANGED <<file, acked, unacked, faults>>
        ELSE Flush([data EXCEPT ![i] = Updated(Before(data, i, pr), st, pr)], i, out)

\* set_finding_excluded: exclude or re-include one finding of an incident.
Exclude(i, f, excluded, suggested, out) ==
    \E data \in Loads :
        LET rec == IF data[i] = NoRecord THEN DefaultTriage(suggested) ELSE data[i]
            ex  == IF excluded THEN rec.excluded \cup {f} ELSE rec.excluded \ {f}
        IN  Flush([data EXCEPT ![i] = [rec EXCEPT !.excluded = ex]], i, out)

\* merge_into_incidents, all and get only load.
Read ==
    /\ cache' \in Loads
    /\ UNCHANGED <<file, acked, unacked, faults>>

\* The server is stopped and started again.
StoreRestart ==
    /\ cache' = NotLoaded
    /\ UNCHANGED <<file, acked, unacked, faults>>

StoreNext ==
    \/ \E i \in Incident, out \in Outcome :
          \/ \E st \in Status \cup {Unset}, pr \in Priority \cup {Unset} : Upsert(i, st, pr, out)
          \/ \E f \in Finding, excluded \in BOOLEAN, sp \in Priority : Exclude(i, f, excluded, sp, out)
    \/ Read
    \/ StoreRestart

StoreSpec == StoreInit /\ [][StoreNext]_storeVars

(***************************************************************************)
(* Properties.                                                             *)
(***************************************************************************)

\* An acknowledged decision is durable ("the ONLY durable thing is the analyst's
\* triage decision", triage_store.py:4): through failed writes, crashes, restarts
\* and updates of other incidents, the file and the memory hold the last
\* acknowledged record of each incident, or one whose own update failed later.
AcknowledgedIsDurable ==
    \A i \in Incident :
        /\ file[i] \in {acked[i]} \cup unacked[i]
        /\ cache # NotLoaded => cache[i] \in {acked[i]} \cup unacked[i]

\* triage_store.py:100-101: memory is changed before it is written, so it may differ from
\* the file, but only by decisions that were refused after the last one acknowledged for
\* their incident.  How such a difference ends is not the analyst's choice: a restart
\* forgets the decision, the next write, of whatever incident, makes it durable.
AheadOnlyAfterFailure ==
    \A i \in Incident :
        cache # NotLoaded /\ cache[i] # file[i] => cache[i] \in unacked[i]
=============================================================================
