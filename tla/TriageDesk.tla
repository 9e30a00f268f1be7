------------------------------- MODULE TriageDesk -------------------------------
(***************************************************************************)
(* The incidents page (incidents_panel.js) over the triage store: an       *)
(* analyst saves triage decisions, excludes single findings and reloads    *)
(* the dataset.  The page sends each request on a connection of its own    *)
(* and applies each answer when it comes, so requests and answers may      *)
(* overtake each other.                                                    *)
(***************************************************************************)
EXTENDS TriageStore

CONSTANTS
    Slot                \* bound of the model: requests that are in flight at once

VARIABLES
    card,       \* what the page shows of each incident
    reqs,       \* the requests in flight
    raced       \* history: incidents whose requests may have overtaken each other

vars == <<storeVars, card, reqs, raced>>

\* A slot without a request, and the requests with what they carry.  fresh: the card
\* the request was sent from is still on the page.
Idle == [st |-> "idle"]
SaveReq ==
    [st : {"sent"} \cup Outcome, kind : {"save"}, inc : Incident, find : {Unset},
     fresh : BOOLEAN, status : Status, priority : Priority]
ToggleReq ==
    [st : {"sent"} \cup Outcome, kind : {"toggle"}, inc : Incident, find : Finding,
     fresh : BOOLEAN, excluded : BOOLEAN, suggested : Priority]
LoadReq ==
    [st : {"sent"}, kind : {"load"}]
        \cup [st : {"ok"}, kind : {"load"}, incidents : [Incident -> Record]]
Request == {Idle} \cup SaveReq \cup ToggleReq \cup LoadReq

\* A freshly loaded incident: its triage state and, after recompute_active, its
\* severity and suggested priority, which are one value here.
Shown(rec) == [rec |-> rec, severity |-> Active(rec.excluded)]

Init ==
    /\ StoreInit
    /\ card = [i \in Incident |-> Shown(DefaultTriage(Suggested))]
    /\ reqs = [r \in Slot |-> Idle]
    /\ raced = {}

(***************************************************************************)
(* The page sends a request.                                               *)
(***************************************************************************)

\* Does a request in flight write the same part of the card of i, or replace it?
Overlaps(i, kind, f) ==
    \E r \in Slot :
        \/ reqs[r].st # "idle" /\ reqs[r].kind = "load"
        \/ /\ reqs[r].st # "idle" /\ kind # "load"
           /\ reqs[r].kind = kind /\ reqs[r].inc = i /\ reqs[r].find = f

Send(r, req) ==
    /\ reqs[r].st = "idle"
    /\ reqs' = [reqs EXCEPT ![r] = req]
    /\ UNCHANGED <<storeVars, card>>

\* saveTriage sends what the form holds.  The button it disables comes back with
\* every render of the card, so a second save of it is never ruled out.
Save(r, i, st, pr) ==
    /\ Send(r, [st |-> "sent", kind |-> "save", inc |-> i, find |-> Unset, fresh |-> TRUE,
                status |-> st, priority |-> pr])
    /\ raced' = IF Overlaps(i, "save", Unset) THEN raced \cup {i} ELSE raced

\* toggleExclude sends the opposite of what the card shows, and the suggested
\* priority the card shows now.
Toggle(r, i, f) ==
    /\ Send(r, [st |-> "sent", kind |-> "toggle", inc |-> i, find |-> f, fresh |-> TRUE,
                excluded |-> f \notin card[i].rec.excluded, suggested |-> card[i].severity])
    /\ raced' = IF Overlaps(i, "toggle", f) THEN raced \cup {i} ELSE raced

\* The dataset is uploaded again.
Load(r) ==
    /\ Send(r, [st |-> "sent", kind |-> "load"])
    /\ raced' = IF \E q \in Slot : reqs[q].st # "idle" THEN Incident ELSE raced

(***************************************************************************)
(* The server handles it.                                                  *)
(***************************************************************************)

Answer(r, out) == reqs' = [reqs EXCEPT ![r].st = out]

HandleSave(r) ==
    /\ reqs[r].st = "sent" /\ reqs[r].kind = "save"
    /\ \E out \in Outcome :
          /\ Upsert(reqs[r].inc, reqs[r].status, reqs[r].priority, out)
          /\ Answer(r, out)
    /\ UNCHANGED <<card, raced>>

HandleToggle(r) ==
    /\ reqs[r].st = "sent" /\ reqs[r].kind = "toggle"
    /\ \E out \in Outcome :
          /\ Exclude(reqs[r].inc, reqs[r].find, reqs[r].excluded, reqs[r].suggested, out)
          /\ Answer(r, out)
    /\ UNCHANGED <<card, raced>>

\* merge_into_incidents, at the end of the upload pipeline.
HandleLoad(r) ==
    /\ reqs[r].st = "sent" /\ reqs[r].kind = "load"
    /\ Read
    /\ reqs' = [reqs EXCEPT ![r] = [st |-> "ok", kind |-> "load",
                    incidents |-> [i \in Incident |-> Merged(cache', i)]]]
    /\ UNCHANGED <<card, raced>>

(***************************************************************************)
(* The answer comes back.                                                  *)
(***************************************************************************)

\* Variant with a planted error: the page trusts the server's severity of before.
RecomputeNothing(severity, excluded) == severity

\* _recomputeActive of the page: with everything excluded the severity stays.
Recompute(severity, excluded) ==
    IF Finding \ excluded = {} THEN severity ELSE Rollup(Finding \ excluded)

\* A finding stands for its key (finding_key, triage.py:204).  Findings of one incident
\* that differ in their source address only share a key: the page marks the one that was
\* clicked, a load all of them.  Incidents here have no two such findings.
Applied(shown, req) ==
    IF req.kind = "save"
    THEN [shown EXCEPT !.rec.status = req.status, !.rec.priority = req.priority]
    ELSE LET ex == IF req.excluded THEN shown.rec.excluded \cup {req.find}
                                   ELSE shown.rec.excluded \ {req.find}
         IN  [rec |-> [shown.rec EXCEPT !.excluded = ex],
              severity |-> Recompute(shown.severity, ex)]

\* An answer other than 200 only shows a toast.  An answer for a card that was
\* replaced by a load changes an object nobody shows.
Receive(r) ==
    /\ reqs[r].st \in Outcome
    /\ reqs[r].kind # "load"
    /\ reqs' = [reqs EXCEPT ![r] = Idle]
    /\ card' = IF reqs[r].st = "ok" /\ reqs[r].fresh
               THEN [card EXCEPT ![reqs[r].inc] = Applied(@, reqs[r])]
               ELSE card
    /\ UNCHANGED <<storeVars, raced>>

ReceiveLoad(r) ==
    /\ reqs[r].st = "ok" /\ reqs[r].kind = "load"
    /\ reqs' = [q \in Slot |->
                    IF q = r THEN Idle
                    ELSE IF reqs[q].st # "idle" /\ reqs[q].kind # "load"
                         THEN [reqs[q] EXCEPT !.fresh = FALSE] ELSE reqs[q]]
    /\ card' = [i \in Incident |-> Shown(reqs[r].incidents[i])]
    /\ UNCHANGED <<storeVars, raced>>

\* The server is restarted; a request it did not answer is lost.
Restart ==
    /\ \A r \in Slot : reqs[r].st # "sent"
    /\ StoreRestart
    /\ UNCHANGED <<card, reqs, raced>>

Next ==
    \/ \E r \in Slot, i \in Incident :
          \/ \E st \in Status, pr \in Priority : Save(r, i, st, pr)
          \/ \E f \in Finding : Toggle(r, i, f)
    \/ \E r \in Slot :
          \/ Load(r)
          \/ HandleSave(r)
          \/ HandleToggle(r)
          \/ HandleLoad(r)
          \/ Receive(r)
          \/ ReceiveLoad(r)
    \/ Restart

Spec == Init /\ [][Next]_vars

(***************************************************************************)
(* Properties.                                                             *)
(***************************************************************************)

TypeOK ==
    /\ StoreTypeOK
    /\ card \in [Incident -> [rec : Record, severity : Priority]]
    /\ reqs \in [Slot -> Request]
    /\ raced \subseteq Incident

\* Nothing is under way, and nothing of i went wrong or was overtaken.
Settled(i) ==
    /\ \A r \in Slot : reqs[r].st = "idle"
    /\ faults = 0
    /\ i \notin raced

\* What a reload of the dataset would show.
Reloaded(i) ==
    Shown(Merged(IF cache = NotLoaded THEN file ELSE cache, i))

\* After any decisions and exclusions, also overlapping ones of different parts of a
\* card, the page shows the triage state that a reload would show, and, unless
\* every finding is excluded, the severity too ("so the card updates without a
\* reload", incidents_panel.js:230).
ScreenMatchesReload ==
    \A i \in Incident :
        Settled(i) =>
            /\ card[i].rec = Reloaded(i).rec
            /\ Finding \ card[i].rec.excluded # {} => card[i].severity = Reloaded(i).severity
=============================================================================
