------------------------------ MODULE ThreatRules ------------------------------
(***************************************************************************)
(* The detection engine, threat_rules.py: the playbook, the match of one   *)
(* event with one rule, the correlation of SSH logins per source, and the  *)
(* removal of repeated findings.  The engine keeps no state but its        *)
(* playbook, so the module has operators only; Analysis runs them.         *)
(*                                                                         *)
(* An optional text field is a set with at most one element, so that the   *)
(* joined accounts and hosts of a login attack (", ".join) are the set     *)
(* itself.  A time is a natural number, or Unparsed.  A regular expression *)
(* is the set of texts it is found in.  A list of findings is the set of   *)
(* them: the place of each says what it comes after.                       *)
(***************************************************************************)
EXTENDS Integers, FiniteSets, Sequences

CONSTANTS
    Playbook,           \* the rules of the YAML file, a sequence
    InvalidUser,        \* _INVALID_USER_PATTERNS
    EnumerationSize     \* invalid-user failures that make an enumeration: 5

\* The ids of the findings about logins.
LoginRule == {"TH-CORR-001", "TH-CORR-002", "TH-CORR-003"}

\* The rules of a playbook have ids of their own.
ASSUME ThreatRulesAssumption ==
    /\ Len(Playbook) \in Nat /\ DOMAIN Playbook = 1..Len(Playbook)
    /\ \A k \in DOMAIN Playbook : Playbook[k].id \notin LoginRule
    /\ \A k, l \in DOMAIN Playbook : Playbook[k].id = Playbook[l].id => k = l
    /\ EnumerationSize \in Nat \ {0}

Unparsed == -1

\* 0x0002, 0x0008, 0x0010, 0x0020 and 0x0040: the bits of 0x7A.
DangerousBits == {1, 3, 4, 5, 6}

\* Fail closed: a rule with a pattern that does not compile is not loaded.
Loaded == {k \in DOMAIN Playbook : Playbook[k].compiles}

(***************************************************************************)
(* _matches                                                                *)
(***************************************************************************)

\* The keys of a rule that constrain something.
Constraints == {"process_name", "event_outcome", "event_category", "commandline_regex",
                "granted_access_dangerous", "parent_child_anomaly"}

\* A constraint that is false or empty is skipped.
Holds(ev, r, c) ==
    CASE c = "parent_child_anomaly" ->
            r.match[c] => <<ev.process_name, ev.parent_process_name>> \in r.suspicious_parents
      [] c = "granted_access_dangerous" ->
            r.match[c] => ev.granted_access \cap DangerousBits # {}
      [] c = "commandline_regex" ->
            r.match[c] # {} => ev.commandline \in r.match[c]
      [] OTHER ->
            r.match[c] # {} => ev[c] \in r.match[c]

\* Every constraint holds, and there is one.
Matches(ev, r) ==
    /\ DOMAIN r.match \cap Constraints # {}
    /\ \A c \in DOMAIN r.match \cap Constraints : Holds(ev, r, c)

(***************************************************************************)
(* Findings: of a rule, and of the logins from one source.                 *)
(***************************************************************************)

\* Places are pairs: of an event and a rule, then of a source and one of three rules.
Precedes(p, q) == p[1] < q[1] \/ (p[1] = q[1] /\ p[2] < q[2])

FindingOf(ev, r, place) ==
    [place |-> place, rule |-> r.id, severity |-> r.severity, guid |-> ev.guid,
     user |-> ev.user, host |-> ev.host, src |-> ev.src, ts |-> ev.ts]

FindingsOfEvent(evs, i) ==
    {FindingOf(evs[i], Playbook[k], <<i, k>>) : k \in {l \in Loaded : Matches(evs[i], Playbook[l])}}

\* The logins from source s: what ssh_by_src collects.
Logins(evs, s) ==
    {i \in DOMAIN evs : /\ evs[i].src = {s}
                        /\ \/ evs[i].process_name = "sshd"
                           \/ evs[i].event_category = "authentication"}

\* The stable sort by time, with the times that could not be parsed at the end.
NoLater(evs, i, j) ==
    \/ evs[i].ts = evs[j].ts /\ i <= j
    \/ evs[i].ts # Unparsed /\ (evs[j].ts = Unparsed \/ evs[i].ts < evs[j].ts)

LastOf(evs, I) == evs[CHOOSE i \in I : \A j \in I : NoLater(evs, j, i)]

Accounts(evs, I) == UNION {evs[i].user : i \in I}

InvalidFailures(evs, s) ==
    {i \in Logins(evs, s) : evs[i].event_outcome = "failed" /\ evs[i].user \cap InvalidUser # {}}

RealFailures(evs, s) ==
    {i \in Logins(evs, s) : evs[i].event_outcome = "failed" /\ evs[i].user \cap InvalidUser = {}}

Successes(evs, s) == {i \in Logins(evs, s) : evs[i].event_outcome = "success"}

\* The sources come in the order of their first login, after the events.
LoginPlace(evs, s, n) ==
    <<Len(evs) + (CHOOSE i \in Logins(evs, s) : \A j \in Logins(evs, s) : i <= j), n>>

\* One finding about source s, at the last of the events in I.
LoginFinding(evs, s, n, rule, severity, users, I) ==
    LET attack == InvalidFailures(evs, s) \cup RealFailures(evs, s) \cup Successes(evs, s)
    IN [place |-> LoginPlace(evs, s, n), rule |-> rule, severity |-> severity,
        guid |-> LastOf(evs, I).guid, user |-> users, host |-> UNION {evs[i].host : i \in attack},
        src |-> {s}, ts |-> LastOf(evs, I).ts]

\* Success after an enumeration, a real name tried after it, or the names alone.
LoginFindings(evs, s) ==
    LET invalid == InvalidFailures(evs, s)
        real == RealFailures(evs, s)
        success == Successes(evs, s)
    IN IF Cardinality(invalid) < EnumerationSize THEN {} ELSE
       (IF success = {} THEN {}
        ELSE {LoginFinding(evs, s, 1, "TH-CORR-001", "critical", Accounts(evs, success), success)})
       \cup (IF real = {} THEN {}
             ELSE {LoginFinding(evs, s, 2, "TH-CORR-002", "high", Accounts(evs, real), real)})
       \cup (IF real \cup success # {} THEN {}
             ELSE {LoginFinding(evs, s, 3, "TH-CORR-003", "medium", {}, invalid)})

BruteForce(evs) ==
    UNION {LoginFindings(evs, s) : s \in UNION {evs[i].src : i \in DOMAIN evs}}

(***************************************************************************)
(* evaluate_all                                                            *)
(***************************************************************************)

\* Variant with a planted error: the key of the doc comment, without the host.
DocumentedKey(f) == <<f.rule, f.guid, f.src, f.user>>

\* Variant with a planted error: whichever rule found it.
AnyRuleKey(f) == <<f.guid, f.src, f.user, f.host>>

\* What makes two findings one threat.  Ingest gives every event a process guid,
\* so the fallback to the command line is never taken.
ThreatKey(f) == <<f.rule, f.guid, f.src, f.user, f.host>>

\* The first finding of each threat stays.
Dedupe(fs) ==
    {f \in fs : \A g \in fs : Precedes(g.place, f.place) => ThreatKey(g) # ThreatKey(f)}

RuleFindings(evs) == UNION {FindingsOfEvent(evs, i) : i \in DOMAIN evs}

RawFindings(evs) == RuleFindings(evs) \cup BruteForce(evs)

EvaluateAll(evs) == Dedupe(RawFindings(evs))

\* The list itself.
InOrder(fs) ==
    [n \in 1..Cardinality(fs) |->
        CHOOSE f \in fs : Cardinality({g \in fs : Precedes(g.place, f.place)}) = n - 1]
=============================================================================
