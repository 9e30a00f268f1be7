-------------------------------- MODULE Analysis -------------------------------
(***************************************************************************)
(* What happens to an uploaded file, upload_log of main.py: it is parsed   *)
(* in a worker thread, and _run_analysis_pipeline makes the findings, the  *)
(* process graph, the incidents and the answer.  Each stage works on       *)
(* values of its own, so uploads do not disturb each other and one of them *)
(* is modelled.  The loops of the parsers, of the graph and of the         *)
(* correlation take one step per turn.                                     *)
(*                                                                         *)
(* The pre-scan belongs to the language-model side, the facets are drop-   *)
(* down lists, and the decisions of earlier uploads are merged into the    *)
(* incidents by TriageStore: none of them changes what is modelled here.   *)
(***************************************************************************)
EXTENDS Ingest, ThreatRules, Correlation, ProcessGraph

CONSTANTS
    Files,          \* the files considered
    Content,        \* of each part of a file: the raw event it is
    MaxResponse     \* MAX_RESPONSE_EVENTS

\* An event names at most one parent and one peer.
ASSUME AnalysisAssumption ==
    /\ \A f \in Files : IsFile(f)
    /\ \A v \in DOMAIN Records : Records[v] \in Seq(Range(Records[v]))
    /\ Normal \cup {"raw", "row"} \subseteq DOMAIN Content
    /\ \A x \in DOMAIN Content :
          /\ {"parent", "dst"} \subseteq DOMAIN Content[x]
          /\ \A p, q \in Content[x].parent : p = q
          /\ \A d, e \in Content[x].dst : d = e
    /\ MaxResponse \in Nat

VARIABLES
    stage,      \* how far the handler is
    events,     \* the parsed dataset
    findings,   \* the findings of the rule engine
    answer      \* what the page receives, and what the session cache keeps

vars == <<stage, events, findings, answer, ingestVars, corrVars, graphVars>>

Pending == [events |-> <<>>, truncated |-> FALSE, counts |-> <<>>, incidents |-> {}, cached |-> <<>>]

Init ==
    /\ stage = "received"
    /\ IngestInit(Files)
    /\ events = <<>> /\ findings = {}
    /\ answer = Pending
    /\ group = <<>> /\ parent = <<>> /\ left = 1 /\ right = 2 /\ a = 1 /\ b = 2
    /\ cursor = 0 /\ nodes = <<>> /\ edges = <<>> /\ kept = {} /\ passed = 0 /\ shown = NotBuilt

\* The upload is stored in a temporary file, unless it is of another format or larger
\* than MAX_FILE_BYTES.
Receive ==
    /\ stage = "received"
    /\ stage' = IF file.fmt \in {".json", ".csv"} \cup RecordFormats /\ file.size # "huge"
                THEN "parsing" ELSE "refused"
    /\ UNCHANGED <<events, findings, answer, ingestVars, corrVars, graphVars>>

\* ingester.parse_file
ParseSome ==
    /\ stage = "parsing"
    /\ Parse
    /\ UNCHANGED <<stage, events, findings, answer, corrVars, graphVars>>

Parsed ==
    /\ stage = "parsing"
    /\ mode = "parsed"
    /\ stage' = "parsed"
    /\ events' = [i \in DOMAIN parsed |-> Normalize(Content[parsed[i].what])]
    /\ UNCHANGED <<findings, answer, ingestVars, corrVars, graphVars>>

\* An exception of the parser is an error response; no session is made.
Refuse ==
    /\ stage = "parsing"
    /\ mode = "rejected"
    /\ stage' = "refused"
    /\ UNCHANGED <<events, findings, answer, ingestVars, corrVars, graphVars>>

\* rule_engine.evaluate_all
Evaluate ==
    /\ stage = "parsed"
    /\ findings' = EvaluateAll(events)
    /\ stage' = "drawing"
    /\ StartGraph
    /\ UNCHANGED <<events, answer, ingestVars, corrVars>>

\* graph_engine.build_graph
DrawEvent ==
    /\ stage = "drawing"
    /\ AddEvent(events, findings)
    /\ UNCHANGED <<stage, events, findings, answer, ingestVars, corrVars>>

CutGraph ==
    /\ stage = "drawing"
    /\ StartCut(events)
    /\ stage' = "cutting"
    /\ UNCHANGED <<events, findings, answer, ingestVars, corrVars>>

KeepParent ==
    /\ stage = "cutting"
    /\ KeepSource
    /\ UNCHANGED <<stage, events, findings, answer, ingestVars, corrVars>>

FinishDrawing ==
    /\ stage = "cutting"
    /\ FinishGraph
    /\ StartCorrelation(InOrder(Actionable(findings)))
    /\ stage' = "correlating"
    /\ UNCHANGED <<events, findings, answer, ingestVars>>

\* triage.correlate_findings
Group ==
    /\ stage = "correlating"
    /\ Correlate
    /\ UNCHANGED <<stage, events, findings, answer, ingestVars, graphVars>>

\* _compute_finding_severity_counts
SeverityCounts ==
    [s \in {"critical", "high", "medium", "low"} |->
        Cardinality({f \in findings : f.severity = s})]

\* The page gets the head of the dataset, the session cache all of it.
Respond ==
    /\ stage = "correlating"
    /\ ~PairsLeft
    /\ stage' = "answered"
    /\ LET head == SubSeq(events, 1, IF Len(events) < MaxResponse THEN Len(events) ELSE MaxResponse)
       IN answer' = [events |-> head, truncated |-> Len(events) > Len(head),
                     counts |-> SeverityCounts, incidents |-> Incidents, cached |-> events]
    /\ UNCHANGED <<events, findings, ingestVars, corrVars, graphVars>>

Next ==
    \/ Receive \/ ParseSome \/ Parsed \/ Refuse
    \/ Evaluate \/ DrawEvent \/ CutGraph \/ KeepParent \/ FinishDrawing \/ Group \/ Respond

\* A stage is a loop over values in memory: it goes on until it is finished.
Spec == Init /\ [][Next]_vars /\ WF_vars(Next)

(***************************************************************************)
(* Properties.                                                             *)
(***************************************************************************)

TypeOK ==
    /\ stage \in {"received", "parsing", "refused", "parsed", "drawing", "cutting",
                "correlating", "answered"}
    /\ mode \in {"idle", "probe", "ndjson", "peek", "load", "array", "concat", ".csv",
               "parsed", "rejected"} \cup RecordFormats
    /\ Len(events) \in {0, Len(parsed)}
    /\ parent \in [Member -> Member]
    /\ PairsLeft => {left, right, a, b} \subseteq Member /\ left < right
    /\ cursor \in 0..Len(events)
    /\ Cardinality(Ids(nodes)) = Len(nodes)
    /\ Cardinality(shown.edges) <= MaxEdges

Answered == stage = "answered"

\* Finding f says of event ev what rule r found in it.
Tells(f, ev, r) ==
    /\ f.rule = r.id /\ f.severity = r.severity
    /\ f.guid = ev.guid /\ f.user = ev.user /\ f.host = ev.host /\ f.src = ev.src

\* Every match of a rule of known severity is in one incident, and in one only, however
\* many findings were removed as repeated; the stats bar counts what the incidents
\* hold (evaluate_all, correlate_findings, _compute_finding_severity_counts).
EveryThreatIsOnTheBoard ==
    Answered =>
        /\ \A i \in DOMAIN events, k \in Loaded :
              Matches(events[i], Playbook[k]) /\ Rank(Playbook[k].severity) > 0
              => \E inc \in answer.incidents :
                    /\ \E m \in inc.members : Tells(group[m], events[i], Playbook[k])
                    /\ \A other \in answer.incidents \ {inc} :
                          \A m \in other.members : ~Tells(group[m], events[i], Playbook[k])
        /\ \A s \in DOMAIN answer.counts :
              answer.counts[s] =
                  Cardinality({m \in UNION {inc.members : inc \in answer.incidents} :
                                  group[m].severity = s})

\* Triage decisions are stored under the fingerprint of an incident, so no two
\* incidents of a dataset may share one, although it leaves out time and source.
IncidentIdsDistinct ==
    Answered => \A x, y \in answer.incidents : x.id = y.id => x = y

\* Rows i are an enumeration from source s and row j is a login that succeeded after it.
LoggedInAfter(s, j) ==
    /\ j \in Successes(events, s)
    /\ Cardinality({i \in InvalidFailures(events, s) : NoLater(events, i, j)}) >= EnumerationSize

\* A source that guessed names and then logged in is in an incident of the highest
\* severity, whatever the order of the rows and whatever else was found: no finding
\* about the same source takes its place (threat_rules.py:205, evaluate_all).
CompromiseIsCritical ==
    Answered =>
        \A i \in DOMAIN events : \A s \in events[i].src :
            (\E j \in DOMAIN events : LoggedInAfter(s, j))
            => \E inc \in answer.incidents :
                  /\ inc.severity = "critical"
                  /\ \E m \in inc.members :
                        /\ s \in group[m].src
                        /\ group[m].severity = "critical"
                        /\ \A j \in Successes(events, s) : events[j].user \subseteq group[m].user

\* Unless the answer says that the graph was truncated, every process of the dataset
\* is drawn as severe as the worst finding about it, under its parent and next to its
\* peer: also when the process was first met as a parent, before its own event, and
\* when the loop over the events stopped early.
HiddenOnlyWhenFlagged ==
    Answered /\ ~shown.truncated =>
        \A i \in DOMAIN events :
            LET ev == events[i] IN
            /\ \E n \in shown.nodes : /\ n.id = Process(ev.guid)
                                      /\ \A f \in findings :
                                            f.guid = ev.guid => Rank(f.severity) <= Rank(n.severity)
            /\ \A p \in ev.parent \ {ev.guid} : <<Process(p), Process(ev.guid)>> \in shown.edges
            /\ \A d \in ev.dst : <<Process(ev.guid), Peer(d)>> \in shown.edges

\* Are there MaxNodes displayed nodes, other than id, at least as severe as sev?
Crowded(id, sev) ==
    Cardinality({n \in shown.nodes : n.id # id /\ NodeRank(n.severity) >= NodeRank(sev)}) >= MaxNodes

\* A cut graph drops a process only for others that are no less severe, and drops
\* the parent of a process only when others are no less severe than that process
\* ("keep parents of kept nodes to preserve tree structure", graph_engine.py:151).
WorstProcessesSurvive ==
    Answered =>
        \A i \in DOMAIN nodes :
            nodes[i] \notin shown.nodes =>
                /\ Crowded(nodes[i].id, nodes[i].severity)
                /\ \A k \in DOMAIN edges :
                      edges[k][1] = nodes[i].id
                      => Crowded(edges[k][2], NodeOf(nodes, edges[k][2]).severity)

\* What is left to do, most significant first: the stages, and within one its loop.
Stages == <<"refused", "answered", "correlating", "cutting", "drawing", "parsed", "parsing", "received">>

Remaining ==
    <<CHOOSE n \in DOMAIN Stages : Stages[n] = stage>> \o
    (CASE stage = "parsing" -> ParserLeft
       [] stage = "drawing" -> <<Len(events) - cursor, 0, 0, 0>>
       [] stage = "cutting" -> <<Len(edges) - passed, 0, 0, 0>>
       [] stage = "correlating" -> CorrelationLeft \o <<0>>
       [] OTHER -> <<0, 0, 0, 0>>)

Precede(m, n) == \E i \in DOMAIN n : m[i] < n[i] /\ \A j \in 1..(i - 1) : m[j] = n[j]

\* No loop runs for ever: every turn leaves less to do, in a well-founded order.  A parser
\* that gives up is never tried again, every chunk and every walk up the union-find
\* gets shorter although buffers grow and paths change under it, and what a turn adds is
\* less significant than what it takes (ingest.py:113-139, 185-217, triage.py:62-66).
EveryTurnCounts == [][Remaining' \in [1..5 -> Nat] /\ Precede(Remaining', Remaining)]_vars

\* Every upload is answered or refused: the parsers take something from every file
\* on every turn, whatever the chunks, the walks up the union-find end, and so do
\* the other loops.
EveryUploadIsAnswered == <>(stage \in {"answered", "refused"})
=============================================================================
