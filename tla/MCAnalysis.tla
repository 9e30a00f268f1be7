------------------------------- MODULE MCAnalysis ------------------------------
(* A small instance of Analysis for TLC.  The detection engine, the incidents  *)
(* and the graph see every log of up to MaxEvents lines of ten kinds, or one   *)
(* more of six; five rules, one of which does not compile.  The parsers see    *)
(* JSON documents of a few parts, whole, interrupted or damaged, CSV rows with *)
(* overflow and missing cells, and records of the other formats.               *)
EXTENDS Analysis, TLC

CONSTANT MaxEvents      \* bound of the model: lines of a log

(* Events. *)

\* A row in which nothing is remarkable.
Plain ==
    [guid |-> {"g1"}, parent |-> {}, host |-> {"h1"}, user |-> {}, src |-> {}, ts |-> Unparsed,
     process_name |-> "other", parent_process_name |-> "", event_outcome |-> "",
     event_category |-> "", commandline |-> "other", message |-> "", granted_access |-> {},
     dst |-> {}]

\* Logins carry no process id.
Login == [Plain EXCEPT !.guid = {}, !.process_name = "sshd", !.src = {"s1"}, !.ts = 2,
                       !.event_category = "authentication"]

\* Credentials read from memory, a shell under a document and what its process did
\* later, guessed names and a login that is let in, and traffic that is cut first.
CoreKinds ==
    [ dump |-> [Plain EXCEPT !.commandline = "dump", !.granted_access = {4}, !.user = {"u1"}, !.ts = 1],
      shell |-> [Plain EXCEPT !.guid = {"g2"}, !.parent = {"g1"}, !.process_name = "shell",
                              !.parent_process_name = "office", !.ts = 4, !.dst = {"d2"}],
      later |-> [Plain EXCEPT !.guid = {"g2"}, !.commandline = "dump", !.granted_access = {1, 12}],
      guess |-> [Login EXCEPT !.user = {"unknown"}, !.event_outcome = "failed"],
      login |-> [Login EXCEPT !.user = {"u1"}, !.event_outcome = "success", !.ts = 3],
      traffic |-> [Plain EXCEPT !.guid = {"g5"}, !.parent = {"g6"}, !.dst = {"d1"},
                                !.commandline = "dump", !.granted_access = {12}] ]

\* The same process on another host or from another source, a real name that is
\* tried, and a child without an id, whose command is in its message.
Kinds ==
    CoreKinds @@
    [ dump2 |-> [Plain EXCEPT !.commandline = "dump", !.granted_access = {4}, !.user = {"u1"},
                              !.ts = 1, !.host = {"h2"}, !.parent_process_name = "office"],
      remote |-> [Plain EXCEPT !.guid = {"g2"}, !.commandline = "dump", !.granted_access = {1, 12},
                               !.src = {"s1"}],
      real |-> [Login EXCEPT !.user = {"u2"}, !.event_outcome = "failed", !.host = {}],
      syslog |-> [Plain EXCEPT !.guid = {}, !.commandline = "", !.message = "dump",
                               !.granted_access = {4}, !.parent = {"g1"}] ]

(* Files. *)

Document ==
    [fmt |-> ".json", size |-> "small", shape |-> "stream", parts |-> <<>>, sep |-> <<"nl">>,
     cut |-> 0, header |-> <<>>, rows |-> <<>>]

\* Objects with a brace and an escaped quotation mark in a string, on several lines,
\* and with lists of events or of numbers; a number, a string of braces, one that names
\* a field and a list; an object and a string without an end, an object that is none
\* inside, and text that is no value.
MCText ==
    [k \in DOMAIN Kinds |-> <<"{", k, "}">>] @@
    [ one |-> <<"{", "x", "}">>,
      text |-> <<"{", "q", "}", "{", "x", "}", "b", "q", "q", "}">>,
      nested |-> <<"{", "nl", "{", "x", "}", "}">>,
      list |-> <<"{", "[", "{", "x", "}", ",", "{", "x", "}", "]", "}">>,
      numbers |-> <<"{", "[", "1", "]", "}">>,
      number |-> <<"1">>,
      words |-> <<"q", "{", "}", "q">>,
      named |-> <<"q", "x", "q">>,
      pair |-> <<"x", "1", ",", "1", "x">>,
      open |-> <<"{", "1">>,
      bad |-> <<"{", "1", "}">>,
      noise |-> <<"1", "q", "{", "q">>,
      quote |-> <<"q">> ]

MCObject == {"one", "text", "nested", "list", "numbers"} \cup DOMAIN Kinds
MCNonObject == {"number", "words", "named", "pair"}
MCLoose == {"words", "pair", "char"}
MCRecords ==
    [ list |-> <<"one", "one", "nested", "one", "one">>, numbers |-> <<"number">>,
      words |-> <<"char", "char">>, named |-> <<"char">>, pair |-> <<"number", "number">> ]

MCContent ==
    Kinds @@ [p \in {"one", "text", "nested", "list", "numbers", "raw", "row"} |-> Plain]
          @@ [p \in MCLoose |-> [Plain EXCEPT !.guid = {}, !.host = {}, !.process_name = "",
                                              !.commandline = ""]]

Bodies ==
    UNION {[1..n -> {"one", "text", "nested", "number", "words"}] : n \in 1..2}
        \cup {<<"one", p, "nested", "one", "one", "one">> : p \in {"number", "words", "pair"}}
        \cup {<<"one", "one", "one", "one", p>> : p \in {"one", "number"}}
        \cup {<<"list">>, <<"numbers">>, <<"named">>, <<"one", "list">>, <<"one", "named">>}
        \cup {<<p, "text">> : p \in {"open", "bad", "quote"}}
        \cup {<<"nested", p, "one">> : p \in {"open", "bad", "noise", "quote"}}

JsonFiles ==
    {[Document EXCEPT !.size = z, !.shape = h, !.parts = p, !.sep = s, !.cut = c] :
        z \in {"small", "large"}, h \in {"stream", "array"}, p \in Bodies,
        s \in {<<>>, <<"nl">>, <<"nl", "nl">>}, c \in {0, 1, 2}}
    \cup {[Document EXCEPT !.shape = "array"]}
    \cup {[Document EXCEPT !.parts = <<"list", "one">>, !.cut = c] : c \in 3..4}

Headers ==
    { <<"user", "host.ip", "host.name", "event">>, <<"user", "host.ip", "event">>,
      <<"user", "event">> }

Row(values, missing) == [values |-> values, missing |-> missing]

CsvOf(header) ==
    {[Document EXCEPT !.fmt = ".csv", !.header = header, !.rows = rows] :
        rows \in {<<Row([i \in DOMAIN header |->
                            IF header[i] = "host.ip" THEN n ELSE 1], m),
                    Row([i \in DOMAIN header |-> 1], 0)>> :
                    n \in 1..3, m \in 0..2}}

CsvFiles == UNION {CsvOf(h) : h \in Headers}

\* The columns of an exported host, in the exporter's order.
ExportedFiles == CsvOf(<<"user", "host.ip", "host.mac", "host.name", "event">>)

RecordFiles ==
    {[Document EXCEPT !.fmt = t, !.parts = p] :
        t \in RecordFormats,
        p \in [1..2 -> {"dump", "blank", "number", "words", "open"}]
              \cup {<<"dump", "blank", "dump", "dump", "dump", q>> : q \in {"dump", "number", "open"}}}

Logs ==
    {[Document EXCEPT !.fmt = ".log", !.parts = p] :
        p \in UNION {[1..n -> DOMAIN Kinds] : n \in 0..MaxEvents}
              \cup [1..(MaxEvents + 1) -> DOMAIN CoreKinds]}

MCFiles ==
    JsonFiles \cup CsvFiles \cup ExportedFiles \cup RecordFiles \cup Logs
        \cup {[Document EXCEPT !.size = "huge"], [Document EXCEPT !.fmt = ".exe"]}

(* Rules. *)

Rule(id, severity, match) ==
    [id |-> id, severity |-> severity, match |-> match, compiles |-> TRUE,
     suspicious_parents |-> {<<"shell", "office">>}]

MCPlaybook ==
    << Rule("TH-1", "critical", [commandline_regex |-> {"dump"}, granted_access_dangerous |-> TRUE]),
       [Rule("TH-2", "high", [commandline_regex |-> {"dump"}]) EXCEPT !.compiles = FALSE],
       Rule("TH-3", "medium", [process_name |-> {"shell"}, parent_child_anomaly |-> TRUE]),
       Rule("TH-4", "low", [event_category |-> {"authentication"}, event_outcome |-> {"failed"},
                            process_name |-> {}]),
       Rule("TH-5", "info", [event_outcome |-> {"success"}]) >>
=============================================================================
