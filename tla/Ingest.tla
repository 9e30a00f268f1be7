--------------------------------- MODULE Ingest ---------------------------------
(***************************************************************************)
(* The parsers of ingest.py: what parse_file makes of an uploaded file.    *)
(* A large JSON file is probed for one object per line, then streamed as   *)
(* an array or as concatenated objects; a small one is loaded whole.  CSV  *)
(* rows with a wrong number of cells are realigned with the header; XML,   *)
(* LOG and EVTX files are read record by record.                           *)
(*                                                                         *)
(* A JSON file is a sequence of characters.  "q" is a quotation mark, "b"  *)
(* a backslash, "nl" the end of a line and the only white space, "x" any   *)
(* other character; the brackets of a list inside an array or on a line    *)
(* are "x" too, because no parser looks at them.  A file that begins with  *)
(* a list is an array, and ends with it.  The json library decodes the     *)
(* texts of Valid and nothing else.  The other formats are sequences of    *)
(* records.                                                                *)
(***************************************************************************)
EXTENDS Integers, FiniteSets, Sequences, SequencesExt

CONSTANTS
    Text,       \* of each part a JSON file is made of: its characters
    Object,     \* the parts that are JSON objects
    NonObject,  \* the parts that are other JSON values
    Loose,      \* the values among them, and characters, that pass for an event
    Records,    \* of each value that is a list to _parse_json: its members
    Cap,        \* max_events
    Chunk       \* JSON_READ_CHUNK, in characters

Valid == Object \cup NonObject

\* What _normalize makes an event of.  It asks for fields with "in" and fails on numbers,
\* booleans and null; a string or a list passes unless it contains the name of a field.
Normal == Object \cup Loose

(***************************************************************************)
(* The brace counter of _parse_concat_json.                                *)
(***************************************************************************)

Calm == [depth |-> 0, quoted |-> FALSE, escaped |-> FALSE]

\* What it holds after one more character.
Count(st, ch) ==
    CASE st.escaped -> [st EXCEPT !.escaped = FALSE]
      [] ~st.escaped /\ ch = "b" /\ st.quoted -> [st EXCEPT !.escaped = TRUE]
      [] ~st.escaped /\ ch = "q" -> [st EXCEPT !.quoted = ~@]
      [] ~st.escaped /\ ch = "{" /\ ~st.quoted -> [st EXCEPT !.depth = @ + 1]
      [] ~st.escaped /\ ch = "}" /\ ~st.quoted -> [st EXCEPT !.depth = @ - 1]
      [] OTHER -> st

\* And after each character of a text.
Counts(t) == LET at[k \in 0..Len(t)] == IF k = 0 THEN Calm ELSE Count(at[k - 1], t[k]) IN at

\* Braces and quotation marks of a JSON value match, and those of an object enclose it.
\* (The second line says what a recursive definition computes, for the provers.)
Balanced(v) ==
    LET t == Text[v]
        at == Counts(t)
    IN /\ at[0] = Calm /\ \A k \in 1..Len(t) : at[k] = Count(at[k - 1], t[k])
       /\ at[Len(t)] = Calm
       /\ \A k \in 1..(Len(t) - 1) : IF v \in Object THEN at[k].depth > 0 ELSE at[k].depth = 0

ASSUME IngestAssumption ==
    /\ Valid \subseteq DOMAIN Text
    /\ \A p \in DOMAIN Text : Text[p] \in Seq(Range(Text[p]))
    /\ \A v \in Valid : Text[v] # <<>> /\ Head(Text[v]) \notin {"nl", ",", "[", "]"}
    /\ \A v \in Valid : Head(Text[v]) = "{" <=> v \in Object
    /\ \A v \in Valid : Balanced(v)
    /\ \A v, w \in Valid : IsPrefix(Text[v], Text[w]) => v = w
    /\ Object \cap Loose = {} /\ Object \cap NonObject = {}
    /\ Loose \cap Valid \subseteq DOMAIN Records /\ DOMAIN Records \subseteq Valid
    /\ "blank" \notin Valid \cup Loose
    /\ Cap \in Nat \ {0}
    /\ Chunk \in Nat \ {0}

VARIABLES
    file,       \* the uploaded file
    mode,       \* the parser at work, or how it ended
    rest,       \* what is not yet read: characters, rows or records
    buf,        \* what is read and not yet decoded
    scan,       \* the flags and counters of the parser
    parsed      \* events, each with what it was made from

ingestVars == <<file, mode, rest, buf, scan, parsed>>

Min2(m, n) == IF m < n THEN m ELSE n

(***************************************************************************)
(* Files.                                                                  *)
(***************************************************************************)

\* Sequences put together: where the i-th begins, and the whole.
Offset(ss, i) == Cardinality(UNION {{j} \X DOMAIN ss[j] : j \in 1..(i - 1)})

Flat(ss) ==
    LET start == [i \in 1..(Len(ss) + 1) |-> Offset(ss, i)]
    IN [n \in 1..start[Len(ss) + 1] |->
           LET i == CHOOSE j \in DOMAIN ss : start[j] < n /\ n <= start[j + 1]
           IN ss[i][n - start[i]]]

\* The members of S in a sequence, in their order.
Only(s, S) ==
    LET I == {i \in DOMAIN s : s[i] \in S}
    IN [k \in 1..Cardinality(I) |-> s[CHOOSE i \in I : Cardinality({j \in I : j < i}) = k - 1]]

\* What a file is made of: parts of a JSON file with what is between them, or records;
\* or the rows of a table, with the number of values in each column.
IsFile(f) ==
    /\ f.size \in {"small", "large", "huge"}
    /\ f.shape \in {"stream", "array"}
    /\ f.parts \in Seq(Range(f.parts))
    /\ f.fmt = ".json" => Range(f.parts) \subseteq DOMAIN Text
    /\ f.sep \in Seq({"nl"})
    /\ f.cut \in Nat
    /\ f.header \in Seq(Range(f.header))
    /\ f.rows \in Seq(Range(f.rows))
    /\ \A r \in DOMAIN f.rows :
          /\ f.rows[r].values \in [DOMAIN f.header -> Nat \ {0}]
          /\ f.rows[r].missing \in 0..Len(f.header)

Glue(f) == (IF f.shape = "array" THEN <<",">> ELSE <<>>) \o f.sep

Pieces(f) == [i \in DOMAIN f.parts |-> (IF i = 1 THEN <<>> ELSE Glue(f)) \o Text[f.parts[i]]]

FullText(f) ==
    IF f.shape = "array" THEN <<"[">> \o Flat(Pieces(f)) \o <<"]">> ELSE Flat(Pieces(f))

\* An interrupted download lacks its last characters.
Characters(f) == LET text == FullText(f) IN SubSeq(text, 1, Len(text) - f.cut)

\* The cells of a CSV row.  The exporter does not quote the values of a column that
\* has several, and may leave out the last columns.
Cells(f, row) ==
    Flat([i \in 1..(Len(f.header) - row.missing) |->
              [k \in 1..row.values[i] |-> <<f.header[i], k>>]])

Made(what) == [what |-> what, cells |-> <<>>]

(***************************************************************************)
(* The json library.                                                       *)
(***************************************************************************)

\* The value a text starts with: a set with at most one part.
Decodes(s) == {v \in Valid : IsPrefix(Text[v], s)}

\* The values that are exactly this text.
Loads(s) == {v \in Valid : Text[v] = s}

After(v, s) == SubSeq(s, Len(Text[v]) + 1, Len(s))

Blank(s) == \A i \in DOMAIN s : s[i] = "nl"

LStrip(s) ==
    LET inked == {i \in DOMAIN s : s[i] # "nl"}
    IN IF inked = {} THEN <<>> ELSE SubSeq(s, CHOOSE i \in inked : \A j \in inked : i <= j, Len(s))

(***************************************************************************)
(* Lines of a text.                                                        *)
(***************************************************************************)

LineLength(s) ==
    LET ends == {i \in DOMAIN s : s[i] = "nl"}
    IN IF ends = {} THEN Len(s) ELSE CHOOSE i \in ends : \A j \in ends : i <= j

\* The first line without its end, and what follows it.
Line(s) ==
    LET n == LineLength(s)
    IN IF n > 0 /\ s[n] = "nl" THEN SubSeq(s, 1, n - 1) ELSE SubSeq(s, 1, n)

NextLines(s) == SubSeq(s, LineLength(s) + 1, Len(s))

(***************************************************************************)
(* Starting, and ending.                                                   *)
(***************************************************************************)

IngestInit(files) ==
    /\ file \in files
    /\ mode = "idle"
    /\ rest = <<>> /\ buf = <<>> /\ scan = <<>> /\ parsed = <<>>

Concat == [at |-> Calm, fresh |-> TRUE]
Array == [started |-> FALSE, eof |-> FALSE, hungry |-> TRUE]

\* Open the file, from its beginning.
Open(m, flags) ==
    /\ mode' = m
    /\ scan' = flags
    /\ rest' = Characters(file)
    /\ buf' = <<>>
    /\ parsed' = <<>>
    /\ UNCHANGED file

Finish(how) ==
    /\ mode' = how
    /\ UNCHANGED <<file, rest, buf, scan>>

Full == Len(parsed) >= Cap

\* parse_file: the format, and for JSON the size, select the parser.
ParseFile ==
    /\ mode = "idle"
    /\ IF file.fmt = ".json"
       THEN Open(IF file.size = "large" THEN "probe" ELSE "load", <<>>)
       ELSE /\ mode' = file.fmt
            /\ rest' = IF file.fmt = ".csv" THEN file.rows ELSE file.parts
            /\ UNCHANGED <<file, buf, scan, parsed>>

(***************************************************************************)
(* A large JSON file: one object per line?                                 *)
(***************************************************************************)

\* The first line decides whether it is worth trying.
Probe ==
    /\ mode = "probe"
    /\ Open(IF Loads(Line(rest)) \cap Object # {} THEN "ndjson" ELSE "peek", <<>>)

\* One line.  A line that does not parse makes the file something else; one that
\* _normalize fails on is an error nothing catches.
TakeLine ==
    /\ mode = "ndjson"
    /\ rest # <<>> /\ ~Full
    /\ LET line == Line(rest) IN
       \/ /\ line = <<>>
          /\ rest' = NextLines(rest)
          /\ UNCHANGED <<file, mode, buf, scan, parsed>>
       \/ \E v \in Loads(line) \cap Normal :
          /\ parsed' = Append(parsed, Made(v))
          /\ rest' = NextLines(rest)
          /\ UNCHANGED <<file, mode, buf, scan>>
       \/ /\ Loads(line) \ Normal # {}
          /\ Finish("rejected")
          /\ UNCHANGED parsed
       \/ /\ line # <<>> /\ Loads(line) = {}
          /\ Open("peek", <<>>)

\* Variant with a planted error: the whole chain of parsers is tried again.
TryAgain ==
    /\ mode = "peek"
    /\ Open("probe", <<>>)

\* The first character that is not blank selects the streaming parser.
Peek ==
    /\ mode = "peek"
    /\ LET text == LStrip(rest)
           first == IF text = <<>> THEN "none" ELSE Head(text)
       IN Open(CASE first = "{" -> "concat" [] first = "[" -> "array" [] OTHER -> "load",
               CASE first = "{" -> Concat [] first = "[" -> Array [] OTHER -> <<>>)

(***************************************************************************)
(* A JSON file that is loaded whole.                                       *)
(***************************************************************************)

\* The values of an array that json.load accepts.
WholeArray == file.shape = "array" /\ file.cut = 0 /\ \A i \in DOMAIN file.parts : file.parts[i] \in Valid

\* The events of what was loaded, up to the cap; a value _normalize fails on is an error.
Listed(values) ==
    LET taken == SubSeq(values, 1, Min2(Cap, Len(values)))
    IN IF \A i \in DOMAIN taken : taken[i] \in Normal
       THEN /\ parsed' = [i \in DOMAIN taken |-> Made(taken[i])]
            /\ Finish("parsed")
       ELSE /\ Finish("rejected")
            /\ UNCHANGED parsed

\* An object may hold the list; a string that stands alone is a list of characters.
Load ==
    /\ mode = "load"
    /\ \/ WholeArray /\ Listed(file.parts)
       \/ \E v \in Decodes(LStrip(rest)) :
             /\ ~WholeArray
             /\ IF ~Blank(After(v, LStrip(rest))) THEN Open("concat", Concat)
                ELSE IF v \in DOMAIN Records THEN Listed(Records[v])
                ELSE Listed(<<v>>)
       \/ /\ ~WholeArray /\ Decodes(LStrip(rest)) = {}
          /\ Finish("rejected")
          /\ UNCHANGED parsed

(***************************************************************************)
(* An array, in chunks.                                                    *)
(***************************************************************************)

ReadChunk ==
    /\ mode = "array"
    /\ scan.hungry
    /\ IF scan.eof \/ Full THEN Finish("parsed")
       ELSE /\ buf' = buf \o SubSeq(rest, 1, Min2(Chunk, Len(rest)))
            /\ rest' = SubSeq(rest, Min2(Chunk, Len(rest)) + 1, Len(rest))
            /\ scan' = [scan EXCEPT !.eof = rest = <<>>, !.hungry = FALSE]
            /\ UNCHANGED <<file, mode>>
    /\ UNCHANGED parsed

\* Variant with a planted error: what is left of the chunk is thrown away.
DropRemainder(s) == buf' = <<>> /\ scan' = [scan EXCEPT !.hungry = TRUE]

\* Keep what is not decoded yet until there is more.
Starve(s) == buf' = s /\ scan' = [scan EXCEPT !.hungry = TRUE]

\* One turn of the inner loop.  An element that does not parse may be incomplete.
TakeElement ==
    /\ mode = "array"
    /\ ~scan.hungry
    /\ LET s == LStrip(buf) IN
       \/ /\ Full
          /\ Finish("parsed") /\ UNCHANGED parsed
       \/ /\ ~Full /\ s = <<>>
          /\ Starve(s)
          /\ UNCHANGED <<file, mode, rest, parsed>>
       \/ /\ ~Full /\ s # <<>> /\ ~scan.started
          /\ buf' = Tail(s)
          /\ scan' = [scan EXCEPT !.started = TRUE]
          /\ UNCHANGED <<file, mode, rest, parsed>>
       \/ /\ ~Full /\ s # <<>> /\ scan.started /\ Head(s) = "]"
          /\ Finish("parsed") /\ UNCHANGED parsed
       \/ /\ ~Full /\ s # <<>> /\ scan.started /\ Head(s) = ","
          /\ buf' = Tail(s)
          /\ UNCHANGED <<file, mode, rest, scan, parsed>>
       \/ \E v \in Decodes(s) :
          /\ ~Full /\ scan.started
          /\ buf' = After(v, s)
          /\ parsed' = IF v \in Object THEN Append(parsed, Made(v)) ELSE parsed
          /\ UNCHANGED <<file, mode, rest, scan>>
       \/ /\ ~Full /\ s # <<>> /\ scan.started /\ Head(s) \notin {"]", ","} /\ Decodes(s) = {}
          /\ IF scan.eof THEN Finish("rejected")
             ELSE Starve(s) /\ UNCHANGED <<file, mode, rest>>
          /\ UNCHANGED parsed

(***************************************************************************)
(* Concatenated objects, one character per step.                           *)
(***************************************************************************)

\* Variant with a planted error: a text that does not parse is kept as a raw event.
KeepMalformed(s) ==
    /\ buf' = <<>>
    /\ \/ \E v \in Loads(s) \cap Object : parsed' = Append(parsed, Made(v))
       \/ Loads(s) \cap Object = {} /\ parsed' = Append(parsed, Made("raw"))

\* A closing brace that completes an object; a text that does not parse is skipped.
Complete(s) ==
    /\ buf' = <<>>
    /\ \/ \E v \in Loads(s) \cap Object : parsed' = Append(parsed, Made(v))
       \/ Loads(s) \cap Object = {} /\ UNCHANGED parsed

TakeCharacter ==
    /\ mode = "concat"
    /\ rest # <<>>
    /\ ~(scan.fresh /\ Full)
    /\ LET ch == Head(rest)
           st == scan.at
           next == Count(st, ch)
           kept == Append(buf, ch)
           literal == st.quoted \/ st.escaped \/ ch = "q"
       IN
       /\ \/ /\ next.depth > st.depth
             /\ buf' = IF st.depth = 0 THEN <<ch>> ELSE kept
             /\ UNCHANGED parsed
          \/ /\ next.depth < st.depth
             /\ IF st.depth = 1 THEN Complete(kept) ELSE buf' = kept /\ UNCHANGED parsed
          \/ /\ next.depth = st.depth
             /\ buf' = IF literal \/ st.depth > 0 THEN kept ELSE buf
             /\ UNCHANGED parsed
       /\ scan' = [at |-> next, fresh |-> ch = "nl"]
    /\ rest' = Tail(rest)
    /\ UNCHANGED <<file, mode>>

(***************************************************************************)
(* CSV.                                                                    *)
(***************************************************************************)

Has(header, c) == \E i \in DOMAIN header : header[i] = c
IndexIn(header, c) == CHOOSE i \in DOMAIN header : header[i] = c

MultiValued == <<"host.ip", "host.mac", "source.ip">>

\* How many columns come before the first multi-value column that the exporter does
\* not quote, or -1.  The candidates are tried in this order.
SplitCol(header) ==
    LET present == {n \in DOMAIN MultiValued : Has(header, MultiValued[n])}
        first == MultiValued[CHOOSE n \in present : \A m \in present : n <= m]
    IN IF present = {} THEN -1 ELSE IndexIn(header, first) - 1

\* The columns from host.name on, or where it usually is.
TailLength(header) ==
    LET before == IF Has(header, "host.name") THEN IndexIn(header, "host.name") - 1
                  ELSE SplitCol(header) + 2
    IN Len(header) - before

Alone(cells) == [i \in DOMAIN cells |-> <<cells[i]>>]

\* Variant with a planted error: the tail begins one cell late.
ShortTail(header, row) ==
    LET s == SplitCol(header)
        t == IF TailLength(header) - 1 \in 1..Len(row) THEN TailLength(header) - 1 ELSE 0
    IN Alone(SubSeq(row, 1, s)) \o <<SubSeq(row, s + 1, Len(row) - t)>>
       \o Alone(SubSeq(row, Len(row) - t + 1, Len(row)))

\* The head, the overflow as one value, and the tail counted from the end.
Anchored(header, row) ==
    LET s == SplitCol(header)
        t == IF TailLength(header) \in 1..Len(row) THEN TailLength(header) ELSE 0
    IN Alone(SubSeq(row, 1, s)) \o <<SubSeq(row, s + 1, Len(row) - t)>>
       \o Alone(SubSeq(row, Len(row) - t + 1, Len(row)))

\* What each column of the header gets: a sequence of cells.
Realigned(header, row) ==
    LET values == IF Len(row) = Len(header) \/ SplitCol(header) \notin 0..(Len(row) - 1)
                  THEN Alone(row) ELSE Anchored(header, row)
    IN [i \in DOMAIN header |-> IF i \in DOMAIN values THEN values[i] ELSE <<>>]

TakeRow ==
    /\ mode = ".csv"
    /\ rest # <<>> /\ ~Full
    /\ parsed' = Append(parsed, [what |-> "row",
                                 cells |-> Realigned(file.header, Cells(file, Head(rest)))])
    /\ rest' = Tail(rest)
    /\ UNCHANGED <<file, mode, buf, scan>>

(***************************************************************************)
(* XML, LOG and EVTX.                                                      *)
(***************************************************************************)

RecordFormats == {".xml", ".log", ".evtx"}

\* What cannot be parsed is a raw event of a log, skipped in an EVTX file, and an
\* error in an XML file; so is a line of a log that is a value _normalize fails on.
Unreadable(part) ==
    \/ mode = ".xml" /\ part \notin Object \cup {"blank"}
    \/ mode = ".log" /\ part \in NonObject \ Loose

\* A record, or something that is none ("blank"): a blank line, another element.
TakeRecord ==
    /\ mode \in RecordFormats
    /\ rest # <<>> /\ ~Full
    /\ LET part == Head(rest) IN
       \/ /\ Unreadable(part)
          /\ Finish("rejected")
          /\ UNCHANGED parsed
       \/ /\ ~Unreadable(part)
          /\ rest' = Tail(rest)
          /\ parsed' = IF part \in Object \/ (mode = ".log" /\ part \in Loose)
                       THEN Append(parsed, Made(part))
                       ELSE IF mode = ".log" /\ part # "blank" THEN Append(parsed, Made("raw"))
                       ELSE parsed
          /\ UNCHANGED <<file, mode, buf, scan>>

(***************************************************************************)
(* The end of the file, or the cap.                                        *)
(***************************************************************************)

EndOfInput ==
    /\ \/ mode \in {"ndjson", ".csv"} \cup RecordFormats /\ (rest = <<>> \/ Full)
       \/ mode = "concat" /\ (rest = <<>> \/ (scan.fresh /\ Full))
    /\ Finish("parsed")
    /\ UNCHANGED parsed

Parse ==
    \/ ParseFile \/ Probe \/ TakeLine \/ Peek \/ Load
    \/ ReadChunk \/ TakeElement \/ TakeCharacter
    \/ TakeRow \/ TakeRecord \/ EndOfInput

(***************************************************************************)
(* _normalize, as far as later stages tell events apart: the fields with a *)
(* fallback.  The aliases of a field and its spelling are left out.        *)
(***************************************************************************)

Normalize(raw) ==
    LET command == IF raw.commandline = "" THEN raw.message ELSE raw.commandline
        seed == <<"uuid", raw.host, raw.process_name, raw.ts, command>>
    IN [raw EXCEPT
           !.commandline = command,
           !.guid = IF raw.guid = {} THEN seed ELSE <<"guid", CHOOSE g \in raw.guid : TRUE>>,
           !.parent = IF raw.parent # {} THEN {<<"guid", p>> : p \in raw.parent}
                      ELSE IF raw.parent_process_name = "" THEN {}
                      ELSE {<<"uuid", raw.host, raw.parent_process_name, "parent">>}]

(***************************************************************************)
(* Properties.                                                             *)
(***************************************************************************)

\* Where part i of a JSON file ends, and the parts that arrived whole.
End(f, i) == Offset(Pieces(f), i + 1) + (IF f.shape = "array" THEN 1 ELSE 0)

Arrived(f) ==
    LET length == Len(Characters(f))
    IN SubSeq(f.parts, 1, Cardinality({i \in DOMAIN f.parts : End(f, i) <= length}))

\* One value that is a list to _parse_json, and nothing else.  Of a large file this is no
\* object: those are streamed.
LoneList(f) ==
    /\ f.shape = "stream"
    /\ Arrived(f) \in {<<v>> : v \in DOMAIN Records}
    /\ Blank(After(Head(Arrived(f)), Characters(f)))
    /\ f.size = "large" => Head(Arrived(f)) \notin Object

\* What counts as an event in a file: objects, and where nothing but _normalize looks at
\* the values (a small array, one value per line, a log) what passes for one.  Whether
\* the lines of a large file are one value each shows only when all are read.
Counted(f) ==
    CASE f.fmt = ".log" -> {Range(f.parts) \ {"blank"}}
      [] f.fmt = ".json" /\ f.shape = "array" /\ f.size # "large" -> {Normal}
      [] f.fmt = ".json" /\ f.shape = "stream" /\ f.size = "large" -> {Object, Normal}
      [] OTHER -> {Object}

\* The events a file reports, when those in S count.  The list inside a value is looked
\* into only when the file is loaded whole.
Reported(f, S) ==
    IF f.fmt = ".json"
    THEN IF LoneList(f) THEN Records[Head(Arrived(f))] ELSE Only(Arrived(f), S)
    ELSE LET records == Only(f.parts, S)
         IN [i \in DOMAIN records |->
                IF f.fmt = ".log" /\ records[i] \notin Normal THEN "raw" ELSE records[i]]

\* What is left to do, most significant first: the parsers yet to be tried, what is
\* unread (the end of an array is one more thing to read), what is not decoded, and
\* whether that is to be looked at before more is read.
Phase ==
    LET later == << {"parsed", "rejected"}, {"concat", ".csv"} \cup RecordFormats, {"array", "load"},
                    {"peek"}, {"ndjson"}, {"probe"}, {"idle"} >>
    IN CHOOSE n \in DOMAIN later : mode \in later[n]

ParserLeft ==
    LET streaming == mode = "array" IN
    << Phase,
       Len(rest) + (IF streaming /\ ~scan.eof THEN 1 ELSE 0),
       Len(buf),
       IF streaming /\ ~scan.hungry THEN 1 ELSE 0 >>

Got == [i \in DOMAIN parsed |-> parsed[i].what]

\* A file that is accepted gives the first Cap events it reports, each once and in its
\* place: wherever the chunks end, which parser was tried first, how much it had
\* read when it gave up, and where the download was cut.  The strings and lists among
\* the objects are all events or all left out.  Only objects that share a line can
\* exceed the cap.
EveryEventOnce ==
    mode = "parsed" /\ file.fmt # ".csv" /\ (file.fmt = ".json" => Range(file.parts) \subseteq Valid) =>
        \E S \in Counted(file) :
            LET all == Reported(file, S) IN
            /\ IsPrefix(Got, all)
            /\ Len(Got) >= Min2(Cap, Len(all))
            /\ file.fmt # ".json" \/ file.sep # <<>> \/ file.shape = "array" => Len(Got) <= Cap

\* A damaged part that closes no more braces than it opens, ends outside of strings and
\* has no object in it.
Harmless(p) ==
    LET t == Text[p]
        at == Counts(t)
    IN
    /\ \A k \in DOMAIN t : at[k].depth >= 0
    /\ ~at[Len(t)].quoted
    /\ \A i, j \in DOMAIN t : \A v \in Object : Text[v] # SubSeq(t, i, j)

\* Text between the objects may cost events but makes none up ("skip malformed object",
\* ingest.py:274): an event is a value that stands by itself in the file, in its order,
\* never an object inside another one or inside a string.  A stray closing brace or
\* quotation mark does make such an object an event; it is not Harmless.
NothingInvented ==
    mode = "parsed" /\ file.fmt = ".json" /\ (\A p \in Range(file.parts) \ Valid : Harmless(p)) =>
        LET all == Reported(file, Normal) IN
        \E I \in SUBSET DOMAIN all :
            Got = [k \in 1..Cardinality(I) |->
                      all[CHOOSE i \in I : Cardinality({j \in I : j < i}) = k - 1]]

\* How the values of row r of a CSV file arrive under its header.
Own(f, r, i) == parsed[r].cells[i] = [k \in 1..f.rows[r].values[i] |-> <<f.header[i], k>>]

\* The columns of a row that have several values.
Wide(f, r) == {j \in DOMAIN f.header : f.rows[r].values[j] > 1}

\* The columns before the first unquoted multi-value column keep their values in
\* every row without several values there; so do all columns when that column alone
\* has several, host.name comes next and no cell is missing; and a row without
\* overflow or missing cells is left alone.
ColumnsStayAligned ==
    file.fmt = ".csv" =>
        \A r \in DOMAIN parsed, i \in DOMAIN file.header :
            LET s == SplitCol(file.header) IN
            i <= Len(file.header) - file.rows[r].missing =>
                /\ i <= s /\ (\A j \in Wide(file, r) : j > s) => Own(file, r, i)
                /\ /\ file.rows[r].missing = 0
                   /\ \/ Wide(file, r) = {}
                      \/ Wide(file, r) = {s + 1} /\ TailLength(file.header) = Len(file.header) - s - 1
                   => Own(file, r, i)

=============================================================================
