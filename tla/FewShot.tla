--------------------------------- MODULE FewShot --------------------------------
(***************************************************************************)
(* The handlers of main.py that learn from analysts and compare commands:  *)
(* submit_feedback, the retrieval of examples in analyze_cmdline,          *)
(* llm_similar and the export.  They share one embedding provider.  A      *)
(* handler runs on the event loop until it needs a vector that is not      *)
(* cached; while it waits for the model the others go on.                  *)
(***************************************************************************)
EXTENDS FeedbackStore

CONSTANTS
    Command,        \* the commands requests are about
    Submission,     \* corrections: records of cmd, ctx, trusted, corrected, verdict and agree
    Legacy,         \* what the file may hold at first, written by older versions
    Request,        \* bound of the model: requests that run at once
    MaxAdds         \* bound of the model: corrections that are submitted

ASSUME FewShotAssumption ==
    /\ Command \subseteq TextSet
    /\ Submission \subseteq [cmd : TextSet, ctx : Context, trusted : BOOLEAN,
                            corrected : Label, verdict : Label, agree : BOOLEAN]
    /\ \A d \in Legacy :
          /\ d \in Seq(Record) /\ Len(d) <= MaxRecords
          /\ \A i \in DOMAIN d : d[i].n = i /\ OwnVector(d[i])
    /\ MaxAdds \in Nat

VARIABLES
    reqs,       \* what each request is doing
    answer      \* what the last step answered, if it did

vars == <<embedVars, storeVars, reqs, answer>>

Idle == [st |-> "idle"]
NoAnswer == [kind |-> "none"]

NewProcess ==
    /\ vectors' = FreshProvider.vectors /\ order' = FreshProvider.order
    /\ lastSource' = "hash"
    /\ index' = NotBuilt
    /\ reqs' = [r \in Request |-> Idle]
    /\ answer' = NoAnswer

Init ==
    /\ vectors = FreshProvider.vectors /\ order = FreshProvider.order
    /\ lastSource = "hash"
    /\ index = NotBuilt
    /\ memory = NotLoaded
    /\ disk \in Legacy
    /\ log = disk
    /\ acked = {disk[i].n : i \in DOMAIN disk}
    /\ faults = 0
    /\ reqs = [r \in Request |-> Idle]
    /\ answer = NoAnswer

(***************************************************************************)
(* A handler goes on: with what is cached, to its end or to the next text  *)
(* it has to wait for.  cached and source are the provider's state then.   *)
(***************************************************************************)

Becomes(r, req) == reqs' = [reqs EXCEPT ![r] = req] /\ answer' = NoAnswer

Answers(r, req, vec, examples, similar) ==
    /\ reqs' = [reqs EXCEPT ![r] = Idle]
    /\ answer' = [kind |-> req.kind, query |-> req.query, since |-> req.since,
                  vec |-> vec, examples |-> examples, similar |-> similar]

\* Variant with a planted error: the index is published before it is complete.
PublishEarly(vecs) == index' = IF index = NotBuilt THEN SubSeq(vecs, 1, 1) ELSE index

Publish(vecs) == index' = vecs

AdvanceAdd(r, req, vecs) ==
    /\ UNCHANGED index
    /\ \/ /\ vecs = <<>>
          /\ Becomes(r, req)
          /\ UNCHANGED storeVars
       \/ \E out \in {"ok", "error"} :
          /\ vecs # <<>>
          /\ AppendRecord([n |-> Len(log) + 1, cmd |-> req.query, ctx |-> req.ctx,
                           trusted |-> req.trusted, label |-> req.label, vec |-> vecs[1]], out)
          /\ Becomes(r, Idle)

AdvanceRetrieve(r, req, vecs) ==
    /\ IF Len(vecs) < Len(req.texts) THEN Becomes(r, [req EXCEPT !.vecs = vecs])
       ELSE Answers(r, req, vecs[1], Examples(req.cands, vecs), FALSE)
    /\ UNCHANGED index

\* Build the index first, if there is none when the request starts.
AdvanceSimilar(r, req, vecs, cached, source) ==
    LET query == IF req.building THEN Extended(<<req.query>>, <<>>, cached) ELSE vecs
    IN \/ /\ Len(vecs) < Len(req.texts)
          /\ Becomes(r, [req EXCEPT !.vecs = vecs])
          /\ UNCHANGED index
       \/ /\ Len(vecs) = Len(req.texts)
          /\ IF req.building THEN Publish(vecs) ELSE UNCHANGED index
          /\ IF query = <<>>
             THEN Becomes(r, [req EXCEPT !.building = FALSE, !.texts = <<req.query>>, !.vecs = <<>>])
             ELSE Answers(r, req, query[1], {}, Similar(query[1], index', source))

Advance(r, req, done, cached, source) ==
    LET vecs == Extended(req.texts, done, cached) IN
    \/ req.kind = "add" /\ AdvanceAdd(r, req, vecs)
    \/ req.kind = "retrieve" /\ AdvanceRetrieve(r, req, vecs) /\ UNCHANGED storeVars
    \/ req.kind = "similar" /\ AdvanceSimilar(r, req, vecs, cached, source) /\ UNCHANGED storeVars

(***************************************************************************)
(* Requests arrive.                                                        *)
(***************************************************************************)

Adding(sub) ==
    [st |-> "waiting", kind |-> "add", query |-> sub.cmd, texts |-> <<sub.cmd>>, vecs |-> <<>>,
     ctx |-> sub.ctx, trusted |-> sub.trusted, label |-> LabelOf(sub.corrected, sub.verdict, sub.agree)]

\* The texts of the candidates without a vector, in their order.
Lacking(cands) ==
    LET recs == Unembedded(cands)
    IN [k \in 1..Cardinality(recs) |-> (CHOOSE rec \in recs : Place(rec, recs) = k).cmd]

Retrieving(c, cands) ==
    [st |-> "waiting", kind |-> "retrieve", query |-> c, texts |-> <<c>> \o Lacking(cands),
     vecs |-> <<>>, since |-> Len(log), cands |-> cands]

Comparing(c) ==
    [st |-> "waiting", kind |-> "similar", query |-> c, vecs |-> <<>>, since |-> Len(log),
     texts |-> IF index = NotBuilt THEN Corpus ELSE <<c>>, building |-> index = NotBuilt]

Additions == Cardinality({r \in Request : reqs[r].st = "waiting" /\ reqs[r].kind = "add"})

\* The label is fixed now, the record is appended when the vector is there.
SubmitFeedback(r, sub) ==
    /\ reqs[r] = Idle
    /\ Len(log) + Additions < MaxAdds
    /\ Advance(r, Adding(sub), <<>>, vectors, lastSource)
    /\ UNCHANGED <<vectors, order, lastSource>>

\* The candidates are fixed now.  Without any there is nothing to embed.
Analyze(r, c) ==
    /\ reqs[r] = Idle
    /\ \E data \in Loads :
          LET req == Retrieving(c, Candidates(data)) IN
          /\ Read(data)
          /\ IF req.cands = {}
             THEN Answers(r, req, NoVector, {}, FALSE) /\ UNCHANGED index
             ELSE AdvanceRetrieve(r, req, Extended(req.texts, <<>>, vectors))
    /\ UNCHANGED <<vectors, order, lastSource>>

LlmSimilar(r, c) ==
    /\ reqs[r] = Idle
    /\ Advance(r, Comparing(c), <<>>, vectors, lastSource)
    /\ UNCHANGED <<vectors, order, lastSource>>

Export ==
    /\ memory = NotLoaded
    /\ \E data \in Loads : Read(data)
    /\ answer' = NoAnswer
    /\ UNCHANGED <<embedVars, reqs>>

(***************************************************************************)
(* A call to the model ends, with a vector or with the hash instead.       *)
(***************************************************************************)

Embedded(r, s) ==
    /\ reqs[r].st = "waiting"
    /\ LET req == reqs[r]
           t == req.texts[Len(req.vecs) + 1]
           after == Stored(t, s)
       IN /\ vectors' = after.vectors /\ order' = after.order
          /\ lastSource' = s
          /\ Advance(r, req, Append(req.vecs, [text |-> t, src |-> s]), after.vectors, s)

\* The process ends while a record is written, or at any other time.
Crash(r, s) ==
    /\ reqs[r].st = "waiting" /\ reqs[r].kind = "add"
    /\ AppendRecord([n |-> Len(log) + 1, cmd |-> reqs[r].query, ctx |-> reqs[r].ctx,
                     trusted |-> reqs[r].trusted, label |-> reqs[r].label,
                     vec |-> [text |-> reqs[r].query, src |-> s]], "crash")
    /\ NewProcess

Restart ==
    /\ memory' = NotLoaded
    /\ UNCHANGED <<disk, log, acked, faults>>
    /\ NewProcess

Next ==
    \/ \E r \in Request :
          \/ \E sub \in Submission : SubmitFeedback(r, sub)
          \/ \E c \in Command : Analyze(r, c) \/ LlmSimilar(r, c)
          \/ \E s \in Source : Embedded(r, s) \/ Crash(r, s)
    \/ Export
    \/ Restart

Spec == Init /\ [][Next]_vars

(***************************************************************************)
(* Properties.                                                             *)
(***************************************************************************)

\* embeddings.py:118-124 is called for one text by several requests that missed the
\* cache together: the cache and its order still name the same texts, once each,
\* and no more than the cap.  A request has a vector for each text it is past.
TypeOK ==
    /\ order \in Seq(TextSet) /\ Len(order) <= CacheCap
    /\ Cardinality({order[i] : i \in DOMAIN order}) = Len(order)
    /\ \A t \in TextSet : IF \E i \in DOMAIN order : order[i] = t
                          THEN vectors[t] \in Vector /\ vectors[t].text = t
                          ELSE vectors[t] = NoVector
    /\ lastSource \in Source
    /\ \A s \in {memory, disk, log} :
          s = NotLoaded \/ (s \in Seq(Record) /\ \A i, j \in DOMAIN s : i < j => s[i].n < s[j].n)
    /\ \A r \in Request : reqs[r].st = "waiting" =>
          /\ Len(reqs[r].vecs) < Len(reqs[r].texts)
          /\ \A i \in DOMAIN reqs[r].vecs : reqs[r].vecs[i].text = reqs[r].texts[i]

\* feedback_store.py:133-139: a correction that was answered 200 is in the file,
\* whatever fails or ends after it, until _MAX_RECORDS newer ones have replaced it.
AcknowledgedIsKept ==
    \A n \in acked :
        \/ \E i \in DOMAIN disk : disk[i].n = n
        \/ Len(disk) = MaxRecords /\ \A i \in DOMAIN disk : disk[i].n > n

\* The numbers in log of the records that could teach a request, and of those of them
\* that are still kept.
Taught == {i \in DOMAIN log : log[i].n <= answer.since /\ Teaches(log[i])}
StillKept == {i \in Taught : \E j \in DOMAIN memory : memory[j] = log[i]}

\* feedback_store.py:163-170, 207-218: the examples are at most k commands in a context,
\* each once and labelled as a trusted analyst labelled it there, and no trusted
\* analysts disagreed about it there when the request came, whatever was stored while
\* the request waited for vectors.
ExamplesAreSafe ==
    answer.kind = "retrieve" =>
        /\ Cardinality({Fingerprint(e) : e \in answer.examples}) = Cardinality(answer.examples)
        /\ Cardinality(answer.examples) <= K
        /\ \A e \in answer.examples :
              /\ \E i \in Taught : Fingerprint(log[i]) = Fingerprint(e) /\ log[i].label = e.label
              /\ ~\E i, j \in StillKept :
                    /\ Fingerprint(log[i]) = Fingerprint(e) /\ Fingerprint(log[j]) = Fingerprint(e)
                    /\ log[i].label # log[j].label

\* feedback_store.py:176: a trusted correction nobody contradicted for this command and
\* context, that was stored before the request came, with a vector of the source that
\* answered the request, is among the examples if it is near enough, or k nearer ones are.
CorrectionsAreFound ==
    answer.kind = "retrieve" =>
        LET examples == answer.examples IN
        \A i \in DOMAIN memory :
            LET rec == memory[i] IN
            (/\ rec.n <= answer.since /\ Teaches(rec)
             /\ \A j \in DOMAIN log :
                   Fingerprint(log[j]) = Fingerprint(rec) /\ Teaches(log[j]) => log[j].label = rec.label
             /\ rec.vec # NoVector /\ rec.vec.src = answer.vec.src
             /\ Similarity[rec.vec.src][answer.query][rec.cmd] >= MinSimilarity)
            => \/ \E e \in examples : Fingerprint(e) = Fingerprint(rec) /\ e.label = rec.label
               \/ /\ Cardinality(examples) = K
                  /\ \A e \in examples :
                        e.score >= Similarity[rec.vec.src][answer.query][rec.cmd]

\* embeddings.py:195-219: however many requests build the index at once, a command
\* is compared with every known-bad one.  Stated for answers whose vector, index and
\* last call have one source; line 132 and line 195 mix them after an outage.
KnownBadIsFlagged ==
    (/\ answer.kind = "similar"
     /\ answer.vec.src = lastSource
     /\ \A i \in DOMAIN index : index[i].src = lastSource)
    => (answer.similar <=>
          \E i \in DOMAIN Corpus :
              Similarity[lastSource][answer.query][Corpus[i]] >= Threshold[lastSource])
=============================================================================
