-------------------------------- MODULE Verdict --------------------------------
(***************************************************************************)
(* How /api/llm/analyze reaches a verdict on a command (LLMAnalyzer.analyze *)
(* in llm_analyzer.py): the verdict cache, the deterministic fast path and *)
(* heuristic, the model backends with their fallbacks, the merge of the    *)
(* two opinions, and the bounded influence of past analyst corrections.    *)
(*                                                                         *)
(* A request runs from the cache lookup to the first model call and from   *)
(* the last model call to its answer without a suspension; several         *)
(* requests for one command may be waiting for models at once.  Texts,     *)
(* techniques and the confidence number are left out; of the indicators    *)
(* only whether there are any matters to the verdict.                      *)
(***************************************************************************)
EXTENDS Integers, Sequences, FiniteSets

CONSTANTS
    Cmd,            \* commands, each with its context: the cache keys
    Kind,           \* of each command: "plain", "dcsync" or "injected"
    PatternSev,     \* of each command: the severity HEURISTIC_CHECKS give it
    RuleSevs,       \* severities of the matched rules a request may carry, 1 for none
    ModelSevs,      \* severities a model may answer
    Examples,       \* strong past corrections: [label, sev] records
    Backends,       \* the values LLM_BACKEND may have
    Cap,            \* LLM_ANALYZE_CACHE
    Ttl,            \* LLM_ANALYZE_CACHE_TTL
    MaxTime,        \* bound of the model: the last instant of the clock
    Request         \* bound of the model: requests that run at once

Severity == 1..10

\* No correction is similar; or some are, but none similar enough to count.
NoShot == [label |-> "none", sev |-> 1]
WeakShot == [label |-> "weak", sev |-> 1]
Shots == {NoShot, WeakShot} \cup Examples

ASSUME VerdictAssumption ==
    /\ Kind \in [Cmd -> {"plain", "dcsync", "injected"}]
    /\ PatternSev \in [Cmd -> Severity]
    /\ RuleSevs \subseteq Severity
    /\ ModelSevs \subseteq Severity
    /\ Examples \subseteq [label : {"malicious", "benign"}, sev : Severity]
    /\ Backends \subseteq {"ollama", "openai", "fallback", "fallback+cloud", "none"}
    /\ Cap \in Nat \ {0}
    /\ Ttl \in Nat
    /\ MaxTime \in Nat

VARIABLES
    backend,        \* LLM_BACKEND; "none" is openai without a key, too
    now,            \* time.monotonic(), in ticks
    cache,          \* _analyze_cache: a verdict and its time, or NoEntry
    order,          \* _analyze_cache_order
    reqs            \* what each request is doing

vars == <<backend, now, cache, order, reqs>>

NoEntry == [ts |-> -1]
Idle == [st |-> "idle"]

Source == {"llm", "llm-invalid", "llm-skipped", "heuristic", "dcsync"}
Verdicts == [src : Source, sev : Severity, mal : BOOLEAN, ind : BOOLEAN,
             shot : BOOLEAN, abstained : BOOLEAN]

Init ==
    /\ backend \in Backends
    /\ now = 0
    /\ cache = [c \in Cmd |-> NoEntry]
    /\ order = <<>>
    /\ reqs = [r \in Request |-> Idle]

(***************************************************************************)
(* Opinions.                                                               *)
(***************************************************************************)

Larger(a, b) == IF a > b THEN a ELSE b

Opinion(src, sev, mal, ind) ==
    [src |-> src, sev |-> sev, mal |-> mal, ind |-> ind, shot |-> FALSE, abstained |-> FALSE]

\* _heuristic_analysis: patterns and pre-matched rules.
Heuristic(c, rule) ==
    LET sev == Larger(PatternSev[c], rule) IN
    Opinion("heuristic", sev, sev >= 5, PatternSev[c] > 1 \/ rule >= 8)

\* What _parse_analyze_response makes of an answer; invalid JSON is discarded.
ModelAnswers ==
    [src : {"llm"}, sev : ModelSevs, mal : BOOLEAN, ind : BOOLEAN,
     shot : {FALSE}, abstained : {FALSE}]
        \cup {Opinion("llm-invalid", 1, FALSE, FALSE)}

\* Variant with a planted error: the model's severity stands.
ModelOnly(m, h) == [m EXCEPT !.ind = @ \/ h.ind]

\* Variant with a planted error: the severities add up.
AddUp(m, h) == [m EXCEPT !.sev = @ + h.sev, !.mal = @ \/ h.mal, !.ind = @ \/ h.ind]

\* _merge_with_heuristic: the higher severity wins; a tie is the model's.
Merge(m, h) ==
    [m EXCEPT !.sev = Larger(h.sev, @),
              !.mal = IF h.sev > m.sev THEN h.mal ELSE @,
              !.ind = @ \/ h.ind]

\* _score_confidence: abstain in the middle of the range, or on a disagreement.
Score(v, h) ==
    [v EXCEPT !.abstained =
        \/ v.mal # h.mal
        \/ ~ (v.sev >= 7 \/ h.sev >= 7 \/ (v.sev <= 2 /\ ~v.ind))]

\* _apply_fewshot_nudge, where it applies: the heuristic has not confirmed a
\* threat and the verdict is on the side of its threshold the label can move.
Nudges(v, h, shot) ==
    /\ h.sev < 7
    /\ \/ shot.label = "malicious" /\ v.sev < 7
       \/ shot.label = "benign" /\ v.sev <= 6

Nudged(v, shot) ==
    [v EXCEPT !.sev = IF shot.label = "malicious" THEN Larger(7, shot.sev)
                      ELSE IF @ > 2 THEN 2 ELSE @,
              !.mal = shot.label = "malicious",
              !.ind = TRUE, !.shot = TRUE]

\* _finalize.
Finalize(v, c, rule, shot) ==
    LET h == Heuristic(c, rule) IN
    IF Nudges(v, h, shot) THEN Nudged(v, shot) ELSE Score(v, h)

(***************************************************************************)
(* The verdict cache, as a record of its two variables.                    *)
(***************************************************************************)

Memo == [cache |-> cache, order |-> order]
Becomes(memo) == cache' = memo.cache /\ order' = memo.order

Cached(c) == cache[c] # NoEntry
Fresh(c) == Cached(c) /\ now - cache[c].ts <= Ttl

\* Variant with a planted error: the order keeps an expired entry.
Forget(c) == [cache |-> [cache EXCEPT ![c] = NoEntry], order |-> order]

\* The first place of c in the queue of evictions.
FirstPlace(c) ==
    CHOOSE i \in DOMAIN order : order[i] = c /\ \A j \in 1..(i - 1) : order[j] # c

\* list.remove, whose ValueError the code ignores.
WithoutFirst(c) ==
    IF \A i \in DOMAIN order : order[i] # c THEN order
    ELSE [i \in 1..(Len(order) - 1) |-> order[IF i < FirstPlace(c) THEN i ELSE i + 1]]

\* An expired entry is removed.
Remove(c) == [cache |-> [cache EXCEPT ![c] = NoEntry], order |-> WithoutFirst(c)]

\* _cache_get: what is left after the lookup.
Looked(c) == IF Cached(c) /\ ~Fresh(c) THEN Remove(c) ELSE Memo

\* Variant with a planted error: whatever was concluded is cached.
AnyVerdict(v) == TRUE

\* The sources whose verdicts may be replayed.
Cacheable(v) == v.src \in {"llm", "dcsync"} \/ v.shot

\* _cache_put: rewrites in place, else appends and evicts the oldest entry.
Put(memo, c, v) ==
    LET entry == [v |-> v, ts |-> now]
        kept  == [memo.cache EXCEPT ![c] = entry]
        all   == Append(memo.order, c)
    IN  IF ~Cacheable(v) THEN memo
        ELSE IF memo.cache[c] # NoEntry THEN [memo EXCEPT !.cache = kept]
        ELSE IF Len(all) <= Cap THEN [cache |-> kept, order |-> all]
        ELSE [cache |-> [kept EXCEPT ![Head(all)] = NoEntry], order |-> Tail(all)]

(***************************************************************************)
(* One request.                                                            *)
(***************************************************************************)

\* failed: the last model call of this request failed, or there was none to make.
\* hit: the answer came from the cache.
Asked(st, c, rule, shot) ==
    [st |-> st, cmd |-> c, rule |-> rule, shot |-> shot, failed |-> FALSE, hit |-> FALSE,
     v |-> Opinion("heuristic", 1, FALSE, FALSE)]

Answered(req, v) == [req EXCEPT !.st = "answered", !.v = v]

\* The first model call; there may be none.
FirstCall == IF backend \in {"fallback", "fallback+cloud"} THEN "ollama" ELSE backend

\* The verdict is final: without few-shot examples it may be cached.
Conclude(r, req, v, memo) ==
    LET final == Finalize(v, req.cmd, req.rule, req.shot) IN
    /\ reqs' = [reqs EXCEPT ![r] = Answered(req, final)]
    /\ Becomes(IF req.shot = NoShot THEN Put(memo, req.cmd, final) ELSE memo)

\* No model answered: the heuristic does.
FallBack(r, req, memo) ==
    Conclude(r, [req EXCEPT !.failed = TRUE], Heuristic(req.cmd, req.rule), memo)

\* Few-shot examples bypass the lookup (use_cache).
Begin(r, c, rule, shot) ==
    LET req  == Asked(FirstCall, c, rule, shot)
        memo == IF shot = NoShot THEN Looked(c) ELSE Memo
        deterministic == Finalize(Opinion("dcsync", 10, TRUE, TRUE), c, rule, NoShot)
        skipped == [Heuristic(c, rule) EXCEPT !.src = "llm-skipped"]
    IN  /\ reqs[r].st = "idle"
        /\ IF shot = NoShot /\ Fresh(c)
           THEN /\ reqs' = [reqs EXCEPT ![r] = [Answered(req, cache[c].v) EXCEPT !.hit = TRUE]]
                /\ Becomes(memo)
           ELSE \/ /\ Kind[c] = "dcsync"
                   /\ reqs' = [reqs EXCEPT ![r] = Answered(req, deterministic)]
                   /\ Becomes(Put(memo, c, deterministic))
                \/ /\ Kind[c] = "injected"
                   /\ reqs' = [reqs EXCEPT ![r] = Answered(req, Finalize(skipped, c, rule, NoShot))]
                   /\ Becomes(memo)
                \/ /\ Kind[c] = "plain" /\ FirstCall = "none"
                   /\ FallBack(r, req, memo)
                \/ /\ Kind[c] = "plain" /\ FirstCall # "none"
                   /\ reqs' = [reqs EXCEPT ![r] = req]
                   /\ Becomes(memo)
        /\ UNCHANGED <<backend, now>>

Calling(r) == reqs[r].st \in {"ollama", "openai"}

ModelReplies(r) ==
    /\ Calling(r)
    /\ \E m \in ModelAnswers :
          Conclude(r, reqs[r], Merge(m, Heuristic(reqs[r].cmd, reqs[r].rule)), Memo)
    /\ UNCHANGED <<backend, now>>

\* A model call that fails is followed by the cloud, if that is allowed, and by the
\* heuristic.  With the openai backend it fails the request: nothing catches it.
ModelFails(r) ==
    /\ Calling(r)
    /\ \/ /\ backend = "openai"
          /\ reqs' = [reqs EXCEPT ![r] = Idle]
          /\ UNCHANGED <<cache, order>>
       \/ /\ backend = "fallback+cloud" /\ reqs[r].st = "ollama"
          /\ reqs' = [reqs EXCEPT ![r].st = "openai"]
          /\ UNCHANGED <<cache, order>>
       \/ /\ backend # "openai" /\ ~(backend = "fallback+cloud" /\ reqs[r].st = "ollama")
          /\ FallBack(r, reqs[r], Memo)
    /\ UNCHANGED <<backend, now>>

Deliver(r) ==
    /\ reqs[r].st = "answered"
    /\ reqs' = [reqs EXCEPT ![r] = Idle]
    /\ UNCHANGED <<backend, now, cache, order>>

Tick ==
    /\ now < MaxTime
    /\ now' = now + 1
    /\ UNCHANGED <<backend, cache, order, reqs>>

Next ==
    \/ \E r \in Request :
          \/ \E c \in Cmd, rule \in RuleSevs, shot \in Shots : Begin(r, c, rule, shot)
          \/ ModelReplies(r)
          \/ ModelFails(r)
          \/ Deliver(r)
    \/ Tick

Spec == Init /\ [][Next]_vars

(***************************************************************************)
(* Properties.                                                             *)
(***************************************************************************)

RequestRecord ==
    [st : {"ollama", "openai", "answered"}, cmd : Cmd, rule : RuleSevs, shot : Shots,
     failed : BOOLEAN, hit : BOOLEAN, v : Verdicts]

TypeOK ==
    /\ backend \in Backends
    /\ now \in 0..MaxTime
    /\ cache \in [Cmd -> {NoEntry} \cup [v : Verdicts, ts : 0..now]]
    /\ order \in Seq(Cmd)
    /\ reqs \in [Request -> {Idle} \cup RequestRecord]

\* The cache and the queue that bounds it agree, and stay within the cap, although
\* requests for one command miss and store at the same time and entries expire:
\* no entry is out of the eviction's reach.
CacheMatchesOrder ==
    /\ Len(order) <= Cap
    /\ \A c \in Cmd : Cached(c) <=> \E i \in DOMAIN order : order[i] = c
    /\ \A i, j \in DOMAIN order : order[i] = order[j] => i = j

\* A verdict that no model took part in is only given by a request that itself
\* found no model, never replayed after the outage ("must NOT be replayed forever
\* after the model recovers", llm_analyzer.py:338-341).
DegradedOnlyWithoutModel ==
    \A r \in Request :
        reqs[r].st = "answered" /\ reqs[r].v.src \in {"heuristic", "llm-invalid"}
        => ~reqs[r].hit /\ (reqs[r].v.src = "heuristic" => reqs[r].failed)

\* Did an analyst's correction clear this verdict?
ClearedByAnalyst(r) == reqs[r].v.shot /\ reqs[r].shot.label = "benign"

\* What the deterministic engine says of the command, with the rules of this request
\* when the verdict was computed for it.
Floor(r) == Heuristic(reqs[r].cmd, IF reqs[r].hit THEN 1 ELSE reqs[r].rule)

\* No model answer, cached answer or correction takes a verdict below what the
\* deterministic engine finds, except that a correction may clear what the engine
\* has not confirmed (llm_analyzer.py:688-691, 1466).  And a verdict that says benign
\* against the engine is handed to a human.
FloorHolds ==
    \A r \in Request :
        reqs[r].st = "answered" =>
            \/ ClearedByAnalyst(r) /\ Floor(r).sev < 7
            \/ /\ reqs[r].v.sev >= Floor(r).sev
               /\ Floor(r).mal /\ ~reqs[r].v.mal => reqs[r].v.abstained

\* What the source claims: "Pre-matched detection rules always escalate"
\* (llm_analyzer.py:1512).  The cache key leaves the rules out, so a verdict cached
\* without them answers a request that carries a critical one.
RulesAlwaysEscalate ==
    \A r \in Request :
        reqs[r].st = "answered" /\ reqs[r].shot = NoShot => reqs[r].v.sev >= reqs[r].rule
=============================================================================
