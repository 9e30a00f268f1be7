----------------------------- MODULE Verdict_proofs -----------------------------
(***************************************************************************)
(* Proofs about LLMAnalyzer.analyze: for any commands, detections, model   *)
(* answers, corrections, backends, cache size and lifetime, and any number *)
(* of requests at once, the verdict cache and its queue agree, a verdict   *)
(* given without a model is not replayed, and no verdict is below what the *)
(* deterministic engine finds.                                             *)
(***************************************************************************)
EXTENDS Verdict, TLAPS

(***************************************************************************)
(* Opinions.                                                               *)
(***************************************************************************)

\* The rules a floor may be computed with: those of a request, or none.
RuleOrNone == RuleSevs \cup {1}

\* Verdict v is not below what the engine finds; if it says benign against the
\* engine, a human decides.
AboveFloor(v, c, rule) ==
    /\ v.sev >= Heuristic(c, rule).sev
    /\ Heuristic(c, rule).mal /\ ~v.mal => v.abstained

LEMMA HeuristicType ==
  ASSUME NEW c \in Cmd, NEW rule \in RuleOrNone
  PROVE  /\ Heuristic(c, rule) \in Verdicts
         /\ Heuristic(c, rule).src = "heuristic"
         /\ Heuristic(c, rule).shot = FALSE
         /\ Heuristic(c, rule).sev = Larger(PatternSev[c], rule)
         /\ Heuristic(c, rule).mal = (Larger(PatternSev[c], rule) >= 5)
<1>1. PatternSev[c] \in 1..10 /\ rule \in 1..10
  BY VerdictAssumption DEF RuleOrNone, Severity
<1>2. Larger(PatternSev[c], rule) \in 1..10
  BY <1>1 DEF Larger
<1> DEFINE ind == PatternSev[c] > 1 \/ rule >= 8
<1>3. ind \in BOOLEAN
  OBVIOUS
<1>4. Heuristic(c, rule) = [src |-> "heuristic", sev |-> Larger(PatternSev[c], rule),
                            mal |-> Larger(PatternSev[c], rule) >= 5, ind |-> ind,
                            shot |-> FALSE, abstained |-> FALSE]
  BY DEF Heuristic, Opinion
<1> QED
  BY <1>2, <1>3, <1>4 DEF Verdicts, Source, Severity

\* The engine's floor without rules is below its floor with them.
LEMMA FloorWithoutRules ==
  ASSUME NEW c \in Cmd, NEW rule \in RuleOrNone, NEW v \in Verdicts,
         AboveFloor(v, c, rule)
  PROVE  AboveFloor(v, c, 1)
<1>1. 1 \in RuleOrNone
  BY DEF RuleOrNone
<1>2. PatternSev[c] \in 1..10 /\ rule \in 1..10
  BY VerdictAssumption DEF RuleOrNone, Severity
<1>3. Larger(PatternSev[c], 1) <= Larger(PatternSev[c], rule)
  BY <1>2 DEF Larger
<1>4. Larger(PatternSev[c], 1) \in 1..10 /\ Larger(PatternSev[c], rule) \in 1..10
  BY <1>2 DEF Larger
<1>5. v.sev \in 1..10
  BY DEF Verdicts, Severity
<1>6. v.sev >= Larger(PatternSev[c], rule)
  BY HeuristicType DEF AboveFloor
<1>7. v.sev >= Heuristic(c, 1).sev
  <2>1. Heuristic(c, 1).sev = Larger(PatternSev[c], 1)
    BY <1>1, HeuristicType
  <2> QED
    BY <1>3, <1>4, <1>5, <1>6, <2>1
<1>8. Heuristic(c, 1).mal => Heuristic(c, rule).mal
  <2>1. /\ Heuristic(c, 1).mal = (Larger(PatternSev[c], 1) >= 5)
        /\ Heuristic(c, rule).mal = (Larger(PatternSev[c], rule) >= 5)
    BY <1>1, HeuristicType
  <2>2. Larger(PatternSev[c], 1) >= 5 => Larger(PatternSev[c], rule) >= 5
    BY <1>3, <1>4
  <2> QED
    BY <2>1, <2>2, Zenon
<1> QED
  BY <1>7, <1>8 DEF AboveFloor

LEMMA AnswerType ==
  ASSUME NEW m \in ModelAnswers
  PROVE  m \in Verdicts /\ m.src \in {"llm", "llm-invalid"} /\ m.shot = FALSE
<1>1. CASE m = Opinion("llm-invalid", 1, FALSE, FALSE)
  BY <1>1 DEF Opinion, Verdicts, Source, Severity
<1>2. CASE m \in [src : {"llm"}, sev : ModelSevs, mal : BOOLEAN, ind : BOOLEAN,
                  shot : {FALSE}, abstained : {FALSE}]
  <2>1. m.sev \in Severity /\ m.shot = FALSE /\ m.src = "llm"
    BY <1>2, VerdictAssumption
  <2>2. m \in [src : Source, sev : ModelSevs, mal : BOOLEAN, ind : BOOLEAN,
              shot : BOOLEAN, abstained : BOOLEAN]
    BY <1>2 DEF Source
  <2> QED
    BY <2>1, <2>2 DEF Verdicts
<1> QED
  BY <1>1, <1>2 DEF ModelAnswers

\* Merging keeps the source of the answer and the higher severity.
LEMMA MergeType ==
  ASSUME NEW m \in Verdicts, NEW h \in Verdicts
  PROVE  /\ Merge(m, h) \in Verdicts
         /\ Merge(m, h).src = m.src
         /\ Merge(m, h).shot = m.shot
         /\ Merge(m, h).sev >= h.sev
<1>1. Larger(h.sev, m.sev) \in 1..10 /\ Larger(h.sev, m.sev) >= h.sev
  BY DEF Larger, Verdicts, Severity
<1>2. m.src \in Source /\ m.mal \in BOOLEAN /\ m.ind \in BOOLEAN /\ m.shot \in BOOLEAN
      /\ m.abstained \in BOOLEAN /\ h.mal \in BOOLEAN /\ h.ind \in BOOLEAN
  BY DEF Verdicts
<1> DEFINE mal == IF h.sev > m.sev THEN h.mal ELSE m.mal
           ind == m.ind \/ h.ind
<1>3. mal \in BOOLEAN /\ ind \in BOOLEAN
  BY <1>2
<1>4. Merge(m, h) = [m EXCEPT !.sev = Larger(h.sev, m.sev), !.mal = mal, !.ind = ind]
  BY DEF Merge
<1> HIDE DEF mal, ind
<1> QED
  BY <1>1, <1>2, <1>3, <1>4 DEF Verdicts, Severity

LEMMA ShotType ==
  ASSUME NEW shot \in Shots
  PROVE  shot.sev \in 1..10 /\ shot.label \in {"none", "weak", "malicious", "benign"}
BY VerdictAssumption DEF Shots, NoShot, WeakShot, Severity

\* What a verdict becomes before it is answered: it keeps its source; it is at least
\* what the engine finds, or a correction cleared it and the engine had not confirmed it.
LEMMA FinalizeSound ==
  ASSUME NEW v \in Verdicts, NEW c \in Cmd, NEW rule \in RuleOrNone, NEW shot \in Shots,
         v.sev >= Heuristic(c, rule).sev, v.shot = FALSE
  PROVE  LET f == Finalize(v, c, rule, shot) IN
         /\ f \in Verdicts
         /\ f.src = v.src
         /\ \/ AboveFloor(f, c, rule)
            \/ f.shot /\ shot.label = "benign" /\ Heuristic(c, rule).sev < 7
         /\ shot = NoShot => AboveFloor(f, c, rule) /\ f.shot = FALSE
<1> DEFINE h == Heuristic(c, rule)
<1>1. h \in Verdicts /\ h.sev \in 1..10 /\ h.mal \in BOOLEAN
  BY HeuristicType DEF Verdicts, Severity
<1>2. /\ v.src \in Source /\ v.sev \in 1..10 /\ v.mal \in BOOLEAN
      /\ v.ind \in BOOLEAN /\ v.shot \in BOOLEAN
  BY DEF Verdicts, Severity
<1>3. v.sev >= h.sev
  OBVIOUS
<1> HIDE DEF h
<1>4. CASE ~Nudges(v, h, shot)
  <2> DEFINE ab == v.mal # h.mal \/ ~(v.sev >= 7 \/ h.sev >= 7 \/ (v.sev <= 2 /\ ~v.ind))
  <2>1. Score(v, h) = [v EXCEPT !.abstained = ab]
    BY DEF Score
  <2>2. Finalize(v, c, rule, shot) = Score(v, h)
    BY <1>4 DEF Finalize, h
  <2>3. ab \in BOOLEAN /\ (v.mal # h.mal => ab)
    OBVIOUS
  <2> HIDE DEF ab
  <2>4. /\ Score(v, h) \in Verdicts
        /\ Score(v, h).sev = v.sev /\ Score(v, h).mal = v.mal /\ Score(v, h).abstained = ab
        /\ Score(v, h).src = v.src /\ Score(v, h).shot = v.shot
    BY <1>2, <2>1, <2>3 DEF Verdicts, Severity
  <2>5. Score(v, h).sev >= h.sev /\ (h.mal /\ ~Score(v, h).mal => Score(v, h).abstained)
    BY <1>1, <1>2, <1>3, <2>3, <2>4
  <2>6. Score(v, h).src = v.src /\ Score(v, h).shot = FALSE
    BY <2>4
  <2> QED
    BY <2>2, <2>4, <2>5, <2>6 DEF AboveFloor, h
<1>5. CASE Nudges(v, h, shot)
  <2>1. h.sev < 7 /\ shot.label \in {"malicious", "benign"}
    BY <1>5 DEF Nudges
  <2>2. shot # NoShot
    BY <2>1 DEF NoShot
  <2>3. Finalize(v, c, rule, shot) = Nudged(v, shot)
    BY <1>5 DEF Finalize, h
  <2> DEFINE sev == IF shot.label = "malicious" THEN Larger(7, shot.sev)
                    ELSE IF v.sev > 2 THEN 2 ELSE v.sev
             mal == shot.label = "malicious"
  <2>4. Nudged(v, shot) = [v EXCEPT !.sev = sev, !.mal = mal, !.ind = TRUE, !.shot = TRUE]
    BY DEF Nudged
  <2>5. sev \in 1..10 /\ (mal => sev >= 7) /\ mal \in BOOLEAN
    BY <1>2, ShotType DEF Larger
  <2>6. v.abstained \in BOOLEAN
    BY DEF Verdicts
  <2>7. mal \/ shot.label = "benign"
    BY <2>1
  <2> HIDE DEF sev, mal
  <2>8. /\ Nudged(v, shot) \in Verdicts
        /\ Nudged(v, shot).sev = sev /\ Nudged(v, shot).mal = mal
        /\ Nudged(v, shot).src = v.src /\ Nudged(v, shot).shot
    BY <1>2, <2>4, <2>5, <2>6 DEF Verdicts, Severity
  <2>9. Nudged(v, shot).src = v.src /\ Nudged(v, shot).shot
    BY <2>8
  <2>10. CASE mal
    <3>1. Nudged(v, shot).sev >= h.sev /\ Nudged(v, shot).mal
      BY <1>1, <2>1, <2>5, <2>8, <2>10
    <3> QED
      BY <2>2, <2>3, <2>8, <2>9, <3>1 DEF AboveFloor, h
  <2>11. CASE shot.label = "benign"
    BY <2>1, <2>2, <2>3, <2>8, <2>9, <2>11 DEF h
  <2> QED
    BY <2>7, <2>10, <2>11
<1> QED
  BY <1>4, <1>5

(***************************************************************************)
(* The cache.                                                              *)
(***************************************************************************)

Entry == [v : Verdicts, ts : 0..now]

\* What may be cached for c: no degraded verdict, and none below the floor.
Worth(c, v) ==
    /\ v \in Verdicts
    /\ v.src \in {"llm", "dcsync"}
    /\ AboveFloor(v, c, 1)

\* A queue without repetitions whose members are the keys of the cache, within the cap.
MemoOK(m) ==
    /\ m.cache \in [Cmd -> {NoEntry} \cup Entry]
    /\ m.order \in Seq(Cmd)
    /\ Len(m.order) <= Cap
    /\ \A c \in Cmd : m.cache[c] # NoEntry <=> \E i \in DOMAIN m.order : m.order[i] = c
    /\ \A i, j \in DOMAIN m.order : m.order[i] = m.order[j] => i = j
    /\ \A c \in Cmd : m.cache[c] # NoEntry => Worth(c, m.cache[c].v)

LEMMA EntryIsNotNoEntry ==
  ASSUME NEW e \in Entry, now \in Nat
  PROVE  e # NoEntry
BY DEF Entry, NoEntry

LEMMA MemoIntro ==
  ASSUME NEW dict \in [Cmd -> {NoEntry} \cup Entry], NEW queue \in Seq(Cmd), Len(queue) <= Cap,
         \A c \in Cmd : dict[c] # NoEntry <=> \E i \in 1..Len(queue) : queue[i] = c,
         \A i, j \in 1..Len(queue) : queue[i] = queue[j] => i = j,
         \A c \in Cmd : dict[c] # NoEntry => Worth(c, dict[c].v)
  PROVE  MemoOK([cache |-> dict, order |-> queue])
<1> DEFINE m == [cache |-> dict, order |-> queue]
<1>1. m.cache = dict /\ m.order = queue /\ DOMAIN queue = 1..Len(queue)
  OBVIOUS
<1> HIDE DEF m
<1>2. MemoOK(m)
  BY <1>1 DEF MemoOK
<1> QED
  BY <1>2 DEF m

\* Removing an expired entry takes it out of the dict and, once, out of the queue.
LEMMA LookedKeeps ==
  ASSUME MemoOK(Memo), NEW c \in Cmd
  PROVE  MemoOK(Looked(c))
<1>1. CASE ~(Cached(c) /\ ~Fresh(c))
  BY <1>1 DEF Looked
<1>2. CASE Cached(c) /\ ~Fresh(c)
  <2>1. /\ cache \in [Cmd -> {NoEntry} \cup Entry]
        /\ order \in Seq(Cmd) /\ Len(order) <= Cap
        /\ \A d \in Cmd : cache[d] # NoEntry <=> \E i \in DOMAIN order : order[i] = d
        /\ \A i, j \in DOMAIN order : order[i] = order[j] => i = j
        /\ \A d \in Cmd : cache[d] # NoEntry => Worth(d, cache[d].v)
    BY DEF MemoOK, Memo
  <2> DEFINE k == FirstPlace(c)
             short == [i \in 1..(Len(order) - 1) |-> order[IF i < k THEN i ELSE i + 1]]
             without == [cache EXCEPT ![c] = NoEntry]
  <2>2. PICK place \in DOMAIN order : order[place] = c
    BY <1>2, <2>1 DEF Cached
  <2>3. order[place] = c /\ \A j \in 1..(place - 1) : order[j] # c
    BY <2>1, <2>2
  <2>4. k \in DOMAIN order /\ order[k] = c
    BY <2>2, <2>3 DEF FirstPlace
  <2>5. Looked(c) = [cache |-> without, order |-> short]
    BY <1>2, <2>2 DEF Looked, Remove, WithoutFirst
  <2> HIDE DEF k
  <2>6. Len(order) \in Nat /\ k \in 1..Len(order) /\ order \in [1..Len(order) -> Cmd]
    BY <2>1, <2>4
  <2>7. short \in [1..(Len(order) - 1) -> Cmd]
    BY <2>6
  <2>8. short \in Seq(Cmd) /\ Len(short) = Len(order) - 1 /\ DOMAIN short = 1..(Len(order) - 1)
    BY <2>6, <2>7
  <2>9. \A i, j \in DOMAIN short : short[i] = short[j] => i = j
    <3> DEFINE up(i) == IF i < k THEN i ELSE i + 1
    <3>1. \A i \in DOMAIN short : i \in Nat /\ up(i) \in DOMAIN order /\ short[i] = order[up(i)]
      BY <2>6, <2>8
    <3>2. \A i, j \in DOMAIN short : up(i) = up(j) => i = j
      BY <2>6, <3>1
    <3> HIDE DEF short, up
    <3> QED
      BY <2>1, <3>1, <3>2
  <2>10. \A d \in Cmd : (\E i \in DOMAIN short : short[i] = d)
                         <=> d # c /\ \E i \in DOMAIN order : order[i] = d
    <3>1. ASSUME NEW i \in DOMAIN short
          PROVE  \E j \in DOMAIN order : j # k /\ short[i] = order[j]
      BY <2>6, <2>8
    <3>2. ASSUME NEW j \in DOMAIN order, j # k
          PROVE  \E i \in DOMAIN short : short[i] = order[j]
      <4>1. CASE j < k
        <5>1. j \in DOMAIN short /\ short[j] = order[j]
          BY <2>6, <2>8, <4>1
        <5> QED
          BY <5>1
      <4>2. CASE j > k
        <5>1. j - 1 \in DOMAIN short /\ short[j - 1] = order[j]
          BY <2>6, <2>8, <4>2
        <5> QED
          BY <5>1
      <4> QED
        BY <2>6, <3>2, <4>1, <4>2
    <3>3. \A j \in DOMAIN order : order[j] = c <=> j = k
      BY <2>1, <2>4
    <3> HIDE DEF short
    <3> QED
      BY <3>1, <3>2, <3>3
  <2>11. /\ without \in [Cmd -> {NoEntry} \cup Entry]
         /\ \A d \in Cmd : without[d] = IF d = c THEN NoEntry ELSE cache[d]
    BY <2>1
  <2> HIDE DEF short, without
  <2>12. \A d \in Cmd : without[d] # NoEntry <=> \E i \in DOMAIN short : short[i] = d
    BY <2>1, <2>10, <2>11
  <2>13. \A d \in Cmd : without[d] # NoEntry => Worth(d, without[d].v)
    BY <2>1, <2>11
  <2>14. Len(short) <= Cap
    BY <2>1, <2>6, <2>8, VerdictAssumption
  <2> QED
    <3>1. DOMAIN short = 1..Len(short)
      BY <2>8
    <3>2. MemoOK([cache |-> without, order |-> short])
      BY <2>8, <2>9, <2>11, <2>12, <2>13, <2>14, <3>1, MemoIntro
    <3> QED
      BY <2>5, <3>2
<1> QED
  BY <1>1, <1>2

\* Storing rewrites in place, or appends and evicts what is first in the queue.
LEMMA PutKeeps ==
  ASSUME NEW m, MemoOK(m), NEW c \in Cmd, NEW v \in Verdicts,
         Cacheable(v) => Worth(c, v), now \in Nat
  PROVE  MemoOK(Put(m, c, v))
<1> DEFINE entry == [v |-> v, ts |-> now]
           kept == [m.cache EXCEPT ![c] = entry]
           all == Append(m.order, c)
<1>1. /\ m.cache \in [Cmd -> {NoEntry} \cup Entry]
      /\ m.order \in Seq(Cmd) /\ Len(m.order) <= Cap
      /\ \A d \in Cmd : m.cache[d] # NoEntry <=> \E i \in DOMAIN m.order : m.order[i] = d
      /\ \A i, j \in DOMAIN m.order : m.order[i] = m.order[j] => i = j
      /\ \A d \in Cmd : m.cache[d] # NoEntry => Worth(d, m.cache[d].v)
  BY DEF MemoOK
<1>2. entry \in Entry /\ entry # NoEntry /\ entry.v = v
  BY DEF Entry, NoEntry
<1> HIDE DEF entry
<1>3. /\ kept \in [Cmd -> {NoEntry} \cup Entry]
      /\ \A d \in Cmd : kept[d] = IF d = c THEN entry ELSE m.cache[d]
  BY <1>1, <1>2
<1> HIDE DEF kept
<1>4. CASE ~Cacheable(v)
  BY <1>4 DEF Put
<1>5. CASE Cacheable(v) /\ m.cache[c] # NoEntry
  <2>1. Put(m, c, v).cache = kept /\ Put(m, c, v).order = m.order
    <3>1. Put(m, c, v) = [m EXCEPT !.cache = kept]
      BY <1>5 DEF Put, kept, entry
    <3> QED
      BY <3>1
  <2> QED
    BY <1>1, <1>2, <1>3, <1>5, <2>1 DEF MemoOK
<1>6. CASE Cacheable(v) /\ m.cache[c] = NoEntry
  <2>1. /\ all \in Seq(Cmd) /\ Len(all) = Len(m.order) + 1 /\ Len(m.order) \in Nat
        /\ \A i \in 1..Len(m.order) : all[i] = m.order[i]
        /\ all[Len(m.order) + 1] = c
    BY <1>1
  <2>2. \A i \in 1..Len(m.order) : m.order[i] # c
    BY <1>1, <1>6
  <2> HIDE DEF all
  <2>3. \A i, j \in 1..Len(all) : all[i] = all[j] => i = j
    BY <1>1, <2>1, <2>2
  <2>4. \A d \in Cmd : kept[d] # NoEntry <=> \E i \in 1..Len(all) : all[i] = d
    <3>1. ASSUME NEW d \in Cmd, d # c
          PROVE  (\E i \in 1..Len(all) : all[i] = d) <=> \E i \in DOMAIN m.order : m.order[i] = d
      BY <1>1, <2>1, <3>1
    <3>2. \E i \in 1..Len(all) : all[i] = c
      BY <2>1
    <3> QED
      BY <1>1, <1>2, <1>3, <3>1, <3>2
  <2>5. \A d \in Cmd : kept[d] # NoEntry => Worth(d, kept[d].v)
    BY <1>1, <1>2, <1>3, <1>6
  <2>6. CASE Len(all) <= Cap
    <3>1. Put(m, c, v) = [cache |-> kept, order |-> all]
      BY <1>6, <2>6 DEF Put, kept, entry, all
    <3>2. MemoOK([cache |-> kept, order |-> all])
      BY <1>3, <2>1, <2>3, <2>4, <2>5, <2>6, MemoIntro
    <3> QED
      BY <3>1, <3>2
  <2>7. CASE Len(all) > Cap
    <3> DEFINE rest == Tail(all)
               fewer == [kept EXCEPT ![Head(all)] = NoEntry]
    <3>1. Put(m, c, v) = [cache |-> fewer, order |-> rest]
      <4>1. ~(Len(all) <= Cap)
        BY <2>1, <2>7, VerdictAssumption
      <4> QED
        BY <1>6, <4>1 DEF Put, kept, entry, all
    <3>2. /\ rest \in Seq(Cmd) /\ Len(rest) = Len(all) - 1
          /\ \A i \in 1..Len(rest) : rest[i] = all[i + 1]
          /\ Head(all) = all[1] /\ Head(all) \in Cmd
      BY <2>1
    <3>3. /\ fewer \in [Cmd -> {NoEntry} \cup Entry]
          /\ \A d \in Cmd : fewer[d] = IF d = all[1] THEN NoEntry ELSE kept[d]
      BY <1>3, <3>2
    <3> HIDE DEF rest, fewer
    <3>4. Len(rest) <= Cap
      BY <1>1, <2>1, <3>2
    <3>5. \A i, j \in 1..Len(rest) : rest[i] = rest[j] => i = j
      <4>1. \A i \in 1..Len(rest) : i \in Nat /\ i + 1 \in 1..Len(all) /\ rest[i] = all[i + 1]
        BY <2>1, <3>2
      <4>2. SUFFICES ASSUME NEW i \in 1..Len(rest), NEW j \in 1..Len(rest), rest[i] = rest[j]
                     PROVE  i = j
        OBVIOUS
      <4>3. i + 1 = j + 1
        BY <2>3, <4>1, <4>2
      <4> QED
        BY <4>1, <4>3
    <3>6. \A d \in Cmd : (\E i \in 1..Len(rest) : rest[i] = d)
                          <=> d # all[1] /\ \E i \in 1..Len(all) : all[i] = d
      <4>1. ASSUME NEW i \in 1..Len(rest)
            PROVE  i + 1 \in 1..Len(all) /\ i + 1 # 1 /\ rest[i] = all[i + 1]
        BY <2>1, <3>2
      <4>2. ASSUME NEW i \in 1..Len(all), i # 1
            PROVE  i - 1 \in 1..Len(rest) /\ rest[i - 1] = all[i]
        BY <2>1, <3>2, <4>2
      <4>3. 1 \in 1..Len(all)
        BY <2>1
      <4>4. SUFFICES ASSUME NEW d \in Cmd
                     PROVE  (\E i \in 1..Len(rest) : rest[i] = d)
                            <=> d # all[1] /\ \E i \in 1..Len(all) : all[i] = d
        OBVIOUS
      <4>5. ASSUME NEW i \in 1..Len(rest), rest[i] = d
            PROVE  d # all[1] /\ \E j \in 1..Len(all) : all[j] = d
        <5>1. all[i + 1] = d /\ i + 1 \in 1..Len(all) /\ i + 1 # 1
          BY <4>1, <4>5
        <5> QED
          BY <2>3, <4>3, <5>1
      <4>6. ASSUME NEW i \in 1..Len(all), all[i] = d, d # all[1]
            PROVE  \E j \in 1..Len(rest) : rest[j] = d
        <5>1. i - 1 \in 1..Len(rest) /\ rest[i - 1] = d
          BY <4>2, <4>6
        <5> QED
          BY <5>1
      <4> QED
        BY <4>5, <4>6
    <3>7. \A d \in Cmd : fewer[d] # NoEntry <=> \E i \in 1..Len(rest) : rest[i] = d
      BY <2>4, <3>3, <3>6
    <3>8. \A d \in Cmd : fewer[d] # NoEntry => Worth(d, fewer[d].v)
      BY <2>5, <3>3
    <3>9. MemoOK([cache |-> fewer, order |-> rest])
      BY <3>2, <3>3, <3>4, <3>5, <3>7, <3>8, MemoIntro
    <3> QED
      BY <3>1, <3>9
  <2> QED
    BY <2>1, <2>6, <2>7, VerdictAssumption
<1> QED
  BY <1>4, <1>5, <1>6

(***************************************************************************)
(* Requests.                                                               *)
(***************************************************************************)

\* A request that is not answered yet; "none": there is no model to call.
Pending == [st : {"ollama", "openai", "none"}, cmd : Cmd, rule : RuleSevs, shot : Shots,
            failed : BOOLEAN, hit : {FALSE}, v : Verdicts]

\* What an answer must satisfy, as a predicate on the request.
Sound(req) ==
    LET rule == IF req.hit THEN 1 ELSE req.rule IN
    /\ \/ AboveFloor(req.v, req.cmd, rule)
       \/ req.v.shot /\ req.shot.label = "benign" /\ Heuristic(req.cmd, rule).sev < 7
    /\ req.v.src \in {"heuristic", "llm-invalid"} =>
          ~req.hit /\ (req.v.src = "heuristic" => req.failed)

AnswerOK(req) == req \in RequestRecord /\ req.st = "answered" /\ Sound(req)
CallOK(req) == req \in RequestRecord /\ req \in Pending
RequestOK(req) == req = Idle \/ AnswerOK(req) \/ CallOK(req)

(***************************************************************************)
(* The invariant: besides types, what the cache holds is worth replaying,  *)
(* its queue is in order, and every answer is sound.                       *)
(***************************************************************************)
VerdictInv ==
    /\ backend \in Backends
    /\ now \in 0..MaxTime
    /\ MemoOK(Memo)
    /\ reqs \in [Request -> {req \in {Idle} \cup RequestRecord : RequestOK(req)}]

\* A verdict that is computed, finalised and possibly stored.
LEMMA ConcludeKeeps ==
  ASSUME VerdictInv, NEW r \in Request, NEW req \in Pending, NEW memo, MemoOK(memo),
         NEW v \in Verdicts, v.shot = FALSE, v.sev >= Heuristic(req.cmd, req.rule).sev,
         v.src \in {"llm", "llm-invalid", "heuristic"}, v.src = "heuristic" => req.failed,
         Conclude(r, req, v, memo), UNCHANGED <<backend, now>>
  PROVE  VerdictInv'
<1> DEFINE final == Finalize(v, req.cmd, req.rule, req.shot)
           answer == Answered(req, final)
<1>1. /\ req.cmd \in Cmd /\ req.rule \in RuleSevs /\ req.rule \in RuleOrNone
      /\ req.shot \in Shots /\ req.hit = FALSE
  BY DEF Pending, RuleOrNone
<1>2. /\ final \in Verdicts
      /\ final.src = v.src
      /\ \/ AboveFloor(final, req.cmd, req.rule)
         \/ final.shot /\ req.shot.label = "benign" /\ Heuristic(req.cmd, req.rule).sev < 7
      /\ req.shot = NoShot => AboveFloor(final, req.cmd, req.rule) /\ final.shot = FALSE
  BY <1>1, FinalizeSound
<1>3. /\ reqs' = [reqs EXCEPT ![r] = answer]
      /\ Becomes(IF req.shot = NoShot THEN Put(memo, req.cmd, final) ELSE memo)
  BY DEF Conclude
<1> HIDE DEF final
<1>4. answer = [req EXCEPT !.st = "answered", !.v = final]
  BY DEF Answered
<1>5. /\ answer \in RequestRecord /\ answer.st = "answered" /\ answer.v = final
      /\ answer.cmd = req.cmd /\ answer.rule = req.rule /\ answer.shot = req.shot
      /\ answer.hit = FALSE /\ answer.failed = req.failed
  BY <1>2, <1>4 DEF Pending, RequestRecord
<1> HIDE DEF answer
<1>6. Sound(answer)
  BY <1>2, <1>5 DEF Sound
<1>7. reqs' \in [Request -> {q \in {Idle} \cup RequestRecord : RequestOK(q)}]
  BY <1>3, <1>5, <1>6 DEF VerdictInv, RequestOK, AnswerOK
<1>8. now \in Nat
  BY VerdictAssumption DEF VerdictInv
<1>9. ASSUME req.shot = NoShot
      PROVE  MemoOK(Put(memo, req.cmd, final))
  <2>1. Cacheable(final) => Worth(req.cmd, final)
    BY <1>1, <1>2, <1>9, FloorWithoutRules DEF Cacheable, Worth
  <2> QED
    BY <1>1, <1>2, <1>8, <2>1, PutKeeps
<1>10. PICK m : Becomes(m) /\ MemoOK(m)
  BY <1>3, <1>9
<1>11. MemoOK(Memo)'
  BY <1>10 DEF Becomes, MemoOK, Memo, Entry
<1> QED
  BY <1>7, <1>11 DEF VerdictInv

\* An answer that is given at once, with what the lookup or the fast path left in the cache.
LEMMA AnswerKeeps ==
  ASSUME VerdictInv, NEW r \in Request, NEW req, RequestOK(req),
         reqs' = [reqs EXCEPT ![r] = req],
         NEW memo, MemoOK(memo), Becomes(memo), UNCHANGED <<backend, now>>
  PROVE  VerdictInv'
<1>1. req \in {Idle} \cup RequestRecord
  BY DEF RequestOK, AnswerOK, CallOK
<1>2. reqs' \in [Request -> {q \in {Idle} \cup RequestRecord : RequestOK(q)}]
  BY <1>1 DEF VerdictInv
<1>3. MemoOK(Memo)'
  BY DEF Becomes, MemoOK, Memo, Entry
<1> QED
  BY <1>2, <1>3 DEF VerdictInv

LEMMA AskedType ==
  ASSUME NEW st \in {"ollama", "openai", "none"}, NEW c \in Cmd, NEW rule \in RuleSevs,
         NEW shot \in Shots
  PROVE  /\ Asked(st, c, rule, shot) \in Pending
         /\ st # "none" => CallOK(Asked(st, c, rule, shot))
<1>1. Opinion("heuristic", 1, FALSE, FALSE) \in Verdicts
  BY DEF Opinion, Verdicts, Source, Severity
<1> QED
  BY <1>1 DEF Asked, Pending, CallOK, RequestRecord

LEMMA AnsweredType ==
  ASSUME NEW req \in Pending, NEW v \in Verdicts
  PROVE  /\ Answered(req, v) \in RequestRecord
         /\ Answered(req, v).st = "answered" /\ Answered(req, v).v = v
         /\ Answered(req, v).cmd = req.cmd /\ Answered(req, v).rule = req.rule
         /\ Answered(req, v).shot = req.shot /\ Answered(req, v).hit = FALSE
         /\ Answered(req, v).failed = req.failed
BY DEF Answered, Pending, RequestRecord

LEMMA FirstCallType ==
  ASSUME VerdictInv
  PROVE  FirstCall \in {"ollama", "openai", "none"}
BY VerdictAssumption DEF VerdictInv, FirstCall

LEMMA FallBackKeeps ==
  ASSUME VerdictInv, NEW r \in Request, NEW req \in Pending, NEW memo, MemoOK(memo),
         FallBack(r, req, memo), UNCHANGED <<backend, now>>
  PROVE  VerdictInv'
<1> DEFINE failed == [req EXCEPT !.failed = TRUE]
           h == Heuristic(req.cmd, req.rule)
<1>1. /\ failed \in Pending /\ failed.failed = TRUE
      /\ failed.cmd = req.cmd /\ failed.rule = req.rule
  BY DEF Pending
<1>2. req.cmd \in Cmd /\ req.rule \in RuleOrNone
  BY DEF Pending, RuleOrNone
<1>3. h \in Verdicts /\ h.src = "heuristic" /\ h.shot = FALSE
  BY <1>2, HeuristicType
<1>4. h.sev >= h.sev
  BY <1>3 DEF Verdicts, Severity
<1>5. Conclude(r, failed, h, memo)
  BY DEF FallBack
<1> HIDE DEF failed
<1>6. h.sev >= Heuristic(failed.cmd, failed.rule).sev
  BY <1>1, <1>4
<1> HIDE DEF h
<1> QED
  BY <1>1, <1>3, <1>5, <1>6, ConcludeKeeps

LEMMA BeginKeeps ==
  ASSUME VerdictInv, NEW r \in Request, NEW c \in Cmd, NEW rule \in RuleSevs, NEW shot \in Shots,
         Begin(r, c, rule, shot)
  PROVE  VerdictInv'
<1> DEFINE req == Asked(FirstCall, c, rule, shot)
           memo == IF shot = NoShot THEN Looked(c) ELSE Memo
           deterministic == Finalize(Opinion("dcsync", 10, TRUE, TRUE), c, rule, NoShot)
           skipped == [Heuristic(c, rule) EXCEPT !.src = "llm-skipped"]
           direct == Finalize(skipped, c, rule, NoShot)
<1>1. UNCHANGED <<backend, now>>
  BY DEF Begin
<1>2. req \in Pending /\ req.cmd = c /\ req.rule = rule /\ req.shot = shot
  BY FirstCallType, AskedType DEF Asked
<1>3. MemoOK(memo)
  BY LookedKeeps DEF VerdictInv
<1>4. now \in Nat
  BY VerdictAssumption DEF VerdictInv
<1>5. rule \in RuleOrNone /\ NoShot \in Shots
  BY DEF RuleOrNone, Shots
<1>6. CASE shot = NoShot /\ Fresh(c)
  <2> DEFINE v == cache[c].v
             answer == [Answered(req, v) EXCEPT !.hit = TRUE]
  <2>1. Worth(c, v)
    BY <1>6 DEF VerdictInv, MemoOK, Memo, Fresh, Cached
  <2>2. v \in Verdicts
    BY <2>1 DEF Worth
  <2>3. /\ answer \in RequestRecord /\ answer.st = "answered" /\ answer.v = v /\ answer.hit = TRUE
        /\ answer.cmd = c /\ answer.rule = rule /\ answer.shot = shot
    <3> DEFINE a == Answered(req, v)
    <3> HIDE DEF req, v
    <3>1. /\ a \in RequestRecord /\ a.st = "answered" /\ a.v = v
          /\ a.cmd = c /\ a.rule = rule /\ a.shot = shot
      BY <1>2, <2>2, AnsweredType
    <3>2. answer = [a EXCEPT !.hit = TRUE]
      OBVIOUS
    <3> HIDE DEF a, answer
    <3> QED
      BY <3>1, <3>2 DEF RequestRecord
  <2>4. reqs' = [reqs EXCEPT ![r] = answer] /\ Becomes(memo)
    BY <1>6 DEF Begin
  <2> HIDE DEF v, answer, req, memo
  <2>5. RequestOK(answer)
    BY <2>1, <2>3 DEF RequestOK, AnswerOK, Sound, Worth
  <2> QED
    BY <1>1, <1>3, <2>4, <2>5, AnswerKeeps
<1>7. CASE ~(shot = NoShot /\ Fresh(c))
  <2>1. \/ /\ Kind[c] = "dcsync"
           /\ reqs' = [reqs EXCEPT ![r] = Answered(req, deterministic)]
           /\ Becomes(Put(memo, c, deterministic))
        \/ /\ Kind[c] = "injected"
           /\ reqs' = [reqs EXCEPT ![r] = Answered(req, direct)]
           /\ Becomes(memo)
        \/ /\ Kind[c] = "plain" /\ FirstCall = "none"
           /\ FallBack(r, req, memo)
        \/ /\ Kind[c] = "plain" /\ FirstCall # "none"
           /\ reqs' = [reqs EXCEPT ![r] = req]
           /\ Becomes(memo)
    BY <1>7 DEF Begin
  <2>2. /\ deterministic \in Verdicts /\ deterministic.src = "dcsync"
        /\ AboveFloor(deterministic, c, rule)
    <3> DEFINE o == Opinion("dcsync", 10, TRUE, TRUE)
    <3>1. o \in Verdicts /\ o.src = "dcsync" /\ o.sev = 10 /\ o.shot = FALSE
      BY DEF Opinion, Verdicts, Source, Severity
    <3>2. Heuristic(c, rule).sev \in 1..10
      BY <1>5, HeuristicType DEF Verdicts, Severity
    <3> HIDE DEF o
    <3>3. o.sev >= Heuristic(c, rule).sev
      BY <3>1, <3>2
    <3> DEFINE f == Finalize(o, c, rule, NoShot)
    <3>4. f \in Verdicts /\ f.src = o.src /\ AboveFloor(f, c, rule)
      BY <1>5, <3>1, <3>3, FinalizeSound
    <3>5. f = deterministic
      BY DEF o
    <3> HIDE DEF f, deterministic
    <3> QED
      BY <3>1, <3>4, <3>5
  <2>3. /\ direct \in Verdicts /\ direct.src = "llm-skipped"
        /\ AboveFloor(direct, c, rule)
    <3>1. Heuristic(c, rule) \in Verdicts /\ Heuristic(c, rule).shot = FALSE
          /\ Heuristic(c, rule).sev \in 1..10
      BY <1>5, HeuristicType DEF Verdicts, Severity
    <3>2. /\ skipped \in Verdicts /\ skipped.src = "llm-skipped" /\ skipped.shot = FALSE
          /\ skipped.sev = Heuristic(c, rule).sev
      BY <3>1 DEF Verdicts, Source
    <3> HIDE DEF skipped
    <3>3. skipped.sev >= Heuristic(c, rule).sev
      BY <3>1, <3>2
    <3>4. direct \in Verdicts /\ direct.src = skipped.src /\ AboveFloor(direct, c, rule)
      BY <1>5, <3>2, <3>3, FinalizeSound
    <3> HIDE DEF direct
    <3> QED
      BY <3>2, <3>4
  <2> HIDE DEF req, memo, deterministic, direct
  <2>4. RequestOK(Answered(req, deterministic)) /\ RequestOK(Answered(req, direct))
    BY <1>2, <2>2, <2>3, AnsweredType DEF RequestOK, AnswerOK, Sound
  <2>5. CASE /\ reqs' = [reqs EXCEPT ![r] = Answered(req, deterministic)]
             /\ Becomes(Put(memo, c, deterministic))
    <3>1. Worth(c, deterministic)
      BY <1>5, <2>2, FloorWithoutRules DEF Worth
    <3>2. MemoOK(Put(memo, c, deterministic))
      BY <1>3, <1>4, <2>2, <3>1, PutKeeps
    <3> QED
      BY <1>1, <2>4, <2>5, <3>2, AnswerKeeps
  <2>6. CASE reqs' = [reqs EXCEPT ![r] = Answered(req, direct)] /\ Becomes(memo)
    BY <1>1, <1>3, <2>4, <2>6, AnswerKeeps
  <2>7. CASE FallBack(r, req, memo)
    BY <1>1, <1>2, <1>3, <2>7, FallBackKeeps
  <2>8. CASE FirstCall # "none" /\ reqs' = [reqs EXCEPT ![r] = req] /\ Becomes(memo)
    <3>1. RequestOK(req)
      BY <2>8, FirstCallType, AskedType DEF RequestOK, req
    <3> QED
      BY <1>1, <1>3, <2>8, <3>1, AnswerKeeps
  <2> QED
    BY <2>1, <2>5, <2>6, <2>7, <2>8
<1> QED
  BY <1>6, <1>7

LEMMA CallingIsPending ==
  ASSUME VerdictInv, NEW r \in Request, Calling(r)
  PROVE  reqs[r] \in Pending
BY DEF VerdictInv, Calling, RequestOK, AnswerOK, CallOK, Idle

LEMMA ReplyKeeps ==
  ASSUME VerdictInv, NEW r \in Request, ModelReplies(r)
  PROVE  VerdictInv'
<1> DEFINE req == reqs[r]
           h == Heuristic(req.cmd, req.rule)
<1>1. PICK m \in ModelAnswers : Conclude(r, req, Merge(m, h), Memo)
  BY DEF ModelReplies
<1>2. req \in Pending /\ UNCHANGED <<backend, now>> /\ MemoOK(Memo)
  BY CallingIsPending DEF ModelReplies, VerdictInv
<1>3. h \in Verdicts
  BY <1>2, HeuristicType DEF Pending, RuleOrNone
<1>4. m \in Verdicts /\ m.src \in {"llm", "llm-invalid"} /\ m.shot = FALSE
  BY AnswerType
<1> DEFINE v == Merge(m, h)
<1>5. v \in Verdicts /\ v.src \in {"llm", "llm-invalid"} /\ v.shot = FALSE /\ v.sev >= h.sev
  BY <1>3, <1>4, MergeType
<1>6. Conclude(r, req, v, Memo)
  BY <1>1
<1> HIDE DEF v
<1> QED
  BY <1>2, <1>5, <1>6, ConcludeKeeps

LEMMA FailKeeps ==
  ASSUME VerdictInv, NEW r \in Request, ModelFails(r)
  PROVE  VerdictInv'
<1>1. reqs[r] \in Pending /\ UNCHANGED <<backend, now>> /\ MemoOK(Memo)
  BY CallingIsPending DEF ModelFails, VerdictInv
<1>2. UNCHANGED <<cache, order>> => Becomes(Memo)
  BY DEF Becomes, Memo
<1>3. CASE reqs' = [reqs EXCEPT ![r] = Idle] /\ UNCHANGED <<cache, order>>
  BY <1>1, <1>2, <1>3, AnswerKeeps DEF RequestOK
<1>4. CASE reqs' = [reqs EXCEPT ![r].st = "openai"] /\ UNCHANGED <<cache, order>>
  <2> DEFINE next == [reqs[r] EXCEPT !.st = "openai"]
  <2>1. next \in Pending /\ next \in RequestRecord
    BY <1>1 DEF Pending, RequestRecord
  <2>2. reqs' = [reqs EXCEPT ![r] = next]
    BY <1>4
  <2> HIDE DEF next
  <2> QED
    BY <1>1, <1>2, <1>4, <2>1, <2>2, AnswerKeeps DEF RequestOK, CallOK
<1>5. CASE FallBack(r, reqs[r], Memo)
  BY <1>1, <1>5, FallBackKeeps
<1> QED
  BY <1>3, <1>4, <1>5 DEF ModelFails

LEMMA InvInit == Init => VerdictInv
<1> SUFFICES ASSUME Init PROVE VerdictInv
  OBVIOUS
<1>1. backend \in Backends /\ now \in 0..MaxTime
  BY VerdictAssumption DEF Init
<1>2. cache = [c \in Cmd |-> NoEntry] /\ order = <<>> /\ reqs = [r \in Request |-> Idle]
  BY DEF Init
<1>3. MemoOK([cache |-> cache, order |-> order])
  <2>1. /\ cache \in [Cmd -> {NoEntry} \cup Entry] /\ order \in Seq(Cmd) /\ Len(order) = 0
        /\ \A c \in Cmd : cache[c] = NoEntry
    BY <1>2
  <2>2. \A c \in Cmd : cache[c] # NoEntry <=> \E i \in 1..Len(order) : order[i] = c
    BY <2>1
  <2>3. \A i, j \in 1..Len(order) : order[i] = order[j] => i = j
    BY <2>1
  <2>4. Len(order) <= Cap
    BY <2>1, VerdictAssumption
  <2>5. \A c \in Cmd : cache[c] # NoEntry => Worth(c, cache[c].v)
    BY <2>1
  <2> QED
    BY <2>1, <2>2, <2>3, <2>4, <2>5, MemoIntro
<1> QED
  BY <1>1, <1>2, <1>3 DEF VerdictInv, Memo, RequestOK

LEMMA InvNext == VerdictInv /\ [Next]_vars => VerdictInv'
<1> SUFFICES ASSUME VerdictInv, [Next]_vars PROVE VerdictInv'
  OBVIOUS
<1>1. ASSUME NEW r \in Request, NEW c \in Cmd, NEW rule \in RuleSevs, NEW shot \in Shots,
             Begin(r, c, rule, shot)
      PROVE  VerdictInv'
  BY <1>1, BeginKeeps
<1>2. ASSUME NEW r \in Request, ModelReplies(r) PROVE VerdictInv'
  BY <1>2, ReplyKeeps
<1>3. ASSUME NEW r \in Request, ModelFails(r) PROVE VerdictInv'
  BY <1>3, FailKeeps
<1>4. ASSUME NEW r \in Request, Deliver(r) PROVE VerdictInv'
  <2>1. Becomes(Memo) /\ MemoOK(Memo) /\ UNCHANGED <<backend, now>>
    BY <1>4 DEF Deliver, Becomes, Memo, VerdictInv
  <2> QED
    BY <1>4, <2>1, AnswerKeeps DEF Deliver, RequestOK
<1>5. CASE Tick
  <2>1. now \in Nat /\ now' = now + 1 /\ now' \in 0..MaxTime /\ UNCHANGED <<backend, cache, order, reqs>>
    BY <1>5, VerdictAssumption DEF Tick, VerdictInv
  <2>2. Entry \subseteq Entry'
    BY <2>1 DEF Entry
  <2>3. MemoOK(Memo)'
    BY <2>1, <2>2 DEF VerdictInv, MemoOK, Memo
  <2> QED
    BY <2>1, <2>3 DEF VerdictInv
<1>6. CASE UNCHANGED vars
  BY <1>6 DEF vars, VerdictInv, Memo, MemoOK, Entry
<1> QED
  BY <1>1, <1>2, <1>3, <1>4, <1>5, <1>6 DEF Next

LEMMA Invariance == Spec => []VerdictInv
BY InvInit, InvNext, PTL DEF Spec

LEMMA AnswerIsSound ==
  ASSUME VerdictInv, NEW r \in Request, reqs[r].st = "answered"
  PROVE  Sound(reqs[r])
<1>1. RequestOK(reqs[r])
  BY DEF VerdictInv
<1>2. reqs[r] # Idle
  BY DEF Idle
<1>3. ~CallOK(reqs[r])
  BY DEF CallOK, Pending
<1> QED
  BY <1>1, <1>2, <1>3 DEF RequestOK, AnswerOK

(***************************************************************************)
(* The theorems.                                                           *)
(***************************************************************************)

\* The variables keep their types whatever is asked and answered.
THEOREM TypeCorrect == Spec => []TypeOK
<1>1. VerdictInv => TypeOK
  BY DEF VerdictInv, MemoOK, Memo, Entry, TypeOK
<1> QED
  BY <1>1, Invariance, PTL

\* The verdict cache and its queue agree and stay within LLM_ANALYZE_CACHE, for any
\* number of commands and of requests that miss and store at the same time.
THEOREM CacheConsistent == Spec => []CacheMatchesOrder
<1>1. VerdictInv => CacheMatchesOrder
  BY DEF VerdictInv, MemoOK, Memo, CacheMatchesOrder, Cached
<1> QED
  BY <1>1, Invariance, PTL

\* A verdict that no model took part in never comes from the cache.
THEOREM NoDegradedReplay == Spec => []DegradedOnlyWithoutModel
<1>1. VerdictInv => DegradedOnlyWithoutModel
  <2> SUFFICES ASSUME VerdictInv, NEW r \in Request, reqs[r].st = "answered"
               PROVE  reqs[r].v.src \in {"heuristic", "llm-invalid"}
                      => ~reqs[r].hit /\ (reqs[r].v.src = "heuristic" => reqs[r].failed)
    BY DEF DegradedOnlyWithoutModel
  <2>1. Sound(reqs[r])
    BY AnswerIsSound
  <2> QED
    BY <2>1 DEF Sound
<1> QED
  BY <1>1, Invariance, PTL

\* No answer of a model, of the cache or of an analyst takes a verdict below the
\* deterministic one, but where an analyst clears what the engine has not confirmed.
THEOREM FloorIsKept == Spec => []FloorHolds
<1>1. VerdictInv => FloorHolds
  <2> SUFFICES ASSUME VerdictInv, NEW r \in Request, reqs[r].st = "answered"
               PROVE  \/ ClearedByAnalyst(r) /\ Floor(r).sev < 7
                      \/ /\ reqs[r].v.sev >= Floor(r).sev
                         /\ Floor(r).mal /\ ~reqs[r].v.mal => reqs[r].v.abstained
    BY DEF FloorHolds
  <2>1. Sound(reqs[r])
    BY AnswerIsSound
  <2> QED
    BY <2>1 DEF Sound, AboveFloor, ClearedByAnalyst, Floor
<1> QED
  BY <1>1, Invariance, PTL
=============================================================================
