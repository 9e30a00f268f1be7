------------------------------ MODULE HuntService ------------------------------
(***************************************************************************)
(* The conversational hunt of main.py: the handlers of /api/hunt/nl,       *)
(* /api/hunt/execute and /api/llm/hypotheses over the session cache, the   *)
(* token budget and the conversation memory, and the page that asks.       *)
(*                                                                         *)
(* The server is one asyncio event loop: a handler is atomic between two   *)
(* awaits, and anything may run while it awaits a model or a worker        *)
(* thread.  hunt_nl looks its dataset up and pays before its await, but    *)
(* reads and writes the conversation memory after it.  A hunt finds some   *)
(* subset of its base set, at most MaxResults events: which one is the     *)
(* executor's business (HuntIR).  The events of a dataset are numbered in  *)
(* the order of their times, in which every result lists them (which of    *)
(* two events of one time comes first does not matter here); a result is   *)
(* the set of its numbers.  The memory keeps all of a result, an answer    *)
(* carries the first of it, and the page shows fewer.                      *)
(***************************************************************************)
EXTENDS Integers, FiniteSets, Sequences

CONSTANTS
    MaxMinted, MaxTime, MaxSessions, MaxEvents, SessionTtl, Sizes,  \* SessionStore
    PerRequest, PerSession, BudgetTtl,                              \* TokenBudget
    Costs,              \* token estimates of the questions asked
    HypothesisCost,     \* the flat price of a hypothesis board, 1500
    Request,            \* requests that can be in flight at once
    Conv,               \* conversation ids
    NoConv,             \* a request without a conversation id
    ConvCap,            \* _CONV_CAP
    ConvKeep,           \* _CONV_KEEP
    MaxResults,         \* MAX_RESULTS of the executor
    Returned,           \* events an answer carries at most, 200
    Rows                \* events the page shows of an answer at most, 50

ASSUME HuntServiceAssumption ==
    /\ {MaxMinted, MaxTime, MaxSessions, MaxEvents, SessionTtl} \subseteq Nat
    /\ {PerRequest, PerSession, BudgetTtl} \subseteq Nat
    /\ Sizes \subseteq Nat
    /\ Costs \subseteq Nat \ {0}
    /\ ConvCap \in Nat \ {0}
    /\ MaxResults \in Nat
    /\ ConvKeep \in Nat
    /\ MaxResults <= ConvKeep       \* 1000 and 5000: the slice never shortens a result
    /\ {Returned, Rows} \subseteq Nat /\ Rows <= Returned
    /\ HypothesisCost \in Nat \ {0}
    /\ NoConv \notin Conv

VARIABLES
    now, minted, live, accessed, size, hasFindings,     \* session_store
    open, tokens, chargedAt, total, before,             \* token_budget
    memory,     \* _conv_prev in insertion order: records of a key and its indices
    reqs,       \* what each request is doing, and the answer it computed
    finished,   \* history: the latest result of each remembered conversation
    shown,      \* history: the whole result behind the latest answer on the screen of each
    screen      \* history: the events of that result the page shows

storeVars == <<minted, live, accessed, size, hasFindings>>
budgetVars == <<open, tokens, chargedAt, total, before>>
history == <<finished, shown, screen>>
vars == <<now, storeVars, budgetVars, memory, reqs, history>>

Session == 1..MaxMinted
Store == INSTANCE SessionStore WITH Ttl <- SessionTtl
Budget == INSTANCE TokenBudget WITH Ttl <- BudgetTtl, Prices <- {HypothesisCost}

Event == 0..(MaxEvents - 1)
Key == Session \X Conv

\* What the history knows of a conversation: no result yet, a result, or (on the
\* screen) that an answer was lost on its way.
Nothing == [kind |-> "nothing", idx |-> {}]
Found(R) == [kind |-> "found", idx |-> R]
Garbled == [kind |-> "garbled", idx |-> {}]
History == [kind : {"nothing", "found", "garbled"}, idx : SUBSET Event]

Idle == [st |-> "idle"]

Init ==
    /\ Store!Init
    /\ Budget!Init
    /\ memory = <<>>
    /\ reqs = [r \in Request |-> Idle]
    /\ finished = [k \in Key |-> Nothing]
    /\ shown = [k \in Key |-> Nothing]
    /\ screen = [k \in Key |-> {}]

(***************************************************************************)
(* The conversation memory: _conv_key, _conv_remember, _conv_recall.       *)
(***************************************************************************)

\* Variant with a planted error: conversations of all the sessions share keys.
KeyOfConversation(s, c) == IF c = NoConv THEN {} ELSE {<<1, c>>}

\* The key of a conversation; none without a conversation id.
ConvKey(s, c) == IF c = NoConv THEN {} ELSE {<<s, c>>}

Keys(mem) == {mem[i].key : i \in DOMAIN mem}

IndicesOf(k) == (CHOOSE e \in {memory[i] : i \in DOMAIN memory} : e.key = k).idx

\* Variant with a planted error: one conversation too many stays.
TrimLate(mem) == IF Len(mem) > ConvCap + 1 THEN Tail(mem) ELSE mem

\* FIFO eviction.  The loop pops at most once: one key was added.
Trim(mem) == IF Len(mem) > ConvCap THEN Tail(mem) ELSE mem

\* A key that is already there is rewritten in place and keeps its turn.
Remember(s, c, R) ==
    memory' =
        IF ConvKey(s, c) = {} THEN memory
        ELSE LET k == CHOOSE x \in ConvKey(s, c) : TRUE IN
             Trim(IF k \in Keys(memory)
                  THEN [i \in DOMAIN memory |->
                          IF memory[i].key = k THEN [key |-> k, idx |-> R] ELSE memory[i]]
                  ELSE Append(memory, [key |-> k, idx |-> R]))

\* Nothing remembered and nothing found last time are both the empty set: the
\* code answers None for either.
Recall(s, c) ==
    UNION {{i \in IndicesOf(k) : 0 <= i /\ i < size[s]} : k \in ConvKey(s, c) \cap Keys(memory)}

\* Variant with a planted error: a follow-up ignores the previous result.
AllEvents(s, c, followUp) == 0..(size[s] - 1)

\* What execute searches: a follow-up only looks at a previous result, if any.
Base(s, c, followUp) ==
    IF followUp /\ Recall(s, c) # {} THEN Recall(s, c) ELSE 0..(size[s] - 1)

(***************************************************************************)
(* The client's side of a request.                                         *)
(***************************************************************************)

\* The page asks one question at a time in a conversation ("busy"), until it
\* gives up on an answer.
Waiting(s, c) ==
    \E r \in Request : /\ reqs[r].st # "idle" /\ reqs[r].sid = s
                       /\ reqs[r].conv = c /\ reqs[r].awaited

MayAsk(r, s, c) == reqs[r].st = "idle" /\ (c = NoConv \/ ~Waiting(s, c))

Asked(st, s, c) ==
    [st |-> st, sid |-> s, conv |-> c, awaited |-> TRUE, followUp |-> FALSE, idx |-> {},
     results |-> {}]

\* The first n events of result R.
First(R, n) == {i \in R : Cardinality({j \in R : j < i}) < n}

\* The answer to a hunt that found R carries the first of it; idx and followUp are kept
\* to state properties.  Outside of conversations no later request depends on what an
\* answer carries, and it is left out.
Answer(s, c, followUp, R) ==
    IF c = NoConv THEN Asked("answered", s, c)
    ELSE [st |-> "answered", sid |-> s, conv |-> c, awaited |-> TRUE, followUp |-> followUp,
          idx |-> R, results |-> First(R, Returned)]

\* Execute the hunt and remember all it found.  An answer nobody waits for is dropped by
\* the HTTP server.
RunHunt(r, s, c, awaited) ==
    \E followUp \in BOOLEAN : \E R \in SUBSET Base(s, c, followUp) :
        /\ Cardinality(R) <= MaxResults
        /\ Remember(s, c, R)
        /\ reqs' = [reqs EXCEPT ![r] =
                IF awaited THEN Answer(s, c, followUp, R) ELSE Idle]
        /\ finished' = [k \in Key |-> IF k = <<s, c>> THEN Found(R)
                                      ELSE IF k \in Keys(memory') THEN finished[k]
                                      ELSE Nothing]
        /\ UNCHANGED <<shown, screen>>

(***************************************************************************)
(* /api/hunt/nl                                                            *)
(***************************************************************************)

\* Variant with a planted error: the budget is charged before the lookup.
PayFirst(r, s, c, cost, st) ==
    /\ Store!Get(s)
    /\ Budget!Charge(s, cost)
    /\ reqs' = IF Store!Hit(s) /\ Budget!Grants(s, cost)
               THEN [reqs EXCEPT ![r] = Asked(st, s, c)] ELSE reqs
    /\ UNCHANGED <<memory, history>>

\* 410 when the dataset is gone, 429 when its budget is, else go on to st.
Pay(r, s, c, cost, st) ==
    /\ Store!Get(s)
    /\ IF Store!Hit(s)
       THEN /\ Budget!Charge(s, cost)
            /\ reqs' = IF Budget!Grants(s, cost)
                       THEN [reqs EXCEPT ![r] = Asked(st, s, c)] ELSE reqs
       ELSE UNCHANGED <<budgetVars, reqs>>
    /\ UNCHANGED <<memory, history>>

\* Up to the await of translate_nl_to_ir.  A question over the request cap
\* leaves with 429 before it is charged.
HuntBegin(r, s, c, cost) ==
    /\ MayAsk(r, s, c)
    /\ IF Budget!WithinRequestCap(cost)
       THEN Pay(r, s, c, cost, "translating")
       ELSE Store!Get(s) /\ UNCHANGED <<budgetVars, memory, reqs, history>>

\* After the await.  The events were captured before it, so an evicted dataset
\* still answers.
HuntFinish(r) ==
    /\ reqs[r].st = "translating"
    /\ RunHunt(r, reqs[r].sid, reqs[r].conv, reqs[r].awaited)
    /\ UNCHANGED <<now, storeVars, budgetVars>>

(***************************************************************************)
(* /api/hunt/execute: no model, no budget and no await.  No page of the    *)
(* repository calls it; whoever does is taken to show its answers as the   *)
(* page shows those of /api/hunt/nl.                                       *)
(***************************************************************************)

\* An IR that validate_ir empties leaves with 422; one without the dataset with 410.
HuntExecute(r, s, c, validIR) ==
    /\ MayAsk(r, s, c)
    /\ Store!Get(s)
    /\ IF Store!Hit(s) /\ validIR
       THEN RunHunt(r, s, c, TRUE)
       ELSE UNCHANGED <<memory, reqs, history>>
    /\ UNCHANGED budgetVars

(***************************************************************************)
(* /api/llm/hypotheses                                                     *)
(***************************************************************************)

\* Up to the first await that suspends: the pre-scan does not.  Findings that
\* are not cached are recomputed in a worker thread; looking them up refreshes
\* a dataset that get just refreshed.
HypothesesBegin(r, s) ==
    /\ reqs[r].st = "idle"
    /\ Pay(r, s, NoConv, HypothesisCost, IF hasFindings[s] THEN "generating" ELSE "evaluating")

HypothesesEvaluated(r) ==
    /\ reqs[r].st = "evaluating"
    /\ reqs' = [reqs EXCEPT ![r].st = "generating"]
    /\ UNCHANGED <<now, storeVars, budgetVars, memory, history>>

\* After the model: every validation query runs on the captured events, outside
\* any conversation.
HypothesesFinish(r) ==
    /\ reqs[r].st = "generating"
    /\ reqs' = [reqs EXCEPT ![r] = IF reqs[r].awaited THEN [@ EXCEPT !.st = "answered"] ELSE Idle]
    /\ UNCHANGED <<now, storeVars, budgetVars, memory, history>>

(***************************************************************************)
(* Around the handlers.                                                    *)
(***************************************************************************)

\* The answer reaches the page, which shows the first of its events.
Deliver(r) ==
    /\ reqs[r].st = "answered"
    /\ reqs' = [reqs EXCEPT ![r] = Idle]
    /\ shown' = [k \in Key |->
                    IF k = <<reqs[r].sid, reqs[r].conv>> /\ shown[k] # Garbled
                    THEN Found(reqs[r].idx) ELSE shown[k]]
    /\ screen' = [k \in Key |->
                    IF k = <<reqs[r].sid, reqs[r].conv>> /\ shown[k] # Garbled
                    THEN First(reqs[r].results, Rows) ELSE screen[k]]
    /\ UNCHANGED <<now, storeVars, budgetVars, memory, finished>>

\* The fetch fails on the page; a handler that still runs does not notice.
Lose(r) ==
    /\ reqs[r].st # "idle"
    /\ reqs[r].awaited
    /\ reqs' = [reqs EXCEPT ![r] =
                    IF @.st = "answered" THEN Idle ELSE [@ EXCEPT !.awaited = FALSE]]
    /\ shown' = [k \in Key |->
                    IF k = <<reqs[r].sid, reqs[r].conv>> THEN Garbled ELSE shown[k]]
    /\ screen' = [k \in Key |->
                    IF k = <<reqs[r].sid, reqs[r].conv>> THEN {} ELSE screen[k]]
    /\ UNCHANGED <<now, storeVars, budgetVars, memory, finished>>

\* The end of the upload pipeline: the parsed events are cached.
Upload(n, anyFinding) ==
    /\ Store!Put(n, anyFinding)
    /\ UNCHANGED <<budgetVars, memory, reqs, history>>

Tick ==
    /\ Budget!Tick
    /\ UNCHANGED <<storeVars, memory, reqs, history>>

Next ==
    \/ \E n \in Sizes, anyFinding \in BOOLEAN : Upload(n, anyFinding)
    \/ \E r \in Request, s \in Session, c \in Conv \cup {NoConv} :
          \/ \E cost \in Costs : HuntBegin(r, s, c, cost)
          \/ \E validIR \in BOOLEAN : HuntExecute(r, s, c, validIR)
    \/ \E r \in Request, s \in Session : HypothesesBegin(r, s)
    \/ \E r \in Request :
          \/ HuntFinish(r)
          \/ HypothesesEvaluated(r)
          \/ HypothesesFinish(r)
          \/ Deliver(r)
          \/ Lose(r)
    \/ Tick

Spec == Init /\ [][Next]_vars

(***************************************************************************)
(* Properties.                                                             *)
(***************************************************************************)

InFlight == {"translating", "evaluating", "generating", "answered"}

RequestRecord ==
    [st : InFlight, sid : Session, conv : Conv \cup {NoConv}, awaited : BOOLEAN,
     followUp : BOOLEAN, idx : SUBSET Event, results : SUBSET Event]

TypeOK ==
    /\ Store!TypeOK
    /\ Budget!TypeOK
    /\ memory \in Seq([key : Key, idx : SUBSET Event])
    /\ Len(memory) <= ConvCap
    /\ reqs \in [Request -> RequestRecord \cup {Idle}]
    /\ finished \in [Key -> History]
    /\ shown \in [Key -> History]
    /\ screen \in [Key -> SUBSET Event]

\* What is remembered for a conversation is the result of its own latest hunt, of
\* its own dataset: no other session leaks indices into it (main.py:524-527).
MemoryIsLatestAnswer ==
    \A i \in DOMAIN memory :
        /\ finished[memory[i].key] = Found(memory[i].idx)
        /\ memory[i].idx \subseteq 0..(size[memory[i].key[1]] - 1)
        /\ \A j \in DOMAIN memory : memory[j].key = memory[i].key => j = i

\* Does request r compute its answer in this step?
Answers(r) == reqs[r].st # "answered" /\ reqs'[r].st = "answered"

AsksFurther(r) == Answers(r) /\ reqs'[r].followUp /\ reqs'[r].conv # NoConv

\* The latest answer in the conversation whose hunt r ran, before the step, and the
\* part of it the page shows.
Screen(r) == shown[<<reqs'[r].sid, reqs'[r].conv>>]
OnScreen(r) == screen[<<reqs'[r].sid, reqs'[r].conv>>]

\* A follow-up whose conversation lost no answer searches nothing but what the latest
\* answer found, as long as it found something and the memory was not full: neither
\* other conversations, nor datasets, nor the eviction of the dataset itself change
\* what it refines.  These are the events on the analyst's screen only if they were few
\* enough for it: of more the page shows a part (main.py:813, nlhunt_panel.js:232), and
\* the follow-up searches all.
FollowUpNarrows ==
    [][\A r \in Request :
          /\ AsksFurther(r)
          /\ Screen(r).kind = "found"
          /\ Screen(r).idx # {}
          /\ <<reqs'[r].sid, reqs'[r].conv>> \in Keys(memory) \/ Len(memory) < ConvCap
          => /\ reqs'[r].idx \subseteq Screen(r).idx
             /\ Cardinality(Screen(r).idx) <= Rows => reqs'[r].idx \subseteq OnScreen(r)]_vars

\* Only a dataset that is still cached is ever charged, so requests with made-up
\* or expired ids cannot grow the budget's table.
ChargedOnlyWhileCached ==
    [][\A s \in Session :
          s \in open' \ open \/ total'[s] # total[s]
          => s \in live /\ now - accessed[s] <= SessionTtl]_vars

\* What the source claims of a follow-up ("scope the base event set to the
\* previous result on follow-ups", hunt_ir.py:229): also after an answer that found
\* nothing.  The code searches the whole dataset then.
FollowUpIsScoped ==
    [][\A r \in Request :
          /\ AsksFurther(r)
          /\ Screen(r).kind = "found"
          /\ <<reqs'[r].sid, reqs'[r].conv>> \in Keys(memory)
          => reqs'[r].idx \subseteq Screen(r).idx]_vars
=============================================================================
