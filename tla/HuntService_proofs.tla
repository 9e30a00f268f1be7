--------------------------- MODULE HuntService_proofs ---------------------------
(***************************************************************************)
(* Proofs about the conversational hunt, for any number of datasets,       *)
(* requests and conversations and any sizes of the stores: the session     *)
(* cache inside the service behaves as SessionStore says, only cached      *)
(* datasets are charged, a conversation remembers its own latest hunt, and *)
(* a follow-up refines what the latest answer found.                       *)
(***************************************************************************)
EXTENDS HuntService, FiniteSetTheorems, TLAPS

(***************************************************************************)
(* The session cache and the budget inside the service.                    *)
(***************************************************************************)

LEMMA Settings ==
  /\ MaxMinted \in Nat /\ MaxTime \in Nat /\ MaxSessions \in Nat /\ MaxEvents \in Nat
  /\ SessionTtl \in Nat /\ PerRequest \in Nat /\ PerSession \in Nat /\ BudgetTtl \in Nat
  /\ Sizes \subseteq Nat /\ Costs \subseteq Nat \ {0} /\ HypothesisCost \in Nat \ {0}
  /\ ConvCap \in Nat \ {0} /\ NoConv \notin Conv
  /\ Returned \in Nat /\ Rows \in Nat /\ Rows <= Returned
BY HuntServiceAssumption

\* A slice of a result is a part of it, and all of it if it is short.
LEMMA FirstOf ==
  ASSUME NEW R \in SUBSET Event, NEW n \in Nat
  PROVE  /\ First(R, n) \in SUBSET R /\ First(R, n) \in SUBSET Event
         /\ First({}, n) = {}
         /\ Cardinality(R) <= n => First(R, n) = R
<1>1. IsFiniteSet(R) /\ R \subseteq Int
  <2>1. IsFiniteSet(Event) /\ Event \subseteq Int
    BY Settings, FS_Interval DEF Event
  <2> QED
    BY <2>1, FS_Subset
<1>2. ASSUME Cardinality(R) <= n, NEW i \in R
      PROVE  Cardinality({j \in R : j < i}) < n
  <2> DEFINE lower == {j \in R : j < i}
  <2>1. lower \in SUBSET R /\ i \notin lower
    BY <1>1
  <2>2. lower # R
    BY <2>1
  <2> HIDE DEF lower
  <2>3. /\ IsFiniteSet(lower) /\ Cardinality(lower) <= Cardinality(R)
        /\ Cardinality(lower) # Cardinality(R)
    BY <1>1, <2>1, <2>2, FS_Subset
  <2>4. Cardinality(lower) \in Nat /\ Cardinality(R) \in Nat
    BY <1>1, <2>3, FS_CardinalityType
  <2>5. Cardinality(lower) < n
    BY <1>2, <2>3, <2>4
  <2> QED
    BY <2>5 DEF lower
<1> QED
  BY <1>2 DEF First

\* An answer in a conversation carries what the hunt found; outside, nothing.
LEMMA AnswerIs ==
  ASSUME NEW s, NEW c, NEW followUp, NEW R
  PROVE  /\ c = NoConv => Answer(s, c, followUp, R) =
               [st |-> "answered", sid |-> s, conv |-> c, awaited |-> TRUE,
                followUp |-> FALSE, idx |-> {}, results |-> {}]
         /\ c # NoConv => Answer(s, c, followUp, R) =
               [st |-> "answered", sid |-> s, conv |-> c, awaited |-> TRUE,
                followUp |-> followUp, idx |-> R, results |-> First(R, Returned)]
BY DEF Answer, Asked

\* What is not forgotten is known.
LEMMA SweepsOnly ==
  /\ Store!Unexpired \subseteq live
  /\ \A kept, acc, s : Store!Survivors(kept, acc, s) \subseteq kept
BY DEF Store!Unexpired, Store!Survivors

\* Datasets keep their numbers of events.
SizesStay ==
    /\ minted \in Nat /\ minted' \in Nat /\ minted <= minted'
    /\ \A s \in 1..minted : size'[s] = size[s]

LEMMA PutKeeps ==
  ASSUME Store!TypeOK, NEW n \in Sizes, NEW anyFinding \in BOOLEAN, Store!Put(n, anyFinding)
  PROVE  Store!TypeOK' /\ SizesStay
<1> USE Settings
<1> DEFINE s == minted + 1
           acc == [accessed EXCEPT ![s] = now]
           kept == IF n > MaxEvents THEN MaxEvents ELSE n
<1>1. /\ minted \in 0..MaxMinted /\ now \in 0..MaxTime /\ minted < MaxMinted
      /\ minted' = minted + 1 /\ now' = now
  BY DEF Store!Put, Store!TypeOK
<1>2. s \in Store!Session /\ s \in 1..MaxMinted
  BY <1>1 DEF Store!Session
<1>3. live' \subseteq 1..minted'
  <2>1. live' = Store!Survivors(Store!Unexpired \cup {s}, acc, s)
    BY DEF Store!Put
  <2>2. live' \subseteq Store!Unexpired \cup {s}
    BY <2>1, SweepsOnly
  <2> QED
    BY <1>1, <2>2, SweepsOnly DEF Store!TypeOK
<1>4. accessed' = acc
  BY DEF Store!Put
<1>5. accessed' \in [Store!Session -> -1..MaxTime]
  <2>1. accessed \in [Store!Session -> -1..MaxTime] /\ now \in -1..MaxTime
    BY DEF Store!TypeOK
  <2> HIDE DEF s
  <2> QED
    BY <1>4, <2>1
<1>6. \A t \in Store!Session :
         IF t <= minted' THEN accessed'[t] \in 0..now' ELSE accessed'[t] = Store!Never
  BY <1>1, <1>2, <1>4 DEF Store!TypeOK, Store!Session
<1>7. size' = [size EXCEPT ![s] = kept] /\ kept \in 0..MaxEvents
  BY DEF Store!Put
<1> HIDE DEF kept
<1>8. size' \in [Store!Session -> 0..MaxEvents] /\ \A t \in 1..minted : size'[t] = size[t]
  <2>1. size \in [Store!Session -> 0..MaxEvents]
    BY DEF Store!TypeOK
  <2>2. \A t \in 1..minted : t # s /\ t \in Store!Session
    BY <1>1 DEF Store!Session
  <2> HIDE DEF s
  <2> QED
    BY <1>7, <2>1, <2>2
<1>9. hasFindings' \in [Store!Session -> BOOLEAN]
  BY DEF Store!Put, Store!TypeOK
<1> QED
  BY <1>1, <1>3, <1>5, <1>6, <1>8, <1>9 DEF Store!TypeOK, SizesStay

LEMMA GetKeeps ==
  ASSUME Store!TypeOK, NEW s \in Session, Store!Get(s)
  PROVE  Store!TypeOK' /\ SizesStay
<1> USE Settings
<1>1. live' \subseteq 1..minted' /\ now \in 0..MaxTime /\ minted \in 0..MaxMinted
      /\ UNCHANGED <<now, minted, size, hasFindings>>
  BY SweepsOnly DEF Store!Get, Store!TypeOK
<1>2. accessed' \in [Store!Session -> -1..MaxTime]
  <2>1. accessed \in [Store!Session -> -1..MaxTime] /\ now \in -1..MaxTime
    BY DEF Store!TypeOK
  <2> QED
    BY <2>1 DEF Store!Get
<1>3. \A t \in Store!Session :
         IF t <= minted THEN accessed'[t] \in 0..now ELSE accessed'[t] = Store!Never
  <2>1. Store!Hit(s) => s <= minted
    BY SweepsOnly, <1>1 DEF Store!Hit, Store!TypeOK
  <2>2. \A t \in Store!Session :
           IF t <= minted THEN accessed[t] \in 0..now ELSE accessed[t] = Store!Never
    BY DEF Store!TypeOK
  <2>3. accessed \in [Store!Session -> -1..MaxTime]
    BY DEF Store!TypeOK
  <2>4. accessed' = [accessed EXCEPT ![s] = now] \/ accessed' = accessed
    BY DEF Store!Get
  <2>5. accessed' = [accessed EXCEPT ![s] = now] => s <= minted \/ accessed' = accessed
    BY <2>1 DEF Store!Get
  <2> QED
    BY <1>1, <2>2, <2>3, <2>4, <2>5
<1> QED
  BY <1>1, <1>2, <1>3 DEF Store!TypeOK, SizesStay

LEMMA StoreTickKeeps ==
  ASSUME Store!TypeOK, Tick
  PROVE  Store!TypeOK' /\ SizesStay
<1>1. /\ UNCHANGED <<minted, live, accessed, size, hasFindings>>
      /\ now < MaxTime /\ now' = now + 1
  BY DEF Tick, Budget!Tick, storeVars
<1>2. now \in 0..MaxTime /\ now' \in 0..MaxTime /\ minted \in 0..MaxMinted
  BY <1>1, Settings DEF Store!TypeOK
<1>3. \A s \in Store!Session :
         IF s <= minted THEN accessed[s] \in 0..now' ELSE accessed[s] = Store!Never
  BY <1>1, <1>2, Settings DEF Store!TypeOK
<1> QED
  BY <1>1, <1>2, <1>3, Settings DEF Store!TypeOK, SizesStay

LEMMA StoreStays ==
  ASSUME Store!TypeOK, UNCHANGED <<now, storeVars>>
  PROVE  Store!TypeOK' /\ SizesStay
BY Settings DEF storeVars, Store!TypeOK, SizesStay

LEMMA ChargeKeeps ==
  ASSUME Budget!TypeOK, NEW s \in Session, NEW cost \in Nat, Budget!Charge(s, cost)
  PROVE  Budget!TypeOK'
<1> USE Settings
<1>1. Budget!Fresh \subseteq open /\ Budget!Balance(s) \in 0..PerSession /\ now \in 0..MaxTime
  BY DEF Budget!TypeOK, Budget!Fresh, Budget!Balance
<1>2. Budget!Balance(s) + (IF Budget!Grants(s, cost) THEN cost ELSE 0) \in 0..PerSession
  BY <1>1 DEF Budget!Grants
<1>3. open' \subseteq Session /\ tokens' \in [Session -> 0..PerSession]
  BY <1>1, <1>2 DEF Budget!Charge, Budget!TypeOK
<1>4. Budget!ChargedAt(s, cost) \in 0..now
  BY <1>1 DEF Budget!ChargedAt, Budget!TypeOK, Budget!Fresh
<1>5. chargedAt' \in [Session -> 0..MaxTime] /\ \A t \in Session : chargedAt'[t] <= now'
  BY <1>1, <1>4 DEF Budget!Charge, Budget!TypeOK
<1>6. \A t \in Session \ open' : tokens'[t] = 0 /\ chargedAt'[t] = 0
  BY DEF Budget!Charge
<1>7. total' \in [Session -> Nat]
  <2>1. total \in [Session -> Nat] /\ total[s] + cost \in Nat
    BY DEF Budget!TypeOK
  <2>2. total' = [total EXCEPT ![s] = total[s] + cost] \/ total' = total
    BY DEF Budget!Charge
  <2> QED
    BY <2>1, <2>2
<1>8. now' = now /\ before' = before
  BY DEF Budget!Charge
<1> QED
  BY <1>1, <1>3, <1>5, <1>6, <1>7, <1>8 DEF Budget!TypeOK

LEMMA BudgetTickKeeps ==
  ASSUME Budget!TypeOK, Budget!Tick
  PROVE  Budget!TypeOK'
<1>1. before' \in [Session -> [0..MaxTime -> Nat]]
  BY Settings DEF Budget!Tick, Budget!TypeOK
<1> QED
  BY <1>1, Settings DEF Budget!Tick, Budget!TypeOK

LEMMA BudgetStays ==
  ASSUME Budget!TypeOK, UNCHANGED <<now, budgetVars>>
  PROVE  Budget!TypeOK'
BY DEF budgetVars, Budget!TypeOK

(***************************************************************************)
(* The conversation memory.                                                *)
(***************************************************************************)

Entry == [key : Key, idx : SUBSET Event]

\* A queue within its cap, of the conversations of known datasets, once each.
MemoryOK ==
    /\ memory \in Seq(Entry)
    /\ Len(memory) <= ConvCap
    /\ \A i, j \in DOMAIN memory : memory[i].key = memory[j].key => i = j
    /\ \A i \in DOMAIN memory : memory[i].key[1] \in 1..minted

LEMMA KeyOf ==
  ASSUME NEW s, NEW c
  PROVE  ConvKey(s, c) = IF c = NoConv THEN {} ELSE {<<s, c>>}
BY DEF ConvKey

LEMMA Recalled ==
  ASSUME MemoryOK, NEW i \in DOMAIN memory
  PROVE  IndicesOf(memory[i].key) = memory[i].idx
<1> DEFINE k == memory[i].key
           found == CHOOSE e \in {memory[j] : j \in DOMAIN memory} : e.key = k
<1>1. \E e \in {memory[j] : j \in DOMAIN memory} : e.key = k
  OBVIOUS
<1>2. found \in {memory[j] : j \in DOMAIN memory} /\ found.key = k
  BY <1>1
<1>3. PICK j \in DOMAIN memory : found = memory[j]
  BY <1>2
<1>4. j = i
  BY <1>2, <1>3 DEF MemoryOK
<1> QED
  BY <1>3, <1>4 DEF IndicesOf

\* What remembering does: the conversation's entry is its new result, the other
\* entries are old ones, and the memory only drops one when it stays full.
LEMMA RememberEffect ==
  ASSUME MemoryOK, NEW s \in 1..minted, NEW c \in Conv, <<s, c>> \in Key,
         NEW R \in SUBSET Event, Remember(s, c, R)
  PROVE  /\ memory' \in Seq(Entry)
         /\ Len(memory') <= ConvCap /\ Len(memory) <= Len(memory')
         /\ \A i, j \in DOMAIN memory' : memory'[i].key = memory'[j].key => i = j
         /\ <<s, c>> \in Keys(memory')
         /\ \A i \in DOMAIN memory' :
               \/ memory'[i] = [key |-> <<s, c>>, idx |-> R]
               \/ memory'[i].key # <<s, c>> /\ \E j \in DOMAIN memory : memory'[i] = memory[j]
         /\ Len(memory') < ConvCap => Keys(memory) \subseteq Keys(memory')
<1> DEFINE k == <<s, c>>
           entry == [key |-> k, idx |-> R]
<1>1. c # NoConv
  BY Settings
<1>2. ConvKey(s, c) = {k}
  BY <1>1, KeyOf
<1>3. (CHOOSE x \in ConvKey(s, c) : TRUE) = k
  BY <1>2
<1> DEFINE updated == [i \in DOMAIN memory |-> IF memory[i].key = k THEN entry ELSE memory[i]]
           all == Append(memory, entry)
<1>4. memory' = Trim(IF k \in Keys(memory) THEN updated ELSE all)
  BY <1>2, <1>3 DEF Remember
<1>5. entry \in Entry /\ entry.key = k
  BY DEF Entry
<1>6. /\ memory \in Seq(Entry) /\ Len(memory) \in Nat /\ Len(memory) <= ConvCap
      /\ DOMAIN memory = 1..Len(memory)
      /\ \A i, j \in DOMAIN memory : memory[i].key = memory[j].key => i = j
  BY DEF MemoryOK
<1> HIDE DEF entry, k
<1>7. CASE k \in Keys(memory)
  <2>1. /\ updated \in Seq(Entry) /\ Len(updated) = Len(memory)
        /\ DOMAIN updated = DOMAIN memory
        /\ \A i \in DOMAIN memory :
              updated[i] = IF memory[i].key = k THEN entry ELSE memory[i]
    BY <1>5, <1>6
  <2> HIDE DEF updated
  <2>2. memory' = updated
    <3>1. memory' = Trim(updated)
      BY <1>4, <1>7
    <3>2. ~(Len(updated) > ConvCap)
      BY <1>6, <2>1, Settings
    <3> QED
      BY <3>1, <3>2 DEF Trim
  <2>3. \A i \in DOMAIN memory : updated[i].key = memory[i].key
    BY <1>5, <2>1
  <2>4. Keys(memory') = Keys(memory)
    BY <2>1, <2>2, <2>3 DEF Keys
  <2>5. \A i \in DOMAIN memory' :
           \/ memory'[i] = entry
           \/ memory'[i].key # k /\ \E j \in DOMAIN memory : memory'[i] = memory[j]
    BY <2>1, <2>2
  <2>6. \A i, j \in DOMAIN memory' : memory'[i].key = memory'[j].key => i = j
    BY <1>6, <2>1, <2>2, <2>3
  <2> QED
    BY <1>6, <1>7, <2>1, <2>2, <2>4, <2>5, <2>6 DEF entry, k
<1>8. CASE k \notin Keys(memory)
  <2>1. /\ all \in Seq(Entry) /\ Len(all) = Len(memory) + 1
        /\ DOMAIN all = 1..(Len(memory) + 1)
        /\ \A i \in DOMAIN memory : all[i] = memory[i]
        /\ all[Len(memory) + 1] = entry
    BY <1>5, <1>6
  <2> HIDE DEF all
  <2>2. \A i \in DOMAIN memory : memory[i].key # k
    BY <1>8 DEF Keys
  <2>3. \A i \in DOMAIN all :
           \/ i = Len(memory) + 1 /\ all[i] = entry
           \/ i \in DOMAIN memory /\ all[i] = memory[i] /\ all[i].key # k
    BY <1>6, <2>1, <2>2
  <2>4. \A i, j \in DOMAIN all : all[i].key = all[j].key => i = j
    BY <1>5, <1>6, <2>3
  <2>5. CASE Len(all) <= ConvCap
    <3>1. memory' = all
      BY <1>4, <1>8, <2>1, <2>5, Settings DEF Trim
    <3>2. k \in Keys(memory') /\ Keys(memory) \subseteq Keys(memory')
      <4>1. \A i \in DOMAIN memory : i \in DOMAIN all /\ all[i] = memory[i]
        BY <1>6, <2>1
      <4>2. Len(memory) + 1 \in DOMAIN all
        BY <1>6, <2>1
      <4> QED
        BY <1>5, <2>1, <3>1, <4>1, <4>2 DEF Keys
    <3>3. \A i \in DOMAIN memory' :
             \/ memory'[i] = entry
             \/ memory'[i].key # k /\ \E j \in DOMAIN memory : memory'[i] = memory[j]
      BY <2>3, <3>1
    <3> QED
      BY <1>6, <2>1, <2>4, <2>5, <3>1, <3>2, <3>3 DEF entry, k
  <2>6. CASE Len(all) > ConvCap
    <3>1. memory' = Tail(all)
      BY <1>4, <1>6, <1>8, <2>1, <2>6, Settings DEF Trim
    <3>2. /\ memory' \in Seq(Entry) /\ Len(memory') = Len(memory)
          /\ DOMAIN memory' = 1..Len(memory) /\ Len(memory) = ConvCap
          /\ \A i \in 1..Len(memory) : memory'[i] = all[i + 1] /\ i + 1 \in DOMAIN all
      <4>0. ConvCap \in Nat
        BY Settings
      <4>1. Len(memory) = ConvCap /\ Len(all) # 0
        <5>1. Len(memory) \in Nat /\ Len(all) = Len(memory) + 1 /\ Len(memory) <= ConvCap
          BY <1>6, <2>1
        <5> QED
          BY <2>6, <4>0, <5>1
      <4>2. /\ Tail(all) \in Seq(Entry) /\ Len(Tail(all)) = Len(all) - 1
            /\ \A i \in 1..(Len(all) - 1) : Tail(all)[i] = all[i + 1]
        BY <2>1, <4>1
      <4>3. DOMAIN memory' = 1..Len(memory')
        BY <3>1, <4>2
      <4>4. Len(all) - 1 = Len(memory)
        BY <1>6, <2>1
      <4> QED
        BY <1>6, <2>1, <3>1, <4>1, <4>2, <4>3, <4>4
    <3>3. \A i \in DOMAIN memory' :
             \/ memory'[i] = entry
             \/ memory'[i].key # k /\ \E j \in DOMAIN memory : memory'[i] = memory[j]
      <4>1. SUFFICES ASSUME NEW i \in DOMAIN memory'
                     PROVE  \/ memory'[i] = entry
                            \/ memory'[i].key # k /\ \E j \in DOMAIN memory : memory'[i] = memory[j]
        OBVIOUS
      <4>2. memory'[i] = all[i + 1] /\ i + 1 \in DOMAIN all
        BY <3>2
      <4> QED
        BY <2>3, <4>2
    <3>4. \A i, j \in DOMAIN memory' : memory'[i].key = memory'[j].key => i = j
      <4>1. SUFFICES ASSUME NEW i \in DOMAIN memory', NEW j \in DOMAIN memory',
                            memory'[i].key = memory'[j].key
                     PROVE  i = j
        OBVIOUS
      <4>2. i \in Nat /\ j \in Nat /\ i + 1 = j + 1
        BY <1>6, <2>4, <3>2, <4>1
      <4> QED
        BY <4>2
    <3>5. k \in Keys(memory')
      <4>1. Len(memory) \in DOMAIN memory' /\ memory'[Len(memory)] = entry
        BY <1>6, <2>1, <3>2, Settings
      <4> QED
        BY <1>5, <4>1 DEF Keys
    <3> QED
      BY <1>6, <3>2, <3>3, <3>4, <3>5, Settings DEF entry, k
  <2> QED
    BY <1>6, <2>1, <2>5, <2>6, Settings
<1> QED
  BY <1>7, <1>8

(***************************************************************************)
(* The invariant.                                                          *)
(***************************************************************************)

ConvOf(r) == <<reqs[r].sid, reqs[r].conv>>

\* A request is about a known dataset; an answer has somebody waiting for it; the
\* hypothesis board has no conversation; whose fetch failed has a screen that lost an answer.
RequestsOK ==
    /\ reqs \in [Request -> RequestRecord \cup {Idle}]
    /\ \A r \in Request : reqs[r].st # "idle" =>
          /\ reqs[r].sid \in 1..minted
          /\ reqs[r].st = "answered" => reqs[r].awaited
          /\ reqs[r].st \in {"evaluating", "generating"} =>
                reqs[r].conv = NoConv /\ ~reqs[r].followUp
          /\ reqs[r].conv # NoConv /\ ~reqs[r].awaited => shown[ConvOf(r)] = Garbled

OpenAwaited(r) == reqs[r].st # "idle" /\ reqs[r].conv # NoConv /\ reqs[r].awaited

\* The page waits for one answer at a time in a conversation.
OneWaiting ==
    \A r, q \in Request : OpenAwaited(r) /\ OpenAwaited(q) /\ ConvOf(r) = ConvOf(q) => r = q

\* found is the latest result of conversation k, or the memory is full without it.
Latest(k, found) ==
    /\ k \in Keys(memory) => finished[k] = found
    /\ k \notin Keys(memory) => Len(memory) = ConvCap

\* What is on its way to the screen, and what is there when nothing is on its way.
AnswerIsLatest ==
    \A r \in Request :
        reqs[r].st = "answered" /\ reqs[r].conv # NoConv /\ shown[ConvOf(r)] # Garbled
        => Latest(ConvOf(r), Found(reqs[r].idx))

OnItsWay(k) == \E r \in Request : reqs[r].st = "answered" /\ ConvOf(r) = k

ScreenIsLatest ==
    \A k \in Key : shown[k].kind = "found" /\ ~OnItsWay(k) => Latest(k, shown[k])

ConvInv ==
    /\ MemoryOK
    /\ MemoryIsLatestAnswer
    /\ finished \in [Key -> History] /\ shown \in [Key -> History]
    /\ RequestsOK
    /\ OneWaiting
    /\ AnswerIsLatest
    /\ ScreenIsLatest

ServiceInv == Store!TypeOK /\ Budget!TypeOK /\ ConvInv

LEMMA KeyType ==
  ASSUME NEW s, NEW c
  PROVE  <<s, c>> \in Key <=> s \in Session /\ c \in Conv
BY DEF Key

LEMMA KnownIsSession ==
  ASSUME Store!TypeOK
  PROVE  1..minted \subseteq Session /\ minted \in Nat
BY Settings DEF Store!TypeOK, Session

(***************************************************************************)
(* What the steps do to conversations.                                     *)
(***************************************************************************)

Quiet == UNCHANGED <<memory, reqs, history>>

\* A request is paid for and waits for its model.
Opens(r, s, c, st) ==
    /\ reqs[r].st = "idle"
    /\ s \in 1..minted
    /\ \/ st = "translating" /\ c \in Conv \cup {NoConv} /\ (c = NoConv \/ ~Waiting(s, c))
       \/ st \in {"evaluating", "generating"} /\ c = NoConv
    /\ reqs' = [reqs EXCEPT ![r] = Asked(st, s, c)]
    /\ UNCHANGED <<memory, history>>

\* A hunt runs, in a request that waited for its model or in a new one.
Hunts(r, s, c, awaited) ==
    /\ s \in 1..minted /\ c \in Conv \cup {NoConv} /\ awaited \in BOOLEAN
    /\ \/ reqs[r].st = "translating" /\ s = reqs[r].sid /\ c = reqs[r].conv
          /\ awaited = reqs[r].awaited
       \/ reqs[r].st = "idle" /\ awaited /\ (c = NoConv \/ ~Waiting(s, c))
    /\ RunHunt(r, s, c, awaited)

\* The hypothesis board goes on.
GoesOn(r) ==
    /\ reqs[r].st \in {"evaluating", "generating"}
    /\ reqs' \in {[reqs EXCEPT ![r].st = "generating"], [reqs EXCEPT ![r] = Idle]}
                  \cup (IF reqs[r].awaited THEN {[reqs EXCEPT ![r].st = "answered"]} ELSE {})
    /\ UNCHANGED <<memory, history>>

LEMMA PayCases ==
  ASSUME ServiceInv, NEW r \in Request, NEW s \in Session, NEW c \in Conv \cup {NoConv}, NEW cost \in Nat,
         NEW st \in {"translating", "evaluating", "generating"}, Pay(r, s, c, cost, st),
         reqs[r].st = "idle",
         st = "translating" => c = NoConv \/ ~Waiting(s, c),
         st # "translating" => c = NoConv
  PROVE  /\ Store!TypeOK' /\ SizesStay /\ Budget!TypeOK'
         /\ Quiet \/ Opens(r, s, c, st)
<1>1. Store!TypeOK' /\ SizesStay
  BY GetKeeps DEF Pay, ServiceInv
<1>2. UNCHANGED now /\ UNCHANGED <<memory, history>>
  BY DEF Pay, Store!Get
<1>3. Budget!TypeOK'
  BY <1>2, ChargeKeeps, BudgetStays DEF Pay, ServiceInv
<1>4. Store!Hit(s) => s \in 1..minted
  BY SweepsOnly DEF Store!Hit, ServiceInv, Store!TypeOK
<1>5. reqs' = reqs \/ (s \in 1..minted /\ reqs' = [reqs EXCEPT ![r] = Asked(st, s, c)])
  BY <1>4 DEF Pay
<1> QED
  BY <1>1, <1>2, <1>3, <1>5 DEF Quiet, Opens

LEMMA StepCases ==
  ASSUME ServiceInv, Next
  PROVE  /\ Store!TypeOK' /\ SizesStay /\ Budget!TypeOK'
         /\ \/ Quiet
            \/ \E r \in Request : \E s, c, st : Opens(r, s, c, st)
            \/ \E r \in Request : \E s, c, awaited : Hunts(r, s, c, awaited)
            \/ \E r \in Request : GoesOn(r) \/ Deliver(r) \/ Lose(r)
<1> DEFINE Goal == /\ Store!TypeOK' /\ SizesStay /\ Budget!TypeOK'
                   /\ \/ Quiet
                      \/ \E r \in Request : \E s, c, st : Opens(r, s, c, st)
                      \/ \E r \in Request : \E s, c, awaited : Hunts(r, s, c, awaited)
                      \/ \E r \in Request : GoesOn(r) \/ Deliver(r) \/ Lose(r)
<1> USE Settings
<1>0. Store!TypeOK /\ Budget!TypeOK /\ RequestsOK
  BY DEF ServiceInv, ConvInv
<1>1. ASSUME NEW n \in Sizes, NEW anyFinding \in BOOLEAN, Upload(n, anyFinding) PROVE Goal
  <2>1. UNCHANGED <<now, budgetVars>> /\ Quiet
    BY <1>1 DEF Upload, Store!Put, Quiet
  <2> QED
    BY <1>0, <1>1, <2>1, PutKeeps, BudgetStays DEF Upload
<1>2. ASSUME NEW r \in Request, NEW s \in Session, NEW c \in Conv \cup {NoConv}, NEW cost \in Costs,
             HuntBegin(r, s, c, cost)
      PROVE  Goal
  <2>1. reqs[r].st = "idle" /\ (c = NoConv \/ ~Waiting(s, c))
    BY <1>2 DEF HuntBegin, MayAsk
  <2>2. CASE Pay(r, s, c, cost, "translating")
    BY <2>1, <2>2, PayCases
  <2>3. CASE Store!Get(s) /\ UNCHANGED <<budgetVars, memory, reqs, history>>
    <3>1. UNCHANGED <<now, budgetVars>> /\ Quiet
      BY <2>3 DEF Store!Get, Quiet
    <3> QED
      BY <1>0, <2>3, <3>1, GetKeeps, BudgetStays
  <2> QED
    BY <1>2, <2>2, <2>3 DEF HuntBegin
<1>3. ASSUME NEW r \in Request, NEW s \in Session, NEW c \in Conv \cup {NoConv}, NEW validIR \in BOOLEAN,
             HuntExecute(r, s, c, validIR)
      PROVE  Goal
  <2>1. Store!TypeOK' /\ SizesStay /\ Budget!TypeOK'
    <3>1. UNCHANGED <<now, budgetVars>>
      BY <1>3 DEF HuntExecute, Store!Get
    <3> QED
      BY <1>0, <1>3, <3>1, GetKeeps, BudgetStays DEF HuntExecute
  <2>2. CASE Store!Hit(s) /\ validIR
    <3>1. s \in 1..minted
      BY <1>0, <2>2, SweepsOnly DEF Store!Hit, Store!TypeOK
    <3>2. Hunts(r, s, c, TRUE)
      BY <1>3, <2>2, <3>1 DEF HuntExecute, MayAsk, Hunts
    <3> QED
      BY <2>1, <3>2
  <2>3. CASE ~(Store!Hit(s) /\ validIR)
    BY <1>3, <2>1, <2>3 DEF HuntExecute, Quiet
  <2> QED
    BY <2>2, <2>3
<1>4. ASSUME NEW r \in Request, NEW s \in Session, HypothesesBegin(r, s) PROVE Goal
  BY <1>4, PayCases DEF HypothesesBegin
<1>5. ASSUME NEW r \in Request, UNCHANGED <<now, storeVars, budgetVars>>,
             \/ HuntFinish(r) \/ HypothesesEvaluated(r) \/ HypothesesFinish(r)
             \/ Deliver(r) \/ Lose(r)
      PROVE  Goal
  <2>1. Store!TypeOK' /\ SizesStay /\ Budget!TypeOK'
    BY <1>0, <1>5, StoreStays, BudgetStays
  <2>2. CASE HuntFinish(r)
    <3>1. reqs[r] \in RequestRecord /\ reqs[r].sid \in 1..minted
      BY <1>0, <2>2 DEF HuntFinish, RequestsOK, Idle
    <3>2. Hunts(r, reqs[r].sid, reqs[r].conv, reqs[r].awaited)
      BY <2>2, <3>1 DEF HuntFinish, Hunts, RequestRecord
    <3> QED
      BY <2>1, <3>2
  <2>3. CASE HypothesesEvaluated(r) \/ HypothesesFinish(r)
    <3>1. GoesOn(r)
      BY <2>3 DEF HypothesesEvaluated, HypothesesFinish, GoesOn
    <3> QED
      BY <2>1, <3>1
  <2> QED
    BY <1>5, <2>1, <2>2, <2>3
<1>6. ASSUME Tick PROVE Goal
  <2>1. Budget!Tick /\ Quiet
    BY <1>6 DEF Tick, Quiet
  <2> QED
    BY <1>0, <1>6, <2>1, StoreTickKeeps, BudgetTickKeeps
<1>7. ASSUME NEW r \in Request,
             \/ HuntFinish(r) \/ HypothesesEvaluated(r) \/ HypothesesFinish(r)
             \/ Deliver(r) \/ Lose(r)
      PROVE  UNCHANGED <<now, storeVars, budgetVars>>
  BY <1>7 DEF HuntFinish, HypothesesEvaluated, HypothesesFinish, Deliver, Lose
<1> HIDE DEF Goal
<1>8. Goal
  BY <1>1, <1>2, <1>3, <1>4, <1>5, <1>6, <1>7 DEF Next
<1> QED
  BY <1>8 DEF Goal

(***************************************************************************)
(* The invariant is kept.                                                  *)
(***************************************************************************)

\* A conversation whose key, entry and history are left alone, in a memory that is not
\* emptied, keeps its latest result.
LEMMA LatestStays ==
  ASSUME NEW k, NEW found, Latest(k, found), UNCHANGED <<memory, finished>>
  PROVE  Latest(k, found)'
BY DEF Latest, Keys

LEMMA MemoryStays ==
  ASSUME ConvInv, SizesStay, UNCHANGED <<memory, finished>>
  PROVE  MemoryOK' /\ MemoryIsLatestAnswer'
<1>1. MemoryOK'
  BY DEF ConvInv, MemoryOK, SizesStay
<1>2. ASSUME NEW i \in DOMAIN memory
      PROVE  size'[memory[i].key[1]] = size[memory[i].key[1]]
  BY DEF ConvInv, MemoryOK, SizesStay
<1> QED
  BY <1>1, <1>2 DEF ConvInv, MemoryIsLatestAnswer

LEMMA AnswerStays ==
  ASSUME AnswerIsLatest, UNCHANGED <<memory, finished, shown>>,
         \A q \in Request : reqs'[q].st = "answered" => reqs'[q] = reqs[q]
  PROVE  AnswerIsLatest'
<1> SUFFICES ASSUME NEW q \in Request, (reqs[q].st = "answered")', (reqs[q].conv # NoConv)',
                    (shown[ConvOf(q)] # Garbled)'
             PROVE  Latest(ConvOf(q), Found(reqs[q].idx))'
  BY DEF AnswerIsLatest
<1>1. reqs'[q] = reqs[q] /\ ConvOf(q)' = ConvOf(q)
  BY DEF ConvOf
<1>2. Latest(ConvOf(q), Found(reqs[q].idx))
  BY <1>1 DEF AnswerIsLatest
<1> QED
  BY <1>1, <1>2 DEF Latest, Keys

LEMMA QuietKeeps ==
  ASSUME ConvInv, SizesStay, Quiet
  PROVE  ConvInv'
<1>1. UNCHANGED <<memory, reqs, finished, shown>>
  BY DEF Quiet, history
<1>2. RequestsOK'
  BY <1>1 DEF ConvInv, RequestsOK, SizesStay, ConvOf
<1>3. OneWaiting'
  BY <1>1 DEF ConvInv, OneWaiting, OpenAwaited, ConvOf
<1>4. AnswerIsLatest'
  BY <1>1, AnswerStays DEF ConvInv
<1>5. ScreenIsLatest'
  BY <1>1 DEF ConvInv, ScreenIsLatest, OnItsWay, ConvOf, Latest, Keys
<1> QED
  BY <1>1, <1>2, <1>3, <1>4, <1>5, MemoryStays DEF ConvInv

\* One request changes; the others are as they were.
LEMMA OthersStay ==
  ASSUME RequestsOK, NEW r \in Request, NEW req, reqs' = [reqs EXCEPT ![r] = req]
  PROVE  reqs'[r] = req /\ \A q \in Request \ {r} : reqs'[q] = reqs[q]
BY DEF RequestsOK

LEMMA OpenKeeps ==
  ASSUME ConvInv, Store!TypeOK, SizesStay, NEW r \in Request, NEW s, NEW c, NEW st, Opens(r, s, c, st)
  PROVE  ConvInv'
<1> DEFINE req == Asked(st, s, c)
<1>1. UNCHANGED <<memory, finished, shown>> /\ reqs' = [reqs EXCEPT ![r] = req]
  BY DEF Opens, history
<1>2. /\ st \in {"translating", "evaluating", "generating"} /\ s \in 1..minted /\ s \in Session
      /\ c \in Conv \cup {NoConv} /\ (st \in {"evaluating", "generating"} => c = NoConv)
      /\ (c = NoConv \/ ~Waiting(s, c)) /\ reqs[r].st = "idle"
  BY KnownIsSession DEF Opens
<1>3. /\ req \in RequestRecord /\ req.st = st /\ req.sid = s /\ req.conv = c
      /\ req.awaited = TRUE /\ req.followUp = FALSE
  BY <1>2 DEF Asked, RequestRecord, InFlight
<1> HIDE DEF req
<1>4. reqs'[r] = req /\ \A q \in Request \ {r} : reqs'[q] = reqs[q]
  BY <1>1, OthersStay DEF ConvInv
<1>5. RequestsOK'
  <2>1. reqs' \in [Request -> RequestRecord \cup {Idle}]
    BY <1>1, <1>3 DEF ConvInv, RequestsOK
  <2>2. ASSUME NEW q \in Request, reqs'[q].st # "idle"
        PROVE  /\ reqs'[q].sid \in 1..minted'
               /\ reqs'[q].st = "answered" => reqs'[q].awaited
               /\ reqs'[q].st \in {"evaluating", "generating"} =>
                     reqs'[q].conv = NoConv /\ ~reqs'[q].followUp
               /\ reqs'[q].conv # NoConv /\ ~reqs'[q].awaited => shown'[ConvOf(q)'] = Garbled
    <3>1. CASE q = r
      BY <1>2, <1>3, <1>4, <3>1 DEF SizesStay
    <3>2. CASE q # r
      BY <1>1, <1>4, <2>2, <3>2 DEF ConvInv, RequestsOK, ConvOf, SizesStay
    <3> QED
      BY <3>1, <3>2
  <2> QED
    BY <2>1, <2>2 DEF RequestsOK
<1>6. OneWaiting'
  <2>1. SUFFICES ASSUME NEW p \in Request, NEW q \in Request, OpenAwaited(p)', OpenAwaited(q)',
                        ConvOf(p)' = ConvOf(q)', p # q
                 PROVE  FALSE
    BY DEF OneWaiting
  <2>2. ASSUME NEW x \in Request \ {r}, OpenAwaited(r)', OpenAwaited(x)', ConvOf(r)' = ConvOf(x)'
        PROVE  FALSE
    <3>1. reqs[x].st # "idle" /\ reqs[x].sid = s /\ reqs[x].conv = c /\ reqs[x].awaited
          /\ c # NoConv
      BY <1>3, <1>4, <2>2 DEF OpenAwaited, ConvOf
    <3> QED
      BY <1>2, <3>1 DEF Waiting
  <2>3. CASE p # r /\ q # r
    BY <1>4, <2>1, <2>3 DEF OpenAwaited, ConvOf, ConvInv, OneWaiting
  <2> QED
    BY <2>1, <2>2, <2>3
<1>7. \A q \in Request : reqs'[q].st = "answered" =>
         q # r /\ reqs[q].st = "answered" /\ reqs'[q] = reqs[q]
  BY <1>2, <1>3, <1>4
<1>8. AnswerIsLatest'
  BY <1>1, <1>7, AnswerStays DEF ConvInv
<1>9. ScreenIsLatest'
  <2>1. \A k : OnItsWay(k) => OnItsWay(k)'
    BY <1>2, <1>4 DEF OnItsWay, ConvOf
  <2> QED
    BY <1>1, <2>1 DEF ConvInv, ScreenIsLatest, Latest, Keys
<1> QED
  BY <1>1, <1>5, <1>6, <1>8, <1>9, MemoryStays DEF ConvInv

\* The conversation of a hunt has its new result; the others keep theirs.
LEMMA HuntMemory ==
  ASSUME ConvInv, Store!TypeOK, SizesStay, NEW s \in 1..minted, NEW c \in Conv \cup {NoConv},
         NEW R \in SUBSET (0..(size[s] - 1)), Remember(s, c, R),
         finished' = [k \in Key |-> IF k = <<s, c>> THEN Found(R)
                                    ELSE IF k \in Keys(memory') THEN finished[k]
                                    ELSE Nothing]
  PROVE  /\ MemoryOK' /\ MemoryIsLatestAnswer'
         /\ finished' \in [Key -> History]
         /\ \A k \in Key : \A found : k # <<s, c>> /\ Latest(k, found) => Latest(k, found)'
         /\ c # NoConv => Latest(<<s, c>>, Found(R))'
<1> USE Settings
<1>1. /\ s \in Session /\ size[s] \in 0..MaxEvents /\ R \in SUBSET Event
      /\ minted \in 0..MaxMinted
  BY KnownIsSession DEF Store!TypeOK, Event, Store!Session, Session
<1>2. \A k \in Key : finished'[k] = IF k = <<s, c>> THEN Found(R)
                                    ELSE IF k \in Keys(memory') THEN finished[k] ELSE Nothing
  OBVIOUS
<1>3. finished' \in [Key -> History]
  <2>1. Found(R) \in History /\ Nothing \in History
    BY <1>1 DEF Found, Nothing, History
  <2> HIDE DEF Found, Nothing
  <2> QED
    BY <2>1 DEF ConvInv
<1>4. /\ \A i \in DOMAIN memory : memory[i].key \in Key /\ memory[i].key[1] \in 1..minted
      /\ \A i \in DOMAIN memory : finished[memory[i].key] = Found(memory[i].idx)
      /\ \A i \in DOMAIN memory : memory[i].idx \subseteq 0..(size[memory[i].key[1]] - 1)
      /\ \A i \in DOMAIN memory : size'[memory[i].key[1]] = size[memory[i].key[1]]
  <2>1. \A i \in DOMAIN memory : memory[i] \in Entry
    BY DEF ConvInv, MemoryOK
  <2> QED
    BY <2>1 DEF ConvInv, MemoryOK, MemoryIsLatestAnswer, SizesStay, Entry
<1>5. CASE c = NoConv
  <2>1. memory' = memory
    BY <1>5, KeyOf DEF Remember
  <2>2. \A k \in Key : k # <<s, c>>
    BY <1>5 DEF Key
  <2>3. \A k \in Key : k \in Keys(memory) => finished'[k] = finished[k]
    BY <1>2, <2>1, <2>2
  <2>4. \A k \in Key : \A found : Latest(k, found) => Latest(k, found)'
    BY <2>1, <2>3 DEF Latest, Keys
  <2>5. MemoryOK'
    BY <2>1 DEF ConvInv, MemoryOK, SizesStay
  <2>6. MemoryIsLatestAnswer'
    <3>1. \A i \in DOMAIN memory : memory[i].key \in Keys(memory)
      BY DEF Keys
    <3> QED
      BY <1>4, <2>1, <2>3, <3>1 DEF ConvInv, MemoryIsLatestAnswer
  <2> QED
    BY <1>3, <1>5, <2>4, <2>5, <2>6
<1>6. CASE c # NoConv
  <2> DEFINE k == <<s, c>>
             entry == [key |-> k, idx |-> R]
  <2>1. c \in Conv /\ k \in Key
    BY <1>1, <1>6 DEF Key
  <2>2. /\ memory' \in Seq(Entry)
        /\ Len(memory') <= ConvCap /\ Len(memory) <= Len(memory')
        /\ \A i, j \in DOMAIN memory' : memory'[i].key = memory'[j].key => i = j
        /\ k \in Keys(memory')
        /\ \A i \in DOMAIN memory' :
              \/ memory'[i] = entry
              \/ memory'[i].key # k /\ \E j \in DOMAIN memory : memory'[i] = memory[j]
        /\ Len(memory') < ConvCap => Keys(memory) \subseteq Keys(memory')
    BY <1>1, <2>1, RememberEffect DEF ConvInv
  <2>3. entry.key = k /\ entry.idx = R /\ k[1] = s
    OBVIOUS
  <2> HIDE DEF entry, k
  <2>4. MemoryOK'
    <3>1. \A i \in DOMAIN memory' : memory'[i].key[1] \in 1..minted'
      BY <1>4, <2>2, <2>3 DEF SizesStay
    <3> QED
      BY <2>2, <3>1 DEF MemoryOK
  <2>5. finished'[k] = Found(R)
    BY <1>2, <2>1 DEF k
  <2>6. \A i \in DOMAIN memory' : memory'[i].key # k => finished'[memory'[i].key] = finished[memory'[i].key]
    <3>1. \A i \in DOMAIN memory' : memory'[i].key \in Keys(memory') /\ memory'[i].key \in Key
      <4>1. \A i \in DOMAIN memory' : memory'[i] \in Entry
        BY <2>2
      <4> QED
        BY <4>1 DEF Keys, Entry
    <3> QED
      BY <1>2, <3>1 DEF k
  <2>7. MemoryIsLatestAnswer'
    <3>1. ASSUME NEW i \in DOMAIN memory'
          PROVE  /\ finished'[memory'[i].key] = Found(memory'[i].idx)
                 /\ memory'[i].idx \subseteq 0..(size'[memory'[i].key[1]] - 1)
      <4>1. CASE memory'[i] = entry
        <5>1. size'[s] = size[s]
          BY DEF SizesStay
        <5> QED
          BY <2>3, <2>5, <4>1, <5>1
      <4>2. CASE memory'[i].key # k /\ \E j \in DOMAIN memory : memory'[i] = memory[j]
        BY <1>4, <2>6, <4>2
      <4> QED
        BY <2>2, <4>1, <4>2
    <3> QED
      BY <2>2, <3>1 DEF MemoryIsLatestAnswer
  <2>8. ASSUME NEW x \in Key, NEW found, x # k, Latest(x, found)
        PROVE  Latest(x, found)'
    <3>1. x \in Keys(memory') => x \in Keys(memory)
      <4>1. ASSUME NEW i \in DOMAIN memory', memory'[i].key = x
            PROVE  \E j \in DOMAIN memory : memory[j].key = x
        BY <2>2, <2>3, <2>8, <4>1
      <4> QED
        BY <4>1 DEF Keys
    <3>2. x \in Keys(memory') => finished'[x] = finished[x]
      BY <1>2, <2>8 DEF k
    <3>3. CASE x \in Keys(memory')
      BY <2>8, <3>1, <3>2, <3>3 DEF Latest
    <3>4. CASE x \notin Keys(memory')
      <4>0. Len(memory) \in Nat /\ Len(memory') \in Nat
        BY <2>2 DEF ConvInv, MemoryOK
      <4>1. CASE x \in Keys(memory)
        <5>1. ~(Len(memory') < ConvCap)
          BY <2>2, <3>4, <4>1
        <5>2. Len(memory') = ConvCap
          BY <2>2, <4>0, <5>1
        <5> QED
          BY <3>4, <5>2 DEF Latest
      <4>2. CASE x \notin Keys(memory)
        <5>1. Len(memory) = ConvCap
          BY <2>8, <4>2 DEF Latest
        <5>2. Len(memory') = ConvCap
          BY <2>2, <4>0, <5>1
        <5> QED
          BY <3>4, <5>2 DEF Latest
      <4> QED
        BY <4>1, <4>2
    <3> QED
      BY <3>3, <3>4
  <2>9. Latest(k, Found(R))'
    BY <2>2, <2>5 DEF Latest
  <2> QED
    BY <1>3, <2>4, <2>7, <2>8, <2>9 DEF k
<1> QED
  BY <1>5, <1>6

LEMMA BaseType ==
  ASSUME ConvInv, NEW s, NEW c, NEW followUp \in BOOLEAN, size[s] \in Nat
  PROVE  Base(s, c, followUp) \subseteq 0..(size[s] - 1)
<1>1. ASSUME NEW k \in Keys(memory)
      PROVE  IndicesOf(k) \subseteq Int
  <2>1. PICK i \in DOMAIN memory : memory[i].key = k
    BY DEF Keys
  <2>2. IndicesOf(k) = memory[i].idx
    BY <2>1, Recalled DEF ConvInv
  <2>3. memory[i] \in Entry
    BY DEF ConvInv, MemoryOK
  <2>4. memory[i].idx \subseteq Event
    BY <2>3 DEF Entry
  <2> QED
    BY <2>2, <2>4, Settings DEF Event
<1>2. ASSUME NEW i \in Recall(s, c) PROVE i \in 0..(size[s] - 1)
  <2>1. PICK k \in ConvKey(s, c) \cap Keys(memory) :
           i \in {x \in IndicesOf(k) : 0 <= x /\ x < size[s]}
    BY DEF Recall
  <2>2. i \in Int /\ 0 <= i /\ i < size[s]
    BY <1>1, <2>1
  <2> QED
    BY <2>2
<1> QED
  BY <1>2 DEF Base

\* Nobody who still waits for an answer of the conversation, but the request itself.
LEMMA HuntAlone ==
  ASSUME ConvInv, NEW r \in Request, NEW s, NEW c, NEW awaited, Hunts(r, s, c, awaited), c # NoConv
  PROVE  /\ awaited => \A q \in Request \ {r} : ~(OpenAwaited(q) /\ ConvOf(q) = <<s, c>>)
         /\ ~awaited => shown[<<s, c>>] = Garbled
         /\ reqs[r].st # "answered"
<1>1. CASE reqs[r].st = "translating" /\ s = reqs[r].sid /\ c = reqs[r].conv /\ awaited = reqs[r].awaited
  <2>1. awaited => OpenAwaited(r) /\ ConvOf(r) = <<s, c>>
    BY <1>1 DEF OpenAwaited, ConvOf
  <2>2. ~awaited => shown[<<s, c>>] = Garbled
    BY <1>1 DEF ConvInv, RequestsOK, ConvOf
  <2> QED
    BY <1>1, <2>1, <2>2 DEF ConvInv, OneWaiting
<1>2. CASE reqs[r].st = "idle" /\ awaited /\ ~Waiting(s, c)
  <2>1. ASSUME NEW q \in Request, OpenAwaited(q), ConvOf(q) = <<s, c>>
        PROVE  FALSE
    <3>1. reqs[q].st # "idle" /\ reqs[q].sid = s /\ reqs[q].conv = c /\ reqs[q].awaited
      BY <2>1 DEF OpenAwaited, ConvOf
    <3> QED
      BY <1>2, <3>1 DEF Waiting
  <2> QED
    BY <1>2, <2>1
<1> QED
  BY <1>1, <1>2 DEF Hunts

LEMMA HuntKeeps ==
  ASSUME ConvInv, Store!TypeOK, SizesStay, NEW r \in Request, NEW s, NEW c, NEW awaited,
         Hunts(r, s, c, awaited)
  PROVE  ConvInv'
<1> DEFINE k == <<s, c>>
<1>1. s \in 1..minted /\ s \in Session /\ c \in Conv \cup {NoConv} /\ awaited \in BOOLEAN
  <2>1. s \in 1..minted /\ c \in Conv \cup {NoConv} /\ awaited \in BOOLEAN
    BY Zenon DEF Hunts
  <2>2. s \in Session
    BY <2>1, KnownIsSession
  <2> QED
    BY Zenon, <2>1, <2>2
<1>2. PICK followUp, R :
         /\ followUp \in BOOLEAN /\ R \in SUBSET Base(s, c, followUp)
         /\ Remember(s, c, R)
         /\ reqs' = [reqs EXCEPT ![r] =
                 IF awaited
                 THEN Answer(s, c, followUp, R)
                 ELSE Idle]
         /\ finished' = [x \in Key |-> IF x = <<s, c>> THEN Found(R)
                                       ELSE IF x \in Keys(memory') THEN finished[x]
                                       ELSE Nothing]
         /\ UNCHANGED shown
  BY DEF Hunts, RunHunt
<1>0. followUp \in BOOLEAN
  BY <1>2
<1>3. R \in SUBSET (0..(size[s] - 1)) /\ R \in SUBSET Event
  <2>1. size[s] \in 0..MaxEvents
    BY <1>1 DEF Store!TypeOK, Store!Session, Session
  <2>2. R \in SUBSET (0..(size[s] - 1))
    BY <1>0, <1>2, <2>1, BaseType, Settings
  <2> QED
    BY <2>1, <2>2, Settings DEF Event
<1>5. /\ MemoryOK' /\ MemoryIsLatestAnswer'
      /\ finished' \in [Key -> History]
      /\ \A x \in Key : \A found : x # k /\ Latest(x, found) => Latest(x, found)'
      /\ c # NoConv => Latest(k, Found(R))'
  BY <1>1, <1>2, <1>3, HuntMemory
<1> DEFINE req == IF awaited
                  THEN Answer(s, c, followUp, R)
                  ELSE Idle
<1>6. /\ req \in RequestRecord \cup {Idle}
      /\ ~awaited => req.st = "idle"
      /\ awaited => /\ req.st = "answered" /\ req.sid = s /\ req.conv = c
                    /\ req.awaited = TRUE /\ (c # NoConv => req.idx = R)
  <2>1. PICK sent : sent = First(R, Returned)
    OBVIOUS
  <2>2. sent \in SUBSET Event
    BY <1>3, <2>1, FirstOf, Settings
  <2>3. PICK answer : answer = Answer(s, c, followUp, R)
    OBVIOUS
  <2>4. /\ answer \in RequestRecord
        /\ answer.st = "answered" /\ answer.sid = s /\ answer.conv = c /\ answer.awaited = TRUE
        /\ c # NoConv => answer.idx = R
    <3>1. CASE c = NoConv
      <4>1. answer = [st |-> "answered", sid |-> s, conv |-> c, awaited |-> TRUE,
                      followUp |-> FALSE, idx |-> {}, results |-> {}]
        BY <2>3, <3>1, AnswerIs
      <4> QED
        BY <1>1, <3>1, <4>1 DEF RequestRecord, InFlight
    <3>2. CASE c # NoConv
      <4>1. answer = [st |-> "answered", sid |-> s, conv |-> c, awaited |-> TRUE,
                      followUp |-> followUp, idx |-> R, results |-> sent]
        BY <2>1, <2>3, <3>2, AnswerIs
      <4> QED
        BY <1>0, <1>1, <1>3, <2>2, <4>1 DEF RequestRecord, InFlight
    <3> QED
      BY <3>1, <3>2
  <2>5. Idle.st = "idle"
    BY DEF Idle
  <2> QED
    BY <1>1, <2>3, <2>4, <2>5
<1>7. reqs' = [reqs EXCEPT ![r] = req] /\ UNCHANGED shown
  BY <1>2
<1> HIDE DEF req, k
<1>8. reqs'[r] = req /\ \A q \in Request \ {r} : reqs'[q] = reqs[q]
  BY <1>7, OthersStay DEF ConvInv
<1>9. RequestsOK'
  <2>1. reqs' \in [Request -> RequestRecord \cup {Idle}]
    BY <1>6, <1>7 DEF ConvInv, RequestsOK
  <2>2. ASSUME NEW q \in Request, reqs'[q].st # "idle"
        PROVE  /\ reqs'[q].sid \in 1..minted'
               /\ reqs'[q].st = "answered" => reqs'[q].awaited
               /\ reqs'[q].st \in {"evaluating", "generating"} =>
                     reqs'[q].conv = NoConv /\ ~reqs'[q].followUp
               /\ reqs'[q].conv # NoConv /\ ~reqs'[q].awaited => shown'[ConvOf(q)'] = Garbled
    <3>1. CASE q = r
      BY <1>1, <1>6, <1>8, <2>2, <3>1 DEF SizesStay
    <3>2. CASE q # r
      BY <1>7, <1>8, <2>2, <3>2 DEF ConvInv, RequestsOK, ConvOf, SizesStay
    <3> QED
      BY <3>1, <3>2
  <2> QED
    BY <2>1, <2>2 DEF RequestsOK
<1>10. OneWaiting'
  <2>1. SUFFICES ASSUME NEW p \in Request, NEW q \in Request, OpenAwaited(p)', OpenAwaited(q)',
                        ConvOf(p)' = ConvOf(q)', p # q
                 PROVE  FALSE
    BY DEF OneWaiting
  <2>2. ASSUME NEW x \in Request \ {r}, OpenAwaited(r)', OpenAwaited(x)', ConvOf(r)' = ConvOf(x)'
        PROVE  FALSE
    <3>1. awaited /\ c # NoConv /\ ConvOf(r)' = <<s, c>>
      BY <1>6, <1>8, <2>2 DEF OpenAwaited, ConvOf
    <3>2. OpenAwaited(x) /\ ConvOf(x) = <<s, c>>
      BY <1>8, <2>2, <3>1 DEF OpenAwaited, ConvOf
    <3> QED
      BY <3>1, <3>2, HuntAlone
  <2>3. CASE p # r /\ q # r
    BY <1>8, <2>1, <2>3 DEF OpenAwaited, ConvOf, ConvInv, OneWaiting
  <2> QED
    BY <2>1, <2>2, <2>3
<1>11. AnswerIsLatest'
  <2> SUFFICES ASSUME NEW q \in Request, (reqs[q].st = "answered")', (reqs[q].conv # NoConv)',
                      (shown[ConvOf(q)] # Garbled)'
               PROVE  Latest(ConvOf(q), Found(reqs[q].idx))'
    BY DEF AnswerIsLatest
  <2>1. CASE q = r
    <3>1. awaited /\ c # NoConv /\ ConvOf(q)' = k /\ reqs'[q].idx = R
      BY <1>6, <1>8, <2>1 DEF ConvOf, k
    <3> QED
      BY <1>5, <3>1 DEF Latest, Keys
  <2>2. CASE q # r
    <3>1. reqs'[q] = reqs[q] /\ ConvOf(q)' = ConvOf(q)
      BY <1>8, <2>2 DEF ConvOf
    <3>2. /\ reqs[q].st = "answered" /\ reqs[q].conv # NoConv /\ shown[ConvOf(q)] # Garbled
          /\ OpenAwaited(q) /\ ConvOf(q) \in Key
      <4>1. reqs[q] \in RequestRecord
        BY <3>1 DEF ConvInv, RequestsOK, Idle
      <4> QED
        BY <1>7, <3>1, <4>1 DEF ConvInv, RequestsOK, OpenAwaited, RequestRecord, ConvOf, Key
    <3>3. ConvOf(q) # k
      <4>1. ASSUME ConvOf(q) = k PROVE FALSE
        <5>1. c # NoConv
          BY <3>2, <4>1 DEF ConvOf, k
        <5> QED
          BY <2>2, <3>2, <4>1, <5>1, HuntAlone DEF k
      <4> QED
        BY <4>1
    <3>4. Latest(ConvOf(q), Found(reqs[q].idx))
      BY <3>2 DEF ConvInv, AnswerIsLatest
    <3>5. ASSUME NEW x, NEW found, x \in Key, x # k, Latest(x, found)
          PROVE  Latest(x, found)'
      BY <1>5, <3>5
    <3> DEFINE x == ConvOf(q)
               found == Found(reqs[q].idx)
    <3>6. /\ x \in Keys(memory') => finished'[x] = found
          /\ x \notin Keys(memory') => Len(memory') = ConvCap
      <4>1. x \in Key /\ x # k /\ Latest(x, found)
        BY <3>2, <3>3, <3>4
      <4> HIDE DEF x, found
      <4>2. \A y \in Key : \A f : y # k /\ Latest(y, f) =>
               /\ y \in Keys(memory') => finished'[y] = f
               /\ y \notin Keys(memory') => Len(memory') = ConvCap
        BY <1>5 DEF Latest, Keys
      <4> QED
        BY <4>1, <4>2
    <3> QED
      BY <3>1, <3>6 DEF Latest, Keys
  <2> QED
    BY <2>1, <2>2
<1>12. ScreenIsLatest'
  <2> SUFFICES ASSUME NEW x \in Key, (shown[x].kind = "found")', ~OnItsWay(x)'
               PROVE  Latest(x, shown[x])'
    BY DEF ScreenIsLatest
  <2>1. shown'[x] = shown[x]
    BY <1>7
  <2>2. x # k
    <3>1. ASSUME x = k PROVE FALSE
      <4>1. c # NoConv
        BY <3>1, Settings DEF Key, k
      <4>2. ~awaited
        BY <1>6, <1>8, <3>1 DEF OnItsWay, ConvOf, k
      <4>3. shown[x] = Garbled
        BY <3>1, <4>1, <4>2, HuntAlone DEF k
      <4> QED
        BY <2>1, <4>3 DEF Garbled
    <3> QED
      BY <3>1
  <2>3. ~OnItsWay(x)
    <3>1. ASSUME NEW q \in Request, reqs[q].st = "answered", ConvOf(q) = x
          PROVE  FALSE
      <4>1. q # r
        BY <3>1 DEF Hunts
      <4>2. reqs'[q].st = "answered" /\ ConvOf(q)' = x
        BY <1>8, <3>1, <4>1 DEF ConvOf
      <4> QED
        BY <4>2 DEF OnItsWay
    <3> QED
      BY <3>1 DEF OnItsWay
  <2>4. Latest(x, shown[x])
    BY <2>1, <2>3 DEF ConvInv, ScreenIsLatest
  <2>5. \A y \in Key : \A f : y # k /\ Latest(y, f) =>
           /\ y \in Keys(memory') => finished'[y] = f
           /\ y \notin Keys(memory') => Len(memory') = ConvCap
    BY <1>5 DEF Latest, Keys
  <2>6. /\ x \in Keys(memory') => finished'[x] = shown[x]
        /\ x \notin Keys(memory') => Len(memory') = ConvCap
    BY <2>2, <2>4, <2>5
  <2> QED
    BY <2>1, <2>6 DEF Latest, Keys
<1> QED
  BY <1>5, <1>7, <1>9, <1>10, <1>11, <1>12 DEF ConvInv

LEMMA GoesOnKeeps ==
  ASSUME ConvInv, SizesStay, NEW r \in Request, GoesOn(r)
  PROVE  ConvInv'
<1>1. UNCHANGED <<memory, finished, shown>>
  BY DEF GoesOn, history
<1>2. /\ reqs[r] \in RequestRecord /\ reqs[r].st \in {"evaluating", "generating"}
      /\ reqs[r].conv = NoConv /\ ~reqs[r].followUp /\ reqs[r].sid \in 1..minted
  BY DEF GoesOn, ConvInv, RequestsOK, Idle
<1>3. PICK req \in {[reqs[r] EXCEPT !.st = "generating"], Idle}
                   \cup (IF reqs[r].awaited THEN {[reqs[r] EXCEPT !.st = "answered"]} ELSE {}) :
         reqs' = [reqs EXCEPT ![r] = req]
  BY DEF GoesOn
<1>4. /\ req \in RequestRecord \cup {Idle}
      /\ req.st # "idle" => /\ req.conv = NoConv /\ ~req.followUp /\ req.sid = reqs[r].sid
                            /\ req.st = "answered" => req.awaited
  BY <1>2, <1>3 DEF RequestRecord, InFlight, Idle
<1>5. reqs'[r] = req /\ \A q \in Request \ {r} : reqs'[q] = reqs[q]
  BY <1>3, OthersStay DEF ConvInv
<1>6. RequestsOK'
  <2>1. reqs' \in [Request -> RequestRecord \cup {Idle}]
    BY <1>3, <1>4 DEF ConvInv, RequestsOK
  <2>2. ASSUME NEW q \in Request, reqs'[q].st # "idle"
        PROVE  /\ reqs'[q].sid \in 1..minted'
               /\ reqs'[q].st = "answered" => reqs'[q].awaited
               /\ reqs'[q].st \in {"evaluating", "generating"} =>
                     reqs'[q].conv = NoConv /\ ~reqs'[q].followUp
               /\ reqs'[q].conv # NoConv /\ ~reqs'[q].awaited => shown'[ConvOf(q)'] = Garbled
    <3>1. CASE q = r
      BY <1>2, <1>4, <1>5, <2>2, <3>1 DEF SizesStay
    <3>2. CASE q # r
      BY <1>1, <1>5, <2>2, <3>2 DEF ConvInv, RequestsOK, ConvOf, SizesStay
    <3> QED
      BY <3>1, <3>2
  <2> QED
    BY <2>1, <2>2 DEF RequestsOK
<1>7. OneWaiting'
  <2>1. ~OpenAwaited(r)'
    BY <1>4, <1>5 DEF OpenAwaited
  <2>2. \A q \in Request : OpenAwaited(q)' => OpenAwaited(q) /\ ConvOf(q)' = ConvOf(q)
    BY <1>5, <2>1 DEF OpenAwaited, ConvOf
  <2> QED
    BY <2>2 DEF ConvInv, OneWaiting
<1>8. AnswerIsLatest'
  <2> SUFFICES ASSUME NEW q \in Request, (reqs[q].st = "answered")', (reqs[q].conv # NoConv)',
                      (shown[ConvOf(q)] # Garbled)'
               PROVE  Latest(ConvOf(q), Found(reqs[q].idx))'
    BY DEF AnswerIsLatest
  <2>1. q # r
    BY <1>4, <1>5
  <2>2. reqs'[q] = reqs[q] /\ ConvOf(q)' = ConvOf(q)
    BY <1>5, <2>1 DEF ConvOf
  <2>3. Latest(ConvOf(q), Found(reqs[q].idx))
    BY <1>1, <2>2 DEF ConvInv, AnswerIsLatest
  <2> QED
    BY <1>1, <2>2, <2>3 DEF Latest, Keys
<1>9. ScreenIsLatest'
  <2>1. ASSUME NEW x, OnItsWay(x) PROVE OnItsWay(x)'
    <3>1. PICK q \in Request : reqs[q].st = "answered" /\ ConvOf(q) = x
      BY <2>1 DEF OnItsWay
    <3>2. reqs'[q].st = "answered" /\ ConvOf(q)' = x
      BY <1>2, <1>5, <3>1 DEF ConvOf
    <3> QED
      BY <3>2 DEF OnItsWay
  <2> QED
    BY <1>1, <2>1 DEF ConvInv, ScreenIsLatest, Latest, Keys
<1> QED
  BY <1>1, <1>6, <1>7, <1>8, <1>9, MemoryStays DEF ConvInv

\* The page shows what the hunt found, unless it lost an answer before.
LEMMA DeliverKeeps ==
  ASSUME ConvInv, Store!TypeOK, SizesStay, NEW r \in Request, Deliver(r)
  PROVE  ConvInv'
<1>1. /\ UNCHANGED <<memory, finished>> /\ reqs[r].st = "answered"
      /\ reqs' = [reqs EXCEPT ![r] = Idle]
      /\ shown' = [k \in Key |-> IF k = ConvOf(r) /\ shown[k] # Garbled
                                 THEN Found(reqs[r].idx) ELSE shown[k]]
  BY DEF Deliver, ConvOf
<1>2. reqs[r] \in RequestRecord /\ reqs[r].awaited
  BY <1>1 DEF ConvInv, RequestsOK, Idle
<1>3. reqs'[r] = Idle /\ \A q \in Request \ {r} : reqs'[q] = reqs[q]
  BY <1>1, OthersStay DEF ConvInv
<1>4. /\ \A k \in Key : shown'[k] = IF k = ConvOf(r) /\ shown[k] # Garbled
                                    THEN Found(reqs[r].idx) ELSE shown[k]
      /\ shown' \in [Key -> History]
  <2>1. Found(reqs[r].idx) \in History
    BY <1>2 DEF Found, History, RequestRecord
  <2> HIDE DEF Found
  <2> QED
    BY <1>1, <2>1 DEF ConvInv
<1>5. RequestsOK'
  <2>1. reqs' \in [Request -> RequestRecord \cup {Idle}]
    BY <1>1 DEF ConvInv, RequestsOK
  <2>2. ASSUME NEW q \in Request, reqs'[q].st # "idle"
        PROVE  /\ reqs'[q].sid \in 1..minted'
               /\ reqs'[q].st = "answered" => reqs'[q].awaited
               /\ reqs'[q].st \in {"evaluating", "generating"} =>
                     reqs'[q].conv = NoConv /\ ~reqs'[q].followUp
               /\ reqs'[q].conv # NoConv /\ ~reqs'[q].awaited => shown'[ConvOf(q)'] = Garbled
    <3>1. q # r
      BY <1>3, <2>2 DEF Idle
    <3>2. reqs'[q] = reqs[q] /\ ConvOf(q)' = ConvOf(q)
      BY <1>3, <3>1 DEF ConvOf
    <3>3. reqs[q] \in RequestRecord
      BY <2>2, <3>2 DEF ConvInv, RequestsOK, Idle
    <3>4. reqs[q].conv # NoConv => ConvOf(q) \in Key
      BY <3>3 DEF RequestRecord, ConvOf, Key
    <3>5. reqs[q].conv # NoConv /\ ~reqs[q].awaited => shown[ConvOf(q)] = Garbled
      BY <2>2, <3>2 DEF ConvInv, RequestsOK
    <3> QED
      BY <1>4, <2>2, <3>2, <3>4, <3>5 DEF ConvInv, RequestsOK, SizesStay
  <2> QED
    BY <2>1, <2>2 DEF RequestsOK
<1>6. \A q \in Request : OpenAwaited(q)' => q # r /\ OpenAwaited(q) /\ ConvOf(q)' = ConvOf(q)
  BY <1>3 DEF OpenAwaited, ConvOf, Idle
<1>7. OneWaiting'
  BY <1>6 DEF ConvInv, OneWaiting
<1>8. AnswerIsLatest'
  <2> SUFFICES ASSUME NEW q \in Request, (reqs[q].st = "answered")', (reqs[q].conv # NoConv)',
                      (shown[ConvOf(q)] # Garbled)'
               PROVE  Latest(ConvOf(q), Found(reqs[q].idx))'
    BY DEF AnswerIsLatest
  <2>1. q # r
    BY <1>3 DEF Idle
  <2>2. reqs'[q] = reqs[q] /\ ConvOf(q)' = ConvOf(q)
    BY <1>3, <2>1 DEF ConvOf
  <2>3. reqs[q] \in RequestRecord /\ OpenAwaited(q)
    BY <2>2 DEF ConvInv, RequestsOK, OpenAwaited, Idle
  <2>4. ConvOf(q) \in Key
    BY <2>2, <2>3 DEF RequestRecord, ConvOf, Key
  <2>5. ConvOf(q) # ConvOf(r)
    <3>1. ASSUME ConvOf(q) = ConvOf(r) PROVE FALSE
      <4>1. OpenAwaited(r)
        BY <1>1, <1>2, <2>3, <3>1 DEF OpenAwaited, ConvOf
      <4> QED
        BY <2>1, <2>3, <3>1, <4>1 DEF ConvInv, OneWaiting
    <3> QED
      BY <3>1
  <2>6. shown'[ConvOf(q)] = shown[ConvOf(q)]
    BY <1>4, <2>4, <2>5
  <2>7. Latest(ConvOf(q), Found(reqs[q].idx))
    BY <2>2, <2>6 DEF ConvInv, AnswerIsLatest
  <2> QED
    BY <1>1, <2>2, <2>7 DEF Latest, Keys
<1>9. ScreenIsLatest'
  <2> SUFFICES ASSUME NEW x \in Key, (shown[x].kind = "found")', ~OnItsWay(x)'
               PROVE  Latest(x, shown[x])'
    BY DEF ScreenIsLatest
  <2>1. CASE x = ConvOf(r)
    <3>1. shown[x] # Garbled
      BY <1>4, <2>1 DEF Garbled
    <3>2. shown'[x] = Found(reqs[r].idx)
      BY <1>4, <2>1, <3>1
    <3>3. reqs[r].conv # NoConv
      BY <2>1, Settings DEF Key, ConvOf
    <3>4. Latest(x, Found(reqs[r].idx))
      BY <1>1, <2>1, <3>1, <3>3 DEF ConvInv, AnswerIsLatest
    <3> QED
      BY <1>1, <3>2, <3>4 DEF Latest, Keys
  <2>2. CASE x # ConvOf(r)
    <3>1. shown'[x] = shown[x]
      BY <1>4, <2>2
    <3>2. ~OnItsWay(x)
      <4>1. ASSUME NEW q \in Request, reqs[q].st = "answered", ConvOf(q) = x PROVE FALSE
        <5>1. q # r
          BY <2>2, <4>1
        <5>2. reqs'[q].st = "answered" /\ ConvOf(q)' = x
          BY <1>3, <4>1, <5>1 DEF ConvOf
        <5> QED
          BY <5>2 DEF OnItsWay
      <4> QED
        BY <4>1 DEF OnItsWay
    <3>3. Latest(x, shown[x])
      BY <3>1, <3>2 DEF ConvInv, ScreenIsLatest
    <3> QED
      BY <1>1, <3>1, <3>3 DEF Latest, Keys
  <2> QED
    BY <2>1, <2>2
<1> QED
  BY <1>1, <1>4, <1>5, <1>7, <1>8, <1>9, MemoryStays DEF ConvInv

\* A conversation that loses an answer is garbled from then on.
LEMMA LoseKeeps ==
  ASSUME ConvInv, Store!TypeOK, SizesStay, NEW r \in Request, Lose(r)
  PROVE  ConvInv'
<1> DEFINE req == IF reqs[r].st = "answered" THEN Idle ELSE [reqs[r] EXCEPT !.awaited = FALSE]
<1>1. /\ UNCHANGED <<memory, finished>> /\ reqs[r].st # "idle" /\ reqs[r].awaited
      /\ reqs' = [reqs EXCEPT ![r] = req]
      /\ shown' = [k \in Key |-> IF k = ConvOf(r) THEN Garbled ELSE shown[k]]
  BY DEF Lose, ConvOf
<1>2. reqs[r] \in RequestRecord /\ reqs[r].sid \in 1..minted
  BY <1>1 DEF ConvInv, RequestsOK, Idle
<1>3. /\ req \in RequestRecord \cup {Idle} /\ req.st # "answered"
      /\ req.st # "idle" => /\ req.sid = reqs[r].sid /\ req.conv = reqs[r].conv
                            /\ req.st = reqs[r].st /\ req.followUp = reqs[r].followUp
                            /\ req.awaited = FALSE
  BY <1>2 DEF RequestRecord, InFlight, Idle
<1> HIDE DEF req
<1>4. reqs'[r] = req /\ \A q \in Request \ {r} : reqs'[q] = reqs[q]
  BY <1>1, OthersStay DEF ConvInv
<1>5. /\ \A k \in Key : shown'[k] = IF k = ConvOf(r) THEN Garbled ELSE shown[k]
      /\ shown' \in [Key -> History]
  <2>1. Garbled \in History
    BY DEF Garbled, History
  <2> QED
    BY <1>1, <2>1 DEF ConvInv
<1>6. RequestsOK'
  <2>1. reqs' \in [Request -> RequestRecord \cup {Idle}]
    BY <1>1, <1>3 DEF ConvInv, RequestsOK
  <2>2. ASSUME NEW q \in Request, reqs'[q].st # "idle"
        PROVE  /\ reqs'[q].sid \in 1..minted'
               /\ reqs'[q].st = "answered" => reqs'[q].awaited
               /\ reqs'[q].st \in {"evaluating", "generating"} =>
                     reqs'[q].conv = NoConv /\ ~reqs'[q].followUp
               /\ reqs'[q].conv # NoConv /\ ~reqs'[q].awaited => shown'[ConvOf(q)'] = Garbled
    <3>1. /\ reqs[q].st # "idle" /\ reqs'[q].st = reqs[q].st /\ ConvOf(q)' = ConvOf(q)
          /\ reqs'[q].sid = reqs[q].sid /\ reqs'[q].conv = reqs[q].conv
          /\ reqs'[q].followUp = reqs[q].followUp
      BY <1>1, <1>3, <1>4, <2>2 DEF ConvOf
    <3>2. reqs[q] \in RequestRecord
      BY <3>1 DEF ConvInv, RequestsOK, Idle
    <3>3. reqs[q].conv # NoConv => ConvOf(q) \in Key
      BY <3>2 DEF RequestRecord, ConvOf, Key
    <3>4. reqs'[q].st = "answered" => reqs'[q].awaited
      BY <1>3, <1>4, <3>1 DEF ConvInv, RequestsOK
    <3>5. reqs'[q].conv # NoConv /\ ~reqs'[q].awaited => shown'[ConvOf(q)'] = Garbled
      <4>1. CASE q = r
        BY <1>5, <3>1, <3>3, <4>1
      <4>2. CASE q # r
        BY <1>4, <1>5, <3>1, <3>3, <4>2 DEF ConvInv, RequestsOK
      <4> QED
        BY <4>1, <4>2
    <3> QED
      BY <3>1, <3>4, <3>5 DEF ConvInv, RequestsOK, SizesStay
  <2> QED
    BY <2>1, <2>2 DEF RequestsOK
<1>7. \A q \in Request : OpenAwaited(q)' => q # r /\ OpenAwaited(q) /\ ConvOf(q)' = ConvOf(q)
  BY <1>3, <1>4 DEF OpenAwaited, ConvOf
<1>8. OneWaiting'
  BY <1>7 DEF ConvInv, OneWaiting
<1>9. AnswerIsLatest'
  <2> SUFFICES ASSUME NEW q \in Request, (reqs[q].st = "answered")', (reqs[q].conv # NoConv)',
                      (shown[ConvOf(q)] # Garbled)'
               PROVE  Latest(ConvOf(q), Found(reqs[q].idx))'
    BY DEF AnswerIsLatest
  <2>1. q # r
    BY <1>3, <1>4
  <2>2. reqs'[q] = reqs[q] /\ ConvOf(q)' = ConvOf(q)
    BY <1>4, <2>1 DEF ConvOf
  <2>3. reqs[q] \in RequestRecord
    BY <2>2 DEF ConvInv, RequestsOK, Idle
  <2>4. ConvOf(q) \in Key
    BY <2>2, <2>3 DEF RequestRecord, ConvOf, Key
  <2>5. shown[ConvOf(q)] # Garbled
    BY <1>5, <2>2, <2>4
  <2>6. Latest(ConvOf(q), Found(reqs[q].idx))
    BY <2>2, <2>5 DEF ConvInv, AnswerIsLatest
  <2> QED
    BY <1>1, <2>2, <2>6 DEF Latest, Keys
<1>10. ScreenIsLatest'
  <2> SUFFICES ASSUME NEW x \in Key, (shown[x].kind = "found")', ~OnItsWay(x)'
               PROVE  Latest(x, shown[x])'
    BY DEF ScreenIsLatest
  <2>1. x # ConvOf(r) /\ shown'[x] = shown[x]
    BY <1>5 DEF Garbled
  <2>2. ~OnItsWay(x)
    <3>1. ASSUME NEW q \in Request, reqs[q].st = "answered", ConvOf(q) = x PROVE FALSE
      <4>1. q # r
        BY <2>1, <3>1
      <4>2. reqs'[q].st = "answered" /\ ConvOf(q)' = x
        BY <1>4, <3>1, <4>1 DEF ConvOf
      <4> QED
        BY <4>2 DEF OnItsWay
    <3> QED
      BY <3>1 DEF OnItsWay
  <2>3. Latest(x, shown[x])
    BY <2>1, <2>2 DEF ConvInv, ScreenIsLatest
  <2> QED
    BY <1>1, <2>1, <2>3 DEF Latest, Keys
<1> QED
  BY <1>1, <1>5, <1>6, <1>8, <1>9, <1>10, MemoryStays DEF ConvInv

(***************************************************************************)
(* The invariant holds.                                                    *)
(***************************************************************************)

LEMMA InitIsFine ==
  Init => ServiceInv
<1> SUFFICES ASSUME Init PROVE ServiceInv
  OBVIOUS
<1> USE Settings
<1>1. Store!TypeOK
  BY DEF Init, Store!Init, Store!TypeOK, Store!Session, Store!Never
<1>2. Budget!TypeOK
  BY DEF Init, Budget!Init, Budget!TypeOK
<1>3. memory = <<>> /\ DOMAIN memory = {} /\ Len(memory) = 0 /\ memory \in Seq(Entry)
  BY DEF Init
<1>4. \A r \in Request : reqs[r].st = "idle"
  BY DEF Init, Idle
<1>5. finished \in [Key -> History] /\ shown \in [Key -> History]
  <2>1. Nothing \in History
    BY DEF Nothing, History
  <2> QED
    BY <2>1 DEF Init
<1>6. \A k \in Key : shown[k].kind # "found"
  BY DEF Init, Nothing
<1>7. MemoryOK /\ MemoryIsLatestAnswer
  BY <1>3 DEF MemoryOK, MemoryIsLatestAnswer
<1>8. RequestsOK
  BY <1>4 DEF Init, RequestsOK
<1>9. OneWaiting /\ AnswerIsLatest /\ ScreenIsLatest
  BY <1>4, <1>6 DEF OneWaiting, OpenAwaited, AnswerIsLatest, ScreenIsLatest
<1> QED
  BY <1>1, <1>2, <1>5, <1>7, <1>8, <1>9 DEF ServiceInv, ConvInv

LEMMA StepKeeps ==
  ServiceInv /\ [Next]_vars => ServiceInv'
<1>1. ASSUME ServiceInv, UNCHANGED vars PROVE ServiceInv'
  <2>1. UNCHANGED <<now, storeVars>> /\ UNCHANGED <<now, budgetVars>> /\ Quiet
    BY <1>1 DEF vars, Quiet
  <2> QED
    BY <1>1, <2>1, StoreStays, BudgetStays, QuietKeeps DEF ServiceInv
<1>2. ASSUME ServiceInv, Next PROVE ServiceInv'
  <2>1. /\ Store!TypeOK' /\ SizesStay /\ Budget!TypeOK'
        /\ \/ Quiet
           \/ \E r \in Request : \E s, c, st : Opens(r, s, c, st)
           \/ \E r \in Request : \E s, c, awaited : Hunts(r, s, c, awaited)
           \/ \E r \in Request : GoesOn(r) \/ Deliver(r) \/ Lose(r)
    BY <1>2, StepCases
  <2>2. ConvInv /\ Store!TypeOK
    BY <1>2 DEF ServiceInv
  <2>3. CASE Quiet
    BY <2>1, <2>2, <2>3, QuietKeeps DEF ServiceInv
  <2>4. CASE \E r \in Request : \E s, c, st : Opens(r, s, c, st)
    BY <2>1, <2>2, <2>4, OpenKeeps DEF ServiceInv
  <2>5. CASE \E r \in Request : \E s, c, awaited : Hunts(r, s, c, awaited)
    BY <2>1, <2>2, <2>5, HuntKeeps DEF ServiceInv
  <2>6. CASE \E r \in Request : GoesOn(r) \/ Deliver(r) \/ Lose(r)
    BY <2>1, <2>2, <2>6, GoesOnKeeps, DeliverKeeps, LoseKeeps DEF ServiceInv
  <2> QED
    BY <2>1, <2>3, <2>4, <2>5, <2>6
<1> QED
  BY <1>1, <1>2

(***************************************************************************)
(* What the page shows of a result.                                        *)
(***************************************************************************)

\* An answer carries the first of its result, the screen shows the first of that.
RowsInv ==
    /\ screen \in [Key -> SUBSET Event]
    /\ \A r \in Request : reqs[r].st # "idle" => reqs[r].results = First(reqs[r].idx, Returned)
    /\ \A k \in Key : shown[k].kind = "found" =>
          screen[k] = First(First(shown[k].idx, Returned), Rows)

LEMMA InitShowsNothing ==
  Init => RowsInv
BY DEF Init, RowsInv, Idle, Nothing

LEMMA EmptySlice ==
  First({}, Returned) = {}
BY Settings, FirstOf

LEMMA StepShowsRows ==
  ASSUME ServiceInv, RowsInv, Next
  PROVE  RowsInv'
<1>0. /\ RequestsOK /\ ConvInv /\ reqs \in [Request -> RequestRecord \cup {Idle}]
      /\ finished \in [Key -> History] /\ shown \in [Key -> History]
  BY DEF ServiceInv, ConvInv, RequestsOK
<1>1. CASE Quiet
  BY <1>1 DEF Quiet, history, RowsInv
<1>2. ASSUME NEW r \in Request, NEW s, NEW c, NEW st, Opens(r, s, c, st)
      PROVE  RowsInv'
  <2>1. reqs' = [reqs EXCEPT ![r] = Asked(st, s, c)] /\ UNCHANGED <<shown, screen>>
    BY <1>2 DEF Opens, history
  <2>2. Asked(st, s, c).idx = {} /\ Asked(st, s, c).results = {}
    BY DEF Asked
  <2>3. reqs'[r] = Asked(st, s, c) /\ \A q \in Request \ {r} : reqs'[q] = reqs[q]
    BY <1>0, <2>1, OthersStay
  <2> QED
    BY <2>1, <2>2, <2>3, EmptySlice DEF RowsInv
<1>3. ASSUME NEW r \in Request, NEW s, NEW c, NEW awaited, Hunts(r, s, c, awaited)
      PROVE  RowsInv'
  <2>1. PICK followUp, R :
           reqs' = [reqs EXCEPT ![r] = IF awaited THEN Answer(s, c, followUp, R) ELSE Idle]
    BY <1>3 DEF Hunts, RunHunt
  <2>2. UNCHANGED <<shown, screen>>
    BY <1>3 DEF Hunts, RunHunt
  <2>3. Answer(s, c, followUp, R).results = First(Answer(s, c, followUp, R).idx, Returned)
    BY AnswerIs, EmptySlice
  <2>4. /\ reqs'[r] = IF awaited THEN Answer(s, c, followUp, R) ELSE Idle
        /\ \A q \in Request \ {r} : reqs'[q] = reqs[q]
    BY <1>0, <2>1, OthersStay
  <2>5. Idle.st = "idle"
    BY DEF Idle
  <2> QED
    BY <2>2, <2>3, <2>4, <2>5 DEF RowsInv
<1>4. ASSUME NEW r \in Request, GoesOn(r)
      PROVE  RowsInv'
  <2>1. UNCHANGED <<shown, screen>> /\ reqs[r].st # "idle"
    BY <1>4 DEF GoesOn, history
  <2>2. reqs[r] \in RequestRecord
    BY <1>0, <2>1 DEF Idle
  <2>3. /\ reqs'[r].st # "idle" => reqs'[r].idx = reqs[r].idx /\ reqs'[r].results = reqs[r].results
        /\ \A q \in Request \ {r} : reqs'[q] = reqs[q]
    BY <1>0, <1>4, <2>2 DEF GoesOn, RequestRecord, Idle
  <2> QED
    BY <2>1, <2>3 DEF RowsInv
<1>5. ASSUME NEW r \in Request, Deliver(r)
      PROVE  RowsInv'
  <2>1. reqs'[r] = Idle /\ \A q \in Request \ {r} : reqs'[q] = reqs[q]
    BY <1>0, <1>5, OthersStay DEF Deliver
  <2>2. reqs[r] \in RequestRecord /\ reqs[r].results = First(reqs[r].idx, Returned)
    BY <1>0, <1>5 DEF Deliver, Idle, RowsInv
  <2>3. First(reqs[r].results, Rows) \in SUBSET Event
    BY <2>2, FirstOf, Settings DEF RequestRecord
  <2>4. /\ shown' = [k \in Key |-> IF k = ConvOf(r) /\ shown[k] # Garbled
                                   THEN Found(reqs[r].idx) ELSE shown[k]]
        /\ screen' = [k \in Key |-> IF k = ConvOf(r) /\ shown[k] # Garbled
                                    THEN First(reqs[r].results, Rows) ELSE screen[k]]
    BY <1>5 DEF Deliver, ConvOf
  <2>5. screen' \in [Key -> SUBSET Event]
    BY <2>3, <2>4 DEF RowsInv
  <2>6. ASSUME NEW k \in Key, shown'[k].kind = "found"
        PROVE  screen'[k] = First(First(shown'[k].idx, Returned), Rows)
    <3>1. CASE k = ConvOf(r) /\ shown[k] # Garbled
      <4>1. shown'[k] = Found(reqs[r].idx) /\ screen'[k] = First(reqs[r].results, Rows)
        BY <2>4, <3>1
      <4> QED
        BY <2>2, <4>1 DEF Found
    <3>2. CASE ~(k = ConvOf(r) /\ shown[k] # Garbled)
      <4>1. shown'[k] = shown[k] /\ screen'[k] = screen[k]
        BY <2>4, <3>2
      <4> QED
        BY <2>6, <4>1 DEF RowsInv
    <3> QED
      BY <3>1, <3>2
  <2> QED
    BY <2>1, <2>5, <2>6 DEF RowsInv, Idle
<1>6. ASSUME NEW r \in Request, Lose(r)
      PROVE  RowsInv'
  <2>1. reqs[r] \in RequestRecord
    BY <1>0, <1>6 DEF Lose, Idle
  <2>2. /\ reqs'[r].st # "idle" => reqs'[r].idx = reqs[r].idx /\ reqs'[r].results = reqs[r].results
        /\ \A q \in Request \ {r} : reqs'[q] = reqs[q]
    BY <1>0, <1>6, <2>1 DEF Lose, RequestRecord, Idle
  <2>3. /\ shown' = [k \in Key |-> IF k = ConvOf(r) THEN Garbled ELSE shown[k]]
        /\ screen' = [k \in Key |-> IF k = ConvOf(r) THEN {} ELSE screen[k]]
    BY <1>6 DEF Lose, ConvOf
  <2>4. screen' \in [Key -> SUBSET Event]
    BY <2>3 DEF RowsInv
  <2>5. ASSUME NEW k \in Key, shown'[k].kind = "found"
        PROVE  screen'[k] = First(First(shown'[k].idx, Returned), Rows)
    <3>1. shown'[k] = shown[k] /\ screen'[k] = screen[k]
      BY <2>3, <2>5 DEF Garbled
    <3> QED
      BY <2>5, <3>1 DEF RowsInv
  <2>6. reqs[r].st # "idle"
    BY <1>6 DEF Lose
  <2> QED
    BY <2>2, <2>4, <2>5, <2>6 DEF RowsInv
<1> QED
  BY <1>1, <1>2, <1>3, <1>4, <1>5, <1>6, StepCases

\* What is shown of a short result is all of it.
LEMMA ShortResultIsShown ==
  ASSUME RowsInv, shown \in [Key -> History], NEW k \in Key, shown[k].kind = "found",
         Cardinality(shown[k].idx) <= Rows
  PROVE  screen[k] = shown[k].idx
<1>1. shown[k].idx \in SUBSET Event
  BY DEF History
<1>2. Cardinality(shown[k].idx) \in Nat
  <2>1. IsFiniteSet(Event)
    BY Settings, FS_Interval DEF Event
  <2> QED
    BY <1>1, <2>1, FS_Subset, FS_CardinalityType
<1>3. Cardinality(shown[k].idx) <= Returned
  BY <1>2, Settings
<1>4. First(shown[k].idx, Returned) = shown[k].idx /\ First(shown[k].idx, Rows) = shown[k].idx
  BY <1>1, <1>3, FirstOf, Settings
<1> QED
  BY <1>4 DEF RowsInv

LEMMA InvariantHolds ==
  Spec => [](ServiceInv /\ RowsInv)
<1>1. ServiceInv /\ RowsInv /\ [Next]_vars => RowsInv'
  <2>1. ASSUME RowsInv, UNCHANGED vars PROVE RowsInv'
    BY <2>1 DEF RowsInv, vars, history
  <2> QED
    BY <2>1, StepShowsRows
<1> QED
  BY <1>1, InitIsFine, InitShowsNothing, StepKeeps, PTL DEF Spec

(***************************************************************************)
(* The theorems.                                                           *)
(***************************************************************************)

\* Every variable of the service has its type at all times, whatever the requests
\* do to the session cache, the budget and the conversation memory.
THEOREM TypeCorrect ==
  Spec => []TypeOK
<1>1. ServiceInv /\ RowsInv => TypeOK
  BY DEF ServiceInv, ConvInv, MemoryOK, Entry, RequestsOK, RowsInv, TypeOK
<1> QED
  BY <1>1, InvariantHolds, PTL

\* The memory of a conversation is the result of its own latest hunt on its own
\* dataset (_conv_remember and _conv_recall, main.py).
THEOREM MemoryIsOwn ==
  Spec => []MemoryIsLatestAnswer
<1>1. ServiceInv => MemoryIsLatestAnswer
  BY DEF ServiceInv, ConvInv
<1> QED
  BY <1>1, InvariantHolds, PTL

LEMMA OnlyPayingCharges ==
  ASSUME ServiceInv, Next, NEW s \in Session, s \in open' \ open \/ total'[s] # total[s]
  PROVE  Store!Hit(s)
<1>1. ASSUME NEW r, NEW t \in Session, NEW c, NEW cost, NEW st, Pay(r, t, c, cost, st)
      PROVE  Store!Hit(s)
  <2>1. ASSUME s # t PROVE FALSE
    <3>1. CASE Store!Hit(t)
      <4>1. Budget!Charge(t, cost)
        BY <1>1, <3>1 DEF Pay
      <4>2. open' \subseteq open \cup {t}
        BY <4>1 DEF Budget!Charge, Budget!Fresh
      <4>3. total' = total \/ total' = [total EXCEPT ![t] = total[t] + cost]
        BY <4>1 DEF Budget!Charge
      <4>4. total \in [Session -> Nat]
        BY DEF ServiceInv, Budget!TypeOK
      <4> QED
        BY <2>1, <4>2, <4>3, <4>4
    <3>2. CASE ~Store!Hit(t)
      BY <1>1, <3>2 DEF Pay, budgetVars
    <3> QED
      BY <3>1, <3>2
  <2>2. ASSUME ~Store!Hit(t) PROVE FALSE
    BY <1>1, <2>2 DEF Pay, budgetVars
  <2> QED
    BY <2>1, <2>2
<1>2. ~UNCHANGED <<open, total>>
  OBVIOUS
<1>3. \/ \E r \in Request, t \in Session, c \in Conv \cup {NoConv}, cost \in Costs : HuntBegin(r, t, c, cost)
      \/ \E r \in Request, t \in Session : HypothesesBegin(r, t)
  BY <1>2 DEF Next, Upload, HuntExecute, HuntFinish, HypothesesEvaluated, HypothesesFinish,
              Deliver, Lose, Tick, Budget!Tick, budgetVars
<1>4. CASE \E r \in Request, t \in Session, c \in Conv \cup {NoConv}, cost \in Costs : HuntBegin(r, t, c, cost)
  <2>1. PICK r \in Request, t \in Session, c \in Conv \cup {NoConv}, cost \in Costs : HuntBegin(r, t, c, cost)
    BY <1>4
  <2>2. Pay(r, t, c, cost, "translating")
    BY <1>2, <2>1 DEF HuntBegin, budgetVars
  <2> QED
    BY <1>1, <2>2
<1>5. CASE \E r \in Request, t \in Session : HypothesesBegin(r, t)
  BY <1>1, <1>5 DEF HypothesesBegin
<1> QED
  BY <1>3, <1>4, <1>5

\* The budget only ever charges a dataset the session cache still holds, so ids
\* that are made up or expired never open an account (hunt_nl looks the session up
\* before it charges, main.py).
THEOREM OnlyCachedAreCharged ==
  Spec => ChargedOnlyWhileCached
<1>1. ServiceInv /\ [Next]_vars =>
        [\A s \in Session :
            s \in open' \ open \/ total'[s] # total[s]
            => s \in live /\ now - accessed[s] <= SessionTtl]_vars
  <2>1. SUFFICES ASSUME ServiceInv, Next, NEW s \in Session,
                        s \in open' \ open \/ total'[s] # total[s]
                 PROVE  s \in live /\ now - accessed[s] <= SessionTtl
    OBVIOUS
  <2>2. Store!Hit(s)
    BY <2>1, OnlyPayingCharges
  <2> QED
    BY <2>2 DEF Store!Hit, Store!Unexpired
<1> QED
  BY <1>1, InvariantHolds, PTL DEF Spec, ChargedOnlyWhileCached

\* The heart of the follow-up: nothing of this conversation is on its way, so what
\* the screen shows is what the memory recalls.
LEMMA HuntNarrows ==
  ASSUME ServiceInv, RowsInv, NEW r \in Request, NEW s, NEW c, NEW awaited, Hunts(r, s, c, awaited),
         AsksFurther(r), Screen(r).kind = "found", Screen(r).idx # {},
         <<reqs'[r].sid, reqs'[r].conv>> \in Keys(memory) \/ Len(memory) < ConvCap
  PROVE  /\ reqs'[r].idx \subseteq Screen(r).idx
         /\ Cardinality(Screen(r).idx) <= Rows => reqs'[r].idx \subseteq OnScreen(r)
<1> DEFINE k == <<s, c>>
<1>1. PICK followUp, R :
         /\ followUp \in BOOLEAN /\ R \in SUBSET Base(s, c, followUp)
         /\ reqs' = [reqs EXCEPT ![r] =
                 IF awaited
                 THEN Answer(s, c, followUp, R)
                 ELSE Idle]
  BY DEF Hunts, RunHunt
<1>2. reqs'[r] = IF awaited
                 THEN Answer(s, c, followUp, R)
                 ELSE Idle
  BY <1>1 DEF ServiceInv, ConvInv, RequestsOK
<1>3. awaited
  BY <1>2 DEF AsksFurther, Answers, Idle
<1>4. /\ reqs'[r].sid = s /\ reqs'[r].conv = c
      /\ c # NoConv /\ reqs'[r].followUp = followUp /\ reqs'[r].idx = R
  <2>1. reqs'[r] = Answer(s, c, followUp, R)
    BY <1>2, <1>3
  <2>2. c # NoConv
    BY <2>1, AnswerIs DEF AsksFurther
  <2> QED
    BY <2>1, <2>2, AnswerIs
<1>5. followUp /\ c # NoConv /\ Screen(r) = shown[k] /\ OnScreen(r) = screen[k]
  BY <1>4 DEF AsksFurther, Screen, OnScreen
<1>6. s \in 1..minted /\ c \in Conv /\ k \in Key
  <2>1. s \in 1..minted /\ c \in Conv
    BY <1>5 DEF Hunts
  <2>2. s \in Session
    BY <2>1, KnownIsSession DEF ServiceInv
  <2> QED
    BY <2>1, <2>2, KeyType
<1>7. ~OnItsWay(k)
  <2>1. ASSUME NEW q \in Request, reqs[q].st = "answered", ConvOf(q) = k PROVE FALSE
    <3>1. reqs[q].conv # NoConv
      BY <1>5, <2>1 DEF ConvOf
    <3>2. OpenAwaited(q)
      BY <2>1, <3>1 DEF OpenAwaited, ServiceInv, ConvInv, RequestsOK
    <3> QED
      BY <1>3, <1>5, <2>1, <3>2, HuntAlone DEF ServiceInv
  <2> QED
    BY <2>1 DEF OnItsWay
<1>8. Latest(k, shown[k])
  BY <1>5, <1>6, <1>7 DEF ServiceInv, ConvInv, ScreenIsLatest
<1>9. k \in Keys(memory) /\ finished[k] = shown[k]
  <2>1. k \in Keys(memory) \/ Len(memory) < ConvCap
    BY <1>4
  <2>2. Len(memory) \in Nat /\ ConvCap \in Nat
    BY Settings DEF ServiceInv, ConvInv, MemoryOK
  <2> QED
    BY <1>8, <2>1, <2>2 DEF Latest
<1>10. PICK i \in DOMAIN memory : memory[i].key = k
  BY <1>9 DEF Keys
<1>11. /\ shown[k].idx = memory[i].idx /\ IndicesOf(k) = memory[i].idx
       /\ memory[i].idx \subseteq 0..(size[s] - 1)
  <2>1. finished[k] = Found(memory[i].idx) /\ memory[i].idx \subseteq 0..(size[s] - 1)
    BY <1>10 DEF ServiceInv, ConvInv, MemoryIsLatestAnswer
  <2>2. IndicesOf(k) = memory[i].idx
    BY <1>10, Recalled DEF ServiceInv, ConvInv
  <2> QED
    BY <1>9, <2>1, <2>2 DEF Found
<1>12. size[s] \in Nat
  BY <1>6, KnownIsSession, Settings DEF ServiceInv, Store!TypeOK, Store!Session, Session
<1>13. Recall(s, c) = shown[k].idx
  <2>1. ConvKey(s, c) \cap Keys(memory) = {k}
    BY <1>5, <1>9, KeyOf
  <2>2. {x \in IndicesOf(k) : 0 <= x /\ x < size[s]} = shown[k].idx
    BY <1>11, <1>12
  <2> HIDE DEF k
  <2> QED
    BY <2>1, <2>2 DEF Recall
<1>14. Base(s, c, followUp) = shown[k].idx
  BY <1>5, <1>13 DEF Base
<1>15. Cardinality(shown[k].idx) <= Rows => screen[k] = shown[k].idx
  BY <1>5, <1>6, ShortResultIsShown DEF ServiceInv, ConvInv
<1> QED
  BY <1>1, <1>4, <1>5, <1>14, <1>15

\* A follow-up of a conversation that lost no answer stays within all that its latest
\* answer found, and within what the analyst sees if the page has room for all that, for
\* any number of datasets, conversations and requests in flight (the base set of execute,
\* hunt_ir.py, fed by _conv_recall, main.py).
THEOREM FollowUpRefines ==
  Spec => FollowUpNarrows
<1>1. ServiceInv /\ RowsInv /\ [Next]_vars =>
        [\A r \in Request :
            /\ AsksFurther(r)
            /\ Screen(r).kind = "found"
            /\ Screen(r).idx # {}
            /\ <<reqs'[r].sid, reqs'[r].conv>> \in Keys(memory) \/ Len(memory) < ConvCap
            => /\ reqs'[r].idx \subseteq Screen(r).idx
               /\ Cardinality(Screen(r).idx) <= Rows => reqs'[r].idx \subseteq OnScreen(r)]_vars
  <2>1. SUFFICES ASSUME ServiceInv, RowsInv, Next, NEW r \in Request,
                        AsksFurther(r), Screen(r).kind = "found", Screen(r).idx # {},
                        <<reqs'[r].sid, reqs'[r].conv>> \in Keys(memory) \/ Len(memory) < ConvCap
                 PROVE  /\ reqs'[r].idx \subseteq Screen(r).idx
                        /\ Cardinality(Screen(r).idx) <= Rows => reqs'[r].idx \subseteq OnScreen(r)
    OBVIOUS
  <2>2. RequestsOK /\ reqs \in [Request -> RequestRecord \cup {Idle}]
    BY <2>1 DEF ServiceInv, ConvInv, RequestsOK
  <2>3. reqs[r].st # "answered" /\ reqs'[r].st = "answered" /\ reqs'[r].followUp /\ reqs'[r].conv # NoConv
    BY <2>1 DEF AsksFurther, Answers
  <2>4. ASSUME NEW q \in Request, NEW s, NEW c, NEW st, Opens(q, s, c, st) PROVE FALSE
    <3>1. reqs'[q].st # "answered" /\ \A p \in Request \ {q} : reqs'[p] = reqs[p]
      BY <2>2, <2>4 DEF Opens, Asked
    <3> QED
      BY <2>3, <3>1
  <2>5. ASSUME NEW q \in Request, NEW s, NEW c, NEW awaited, Hunts(q, s, c, awaited), q # r PROVE FALSE
    <3>1. reqs'[r] = reqs[r]
      BY <2>2, <2>5 DEF Hunts, RunHunt
    <3> QED
      BY <2>3, <3>1
  <2>6. ASSUME NEW q \in Request, GoesOn(q) PROVE FALSE
    <3>1. q # r => reqs'[r] = reqs[r]
      BY <2>2, <2>6 DEF GoesOn
    <3>2. reqs[q] \in RequestRecord /\ reqs[q].conv = NoConv
      BY <2>2, <2>6 DEF GoesOn, RequestsOK, Idle
    <3>3. q = r => reqs'[r].conv = NoConv \/ reqs'[r].st = "idle"
      BY <2>2, <2>6, <3>2 DEF GoesOn, RequestRecord, Idle
    <3> QED
      BY <2>3, <3>1, <3>3
  <2>7. ASSUME NEW q \in Request, Deliver(q) \/ Lose(q) PROVE FALSE
    <3>1. q # r => reqs'[r] = reqs[r]
      BY <2>2, <2>7 DEF Deliver, Lose
    <3>2. q = r => reqs'[r].st # "answered"
      <4>1. reqs[q] \in RequestRecord
        BY <2>2, <2>7 DEF Deliver, Lose, Idle
      <4> QED
        BY <2>2, <2>7, <4>1 DEF Deliver, Lose, Idle, RequestRecord
    <3> QED
      BY <2>3, <3>1, <3>2
  <2>8. ~Quiet
    BY <2>3 DEF Quiet
  <2>9. PICK s, c, awaited : Hunts(r, s, c, awaited)
    BY <2>1, <2>4, <2>5, <2>6, <2>7, <2>8, StepCases
  <2> QED
    BY <2>1, <2>9, HuntNarrows
<1> QED
  BY <1>1, InvariantHolds, PTL DEF Spec, FollowUpNarrows

\* What the hunt does to the session cache is what SessionStore allows: the handlers
\* never reach into it but through put and get, whatever else they do.
THEOREM UsesTheStore ==
  Spec => Store!Spec
<1>1. Init => Store!Init
  BY DEF Init
<1>2. [Next]_vars => [Store!Next]_(Store!vars)
  <2>1. UNCHANGED <<now, storeVars>> => UNCHANGED Store!vars
    BY DEF storeVars, Store!vars
  <2>2. ASSUME NEW n \in Sizes, NEW anyFinding \in BOOLEAN, Upload(n, anyFinding)
        PROVE  Store!Next
    BY <2>2 DEF Upload, Store!Next
  <2>3. ASSUME NEW s \in Session, Store!Get(s) PROVE Store!Next
    BY <2>3 DEF Store!Next, Store!Session, Session
  <2>4. Tick => Store!Next
    BY DEF Tick, Budget!Tick, storeVars, Store!Next, Store!Tick
  <2>5. ASSUME NEW r \in Request, NEW s \in Session, NEW c \in Conv \cup {NoConv},
               NEW cost \in Costs, HuntBegin(r, s, c, cost)
        PROVE  Store!Get(s)
    BY <2>5 DEF HuntBegin, Pay
  <2>6. ASSUME NEW r \in Request, NEW s \in Session, NEW c \in Conv \cup {NoConv},
               NEW validIR \in BOOLEAN, HuntExecute(r, s, c, validIR)
        PROVE  Store!Get(s)
    BY <2>6 DEF HuntExecute
  <2>7. ASSUME NEW r \in Request, NEW s \in Session, HypothesesBegin(r, s)
        PROVE  Store!Get(s)
    BY <2>7 DEF HypothesesBegin, Pay
  <2>8. ASSUME NEW r \in Request,
               \/ HuntFinish(r) \/ HypothesesEvaluated(r) \/ HypothesesFinish(r)
               \/ Deliver(r) \/ Lose(r)
        PROVE  UNCHANGED <<now, storeVars>>
    BY <2>8 DEF HuntFinish, HypothesesEvaluated, HypothesesFinish, Deliver, Lose
  <2>9. UNCHANGED vars => UNCHANGED <<now, storeVars>>
    BY DEF vars
  <2> QED
    BY <2>1, <2>2, <2>3, <2>4, <2>5, <2>6, <2>7, <2>8, <2>9 DEF Next
<1> QED
  BY <1>1, <1>2, PTL DEF Spec, Store!Spec
\* And what it does to the accounts is what TokenBudget allows: a question over the
\* request cap is never charged, a hypothesis board always has its flat price, and no
\* handler pays but through charge (main.py:797-800 and 883).
THEOREM UsesTheBudget ==
  Spec => Budget!Spec
<1>1. Init => Budget!Init
  BY DEF Init
<1>2. [Next]_vars => [Budget!Next]_(Budget!vars)
  <2>1. UNCHANGED <<now, budgetVars>> => UNCHANGED Budget!vars
    BY DEF budgetVars, Budget!vars
  <2>2. \A s \in Session : Store!Get(s) => UNCHANGED now
    BY DEF Store!Get
  <2>3. ASSUME NEW n \in Sizes, NEW anyFinding \in BOOLEAN, Upload(n, anyFinding)
        PROVE  UNCHANGED <<now, budgetVars>>
    BY <2>3 DEF Upload, Store!Put
  <2>4. Tick => Budget!Next
    BY DEF Tick, Budget!Next
  <2>5. ASSUME NEW r \in Request, NEW s \in Session, NEW c \in Conv \cup {NoConv},
               NEW cost, NEW st, Pay(r, s, c, cost, st)
        PROVE  Budget!Charge(s, cost) \/ UNCHANGED <<now, budgetVars>>
    BY <2>2, <2>5 DEF Pay
  <2>6. ASSUME NEW r \in Request, NEW s \in Session, NEW c \in Conv \cup {NoConv},
               NEW cost \in Costs, HuntBegin(r, s, c, cost)
        PROVE  Budget!Next \/ UNCHANGED <<now, budgetVars>>
    <3>1. CASE Budget!WithinRequestCap(cost)
      <4>1. Budget!Submit(s, cost) \/ UNCHANGED <<now, budgetVars>>
        BY <2>5, <2>6, <3>1 DEF HuntBegin, Budget!Submit
      <4> QED
        BY <4>1 DEF Budget!Next
    <3> QED
      BY <2>2, <2>6, <3>1 DEF HuntBegin
  <2>7. ASSUME NEW r \in Request, NEW s \in Session, HypothesesBegin(r, s)
        PROVE  Budget!Next \/ UNCHANGED <<now, budgetVars>>
    <3>1. Budget!Charge(s, HypothesisCost) \/ UNCHANGED <<now, budgetVars>>
      BY <2>5, <2>7 DEF HypothesesBegin
    <3> QED
      BY <3>1 DEF Budget!Next
  <2>8. ASSUME NEW r \in Request, NEW s \in Session, NEW c \in Conv \cup {NoConv},
               NEW validIR \in BOOLEAN, HuntExecute(r, s, c, validIR)
        PROVE  UNCHANGED <<now, budgetVars>>
    BY <2>2, <2>8 DEF HuntExecute
  <2>9. ASSUME NEW r \in Request,
               \/ HuntFinish(r) \/ HypothesesEvaluated(r) \/ HypothesesFinish(r)
               \/ Deliver(r) \/ Lose(r)
        PROVE  UNCHANGED <<now, budgetVars>>
    BY <2>9 DEF HuntFinish, HypothesesEvaluated, HypothesesFinish, Deliver, Lose
  <2>10. UNCHANGED vars => UNCHANGED <<now, budgetVars>>
    BY DEF vars
  <2> QED
    BY <2>1, <2>3, <2>4, <2>6, <2>7, <2>8, <2>9, <2>10 DEF Next
<1> QED
  BY <1>1, <1>2, PTL DEF Spec, Budget!Spec
=============================================================================
