------------------------------- MODULE Embeddings ------------------------------
(***************************************************************************)
(* embeddings.py: vectors of texts from a model, or from a deterministic   *)
(* hash when no model answers, a bounded cache of them, and the index of   *)
(* known-bad commands that is built on first use.                          *)
(*                                                                         *)
(* A vector is the text it stands for and the source that made it: vectors *)
(* of different sources differ in length, so their cosine is 0.            *)
(***************************************************************************)
EXTENDS Integers, FiniteSets, Sequences

CONSTANTS
    TextSet,        \* the texts
    Source,         \* how a call can end: "ollama", "openai" or "hash"
    Similarity,     \* of each source: the cosine of two texts, in percent
    Threshold,      \* SIMILAR_THRESHOLD, in percent
    Corpus,         \* KNOWN_BAD, a sequence of texts
    CacheCap,       \* _EMBED_CACHE_CAP
    NoVector, NotBuilt

Vector == [text : TextSet, src : Source]

ASSUME EmbeddingsAssumption ==
    /\ "hash" \in Source
    /\ Similarity \in [Source -> [TextSet -> [TextSet -> 0..100]]]
    /\ Threshold \in [Source -> 0..100]
    /\ Corpus \in Seq(TextSet)
    /\ CacheCap \in Nat \ {0}
    /\ NoVector \notin Vector

VARIABLES
    vectors,        \* _cache: of each text its vector, or NoVector
    order,          \* _order
    lastSource,     \* last_source: how the last call ended
    index           \* _bad_vecs, or NotBuilt

embedVars == <<vectors, order, lastSource, index>>

\* The state of a process that has just started.
FreshProvider == [vectors |-> [t \in TextSet |-> NoVector], order |-> <<>>]

\* _cosine
Cosine(v, w) == IF v.src # w.src THEN 0 ELSE Similarity[v.src][v.text][w.text]

\* Variant with a planted error: the order keeps a text once for every call.
StoredTwice(t, s) ==
    LET all == Append(order, t)
        kept == [vectors EXCEPT ![t] = [text |-> t, src |-> s]]
    IN IF Len(all) <= CacheCap THEN [vectors |-> kept, order |-> all]
       ELSE [vectors |-> [kept EXCEPT ![Head(all)] = NoVector], order |-> Tail(all)]

\* The provider after a call for text t has ended with source s; cache entries are
\* not overwritten: another call for the same text may have ended before.
Stored(t, s) ==
    IF vectors[t] # NoVector THEN [vectors |-> vectors, order |-> order]
    ELSE LET all == Append(order, t)
             kept == [vectors EXCEPT ![t] = [text |-> t, src |-> s]]
         IN IF Len(all) <= CacheCap THEN [vectors |-> kept, order |-> all]
            ELSE [vectors |-> [kept EXCEPT ![Head(all)] = NoVector], order |-> Tail(all)]

\* A handler that embeds texts in turn and has the vectors done gets as far as the
\* first text that is not cached: only there it waits.
Extended(texts, done, cached) ==
    LET missing == {i \in (Len(done) + 1)..Len(texts) : cached[texts[i]] = NoVector}
        stop == IF missing = {} THEN Len(texts)
                ELSE (CHOOSE i \in missing : \A j \in missing : i <= j) - 1
    IN [i \in 1..stop |-> IF i <= Len(done) THEN done[i] ELSE cached[texts[i]]]

\* SimilarityIndex.analyze: is the nearest known-bad vector near enough?  The bar is
\* that of the source embed reported with the query vector.
Similar(query, known, reported) ==
    \E i \in DOMAIN known : Cosine(query, known[i]) >= Threshold[reported]
=============================================================================
