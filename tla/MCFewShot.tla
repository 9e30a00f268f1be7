-------------------------------- MODULE MCFewShot -------------------------------
(* Two known-bad commands, and one that is like the second of them for a model *)
(* and like none by its letters; the other is as far from it as an example may *)
(* be.  Commands run on two hosts.  Room for CacheCap vectors and two records.  *)
EXTENDS FewShot, TLC

CONSTANTS m, d, o, h1, h2, r1, r2

MCTexts == {m, d, o}
MCCorpus == <<m, d>>

MCSimilarity ==
    [s \in {"ollama", "hash"} |-> [t \in MCTexts |-> [u \in MCTexts |->
        IF t = u THEN 100
        ELSE IF s = "hash" THEN 10
        ELSE IF {t, u} = {d, o} THEN 65 ELSE 45]]]

MCThreshold == [s \in {"ollama", "hash"} |-> IF s = "ollama" THEN 62 ELSE 30]

Submitted(c, host, corrected, agree) ==
    [cmd |-> c, ctx |-> host, trusted |-> TRUE, corrected |-> corrected,
     verdict |-> "malicious", agree |-> agree]

MCSubmission == {Submitted(m, h1, "unknown", FALSE), Submitted(o, h1, "benign", FALSE)}

Stored1(host, trusted, vec) ==
    <<[n |-> 1, cmd |-> m, ctx |-> host, trusted |-> trusted, label |-> "malicious", vec |-> vec]>>

MCLegacy ==
    {Stored1(h1, TRUE, NoVector), Stored1(h2, TRUE, [text |-> m, src |-> "hash"]),
     Stored1(h1, FALSE, NoVector)}

Symmetry == Permutations(Request)
=============================================================================
