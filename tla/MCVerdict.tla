------------------------------ MODULE MCVerdict ------------------------------
(* A small instance of Verdict for TLC: a suspicious command, a confirmed one, *)
(* a DCSync and an injection, two requests at a time and one place to cache.   *)
EXTENDS Verdict, TLC

CONSTANTS odd, bad, sync, inj

MCKind == odd :> "plain" @@ bad :> "plain" @@ sync :> "dcsync" @@ inj :> "injected"
MCPatternSev == odd :> 5 @@ bad :> 9 @@ sync :> 1 @@ inj :> 5
MCExamples == {[label |-> "malicious", sev |-> 3], [label |-> "benign", sev |-> 1]}

\* Which slot a request takes does not matter.
Slots == Permutations(Request)
=============================================================================
