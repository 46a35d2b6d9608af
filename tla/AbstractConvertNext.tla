------------------------- MODULE AbstractConvertNext ------------------------
(***************************************************************************)
(* What convert_next promises (spec 4.6-4.8), as one step: an empty input *)
(* returns an empty Vec; otherwise the call returns some cover of the     *)
(* candidate grid that no other cover contains, or panics when there is  *)
(* none. Which maximal cover next selects is left open.                   *)
(***************************************************************************)
EXTENDS Conversion

VARIABLES seq, next, state, output

vars == <<seq, next, state, output>>

n == Len(seq.syllables)

Init ==
    /\ seq \in ChineseSequence
    /\ next \in Nat
    /\ state = "running"
    /\ output = << >>

ReturnEmpty ==
    /\ state = "running"
    /\ n = 0
    /\ state' = "returned"
    /\ UNCHANGED <<seq, next, output>>

ReturnMaximal ==
    /\ state = "running"
    /\ state' = "returned"
    /\ n > 0
    /\ \E p \in MaximalCoversOf(seq) : output' = [j \in DOMAIN p |-> ToInterval(p[j])]
    /\ UNCHANGED <<seq, next>>

Panic ==
    /\ state = "running"
    /\ state' = "panicked"
    /\ n > 0
    /\ MaximalCoversOf(seq) = {}
    /\ UNCHANGED <<seq, next, output>>

Next == ReturnEmpty \/ ReturnMaximal \/ Panic

Spec == Init /\ [][Next]_vars
=============================================================================
