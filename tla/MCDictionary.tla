---------------------------- MODULE MCDictionary ----------------------------
(***************************************************************************)
(* The dictionary the model-checking instances use, over two syllables    *)
(* and two characters. It has ties on a key (the first phrase must win), *)
(* a high-frequency single character (divided by 512), phrases of         *)
(* frequency 0, and longer phrases whose characters a selection can agree *)
(* or disagree with.                                                      *)
(***************************************************************************)
EXTENDS Sequences, TLC

CONSTANTS a, b, x, y

P(t, f) == [text |-> t, freq |-> f]

MCDict ==
    (<<a>> :> <<P(<<x>>, 1), P(<<y>>, 1)>>)
    @@ (<<b>> :> <<P(<<y>>, 10576)>>)
    @@ (<<a, b>> :> <<P(<<x, y>>, 200), P(<<y, y>>, 200)>>)
    @@ (<<b, a>> :> <<P(<<y, x>>, 5000), P(<<x, x>>, 5)>>)
    @@ (<<b, a, a>> :> <<P(<<y, x, x>>, 0)>>)
    @@ (<<a, b, a>> :> <<P(<<x, y, x>>, 42)>>)
    @@ (<<b, b>> :> <<P(<<y, x>>, 0)>>)

(* The same dictionary without the single character of b: an incomplete   *)
(* dictionary (spec 4.8), under which some cover points are unreachable.  *)
MCDictIncomplete == [key \in DOMAIN MCDict \ {<<b>>} |-> MCDict[key]]
=============================================================================
