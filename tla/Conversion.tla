----------------------------- MODULE Conversion -----------------------------
(***************************************************************************)
(* Data model shared by the two entry points of ChewingConversionEngine   *)
(* (src/src/conversion/chewing_conversion.rs): the input ChineseSequence, *)
(* the dictionary it consults, PossibleInterval / PossiblePath, the        *)
(* candidate check of find_best_phrase and the path score.                 *)
(*                                                                         *)
(* Syllables and characters are model values; a phrase text is a          *)
(* sequence of characters, so the selection check compares the            *)
(* characters of a phrase at the selected offsets, as the code does.      *)
(* No RECURSIVE operator is used: sums are recursive functions, so that   *)
(* modules proving things about this one keep the SMT backend.            *)
(***************************************************************************)
EXTENDS Integers, Sequences, FiniteSets

CONSTANTS
    Syllable,   \* the syllables a sequence is made of
    Char,       \* the characters phrase texts are made of
    Dict,       \* the dictionary: syllable sequence -> phrases, in lookup order
    MaxLen,     \* the longest syllable sequence converted
    MaxSel      \* the most user selections in one sequence

(* A dictionary phrase: its text and its frequency (Phrase::freq).         *)
Phrase == [text : Seq(Char), freq : Nat]

(* The Dictionary contract (spec 6): a lookup returns phrases whose text  *)
(* has one character per syllable; the empty key has no phrase.           *)
DictAssumption ==
    /\ MaxLen \in Nat
    /\ MaxSel \in 0..2
    /\ \A key \in DOMAIN Dict :
          /\ key \in Seq(Syllable)
          /\ Len(key) > 0
          /\ Dict[key] \in Seq(Phrase)
          /\ \A i \in DOMAIN Dict[key] : Len(Dict[key][i].text) = Len(key)
ASSUME DictAssumption

(* Dictionary::lookup_phrase: the phrases stored under a key, in order.   *)
LookupPhrase(syls) == IF syls \in DOMAIN Dict THEN Dict[syls] ELSE << >>

(* No phrase (Option::None in find_best_phrase).                           *)
NoPhrase == [text |-> << >>, freq |-> -1]

(* Interval (the public result): a half-open span and its phrase text.    *)
Interval(n) == [start : 0..n, end : 0..n, phrase : Seq(Char)]

(* PossibleInterval: a span and the dictionary phrase chosen for it.       *)
PossibleInterval(n) == [start : 0..n, end : 0..n, phrase : Phrase]

(* A ChineseSequence: syllables, selections (Vec<Interval>) and breaks    *)
(* (Vec<Break>). Selections are pairwise disjoint and their text has one  *)
(* character per syllable (spec 3); breaks lie strictly inside.           *)
SelectionSpan(n) == {sp \in (0..n) \X (0..n) : sp[1] < sp[2]}
SelectionChoices(n) ==
    UNION {[start : {sp[1]}, end : {sp[2]}, phrase : [1..(sp[2] - sp[1]) -> Char]]
             : sp \in SelectionSpan(n)}
SelectionSets(n) ==
    LET SC == SelectionChoices(n) IN
    {{}} \cup {{s} : s \in IF MaxSel >= 1 THEN SC ELSE {}}
         \cup UNION {{{s, t} : t \in {u \in SC : s.end <= u.start}}
                        : s \in IF MaxSel >= 2 THEN SC ELSE {}}
SeqsUpTo(S, k) == UNION {[1..m -> S] : m \in 0..k}
(* The shape of a ChineseSequence of at most MaxLen syllables.            *)
SequenceType(sq) ==
    /\ sq.syllables \in Seq(Syllable)
    /\ Len(sq.syllables) <= MaxLen
    /\ sq.selections \subseteq Interval(Len(sq.syllables))
    /\ sq.breaks \subseteq 1..(Len(sq.syllables) - 1)
(* The inputs convert is called on.                                         *)
ChineseSequence ==
    UNION {[syllables : {syls},
            selections : SelectionSets(Len(syls)),
            breaks : SUBSET (1..(Len(syls) - 1))] : syls \in SeqsUpTo(Syllable, MaxLen)}

(* chars().skip(offset).take(len) of a phrase text.                       *)
SubText(t, offset, len) ==
    LET k == IF Len(t) - offset < len THEN Len(t) - offset ELSE len
    IN  [i \in 1..(IF k < 0 THEN 0 ELSE k) |-> t[offset + i]]

(* find_best_phrase, first loop: a break strictly inside [start, end)     *)
(* forbids the span.                                                       *)
BrokenSpan(start, end, breaks) == \E br \in breaks : br > start /\ br < end

(* Variant for testing the properties: only selections that start where  *)
(* the span starts are checked.                                           *)
CompatibleAnchored(p, start, end, selections) ==
    \A sel \in selections :
        (start = sel.start /\ end >= sel.end) =>
            SubText(p.text, sel.start - start, sel.end - sel.start) = sel.phrase

(* find_best_phrase, selection loop: a phrase for [start, end) survives   *)
(* iff its text agrees with every selection contained in the span.        *)
Compatible(p, start, end, selections) ==
    \A sel \in selections :
        (start <= sel.start /\ end >= sel.end) =>
            SubText(p.text, sel.start - start, sel.end - sel.start) = sel.phrase

(* find_best_phrase, as one function: the first surviving phrase of       *)
(* highest frequency, or NoPhrase. The ChewingConvert module executes the *)
(* same loop one dictionary phrase per step; this definition is the       *)
(* whole call, used where the code calls it from the memo of              *)
(* find_all_paths.                                                         *)
FindBestPhrase(start, end, seq) ==
    IF BrokenSpan(start, end, seq.breaks) THEN NoPhrase
    ELSE LET ps == LookupPhrase(SubSeq(seq.syllables, start + 1, end))
             best[i \in 0..Len(ps)] ==
                IF i = 0 THEN NoPhrase
                ELSE IF /\ Compatible(ps[i], start, end, seq.selections)
                        /\ best[i - 1] = NoPhrase \/ ps[i].freq > best[i - 1].freq
                     THEN ps[i] ELSE best[i - 1]
         IN  best[Len(ps)]

-----------------------------------------------------------------------------
(* PossiblePath scoring (PossiblePath::score and its four rules).          *)

(* Sum of a sequence of integers.                                           *)
SeqSum(s) ==
    LET acc[i \in 0..Len(s)] == IF i = 0 THEN 0 ELSE acc[i - 1] + s[i]
    IN  acc[Len(s)]

IntervalLen(iv) == iv.end - iv.start
AbsDiff(a, b) == IF a >= b THEN a - b ELSE b - a

RuleLargestSum(path) == SeqSum([k \in DOMAIN path |-> IntervalLen(path[k])])

(* Integer division of non-negative i32 values truncates like \div.        *)
RuleLargestAvgWordLen(path) ==
    IF path = << >> THEN 0 ELSE (6 * RuleLargestSum(path)) \div Len(path)

RuleSmallestLenVariance(path) ==
    - SeqSum([i \in DOMAIN path |->
                SeqSum([j \in DOMAIN path |->
                          IF i < j THEN AbsDiff(IntervalLen(path[i]), IntervalLen(path[j]))
                                   ELSE 0])])

RuleLargestFreqSum(path) ==
    SeqSum([k \in DOMAIN path |->
              path[k].phrase.freq \div (IF IntervalLen(path[k]) = 1 THEN 512 ELSE 1)])

Score(path) ==
    1000 * RuleLargestSum(path) + 1000 * RuleLargestAvgWordLen(path)
      + 100 * RuleSmallestLenVariance(path) + RuleLargestFreqSum(path)

-----------------------------------------------------------------------------
(* Shapes of paths, used by the properties of both entry points.           *)

(* Consecutive intervals meet and none is empty.                           *)
Contiguous(path) ==
    /\ \A k \in DOMAIN path : path[k].start < path[k].end
    /\ \A k \in 1..(Len(path) - 1) : path[k].end = path[k + 1].start

(* A cover of [0, n): contiguous, from 0 to n.                             *)
IsCover(path, n) ==
    /\ Contiguous(path)
    /\ IF n = 0 THEN path = << >>
       ELSE path # << >> /\ path[1].start = 0 /\ path[Len(path)].end = n

(* From<PossibleInterval> for Interval: the phrase becomes its text.       *)
ToInterval(iv) == [start |-> iv.start, end |-> iv.end, phrase |-> iv.phrase.text]

-----------------------------------------------------------------------------
(* Reference definitions the properties compare the engine with.           *)

(* The spans [i, j) of sq for which find_best_phrase returns a phrase.     *)
GridSpan(sq, i, j) == i < j /\ FindBestPhrase(i, j, sq) # NoPhrase

(* The cut points of B \subseteq 1..m-1 in increasing order, from 0 to m.  *)
CutPoints(B, m) ==
    LET pts == B \cup {0, m}
    IN  [r \in 1..Cardinality(pts) |->
            CHOOSE q \in pts : Cardinality({c \in pts : c < q}) = r - 1]

(* The path that cuts sq at B, each span with find_best_phrase's phrase.  *)
CoverPath(sq, B) ==
    LET pts == CutPoints(B, Len(sq.syllables))
    IN  [r \in 1..(Len(pts) - 1) |->
            [start |-> pts[r], end |-> pts[r + 1],
             phrase |-> FindBestPhrase(pts[r], pts[r + 1], sq)]]

(* Every cover of sq whose spans all have a phrase: the grid's covers.     *)
GridCoversOf(sq) ==
    LET m == Len(sq.syllables)
        IsGridCover(B) == \A r \in DOMAIN CoverPath(sq, B) :
                             GridSpan(sq, CoverPath(sq, B)[r].start, CoverPath(sq, B)[r].end)
    IN  {CoverPath(sq, B) : B \in {C \in SUBSET (1..(m - 1)) : IsGridCover(C)}}

(* Spec 4.7: Q contains P iff a non-decreasing assignment maps each        *)
(* interval of P to an interval of Q that contains it.                    *)
ContainsSpec(Q, P) ==
    \E phi \in [DOMAIN P -> DOMAIN Q] :
        /\ \A r \in DOMAIN P : Q[phi[r]].start <= P[r].start /\ P[r].end <= Q[phi[r]].end
        /\ \A r \in 1..(Len(P) - 1) : phi[r] <= phi[r + 1]

(* The covers of the grid that no other cover of it contains.             *)
MaximalCoversOf(sq) ==
    {p \in GridCoversOf(sq) : \A q \in GridCoversOf(sq) : ContainsSpec(q, p) => q = p}

=============================================================================
