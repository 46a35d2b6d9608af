------------------- MODULE ChewingConvertConstraintProofs -------------------
(***************************************************************************)
(* Proof that convert never returns an interval that crosses a break or   *)
(* contradicts a selection lying inside it. find_best_phrase filters the  *)
(* phrases of every span (lines 68-101), find_intervals pushes only what  *)
(* it returns, and find_best_path only chains pushed intervals, so every  *)
(* interval of every highest_score[e] passed both filters.                *)
(***************************************************************************)
EXTENDS ChewingConvertProofs, TLAPS

(* The selections of the input: non-empty, one character per syllable.   *)
SelectionsWellFormed ==
    \A sel \in seq.selections :
        /\ sel.start \in Nat /\ sel.end \in Nat /\ sel.start < sel.end
        /\ sel.phrase \in [1..(sel.end - sel.start) -> Char]

(* The phrase p passed find_best_phrase's two filters for [s, e), and its *)
(* text has one character per syllable of the span.                        *)
Respects(s, e, p) ==
    /\ ~BrokenSpan(s, e, seq.breaks)
    /\ Compatible(p, s, e, seq.selections)
    /\ Len(p.text) = e - s

(* A PossibleInterval that passed the filters for its own span.            *)
RespectsInterval(iv) == Respects(iv.start, iv.end, iv.phrase)

(* During a lookup the span is not broken and the best phrase so far, if  *)
(* any, passed the selection filter.                                       *)
LookupRespects ==
    phase = "lookup" =>
        /\ ~BrokenSpan(begin, end, seq.breaks)
        /\ best # NoPhrase => Respects(begin, end, best)

(* Every pushed interval and every interval of every highest_score[e]    *)
(* passed the filters.                                                      *)
IntervalsRespect == \A i \in DOMAIN intervals : RespectsInterval(intervals[i])

HighestRespects ==
    \A e \in 0..n : \A j \in DOMAIN highest[e] : RespectsInterval(highest[e][j])

CInv ==
    /\ IInv
    /\ SelectionsWellFormed
    /\ LookupRespects
    /\ IntervalsRespect
    /\ HighestRespects

-----------------------------------------------------------------------------
(* Lemmas about the inputs and the dictionary.                            *)

(* The selections convert may be given are non-empty and have one         *)
(* character per syllable.                                                 *)
LEMMA SelectionsOfInput ==
    ASSUME NEW sq \in ChineseSequence, NEW sel \in sq.selections
    PROVE  /\ sel.start \in Nat /\ sel.end \in Nat /\ sel.start < sel.end
           /\ sel.phrase \in [1..(sel.end - sel.start) -> Char]
<1>1. PICK syls \in SeqsUpTo(Syllable, MaxLen) :
          sq \in [syllables : {syls}, selections : SelectionSets(Len(syls)),
                  breaks : SUBSET (1..(Len(syls) - 1))]
  BY DEF ChineseSequence
<1>2. Len(syls) \in Nat
  BY <1>1 DEF SeqsUpTo
<1>3. sel \in SelectionChoices(Len(syls))
  BY <1>1 DEF SelectionSets
<1>4. PICK sp \in SelectionSpan(Len(syls)) :
          sel \in [start : {sp[1]}, end : {sp[2]}, phrase : [1..(sp[2] - sp[1]) -> Char]]
  BY <1>3 DEF SelectionChoices
<1>5. sp[1] \in 0..Len(syls) /\ sp[2] \in 0..Len(syls) /\ sp[1] < sp[2]
  BY <1>2 DEF SelectionSpan
<1>. QED
  BY <1>4, <1>5

(* Every phrase lookup_phrase returns for the syllables of [b, e) has one *)
(* character per syllable (the dictionary contract).                       *)
LEMMA CandidateLength ==
    ASSUME NEW syls \in Seq(Syllable), NEW b \in Nat, NEW e \in Nat,
           b <= e, e <= Len(syls),
           NEW i \in DOMAIN LookupPhrase(SubSeq(syls, b + 1, e))
    PROVE  Len(LookupPhrase(SubSeq(syls, b + 1, e))[i].text) = e - b
<1>. DEFINE key == SubSeq(syls, b + 1, e)
<1>1. Len(key) = e - b
  OBVIOUS
<1>2. key \in DOMAIN Dict
  BY DEF LookupPhrase
<1>. QED
  BY <1>1, <1>2, DictAssumption DEF DictAssumption, LookupPhrase

-----------------------------------------------------------------------------
(* The inductive invariant CInv.                                           *)

(* The state convert starts in satisfies CInv.                             *)
LEMMA InitCInv == Init => CInv
<1>. SUFFICES ASSUME Init PROVE CInv
  OBVIOUS
<1>1. IInv
  BY InitIInv
<1>2. SelectionsWellFormed
  BY SelectionsOfInput DEF Init, SelectionsWellFormed
<1>. QED
  BY <1>1, <1>2 DEF Init, CInv, LookupRespects, IntervalsRespect, HighestRespects

(* Every step keeps CInv. No step changes the input, so the filters mean  *)
(* the same before and after it.                                           *)
LEMMA NextCInv == CInv /\ [Next]_vars => CInv'
<1>. SUFFICES ASSUME CInv, [Next]_vars PROVE CInv'
  OBVIOUS
<1>. USE DEF CInv
<1>0. /\ IInv'
      /\ seq' = seq
      /\ n \in Nat /\ n' = n
      /\ seq.syllables \in Seq(Syllable)
      /\ \A b, e, p : Respects(b, e, p)' = Respects(b, e, p)
  <2>1. IInv'
    BY NextIInv
  <2>2. seq' = seq
    BY DEF Next, vars, ConvertEmpty, FindIntervals, BreakForbidsSpan, LookupSpan,
       ScanPhrase, EndLookup, FindBestPath, RelaxInterval, ReturnBestPath
  <2>3. seq.syllables \in Seq(Syllable) /\ n \in Nat
    BY DEF IInv, TypeOK, SequenceType, n
  <2>. QED
    BY <2>1, <2>2, <2>3 DEF Respects, n
<1>1. SelectionsWellFormed'
  BY <1>0 DEF SelectionsWellFormed
<1>2. CASE ConvertEmpty \/ FindIntervals \/ FindBestPath \/ ReturnBestPath
  <2>1. phase' # "lookup"
    BY <1>2 DEF ConvertEmpty, FindIntervals, FindBestPath, ReturnBestPath
  <2>2. IntervalsRespect'
    BY <1>0, <1>2 DEF ConvertEmpty, FindIntervals, FindBestPath, ReturnBestPath,
       IntervalsRespect, RespectsInterval
  <2>3. HighestRespects'
    BY <1>0, <1>2 DEF ConvertEmpty, FindIntervals, FindBestPath, ReturnBestPath,
       HighestRespects, RespectsInterval
  <2>. QED
    BY <1>1, <1>0, <2>1, <2>2, <2>3 DEF LookupRespects
<1>3. CASE BreakForbidsSpan
  <2>1. phase' # "lookup"
    BY <1>3 DEF BreakForbidsSpan, NextSpan
  <2>. QED
    BY <1>0, <1>1, <1>3, <2>1 DEF BreakForbidsSpan, LookupRespects, IntervalsRespect,
       HighestRespects, RespectsInterval
<1>4. CASE LookupSpan
  BY <1>0, <1>1, <1>4 DEF LookupSpan, LookupRespects, IntervalsRespect,
     HighestRespects, RespectsInterval, BrokenSpan
<1>5. CASE ScanPhrase
  <2>. DEFINE p == Candidates[k]
  <2>1. /\ phase = "lookup" /\ k \in DOMAIN Candidates
        /\ begin \in Nat /\ end \in Nat /\ begin <= end /\ end <= n
    BY <1>0, <1>5 DEF ScanPhrase, IInv, TypeOK, SpanOrdered, LookupStarted, Candidates
  <2>2. Len(p.text) = end - begin
    BY <1>0, <2>1, CandidateLength DEF Candidates, n
  <2>3. \/ best' = p /\ Compatible(p, begin, end, seq.selections)
        \/ best' = best
    BY <1>5 DEF ScanPhrase
  <2>5. LookupRespects'
    BY <1>0, <1>5, <2>1, <2>2, <2>3 DEF ScanPhrase, LookupRespects, Respects
  <2>. QED
    BY <1>0, <1>1, <1>5, <2>5 DEF ScanPhrase, IntervalsRespect, HighestRespects, RespectsInterval
<1>6. CASE EndLookup
  <2>. DEFINE iv == [start |-> begin, end |-> end, phrase |-> best]
  <2>1. phase = "lookup"
    BY <1>6 DEF EndLookup
  <2>2. best # NoPhrase => RespectsInterval(iv)
    BY <2>1 DEF LookupRespects, RespectsInterval
  <2>3. intervals \in Seq(PossibleInterval(n))
    BY DEF IInv, TypeOK
  <2>4. IntervalsRespect'
    <3>1. CASE best # NoPhrase
      <4>1. intervals' = Append(intervals, iv)
        BY <1>6, <3>1 DEF EndLookup
      <4>. QED
        BY <1>0, <2>2, <2>3, <3>1, <4>1 DEF IntervalsRespect, RespectsInterval
    <3>2. CASE best = NoPhrase
      BY <1>0, <1>6, <3>2 DEF EndLookup, IntervalsRespect, RespectsInterval
    <3>. QED
      BY <3>1, <3>2
  <2>5. phase' # "lookup"
    BY <1>6 DEF EndLookup, NextSpan
  <2>. QED
    BY <1>0, <1>1, <1>6, <2>4, <2>5 DEF EndLookup, LookupRespects, HighestRespects, RespectsInterval
<1>7. CASE RelaxInterval
  <2>1. PICK i \in todo :
          /\ LET iv == intervals[i]
                 candidate == Append(highest[iv.start], iv)
             IN  highest' = IF Score(highest[iv.end]) < Score(candidate)
                            THEN [highest EXCEPT ![iv.end] = candidate]
                            ELSE highest
          /\ todo' = todo \ {i}
    BY <1>7 DEF RelaxInterval
  <2>. DEFINE iv == intervals[i]
              candidate == Append(highest[iv.start], iv)
  <2>2. /\ i \in DOMAIN intervals
        /\ iv \in PossibleInterval(n)
        /\ RespectsInterval(iv)
        /\ highest \in [0..n -> Seq(PossibleInterval(n))]
    BY <2>1 DEF IInv, TypeOK, IntervalsRespect
  <2>3. iv.start \in 0..n /\ iv.end \in 0..n
    BY <2>2 DEF PossibleInterval
  <2>4. \A j \in DOMAIN candidate : RespectsInterval(candidate[j])
    BY <2>2, <2>3 DEF HighestRespects
  <2>5. \/ highest' = highest
        \/ highest' = [highest EXCEPT ![iv.end] = candidate]
    BY <2>1
  <2>6. HighestRespects'
    BY <1>0, <2>2, <2>3, <2>4, <2>5 DEF HighestRespects, RespectsInterval
  <2>. QED
    BY <1>0, <1>1, <1>7, <2>6 DEF RelaxInterval, LookupRespects, IntervalsRespect, RespectsInterval
<1>8. CASE UNCHANGED vars
  BY <1>0, <1>1, <1>8 DEF vars, LookupRespects, IntervalsRespect, HighestRespects, RespectsInterval
<1>. QED
  BY <1>2, <1>3, <1>4, <1>5, <1>6, <1>7, <1>8 DEF Next

(* What convert returns is highest_score[n], converted, and every interval *)
(* of it passed both filters.                                              *)
LEMMA CInvRespects == CInv => ResultRespectsUserConstraints
<1>. SUFFICES ASSUME CInv, phase = "done", NEW j \in DOMAIN result
              PROVE  LET iv == result[j] IN
                     /\ \A br \in seq.breaks : ~(iv.start < br /\ br < iv.end)
                     /\ \A sel \in seq.selections :
                           iv.start <= sel.start /\ sel.end <= iv.end =>
                              \A c \in 1..(sel.end - sel.start) :
                                 iv.phrase[sel.start - iv.start + c] = sel.phrase[c]
  BY DEF ResultRespectsUserConstraints
<1>. DEFINE h == highest[n]
<1>1. n \in Nat /\ h \in Seq(PossibleInterval(n))
  BY DEF CInv, IInv, TypeOK, SequenceType, n
<1>2. result = [i \in 1..Len(h) |-> ToInterval(h[i])] /\ j \in 1..Len(h)
  <2>1. result # << >>
    OBVIOUS
  <2>. QED
    BY <1>1, <2>1 DEF CInv, IInv, ResultIsHighest
<1>3. /\ h[j] \in PossibleInterval(n)
      /\ RespectsInterval(h[j])
      /\ result[j] = ToInterval(h[j])
  BY <1>1, <1>2 DEF CInv, HighestRespects
<1>. DEFINE pi == h[j]
<1>4. /\ pi.start \in Nat /\ pi.end \in Nat /\ pi.phrase.text \in Seq(Char)
      /\ ~BrokenSpan(pi.start, pi.end, seq.breaks)
      /\ Compatible(pi.phrase, pi.start, pi.end, seq.selections)
      /\ Len(pi.phrase.text) = pi.end - pi.start
  BY <1>1, <1>3 DEF PossibleInterval, Phrase, RespectsInterval, Respects
<1>5. \A br \in seq.breaks : ~(pi.start < br /\ br < pi.end)
  BY <1>4 DEF BrokenSpan
<1>6. ASSUME NEW sel \in seq.selections, pi.start <= sel.start, sel.end <= pi.end
      PROVE  \A c \in 1..(sel.end - sel.start) :
                pi.phrase.text[sel.start - pi.start + c] = sel.phrase[c]
  <2>1. /\ sel.start \in Nat /\ sel.end \in Nat /\ sel.start < sel.end
        /\ sel.phrase \in [1..(sel.end - sel.start) -> Char]
    BY DEF CInv, SelectionsWellFormed
  <2>2. SubText(pi.phrase.text, sel.start - pi.start, sel.end - sel.start) = sel.phrase
    BY <1>4, <1>6 DEF Compatible
  <2>3. SubText(pi.phrase.text, sel.start - pi.start, sel.end - sel.start)
          = [i \in 1..(sel.end - sel.start) |-> pi.phrase.text[sel.start - pi.start + i]]
    BY <1>4, <1>6, <2>1 DEF SubText
  <2>. QED
    BY <2>1, <2>2, <2>3
<1>. QED
  BY <1>3, <1>5, <1>6 DEF ToInterval

-----------------------------------------------------------------------------
(* For every dictionary meeting the contract and every input, no interval *)
(* convert returns crosses a break, and every selection lying inside a     *)
(* returned interval agrees with its text: find_best_phrase's break and   *)
(* selection filters (lines 68-101) survive find_intervals and             *)
(* find_best_path.                                                          *)
THEOREM UserConstraintsRespected == Spec => []ResultRespectsUserConstraints
<1>1. Init => CInv
  BY InitCInv
<1>2. CInv /\ [Next]_vars => CInv'
  BY NextCInv
<1>3. CInv => ResultRespectsUserConstraints
  BY CInvRespects
<1>. QED
  BY <1>1, <1>2, <1>3, PTL DEF Spec
=============================================================================
