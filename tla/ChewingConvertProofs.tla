------------------------ MODULE ChewingConvertProofs ------------------------
(***************************************************************************)
(* Proofs about ChewingConvert, for every dictionary and every bound.     *)
(* TypeOK and ResultChain are not inductive by themselves; IInv adds what *)
(* the code keeps true between steps of convert:                          *)
(*   - find_intervals only asks about spans with begin <= end;            *)
(*   - the empty span [begin, begin) never yields a phrase, because the    *)
(*     dictionary has no phrase for the empty key (spec 6);               *)
(*   - so every pushed PossibleInterval is non-empty;                     *)
(*   - every non-empty highest_score[e] is a chain of intervals ending at *)
(*     e, whatever order the intervals are visited in;                    *)
(*   - the returned Vec is highest_score[n], converted.                   *)
(***************************************************************************)
EXTENDS ChewingConvert, TLAPS

(* find_intervals' loops keep begin <= end.                                 *)
SpanOrdered == begin <= end

(* find_best_phrase has started its loop over the lookup.                  *)
LookupStarted == phase = "lookup" => k >= 1

(* An empty span has no best phrase.                                        *)
EmptySpanNoPhrase == phase = "lookup" /\ begin = end => best = NoPhrase

(* Every PossibleInterval find_intervals pushed is non-empty.             *)
IntervalsNonEmpty ==
    \A i \in DOMAIN intervals : intervals[i].start < intervals[i].end

(* Every non-empty highest_score[e] is a chain of intervals ending at e.   *)
HighestChains ==
    \A e \in 0..n :
        highest[e] # << >> =>
            /\ Contiguous(highest[e])
            /\ highest[e][Len(highest[e])].end = e

(* A non-empty result is highest_score[n], converted to Intervals.         *)
ResultIsHighest ==
    phase = "done" /\ result # << >> =>
        result = [j \in DOMAIN highest[n] |-> ToInterval(highest[n][j])]

(* find_best_path's work list is empty outside find_best_path.            *)
TodoOnlyInBestPath == phase # "best_path" => todo = {}

IInv ==
    /\ TypeOK
    /\ TodoOnlyInBestPath
    /\ SpanOrdered
    /\ LookupStarted
    /\ EmptySpanNoPhrase
    /\ IntervalsNonEmpty
    /\ HighestChains
    /\ ResultIsHighest

-----------------------------------------------------------------------------
(* Lemmas about the dictionary and the inputs.                            *)

(* Dictionary::lookup_phrase returns a sequence of phrases.                *)
LEMMA LookupPhraseType ==
    ASSUME NEW key
    PROVE  LookupPhrase(key) \in Seq(Phrase)
BY DictAssumption DEF LookupPhrase, DictAssumption

(* The syllables of an empty span, syllables[begin..begin], have no       *)
(* phrase: lookup_phrase of the empty key is empty.                         *)
LEMMA EmptyLookup ==
    ASSUME NEW s \in Seq(Syllable), NEW b \in 0..Len(s)
    PROVE  LookupPhrase(SubSeq(s, b + 1, b)) = << >>
<1>1. SubSeq(s, b + 1, b) = << >>
  OBVIOUS
<1>2. << >> \notin DOMAIN Dict
  BY DictAssumption DEF DictAssumption
<1>. QED
  BY <1>1, <1>2 DEF LookupPhrase

(* Every selection convert may be given is an Interval of the sequence.    *)
LEMMA SelectionSetsType ==
    ASSUME NEW m \in Nat
    PROVE  SelectionSets(m) \subseteq SUBSET Interval(m)
<1>1. SelectionChoices(m) \subseteq Interval(m)
  <2>. SUFFICES ASSUME NEW sp \in SelectionSpan(m),
                      NEW sel \in [start : {sp[1]}, end : {sp[2]},
                                   phrase : [1..(sp[2] - sp[1]) -> Char]]
               PROVE  sel \in Interval(m)
    BY DEF SelectionChoices
  <2>1. sp[1] \in 0..m /\ sp[2] \in 0..m /\ sp[2] - sp[1] \in Nat
    BY DEF SelectionSpan
  <2>2. sel.phrase \in Seq(Char)
    BY <2>1
  <2>. QED
    BY <2>1, <2>2 DEF Interval
<1>. QED
  BY <1>1 DEF SelectionSets

(* The inputs of convert have the shape TypeOK states.                     *)
LEMMA ChineseSequenceType ==
    ASSUME NEW sq \in ChineseSequence
    PROVE  SequenceType(sq)
<1>1. PICK syls \in SeqsUpTo(Syllable, MaxLen) :
          sq \in [syllables : {syls}, selections : SelectionSets(Len(syls)),
                  breaks : SUBSET (1..(Len(syls) - 1))]
  BY DEF ChineseSequence
<1>2. PICK m \in 0..MaxLen : syls \in [1..m -> Syllable]
  BY <1>1 DEF SeqsUpTo
<1>3. syls \in Seq(Syllable) /\ Len(syls) = m
  BY <1>2, DictAssumption DEF DictAssumption
<1>4. sq.selections \subseteq Interval(Len(syls))
  BY <1>1, <1>3, SelectionSetsType
<1>. QED
  BY <1>1, <1>3, <1>4 DEF SequenceType

-----------------------------------------------------------------------------
(* The inductive invariant.                                                *)

(* The state convert starts in satisfies IInv.                             *)
LEMMA InitIInv == Init => IInv
<1>. SUFFICES ASSUME Init PROVE IInv
  OBVIOUS
<1>1. SequenceType(seq)
  BY ChineseSequenceType DEF Init
<1>2. n \in Nat
  BY <1>1 DEF SequenceType, n
<1>. QED
  BY <1>1, <1>2 DEF Init, IInv, TypeOK, Phases, TodoOnlyInBestPath, SpanOrdered,
     LookupStarted, EmptySpanNoPhrase, IntervalsNonEmpty, HighestChains, ResultIsHighest

(* Appending a non-empty interval that starts where a chain ends (or to   *)
(* the empty path) gives a chain that ends where the interval ends: the   *)
(* candidate_path of find_best_path.                                       *)
LEMMA AppendChain ==
    ASSUME NEW m \in Nat, NEW p \in Seq(PossibleInterval(m)),
           NEW iv \in PossibleInterval(m),
           iv.start < iv.end,
           p # << >> => Contiguous(p) /\ p[Len(p)].end = iv.start
    PROVE  /\ Contiguous(Append(p, iv))
           /\ Append(p, iv)[Len(Append(p, iv))].end = iv.end
<1>1. CASE p = << >>
  <2>1. Append(p, iv) = << iv >>
    BY <1>1
  <2>. QED
    BY <2>1 DEF Contiguous
<1>2. CASE p # << >>
  <2>1. Contiguous(p) /\ p[Len(p)].end = iv.start
    BY <1>2
  <2>2. /\ Len(Append(p, iv)) = Len(p) + 1
        /\ \A j \in 1..Len(p) : Append(p, iv)[j] = p[j]
        /\ Append(p, iv)[Len(p) + 1] = iv
    OBVIOUS
  <2>3. \A j \in DOMAIN Append(p, iv) : Append(p, iv)[j].start < Append(p, iv)[j].end
    BY <2>1, <2>2 DEF Contiguous
  <2>4. \A j \in 1..(Len(Append(p, iv)) - 1) : Append(p, iv)[j].end = Append(p, iv)[j + 1].start
    BY <2>1, <2>2 DEF Contiguous
  <2>. QED
    BY <2>2, <2>3, <2>4 DEF Contiguous
<1>. QED
  BY <1>1, <1>2

(* Every step of convert, and every stutter, preserves IInv.               *)
LEMMA NextIInv == IInv /\ [Next]_vars => IInv'
<1>. SUFFICES ASSUME IInv, [Next]_vars PROVE IInv'
  OBVIOUS
<1>. USE DEF IInv
<1>0. /\ SequenceType(seq)
      /\ n \in Nat
      /\ seq.syllables \in Seq(Syllable)
  BY DEF TypeOK, SequenceType, n
<1>1. CASE ConvertEmpty
  BY <1>0, <1>1 DEF ConvertEmpty, TypeOK, Phases, TodoOnlyInBestPath, SpanOrdered,
     LookupStarted, EmptySpanNoPhrase, IntervalsNonEmpty, HighestChains, ResultIsHighest, n
<1>2. CASE FindIntervals
  BY <1>0, <1>2 DEF FindIntervals, TypeOK, Phases, TodoOnlyInBestPath, SpanOrdered,
     LookupStarted, EmptySpanNoPhrase, IntervalsNonEmpty, HighestChains, ResultIsHighest, n
<1>3. CASE BreakForbidsSpan
  <2>1. /\ begin' \in 0..n /\ end' \in 0..n /\ begin' <= end'
        /\ phase' \in {"grid", "intervals_done"}
    BY <1>0, <1>3 DEF BreakForbidsSpan, NextSpan, TypeOK, SpanOrdered, n
  <2>. QED
    BY <1>0, <1>3, <2>1 DEF BreakForbidsSpan, TypeOK, Phases, TodoOnlyInBestPath, SpanOrdered,
       LookupStarted, EmptySpanNoPhrase, IntervalsNonEmpty, HighestChains, ResultIsHighest, n
<1>4. CASE LookupSpan
  BY <1>0, <1>4 DEF LookupSpan, TypeOK, Phases, TodoOnlyInBestPath, SpanOrdered,
     LookupStarted, EmptySpanNoPhrase, IntervalsNonEmpty, HighestChains, ResultIsHighest, n
<1>5. CASE ScanPhrase
  <2>1. k \in 1..Len(Candidates) /\ Candidates \in Seq(Phrase)
    BY <1>5, LookupPhraseType DEF ScanPhrase, LookupStarted, TypeOK, Candidates
  <2>2. best' \in Phrase \cup {NoPhrase}
    BY <1>5, <2>1 DEF ScanPhrase, TypeOK
  <2>3. begin # end
    <3>1. CASE begin = end
      <4>1. Candidates = << >>
        BY <3>1, <1>0, EmptyLookup DEF Candidates, TypeOK, n
      <4>. QED
        BY <4>1, <2>1
    <3>. QED
      BY <3>1
  <2>. QED
    BY <1>0, <1>5, <2>1, <2>2, <2>3 DEF ScanPhrase, TypeOK, TodoOnlyInBestPath, SpanOrdered,
       LookupStarted, EmptySpanNoPhrase, IntervalsNonEmpty, HighestChains, ResultIsHighest, n
<1>6. CASE EndLookup
  <2>1. best # NoPhrase => /\ begin < end
                           /\ [start |-> begin, end |-> end, phrase |-> best] \in PossibleInterval(n)
    BY <1>6 DEF EndLookup, EmptySpanNoPhrase, SpanOrdered, TypeOK, PossibleInterval
  <2>2. /\ intervals' \in Seq(PossibleInterval(n))
        /\ DOMAIN intervals \subseteq DOMAIN intervals'
        /\ \A i \in DOMAIN intervals' : intervals'[i].start < intervals'[i].end
    BY <1>6, <2>1 DEF EndLookup, TypeOK, IntervalsNonEmpty
  <2>3. /\ begin' \in 0..n /\ end' \in 0..n /\ begin' <= end'
        /\ phase' \in {"grid", "intervals_done"}
    BY <1>0, <1>6 DEF EndLookup, NextSpan, TypeOK, SpanOrdered, n
  <2>. QED
    BY <1>0, <1>6, <2>2, <2>3 DEF EndLookup, TypeOK, Phases, TodoOnlyInBestPath, SpanOrdered,
       LookupStarted, EmptySpanNoPhrase, IntervalsNonEmpty, HighestChains, ResultIsHighest, n
<1>7. CASE FindBestPath
  BY <1>0, <1>7 DEF FindBestPath, TypeOK, Phases, TodoOnlyInBestPath, SpanOrdered,
     LookupStarted, EmptySpanNoPhrase, IntervalsNonEmpty, HighestChains, ResultIsHighest, n
<1>8. CASE RelaxInterval
  <2>1. PICK i \in todo :
          /\ LET iv == intervals[i]
                 candidate == Append(highest[iv.start], iv)
             IN  highest' = IF Score(highest[iv.end]) < Score(candidate)
                            THEN [highest EXCEPT ![iv.end] = candidate]
                            ELSE highest
          /\ todo' = todo \ {i}
    BY <1>8 DEF RelaxInterval
  <2>. DEFINE iv == intervals[i]
              candidate == Append(highest[iv.start], iv)
  <2>2. /\ iv \in PossibleInterval(n)
        /\ iv.start < iv.end
        /\ highest[iv.start] \in Seq(PossibleInterval(n))
    <3>1. i \in DOMAIN intervals
      BY <2>1 DEF TypeOK
    <3>2. iv \in PossibleInterval(n) /\ iv.start < iv.end
      BY <3>1 DEF TypeOK, IntervalsNonEmpty
    <3>3. iv.start \in 0..n
      BY <3>2 DEF PossibleInterval
    <3>. QED
      BY <3>2, <3>3 DEF TypeOK
  <2>3. /\ Contiguous(candidate)
        /\ candidate[Len(candidate)].end = iv.end
        /\ candidate \in Seq(PossibleInterval(n))
    <3>1. highest[iv.start] # << >> =>
             Contiguous(highest[iv.start]) /\ highest[iv.start][Len(highest[iv.start])].end = iv.start
      BY <2>2 DEF HighestChains, PossibleInterval
    <3>. QED
      BY <1>0, <2>2, <3>1, AppendChain
  <2>4. \/ highest' = highest
        \/ highest' = [highest EXCEPT ![iv.end] = candidate]
    BY <2>1
  <2>5. /\ highest' \in [0..n -> Seq(PossibleInterval(n))]
        /\ HighestChains'
    BY <1>0, <1>8, <2>2, <2>3, <2>4 DEF RelaxInterval, TypeOK, HighestChains, PossibleInterval, n
  <2>. QED
    BY <1>0, <1>8, <2>1, <2>5 DEF RelaxInterval, TypeOK, Phases, TodoOnlyInBestPath, SpanOrdered,
       LookupStarted, EmptySpanNoPhrase, IntervalsNonEmpty, ResultIsHighest, n
<1>9. CASE ReturnBestPath
  <2>1. highest[n] \in Seq(PossibleInterval(n))
    BY <1>0 DEF TypeOK
  <2>2. \A j \in 1..Len(highest[n]) : ToInterval(highest[n][j]) \in Interval(n)
    <3>. SUFFICES ASSUME NEW j \in 1..Len(highest[n])
                  PROVE  ToInterval(highest[n][j]) \in Interval(n)
      OBVIOUS
    <3>1. highest[n][j] \in PossibleInterval(n)
      BY <2>1
    <3>. QED
      BY <3>1 DEF ToInterval, Interval, PossibleInterval, Phrase
  <2>3. result' = [j \in 1..Len(highest[n]) |-> ToInterval(highest[n][j])]
    BY <1>9, <2>1 DEF ReturnBestPath
  <2>4. result' \in Seq(Interval(n))
    BY <2>2, <2>3
  <2>. QED
    BY <1>0, <1>9, <2>4 DEF ReturnBestPath, TypeOK, Phases, TodoOnlyInBestPath, SpanOrdered,
       LookupStarted, EmptySpanNoPhrase, IntervalsNonEmpty, HighestChains, ResultIsHighest, n
<1>10. CASE UNCHANGED vars
  BY <1>0, <1>10 DEF vars, TypeOK, TodoOnlyInBestPath, SpanOrdered,
     LookupStarted, EmptySpanNoPhrase, IntervalsNonEmpty, HighestChains, ResultIsHighest, n
<1>. QED
  BY <1>1, <1>2, <1>3, <1>4, <1>5, <1>6, <1>7, <1>8, <1>9, <1>10 DEF Next

(* What convert returns is the chain stored at highest_score[n].           *)
LEMMA IInvResultChain == IInv => ResultChain
<1>. SUFFICES ASSUME IInv, phase = "done", result # << >>
              PROVE  Contiguous(result) /\ result[Len(result)].end = n
  BY DEF ResultChain
<1>. DEFINE h == highest[n]
<1>1. n \in Nat /\ h \in Seq(PossibleInterval(n))
  <2>1. n \in Nat
    BY DEF IInv, TypeOK, SequenceType, n
  <2>. QED
    BY <2>1 DEF IInv, TypeOK
<1>2. result = [j \in 1..Len(h) |-> ToInterval(h[j])]
  BY <1>1 DEF IInv, ResultIsHighest
<1>3. h # << >>
  BY <1>1, <1>2
<1>4. Contiguous(h) /\ h[Len(h)].end = n
  BY <1>1, <1>3 DEF IInv, HighestChains
<1>5. /\ Len(result) = Len(h)
      /\ \A j \in 1..Len(h) : result[j].start = h[j].start /\ result[j].end = h[j].end
  BY <1>1, <1>2 DEF ToInterval
<1>. QED
  BY <1>1, <1>3, <1>4, <1>5 DEF Contiguous

-----------------------------------------------------------------------------
(* Theorems of the specification.                                          *)

(* Type correctness of convert: every variable of the call, from the      *)
(* input sequence to the returned Vec<Interval>, keeps its type.           *)
THEOREM TypeCorrect == Spec => []TypeOK
<1>1. Init => IInv
  BY InitIInv
<1>2. IInv /\ [Next]_vars => IInv'
  BY NextIInv
<1>3. IInv => TypeOK
  BY DEF IInv
<1>. QED
  BY <1>1, <1>2, <1>3, PTL DEF Spec

(* Whatever convert returns, for every dictionary and every input, is a   *)
(* chain of non-empty intervals that meet and end at the last syllable:   *)
(* find_intervals never pushes an empty span and find_best_path only      *)
(* extends highest_score[start] by an interval starting at start.          *)
THEOREM ResultChainHolds == Spec => []ResultChain
<1>1. Init => IInv
  BY InitIInv
<1>2. IInv /\ [Next]_vars => IInv'
  BY NextIInv
<1>3. IInv => ResultChain
  BY IInvResultChain
<1>. QED
  BY <1>1, <1>2, <1>3, PTL DEF Spec

=============================================================================
