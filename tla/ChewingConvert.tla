--------------------------- MODULE ChewingConvert ---------------------------
(***************************************************************************)
(* ChewingConversionEngine::convert (chewing_conversion.rs) as a state    *)
(* machine: one call on one ChineseSequence.                               *)
(*                                                                         *)
(*   convert         empty input returns []; otherwise find_intervals     *)
(*                   then find_best_path.                                 *)
(*   find_intervals  for begin in 0..n, for end in begin..=n: one call of  *)
(*                   find_best_phrase, whose loop over the dictionary's   *)
(*                   phrases is executed one phrase per step.             *)
(*   find_best_path  sort the intervals by end (stable), then relax       *)
(*                   highest_score[end] with highest_score[start] + iv.   *)
(*                                                                         *)
(* The sort is represented by its effect on the loop: each step takes the *)
(* unprocessed interval that comes first in the stably sorted vector,     *)
(* i.e. the one of least (end, position in the vector).                   *)
(***************************************************************************)
EXTENDS Conversion

VARIABLES
    seq,        \* the ChineseSequence being converted
    phase,      \* where the call is: see Phases
    begin, end, \* the span find_intervals is asking find_best_phrase about
    k,          \* find_best_phrase: index of the next phrase of the lookup
    best,       \* find_best_phrase: best_phrase so far (NoPhrase = None)
    intervals,  \* find_intervals: the PossibleIntervals pushed so far
    todo,       \* find_best_path: positions of the sorted vector not yet visited
    highest,    \* find_best_path: highest_score[0..n]
    result      \* the returned Vec<Interval>

vars == <<seq, phase, begin, end, k, best, intervals, todo, highest, result>>

Phases == {"start", "grid", "lookup", "intervals_done", "best_path", "done"}

n == Len(seq.syllables)

(* The phrases lookup_phrase returns for the current span.                 *)
Candidates == LookupPhrase(SubSeq(seq.syllables, begin + 1, end))

TypeOK ==
    /\ SequenceType(seq)
    /\ phase \in Phases
    /\ begin \in 0..n
    /\ end \in 0..n
    /\ k \in Nat
    /\ best \in Phrase \cup {NoPhrase}
    /\ intervals \in Seq(PossibleInterval(n))
    /\ todo \subseteq DOMAIN intervals
    /\ highest \in [0..n -> Seq(PossibleInterval(n))]
    /\ result \in Seq(Interval(n))

Init ==
    /\ seq \in ChineseSequence
    /\ phase = "start"
    /\ begin = 0
    /\ end = 0
    /\ k = 0
    /\ best = NoPhrase
    /\ intervals = << >>
    /\ todo = {}
    /\ highest = [i \in 0..n |-> << >>]
    /\ result = << >>

-----------------------------------------------------------------------------
(* convert: an empty sequence returns an empty Vec at once.                *)
ConvertEmpty ==
    /\ phase = "start"
    /\ seq.syllables = << >>
    /\ phase' = "done"
    /\ result' = << >>
    /\ UNCHANGED <<seq, begin, end, k, best, intervals, todo, highest>>

(* convert: otherwise call find_intervals, starting at begin = end = 0.    *)
FindIntervals ==
    /\ phase = "start"
    /\ seq.syllables # << >>
    /\ phase' = "grid"
    /\ begin' = 0
    /\ end' = 0
    /\ intervals' = << >>
    /\ UNCHANGED <<seq, k, best, todo, highest, result>>

(* find_intervals: move to the next (begin, end) pair of the two loops,   *)
(* or return once begin has run through 0..n.                              *)
NextSpan ==
    IF end < n THEN /\ end' = end + 1 /\ begin' = begin /\ phase' = "grid"
    ELSE IF begin + 1 < n
         THEN /\ begin' = begin + 1 /\ end' = begin + 1 /\ phase' = "grid"
         ELSE /\ phase' = "intervals_done" /\ UNCHANGED <<begin, end>>

(* find_best_phrase: a break strictly inside the span returns None.        *)
BreakForbidsSpan ==
    /\ phase = "grid"
    /\ BrokenSpan(begin, end, seq.breaks)
    /\ NextSpan
    /\ UNCHANGED <<seq, k, best, intervals, todo, highest, result>>

(* find_best_phrase: otherwise look the span's syllables up.               *)
LookupSpan ==
    /\ phase = "grid"
    /\ ~BrokenSpan(begin, end, seq.breaks)
    /\ phase' = "lookup"
    /\ k' = 1
    /\ best' = NoPhrase
    /\ UNCHANGED <<seq, begin, end, intervals, todo, highest, result>>

(* find_best_phrase, one iteration of 'next_phrase: a phrase disagreeing  *)
(* with a contained selection is skipped; a surviving one replaces the    *)
(* best when there is none yet or its frequency is strictly higher.       *)
ScanPhrase ==
    /\ phase = "lookup"
    /\ k <= Len(Candidates)
    /\ LET p == Candidates[k]
       IN  best' = IF /\ Compatible(p, begin, end, seq.selections)
                      /\ best = NoPhrase \/ p.freq > best.freq
                   THEN p ELSE best
    /\ k' = k + 1
    /\ UNCHANGED <<seq, phase, begin, end, intervals, todo, highest, result>>

(* Variant for testing the properties: pushes the interval whether or not *)
(* a phrase was found.                                                     *)
EndLookupUnchecked ==
    /\ phase = "lookup"
    /\ k > Len(Candidates)
    /\ intervals' = Append(intervals, [start |-> begin, end |-> end, phrase |-> best])
    /\ NextSpan
    /\ UNCHANGED <<seq, k, best, todo, highest, result>>

(* find_best_phrase returns; find_intervals pushes Some(phrase).           *)
EndLookup ==
    /\ phase = "lookup"
    /\ k > Len(Candidates)
    /\ intervals' = IF best # NoPhrase
                    THEN Append(intervals, [start |-> begin, end |-> end, phrase |-> best])
                    ELSE intervals
    /\ NextSpan
    /\ UNCHANGED <<seq, k, best, todo, highest, result>>

(* find_best_path: highest_score = [default; len + 1]; sort by end.        *)
FindBestPath ==
    /\ phase = "intervals_done"
    /\ phase' = "best_path"
    /\ highest' = [i \in 0..n |-> << >>]
    /\ todo' = DOMAIN intervals
    /\ UNCHANGED <<seq, begin, end, k, best, intervals, result>>

(* Variant for testing the properties: the comparator reversed, so the    *)
(* intervals are visited by decreasing end.                                *)
SortedFirstDescending(i) ==
    \A j \in todo : \/ intervals[i].end > intervals[j].end
                    \/ intervals[i].end = intervals[j].end /\ i <= j

(* The interval at position i is the next one of the sorted vector.        *)
SortedFirst(i) ==
    \A j \in todo : \/ intervals[i].end < intervals[j].end
                    \/ intervals[i].end = intervals[j].end /\ i <= j

(* Variant for testing the properties: the candidate extends              *)
(* highest_score[end] instead of highest_score[start].                     *)
RelaxIntervalFromEnd ==
    /\ phase = "best_path"
    /\ \E i \in todo :
          /\ SortedFirst(i)
          /\ LET iv == intervals[i]
                 candidate == Append(highest[iv.end], iv)
             IN  highest' = IF Score(highest[iv.end]) < Score(candidate)
                            THEN [highest EXCEPT ![iv.end] = candidate]
                            ELSE highest
          /\ todo' = todo \ {i}
    /\ UNCHANGED <<seq, phase, begin, end, k, best, intervals, result>>

(* find_best_path, one iteration: candidate = highest_score[start] + iv,   *)
(* kept at highest_score[end] when its score is strictly higher.           *)
RelaxInterval ==
    /\ phase = "best_path"
    /\ \E i \in todo :
          /\ SortedFirst(i)
          /\ LET iv == intervals[i]
                 candidate == Append(highest[iv.start], iv)
             IN  highest' = IF Score(highest[iv.end]) < Score(candidate)
                            THEN [highest EXCEPT ![iv.end] = candidate]
                            ELSE highest
          /\ todo' = todo \ {i}
    /\ UNCHANGED <<seq, phase, begin, end, k, best, intervals, result>>

(* find_best_path returns highest_score.pop(), converted to Intervals.     *)
ReturnBestPath ==
    /\ phase = "best_path"
    /\ todo = {}
    /\ result' = [j \in DOMAIN highest[n] |-> ToInterval(highest[n][j])]
    /\ phase' = "done"
    /\ UNCHANGED <<seq, begin, end, k, best, intervals, todo, highest>>

Next ==
    \/ ConvertEmpty
    \/ FindIntervals
    \/ BreakForbidsSpan
    \/ LookupSpan
    \/ ScanPhrase
    \/ EndLookup
    \/ FindBestPath
    \/ RelaxInterval
    \/ ReturnBestPath

Spec == Init /\ [][Next]_vars

-----------------------------------------------------------------------------
(* Reference definitions the properties compare the run with.              *)

(* The covers of [0, n) made of spans find_best_phrase gives a phrase.    *)
GridCovers == GridCoversOf(seq)

(* Every single syllable has a candidate phrase (spec 4.8: the dictionary *)
(* covers all singletons and no selection rules one out).                 *)
SingletonsAvailable == \A i \in 0..(n - 1) : GridSpan(seq, i, i + 1)

-----------------------------------------------------------------------------
(* Properties.                                                             *)

(* find_best_path only ever stores at highest_score[e] a chain of          *)
(* non-empty intervals that meet and end at e, so whatever convert        *)
(* returns is such a chain ending at the last syllable.                   *)
ResultChain ==
    phase = "done" /\ result # << >> =>
        /\ Contiguous(result)
        /\ result[Len(result)].end = n

(* When every syllable has a candidate of its own, the dynamic programme  *)
(* of find_best_path, visiting the intervals sorted by end, returns a     *)
(* cover of the whole input from 0 to n (spec 8, first invariant).        *)
CoverWhenSingletons ==
    phase = "done" /\ SingletonsAvailable => IsCover(result, n)

(* No interval convert returns crosses a break, and every selection lying *)
(* inside a returned interval agrees with the interval's text at the      *)
(* selection's offsets (spec 8; find_best_phrase's two filters).          *)
ResultRespectsUserConstraints ==
    phase = "done" =>
        \A j \in DOMAIN result :
            LET iv == result[j] IN
            /\ \A br \in seq.breaks : ~(iv.start < br /\ br < iv.end)
            /\ \A sel \in seq.selections :
                  iv.start <= sel.start /\ sel.end <= iv.end =>
                     \A c \in 1..(sel.end - sel.start) :
                        iv.phrase[sel.start - iv.start + c] = sel.phrase[c]

(* A selection the user could have made: a phrase the dictionary offers    *)
(* for the selected syllables, not crossing a break.                      *)
Selectable(sel) ==
    /\ ~BrokenSpan(sel.start, sel.end, seq.breaks)
    /\ \E i \in DOMAIN LookupPhrase(SubSeq(seq.syllables, sel.start + 1, sel.end)) :
          LookupPhrase(SubSeq(seq.syllables, sel.start + 1, sel.end))[i].text = sel.phrase

SelectionHonored ==
    phase = "done" /\ IsCover(result, n) /\ (\A sel \in seq.selections : Selectable(sel)) =>
        \A sel \in seq.selections :
            \E j \in DOMAIN result :
                /\ result[j].start <= sel.start /\ sel.end <= result[j].end
                /\ SubText(result[j].phrase, sel.start - result[j].start,
                           sel.end - sel.start) = sel.phrase

(* Spec 4.5: highest_score[n] is the best path covering [0, n): no cover  *)
(* of the candidate grid scores higher than the one convert returns.      *)
BestPathOptimal ==
    phase = "done" => \A c \in GridCovers : Score(c) <= Score(highest[n])


=============================================================================
