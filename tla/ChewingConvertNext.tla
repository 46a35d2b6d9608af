------------------------- MODULE ChewingConvertNext -------------------------
(***************************************************************************)
(* ChewingConversionEngine::convert_next (chewing_conversion.rs) as a     *)
(* state machine: one call on one ChineseSequence and one index next.     *)
(*                                                                         *)
(*   find_all_paths  the recursion is an explicit stack of frames; a frame *)
(*                   is one activation: its start, the next end its loop  *)
(*                   tries, and its prefix. The Graph memo is a function  *)
(*                   from (start, end) to find_best_phrase's answer.      *)
(*   trim_paths      one step per candidate and one per kept path scanned. *)
(*   the rest        sort by score (stable), rev, cycle, nth(next), or    *)
(*                   the panic of expect("should have path").             *)
(***************************************************************************)
EXTENDS Conversion

CONSTANT MaxNext    \* the largest index next convert_next is called with

ASSUME MaxNextAssumption == MaxNext \in Nat

VARIABLES
    seq,      \* the ChineseSequence
    next,     \* the index argument of convert_next
    at,       \* where the call is: see Stages
    stack,    \* find_all_paths: the activations, innermost last
    graph,    \* find_all_paths: the Graph memo, (start, end) -> phrase or NoPhrase
    paths,    \* find_all_paths: the paths found, in the order they are returned
    ci,       \* trim_paths: index in paths of the current candidate
    trimmed,  \* trim_paths: trimmed_paths
    keeper,   \* trim_paths: keeper
    ti,       \* trim_paths: index in trimmed of the path p being scanned
    drop,     \* trim_paths: drop_candidate
    output    \* the returned Vec<Interval>

vars == <<seq, next, at, stack, graph, paths, ci, trimmed, keeper, ti, drop, output>>

Stages == {"start", "search", "trim", "scan", "done", "panic"}

n == Len(seq.syllables)

Frame == [start : 0..n, end : 0..(n + 1), prefix : Seq(PossibleInterval(n))]

TypeOK ==
    /\ SequenceType(seq)
    /\ next \in 0..MaxNext
    /\ at \in Stages
    /\ stack \in Seq(Frame)
    /\ DOMAIN graph \subseteq (0..n) \X (0..n)
    /\ \A key \in DOMAIN graph : graph[key] \in Phrase \cup {NoPhrase}
    /\ paths \in Seq(Seq(PossibleInterval(n)))
    /\ ci \in 1..(Len(paths) + 1)
    /\ trimmed \in Seq(Seq(PossibleInterval(n)))
    /\ keeper \in Seq(Seq(PossibleInterval(n)))
    /\ ti \in Nat
    /\ drop \in BOOLEAN
    /\ output \in Seq(Interval(n))

-----------------------------------------------------------------------------
(* Helpers translated from the code.                                       *)

(* PossibleInterval::contains.                                             *)
IntervalContains(a, b) == a.start <= b.start /\ a.end >= b.end

(* Variant for testing the properties: after a match the big cursor also  *)
(* moves on, so two small intervals can never share a big one.            *)
PathContainsSkip(self, other) ==
    LET Stop(q, b) == b > Len(self) \/ self[b].start >= q.end \/ IntervalContains(self[b], q)
        Scan(q, b) == CHOOSE c \in b..(Len(self) + 1) : Stop(q, c) /\ \A d \in b..(c - 1) : ~Stop(q, d)
        big[i \in 0..Len(other)] ==
            IF i = 0 THEN 1
            ELSE IF big[i - 1] = 0 THEN 0
            ELSE LET c == Scan(other[i], big[i - 1])
                 IN  IF c <= Len(self) /\ self[c].start < other[i].end THEN c + 1 ELSE 0
    IN  big[Len(other)] # 0

(* PossiblePath::contains: for each small interval, the big cursor moves  *)
(* on while the big interval starts before the small one ends and does    *)
(* not contain it; it fails when it runs out or passes the small one.     *)
(* big[i] is the cursor after the i-th small interval, 0 once it failed.  *)
PathContains(self, other) ==
    LET Stop(q, b) == b > Len(self) \/ self[b].start >= q.end \/ IntervalContains(self[b], q)
        Scan(q, b) == CHOOSE c \in b..(Len(self) + 1) : Stop(q, c) /\ \A d \in b..(c - 1) : ~Stop(q, d)
        big[i \in 0..Len(other)] ==
            IF i = 0 THEN 1
            ELSE IF big[i - 1] = 0 THEN 0
            ELSE LET c == Scan(other[i], big[i - 1])
                 IN  IF c <= Len(self) /\ self[c].start < other[i].end THEN c ELSE 0
    IN  big[Len(other)] # 0

(* Vec::sort with Ord for PossiblePath (score order): stable, ascending.   *)
SortByScore(ps) ==
    LET Before(i, j) == \/ Score(ps[i]) < Score(ps[j])
                        \/ Score(ps[i]) = Score(ps[j]) /\ i < j
        Rank(i) == Cardinality({j \in DOMAIN ps : Before(j, i)}) + 1
    IN  [r \in DOMAIN ps |-> ps[CHOOSE i \in DOMAIN ps : Rank(i) = r]]

(* into_iter().rev().cycle().nth(next) of a non-empty list.                *)
Alternative(ps, k) ==
    LET sorted == SortByScore(ps)
    IN  sorted[Len(sorted) - (k % Len(sorted))]

(* The innermost activation of find_all_paths, and the stack without it.  *)
Top == stack[Len(stack)]
Pop == SubSeq(stack, 1, Len(stack) - 1)

(* Variant for testing the properties: the slice is taken inclusive,     *)
(* syllables[start..=end], so [s, s) already has a phrase.                 *)
SpanPhraseInclusive(s, e) == IF e < n THEN FindBestPhrase(s, e + 1, seq) ELSE NoPhrase

(* The answer of find_best_phrase for [s, e), as the memo computes it.    *)
SpanPhrase(s, e) == FindBestPhrase(s, e, seq)

(* Variant for testing the properties: the loop runs over start..target.  *)
InLoopExclusive == Top.end < n

(* The innermost activation's loop over end in start..=target goes on.    *)
InLoop == Top.end <= n

(* Variant for testing the properties: every answer counts as Some.       *)
FoundAlways(phrase) == TRUE

(* if let Some(phrase) = the memo entry.                                    *)
Found(phrase) == phrase # NoPhrase


-----------------------------------------------------------------------------
Init ==
    /\ seq \in ChineseSequence
    /\ next \in 0..MaxNext
    /\ at = "start"
    /\ stack = << >>
    /\ graph = [key \in {} |-> NoPhrase]
    /\ paths = << >>
    /\ ci = 1
    /\ trimmed = << >>
    /\ keeper = << >>
    /\ ti = 1
    /\ drop = FALSE
    /\ output = << >>

(* convert_next: an empty sequence returns an empty Vec.                   *)
ConvertNextEmpty ==
    /\ at = "start"
    /\ seq.syllables = << >>
    /\ at' = "done"
    /\ UNCHANGED <<seq, next, stack, graph, paths, ci, trimmed, keeper, ti, drop, output>>

(* convert_next: Graph::default(), then find_all_paths(0, n, None).        *)
FindAllPaths ==
    /\ at = "start"
    /\ seq.syllables # << >>
    /\ at' = "search"
    /\ stack' = << [start |-> 0, end |-> 0, prefix |-> << >>] >>
    /\ UNCHANGED <<seq, next, graph, paths, ci, trimmed, keeper, ti, drop, output>>

(* find_all_paths: start == target returns vec![prefix].                   *)
ReachTarget ==
    /\ at = "search"
    /\ stack # << >>
    /\ Top.start = n
    /\ paths' = Append(paths, Top.prefix)
    /\ stack' = Pop
    /\ UNCHANGED <<seq, next, at, graph, ci, trimmed, keeper, ti, drop, output>>

(* Variant for testing the properties: the prefix is not cloned, so the   *)
(* interval pushed for one end stays in the prefix of the later ends.     *)
TryEndSharedPrefix ==
    /\ at = "search"
    /\ stack # << >>
    /\ Top.start < n
    /\ InLoop
    /\ LET key == <<Top.start, Top.end>>
           phrase == IF key \in DOMAIN graph THEN graph[key] ELSE SpanPhrase(Top.start, Top.end)
           extended == Append(Top.prefix, [start |-> Top.start, end |-> Top.end, phrase |-> phrase])
           caller == [Top EXCEPT !.end = Top.end + 1,
                                 !.prefix = IF Found(phrase) THEN extended ELSE Top.prefix]
           callee == [start |-> Top.end, end |-> Top.end, prefix |-> extended]
       IN  /\ graph' = [x \in DOMAIN graph \cup {key} |-> IF x = key THEN phrase ELSE graph[x]]
           /\ stack' = IF Found(phrase)
                       THEN Append([stack EXCEPT ![Len(stack)] = caller], callee)
                       ELSE [stack EXCEPT ![Len(stack)] = caller]
    /\ UNCHANGED <<seq, next, at, paths, ci, trimmed, keeper, ti, drop, output>>

(* find_all_paths, one iteration of the loop over end in start..=target:  *)
(* the memo entry for (start, end) is read or filled with find_best_phrase; *)
(* a phrase extends a clone of the prefix and the search recurses at end. *)
TryEnd ==
    /\ at = "search"
    /\ stack # << >>
    /\ Top.start < n
    /\ InLoop
    /\ LET key == <<Top.start, Top.end>>
           phrase == IF key \in DOMAIN graph THEN graph[key] ELSE SpanPhrase(Top.start, Top.end)
           caller == [Top EXCEPT !.end = Top.end + 1]
           callee == [start |-> Top.end, end |-> Top.end,
                      prefix |-> Append(Top.prefix, [start |-> Top.start, end |-> Top.end,
                                                     phrase |-> phrase])]
       IN  /\ graph' = [x \in DOMAIN graph \cup {key} |-> IF x = key THEN phrase ELSE graph[x]]
           /\ stack' = IF Found(phrase)
                       THEN Append([stack EXCEPT ![Len(stack)] = caller], callee)
                       ELSE [stack EXCEPT ![Len(stack)] = caller]
    /\ UNCHANGED <<seq, next, at, paths, ci, trimmed, keeper, ti, drop, output>>

(* Variant for testing the properties: the activation never returns.     *)
EndLoopNoReturn ==
    /\ at = "search"
    /\ stack # << >>
    /\ Top.start < n
    /\ ~InLoop
    /\ UNCHANGED vars

(* find_all_paths: the loop is over; return to the caller.                 *)
EndLoop ==
    /\ at = "search"
    /\ stack # << >>
    /\ Top.start < n
    /\ ~InLoop
    /\ stack' = Pop
    /\ UNCHANGED <<seq, next, at, graph, paths, ci, trimmed, keeper, ti, drop, output>>

(* find_all_paths has returned; trim_paths starts with an empty list.     *)
TrimPaths ==
    /\ at = "search"
    /\ stack = << >>
    /\ at' = "trim"
    /\ ci' = 1
    /\ trimmed' = << >>
    /\ UNCHANGED <<seq, next, stack, graph, paths, keeper, ti, drop, output>>

(* trim_paths: take the next candidate; keeper = [], drop = false.         *)
TrimCandidate ==
    /\ at = "trim"
    /\ ci <= Len(paths)
    /\ at' = "scan"
    /\ ti' = 1
    /\ keeper' = << >>
    /\ drop' = FALSE
    /\ UNCHANGED <<seq, next, stack, graph, paths, ci, trimmed, output>>

(* Variant for testing the properties: the two containment tests swapped. *)
TrimScanSwapped ==
    /\ at = "scan"
    /\ ti <= Len(trimmed)
    /\ LET p == trimmed[ti]
           candidate == paths[ci]
       IN  /\ drop' = (drop \/ PathContains(candidate, p))
           /\ keeper' = IF drop' \/ ~PathContains(p, candidate)
                        THEN Append(keeper, p) ELSE keeper
    /\ ti' = ti + 1
    /\ UNCHANGED <<seq, next, at, stack, graph, paths, ci, trimmed, output>>

(* trim_paths, inner loop: p is kept once the candidate is dropped or when *)
(* it contains the candidate (which drops it); otherwise p is dropped iff  *)
(* the candidate contains it.                                              *)
TrimScan ==
    /\ at = "scan"
    /\ ti <= Len(trimmed)
    /\ LET p == trimmed[ti]
           candidate == paths[ci]
       IN  /\ drop' = (drop \/ PathContains(p, candidate))
           /\ keeper' = IF drop' \/ ~PathContains(candidate, p)
                        THEN Append(keeper, p) ELSE keeper
    /\ ti' = ti + 1
    /\ UNCHANGED <<seq, next, at, stack, graph, paths, ci, trimmed, output>>

(* Variant for testing the properties: the inner loop stops one early.   *)
TrimKeepEarly ==
    /\ at = "scan"
    /\ ti >= Len(trimmed)
    /\ trimmed' = IF drop THEN keeper ELSE Append(keeper, paths[ci])
    /\ ci' = ci + 1
    /\ at' = "trim"
    /\ UNCHANGED <<seq, next, stack, graph, paths, keeper, ti, drop, output>>

(* trim_paths: a candidate that was not dropped is kept, last.             *)
TrimKeep ==
    /\ at = "scan"
    /\ ti > Len(trimmed)
    /\ trimmed' = IF drop THEN keeper ELSE Append(keeper, paths[ci])
    /\ ci' = ci + 1
    /\ at' = "trim"
    /\ UNCHANGED <<seq, next, stack, graph, paths, keeper, ti, drop, output>>

(* Variant for testing the properties: the untrimmed paths are sorted.     *)
ReturnAlternativeUntrimmed ==
    /\ at = "trim"
    /\ ci > Len(paths)
    /\ trimmed # << >>
    /\ LET p == Alternative(paths, next)
       IN  output' = [j \in DOMAIN p |-> ToInterval(p[j])]
    /\ at' = "done"
    /\ UNCHANGED <<seq, next, stack, graph, paths, ci, trimmed, keeper, ti, drop>>

(* convert_next: sort, rev, cycle, nth(next), converted to Intervals.      *)
ReturnAlternative ==
    /\ at = "trim"
    /\ ci > Len(paths)
    /\ trimmed # << >>
    /\ LET p == Alternative(trimmed, next)
       IN  output' = [j \in DOMAIN p |-> ToInterval(p[j])]
    /\ at' = "done"
    /\ UNCHANGED <<seq, next, stack, graph, paths, ci, trimmed, keeper, ti, drop>>

(* convert_next: nth of an empty cycle is None; expect panics.             *)
NoPathPanic ==
    /\ at = "trim"
    /\ ci > Len(paths)
    /\ trimmed = << >>
    /\ at' = "panic"
    /\ UNCHANGED <<seq, next, stack, graph, paths, ci, trimmed, keeper, ti, drop, output>>

Next ==
    \/ ConvertNextEmpty
    \/ FindAllPaths
    \/ ReachTarget
    \/ TryEnd
    \/ EndLoop
    \/ TrimPaths
    \/ TrimCandidate
    \/ TrimScan
    \/ TrimKeep
    \/ ReturnAlternative
    \/ NoPathPanic

(* One thread runs the call and every stage but the last two has a step,  *)
(* so the call is weakly fair.                                             *)
Spec == Init /\ [][Next]_vars /\ WF_vars(Next)

-----------------------------------------------------------------------------
(* Properties.                                                             *)

(* find_all_paths recurses only to a larger start (the empty span [s, s)  *)
(* has no phrase), so the recursion is never deeper than n + 1 frames.    *)
StackBounded == Len(stack) <= n + 1

(* Every path find_all_paths has returned so far is a cover of [0, n)    *)
(* whose every span carries find_best_phrase's answer for that span, and  *)
(* that answer is Some, although it may have been read from the Graph     *)
(* memo filled by another branch of the search.                            *)
PathsSound ==
    \A i \in DOMAIN paths :
        /\ IsCover(paths[i], n)
        /\ \A r \in DOMAIN paths[i] :
              /\ paths[i][r].phrase = FindBestPhrase(paths[i][r].start, paths[i][r].end, seq)
              /\ paths[i][r].phrase # NoPhrase

(* find_all_paths returns every cover of the candidate grid, each once,   *)
(* each with find_best_phrase's phrase for its spans (spec 4.6).          *)
SearchComplete ==
    at \in {"done", "panic"} /\ n > 0 =>
        /\ {paths[i] : i \in DOMAIN paths} = GridCoversOf(seq)
        /\ \A i, j \in DOMAIN paths : paths[i] = paths[j] => i = j

(* The greedy two-pointer PossiblePath::contains agrees with spec 4.7's   *)
(* monotone-assignment definition on every pair of enumerated paths.      *)
PathContainsMatchesSpec ==
    at \in {"done", "panic"} =>
        \A i, j \in DOMAIN paths : PathContains(paths[i], paths[j]) = ContainsSpec(paths[i], paths[j])

(* Whatever the order find_all_paths returns the paths in, trim_paths     *)
(* keeps exactly the paths no other path contains, each once.             *)
TrimmedAreMaximal ==
    at \in {"done", "panic"} /\ n > 0 =>
        /\ {trimmed[i] : i \in DOMAIN trimmed} =
              {p \in {paths[i] : i \in DOMAIN paths} :
                  \A j \in DOMAIN paths : ContainsSpec(paths[j], p) => paths[j] = p}
        /\ \A i, j \in DOMAIN trimmed : trimmed[i] = trimmed[j] => i = j

(* Each pass of trim_paths' outer loop (trimmed_paths = keeper) removes   *)
(* from trimmed_paths only paths the candidate contains, and drops the     *)
(* candidate only when a path that stays contains it: no path leaves the   *)
(* list without a witness that it is not maximal.                          *)
TrimPassDropsOnlyContained ==
    at = "scan" /\ at' = "trim" =>
        LET candidate == paths[ci]
            kept == {trimmed'[j] : j \in DOMAIN trimmed'}
        IN  /\ \A i \in DOMAIN trimmed :
                   trimmed[i] \notin kept => PathContains(candidate, trimmed[i])
            /\ candidate \notin kept =>
                   \E j \in DOMAIN trimmed' : PathContains(trimmed'[j], candidate)
TrimDropsOnlyContained == [][TrimPassDropsOnlyContained]_vars

(* The call ends: it returns or panics.                                    *)
Termination == <>(at \in {"done", "panic"})

(* convert_next implements its abstract specification: it returns a      *)
(* maximal cover of the grid, or panics exactly when there is none.       *)
AbstractNext == INSTANCE AbstractConvertNext
    WITH state <- CASE at = "done" -> "returned"
                    [] at = "panic" -> "panicked"
                    [] OTHER -> "running"
NextRefinesAbstract == AbstractNext!Spec

=============================================================================
