---------------------- MODULE ChewingConvertNextProofs ----------------------
(***************************************************************************)
(* Proofs about ChewingConvertNext for every dictionary meeting the       *)
(* contract and every input length.                                       *)
(***************************************************************************)
EXTENDS ChewingConvertNext, TLAPS

(* find_best_phrase on an empty span returns None: the lookup of the      *)
(* empty key is empty, so the loop body never runs.                        *)
LEMMA EmptySpanHasNoPhrase ==
    ASSUME NEW sq, NEW s \in Nat,
           sq.syllables \in Seq(Syllable), sq.breaks \subseteq Nat,
           s <= Len(sq.syllables)
    PROVE  FindBestPhrase(s, s, sq) = NoPhrase
<1>1. ~BrokenSpan(s, s, sq.breaks)
  BY SMT DEF BrokenSpan
<1>2. LookupPhrase(SubSeq(sq.syllables, s + 1, s)) = << >>
  <2>1. SubSeq(sq.syllables, s + 1, s) = << >>
    OBVIOUS
  <2>2. << >> \notin DOMAIN Dict
    BY DictAssumption DEF DictAssumption
  <2>. QED
    BY <2>1, <2>2 DEF LookupPhrase
<1>. DEFINE ps == LookupPhrase(SubSeq(sq.syllables, s + 1, s))
            F(f) == [i \in 0..Len(ps) |->
                       IF i = 0 THEN NoPhrase
                       ELSE IF /\ Compatible(ps[i], s, s, sq.selections)
                               /\ f[i - 1] = NoPhrase \/ ps[i].freq > f[i - 1].freq
                            THEN ps[i] ELSE f[i - 1]]
<1>3. [i \in {0} |-> NoPhrase] = F([i \in {0} |-> NoPhrase])
  BY <1>2
<1>4. \A f : f = F(f) => f[Len(ps)] = NoPhrase
  BY <1>2
<1>. QED
  BY <1>1, <1>3, <1>4 DEF FindBestPhrase

(* The inputs convert_next is called on have syllables and numeric breaks. *)
LEMMA InputShape ==
    ASSUME NEW sq \in ChineseSequence
    PROVE  sq.syllables \in Seq(Syllable) /\ sq.breaks \subseteq Nat
<1>1. PICK syls \in SeqsUpTo(Syllable, MaxLen) :
          sq \in [syllables : {syls}, selections : SelectionSets(Len(syls)),
                  breaks : SUBSET (1..(Len(syls) - 1))]
  BY DEF ChineseSequence
<1>2. PICK m \in 0..MaxLen : syls \in [1..m -> Syllable]
  BY <1>1 DEF SeqsUpTo
<1>3. syls \in Seq(Syllable)
  BY <1>2, DictAssumption DEF DictAssumption
<1>. QED
  BY <1>1, <1>3

-----------------------------------------------------------------------------
(* The inductive invariant behind StackBounded. Every memo entry is what   *)
(* find_best_phrase answers for its span, and the i-th activation starts *)
(* at i - 1 or later and no later than its loop's current end.             *)

Answers == {SpanPhrase(s, e) : s \in 0..n, e \in 0..n}
Step == [start : 0..n, end : 0..n, phrase : Answers]
FrameShape == [start : 0..n, end : 0..(n + 1), prefix : Seq(Step)]

MemoCoherent ==
    /\ DOMAIN graph \subseteq (0..n) \X (0..n)
    /\ \A key \in DOMAIN graph : graph[key] = SpanPhrase(key[1], key[2])

StartsRise ==
    \A i \in DOMAIN stack : stack[i].start <= stack[i].end /\ stack[i].start >= i - 1

IInv ==
    /\ seq.syllables \in Seq(Syllable)
    /\ seq.breaks \subseteq Nat
    /\ stack \in Seq(FrameShape)
    /\ MemoCoherent
    /\ StartsRise

(* A step that leaves the input, the stack and the memo alone keeps IInv.  *)
LEMMA FrozenIInv ==
    ASSUME IInv, UNCHANGED <<seq, stack, graph>>
    PROVE  IInv'
  BY DEF IInv, MemoCoherent, StartsRise, FrameShape, Step, Answers, SpanPhrase, n

(* A pop keeps IInv.                                                        *)
LEMMA PopIInv ==
    ASSUME IInv, stack # << >>, stack' = Pop, UNCHANGED <<seq, graph>>
    PROVE  IInv'
<1>1. stack' \in Seq(FrameShape)
  BY DEF IInv, Pop
<1>2. StartsRise'
  BY DEF IInv, StartsRise, Pop
<1>. QED
  BY <1>1, <1>2 DEF IInv, MemoCoherent, FrameShape, Step, Answers, SpanPhrase, n

(* One iteration of find_all_paths' loop keeps IInv: the memo is filled    *)
(* with find_best_phrase's answer, and it recurses only past an interval  *)
(* with a phrase, which is not empty.                                       *)
LEMMA TryEndIInv ==
    ASSUME IInv, TryEnd
    PROVE  IInv'
<1>. USE DEF IInv
<1>. DEFINE key == <<Top.start, Top.end>>
            phrase == IF key \in DOMAIN graph THEN graph[key] ELSE SpanPhrase(Top.start, Top.end)
            caller == [Top EXCEPT !.end = Top.end + 1]
            callee == [start |-> Top.end, end |-> Top.end,
                       prefix |-> Append(Top.prefix, [start |-> Top.start, end |-> Top.end,
                                                      phrase |-> phrase])]
<1>1. /\ n \in Nat
      /\ Len(stack) \in Nat \ {0}
      /\ Top \in FrameShape
      /\ Top.start <= Top.end /\ Top.start >= Len(stack) - 1
      /\ Top.end \in 0..n
  <2>1. n \in Nat
    BY DEF n
  <2>2. Len(stack) \in Nat \ {0} /\ Len(stack) \in DOMAIN stack
    BY DEF TryEnd
  <2>3. Top \in FrameShape
    BY <2>2 DEF Top
  <2>4. Top.start <= Top.end /\ Top.start >= Len(stack) - 1
    BY <2>2 DEF Top, StartsRise
  <2>5. Top.end <= n
    BY DEF TryEnd, InLoop
  <2>. QED
    BY <2>1, <2>2, <2>3, <2>4, <2>5 DEF FrameShape
<1>9. /\ Top.start \in 0..n
      /\ Top.prefix \in Seq(Step)
      /\ Top = [start |-> Top.start, end |-> Top.end, prefix |-> Top.prefix]
  BY <1>1 DEF FrameShape
<1>2. phrase = SpanPhrase(Top.start, Top.end)
  BY <1>1, <1>9 DEF MemoCoherent
<1>3. /\ graph' = [x \in DOMAIN graph \cup {key} |-> IF x = key THEN phrase ELSE graph[x]]
      /\ stack' = IF Found(phrase)
                  THEN Append([stack EXCEPT ![Len(stack)] = caller], callee)
                  ELSE [stack EXCEPT ![Len(stack)] = caller]
      /\ seq' = seq
  BY DEF TryEnd
<1>4. MemoCoherent'
  <2>1. n' = n
    BY <1>3 DEF n
  <2>2. key \in (0..n) \X (0..n) /\ key[1] = Top.start /\ key[2] = Top.end
    BY <1>1, <1>9
  <2>3. \A s, e : SpanPhrase(s, e)' = SpanPhrase(s, e)
    BY <1>3 DEF SpanPhrase
  <2>4. DOMAIN graph' = DOMAIN graph \cup {key}
    BY <1>3
  <2>5. \A x \in DOMAIN graph' : graph'[x] = SpanPhrase(x[1], x[2])
    BY <1>2, <1>3, <2>2 DEF MemoCoherent
  <2>. QED
    BY <2>1, <2>2, <2>3, <2>4, <2>5 DEF MemoCoherent
<1>5. caller \in FrameShape /\ caller.start <= caller.end /\ caller.start >= Len(stack) - 1
  <2>1. caller = [start |-> Top.start, end |-> Top.end + 1, prefix |-> Top.prefix]
    BY <1>9
  <2>. QED
    BY <1>1, <1>9, <2>1 DEF FrameShape
<1>6. [stack EXCEPT ![Len(stack)] = caller] \in Seq(FrameShape)
  BY <1>5 DEF TryEnd
<1>10. seq' = seq /\ FrameShape' = FrameShape
  BY <1>3 DEF FrameShape, Step, Answers, SpanPhrase, n
<1>7. CASE Found(phrase)
  <2>1. Top.end # Top.start
    BY <1>1, <1>2, <1>7, EmptySpanHasNoPhrase DEF Found, SpanPhrase, n
  <2>2. callee \in FrameShape
    <3>1. [start |-> Top.start, end |-> Top.end, phrase |-> phrase] \in Step
      BY <1>1, <1>2 DEF Step, Answers, FrameShape
    <3>. QED
      BY <1>1, <3>1 DEF FrameShape
  <2>3. callee.start <= callee.end /\ callee.start >= Len(stack)
    BY <1>1, <1>9, <2>1
  <2>4. stack' = Append([stack EXCEPT ![Len(stack)] = caller], callee)
    BY <1>3, <1>7
  <2>5. stack' \in Seq(FrameShape)
    BY <1>6, <2>2, <2>4
  <2>6. \A i \in DOMAIN stack' : stack'[i].start <= stack'[i].end /\ stack'[i].start >= i - 1
    <3>1. \A i \in 1..(Len(stack) - 1) : stack'[i] = stack[i]
      BY <1>1, <2>4
    <3>2. stack'[Len(stack)] = caller /\ stack'[Len(stack) + 1] = callee
      BY <1>1, <2>4
    <3>3. DOMAIN stack' = 1..(Len(stack) + 1)
      BY <1>1, <2>4
    <3>4. \A i \in 1..(Len(stack) - 1) : stack[i].start <= stack[i].end /\ stack[i].start >= i - 1
      BY <1>1 DEF StartsRise
    <3>. SUFFICES ASSUME NEW i \in DOMAIN stack'
                  PROVE  stack'[i].start <= stack'[i].end /\ stack'[i].start >= i - 1
      OBVIOUS
    <3>5. CASE i \in 1..(Len(stack) - 1)
      BY <3>5, <3>1, <3>4
    <3>6. CASE i = Len(stack)
      BY <3>6, <3>2, <1>5
    <3>7. CASE i = Len(stack) + 1
      BY <3>7, <3>2, <2>3
    <3>. QED
      BY <1>1, <3>3, <3>5, <3>6, <3>7
  <2>. QED
    BY <1>4, <1>10, <2>5, <2>6 DEF StartsRise
<1>8. CASE ~Found(phrase)
  <2>1. stack' = [stack EXCEPT ![Len(stack)] = caller]
    BY <1>3, <1>8
  <2>2. \A i \in DOMAIN stack' : stack'[i].start <= stack'[i].end /\ stack'[i].start >= i - 1
    <3>1. \A i \in 1..(Len(stack) - 1) : stack'[i] = stack[i]
      BY <1>1, <2>1
    <3>3. \A i \in 1..(Len(stack) - 1) : stack[i].start <= stack[i].end /\ stack[i].start >= i - 1
      BY <1>1 DEF StartsRise
    <3>2. stack'[Len(stack)] = caller /\ DOMAIN stack' = 1..Len(stack)
      BY <1>1, <2>1
    <3>. SUFFICES ASSUME NEW i \in DOMAIN stack'
                  PROVE  stack'[i].start <= stack'[i].end /\ stack'[i].start >= i - 1
      OBVIOUS
    <3>4. CASE i \in 1..(Len(stack) - 1)
      BY <3>4, <3>1, <3>3
    <3>5. CASE i = Len(stack)
      BY <3>5, <3>2, <1>5
    <3>. QED
      BY <1>1, <3>2, <3>4, <3>5
  <2>. QED
    BY <1>4, <1>6, <1>10, <2>1, <2>2 DEF StartsRise
<1>. QED
  BY <1>7, <1>8

(* The initial state satisfies IInv.                                        *)
LEMMA InitIInv == Init => IInv
  BY InputShape DEF Init, IInv, MemoCoherent, StartsRise

(* Every step keeps IInv.                                                   *)
LEMMA NextIInv == IInv /\ [Next]_vars => IInv'
<1>. SUFFICES ASSUME IInv, [Next]_vars PROVE IInv'
  OBVIOUS
<1>1. CASE FindAllPaths
  <2>1. stack' \in Seq(FrameShape)
    BY <1>1 DEF FindAllPaths, FrameShape, IInv, n
  <2>. QED
    BY <1>1, <2>1 DEF FindAllPaths, IInv, MemoCoherent, StartsRise, FrameShape, Step, Answers, SpanPhrase, n
<1>2. CASE ReachTarget
  BY <1>2, PopIInv DEF ReachTarget
<1>3. CASE TryEnd
  BY <1>3, TryEndIInv
<1>4. CASE EndLoop
  BY <1>4, PopIInv DEF EndLoop
<1>5. CASE \/ ConvertNextEmpty \/ TrimPaths \/ TrimCandidate \/ TrimScan
           \/ TrimKeep \/ ReturnAlternative \/ NoPathPanic \/ UNCHANGED vars
  BY <1>5, FrozenIInv DEF ConvertNextEmpty, TrimPaths, TrimCandidate, TrimScan,
     TrimKeep, ReturnAlternative, NoPathPanic, vars
<1>. QED
  BY <1>1, <1>2, <1>3, <1>4, <1>5 DEF Next

(* IInv implies StackBounded: the last activation starts at Len(stack) - 1 *)
(* or later, and no activation starts past n.                              *)
LEMMA IInvStackBounded == IInv => StackBounded
<1>. SUFFICES ASSUME IInv, stack # << >> PROVE Len(stack) <= n + 1
  BY DEF IInv, StackBounded, n
<1>1. Len(stack) \in DOMAIN stack /\ stack[Len(stack)] \in FrameShape
  BY DEF IInv
<1>2. stack[Len(stack)].start >= Len(stack) - 1 /\ stack[Len(stack)].start \in 0..n
  BY <1>1 DEF IInv, StartsRise, FrameShape
<1>. QED
  BY <1>2 DEF IInv, n

(* find_all_paths never recurses deeper than n + 1 activations, for every *)
(* dictionary meeting the contract (no phrase under the empty key).         *)
THEOREM StackBoundedHolds == Spec => []StackBounded
<1>1. Init => IInv
  BY InitIInv
<1>2. IInv /\ [Next]_vars => IInv'
  BY NextIInv
<1>3. IInv => StackBounded
  BY IInvStackBounded
<1>. QED
  BY <1>1, <1>2, <1>3, PTL DEF Spec

-----------------------------------------------------------------------------
(* The inductive invariant behind PathsSound: each activation's prefix is *)
(* a chain of sound intervals from 0 to the activation's start, so the    *)
(* prefix returned at start == target is a cover.                          *)

(* The interval carries find_best_phrase's answer for its span, not None. *)
SoundInterval(iv) ==
    iv.phrase = FindBestPhrase(iv.start, iv.end, seq) /\ iv.phrase # NoPhrase

(* pre is a chain of sound intervals from 0 to s (empty when s = 0).      *)
ChainTo(pre, s) ==
    /\ pre = << >> => s = 0
    /\ pre # << >> => Contiguous(pre) /\ pre[1].start = 0 /\ pre[Len(pre)].end = s
    /\ \A r \in DOMAIN pre : SoundInterval(pre[r])

PrefixChains == \A i \in DOMAIN stack : ChainTo(stack[i].prefix, stack[i].start)

(* convert_next only searches a non-empty input.                           *)
SearchNonEmpty == stack # << >> => n > 0

SInv ==
    /\ IInv
    /\ paths \in Seq(Seq(Step))
    /\ SearchNonEmpty
    /\ PrefixChains
    /\ PathsSound

(* Extending a chain to s by a sound interval [s, e) with s < e gives a   *)
(* chain to e: the prefix of the recursive call at line 196.               *)
LEMMA ExtendChain ==
    ASSUME NEW pre \in Seq(Step), NEW s \in Nat, NEW iv \in Step,
           ChainTo(pre, s), iv.start = s, s < iv.end, SoundInterval(iv)
    PROVE  ChainTo(Append(pre, iv), iv.end)
<1>. DEFINE q == Append(pre, iv)
<1>1. /\ Len(q) = Len(pre) + 1
      /\ \A j \in 1..Len(pre) : q[j] = pre[j]
      /\ q[Len(pre) + 1] = iv
      /\ q # << >>
  OBVIOUS
<1>2. \A r \in DOMAIN q : SoundInterval(q[r])
  BY <1>1 DEF ChainTo
<1>3. q[1].start = 0 /\ q[Len(q)].end = iv.end
  BY <1>1 DEF ChainTo
<1>4. Contiguous(q)
  <2>2. pre # << >> => Contiguous(pre) /\ pre[Len(pre)].end = s
    BY DEF ChainTo
  <2>3. \A k \in DOMAIN q : q[k].start < q[k].end
    <3>. SUFFICES ASSUME NEW k \in DOMAIN q PROVE q[k].start < q[k].end
      OBVIOUS
    <3>1. CASE k \in 1..Len(pre)
      BY <1>1, <2>2, <3>1 DEF Contiguous
    <3>2. CASE k = Len(pre) + 1
      BY <1>1, <3>2
    <3>. QED
      BY <1>1, <3>1, <3>2
  <2>4. \A k \in 1..(Len(q) - 1) : q[k].end = q[k + 1].start
    <3>. SUFFICES ASSUME NEW k \in 1..(Len(q) - 1) PROVE q[k].end = q[k + 1].start
      OBVIOUS
    <3>1. CASE k \in 1..(Len(pre) - 1)
      BY <1>1, <2>2, <3>1 DEF Contiguous
    <3>2. CASE k = Len(pre)
      BY <1>1, <2>2, <3>2
    <3>. QED
      BY <1>1, <3>1, <3>2
  <2>. QED
    BY <2>3, <2>4 DEF Contiguous
<1>. QED
  BY <1>1, <1>2, <1>3, <1>4 DEF ChainTo

(* A pop keeps the chains of the activations that remain.                 *)
LEMMA PopChains ==
    ASSUME IInv, PrefixChains, stack # << >>, stack' = Pop, seq' = seq
    PROVE  PrefixChains'
<1>1. \A i \in DOMAIN stack' : stack'[i] = stack[i] /\ i \in DOMAIN stack
  BY DEF IInv, Pop
<1>2. \A pre, st : ChainTo(pre, st)' = ChainTo(pre, st)
  BY DEF ChainTo, SoundInterval
<1>. QED
  BY <1>1, <1>2 DEF PrefixChains

(* One iteration of find_all_paths' loop keeps the prefixes sound: the    *)
(* caller keeps its prefix, and the callee's is the caller's extended by *)
(* [start, end) with the memo's answer, which is find_best_phrase's.      *)
LEMMA TryEndChains ==
    ASSUME IInv, PrefixChains, TryEnd
    PROVE  PrefixChains'
<1>. USE DEF IInv
<1>. DEFINE key == <<Top.start, Top.end>>
            phrase == IF key \in DOMAIN graph THEN graph[key] ELSE SpanPhrase(Top.start, Top.end)
            iv == [start |-> Top.start, end |-> Top.end, phrase |-> phrase]
            caller == [Top EXCEPT !.end = Top.end + 1]
            callee == [start |-> Top.end, end |-> Top.end, prefix |-> Append(Top.prefix, iv)]
<1>1. /\ n \in Nat
      /\ Len(stack) \in Nat \ {0}
      /\ Top \in FrameShape
      /\ Top.start <= Top.end
      /\ Top.end \in 0..n
      /\ ChainTo(Top.prefix, Top.start)
  <2>1. Len(stack) \in Nat \ {0} /\ Len(stack) \in DOMAIN stack
    BY DEF TryEnd
  <2>2. Top \in FrameShape /\ Top.start <= Top.end
    BY <2>1 DEF Top, StartsRise
  <2>3. ChainTo(Top.prefix, Top.start)
    BY <2>1 DEF Top, PrefixChains
  <2>4. Top.end <= n /\ n \in Nat
    BY DEF TryEnd, InLoop, n
  <2>. QED
    BY <2>1, <2>2, <2>3, <2>4 DEF FrameShape
<1>2. /\ Top.start \in 0..n
      /\ Top.prefix \in Seq(Step)
      /\ Top = [start |-> Top.start, end |-> Top.end, prefix |-> Top.prefix]
  BY <1>1 DEF FrameShape
<1>3. phrase = SpanPhrase(Top.start, Top.end)
  BY <1>1, <1>2 DEF MemoCoherent
<1>4. /\ seq' = seq
      /\ stack' = IF Found(phrase)
                  THEN Append([stack EXCEPT ![Len(stack)] = caller], callee)
                  ELSE [stack EXCEPT ![Len(stack)] = caller]
  BY DEF TryEnd
<1>5. \A pre, st : ChainTo(pre, st)' = ChainTo(pre, st)
  BY <1>4 DEF ChainTo, SoundInterval
<1>6. caller = [start |-> Top.start, end |-> Top.end + 1, prefix |-> Top.prefix]
  BY <1>2
<1>7. \A i \in 1..(Len(stack) - 1) : ChainTo(stack[i].prefix, stack[i].start)
  BY <1>1 DEF PrefixChains
<1>8. CASE Found(phrase)
  <2>1. Top.start < Top.end
    BY <1>1, <1>2, <1>3, <1>8, EmptySpanHasNoPhrase DEF Found, SpanPhrase, n
  <2>2. iv \in Step /\ SoundInterval(iv)
    BY <1>1, <1>2, <1>3, <1>8 DEF Step, Answers, Found, SoundInterval, SpanPhrase
  <2>3. ChainTo(callee.prefix, callee.start)
    BY <1>1, <1>2, <2>1, <2>2, ExtendChain
  <2>4. stack' = Append([stack EXCEPT ![Len(stack)] = caller], callee)
    BY <1>4, <1>8
  <2>5. /\ DOMAIN stack' = 1..(Len(stack) + 1)
        /\ \A i \in 1..(Len(stack) - 1) : stack'[i] = stack[i]
        /\ stack'[Len(stack)] = caller
        /\ stack'[Len(stack) + 1] = callee
    BY <1>1, <2>4
  <2>6. \A i \in DOMAIN stack' : ChainTo(stack'[i].prefix, stack'[i].start)
    <3>. SUFFICES ASSUME NEW i \in DOMAIN stack'
                  PROVE  ChainTo(stack'[i].prefix, stack'[i].start)
      OBVIOUS
    <3>1. CASE i \in 1..(Len(stack) - 1)
      BY <1>7, <2>5, <3>1
    <3>2. CASE i = Len(stack)
      BY <1>1, <1>6, <2>5, <3>2
    <3>3. CASE i = Len(stack) + 1
      BY <2>3, <2>5, <3>3
    <3>. QED
      BY <1>1, <2>5, <3>1, <3>2, <3>3
  <2>. QED
    BY <1>5, <2>6 DEF PrefixChains
<1>9. CASE ~Found(phrase)
  <2>1. /\ DOMAIN stack' = 1..Len(stack)
        /\ \A i \in 1..(Len(stack) - 1) : stack'[i] = stack[i]
        /\ stack'[Len(stack)] = caller
    BY <1>1, <1>4, <1>9
  <2>2. \A i \in DOMAIN stack' : ChainTo(stack'[i].prefix, stack'[i].start)
    <3>. SUFFICES ASSUME NEW i \in DOMAIN stack'
                  PROVE  ChainTo(stack'[i].prefix, stack'[i].start)
      OBVIOUS
    <3>1. CASE i \in 1..(Len(stack) - 1)
      BY <1>7, <2>1, <3>1
    <3>2. CASE i = Len(stack)
      BY <1>1, <1>6, <2>1, <3>2
    <3>. QED
      BY <1>1, <2>1, <3>1, <3>2
  <2>. QED
    BY <1>5, <2>2 DEF PrefixChains
<1>. QED
  BY <1>8, <1>9

(* A chain to n > 0 is a cover of [0, n) whose intervals are sound.        *)
LEMMA ChainIsSoundCover ==
    ASSUME NEW pre, n > 0, ChainTo(pre, n)
    PROVE  /\ IsCover(pre, n)
           /\ \A r \in DOMAIN pre :
                 /\ pre[r].phrase = FindBestPhrase(pre[r].start, pre[r].end, seq)
                 /\ pre[r].phrase # NoPhrase
  BY DEF ChainTo, IsCover, SoundInterval

(* The state convert_next starts in satisfies SInv.                        *)
LEMMA InitSInv == Init => SInv
  BY InitIInv DEF Init, SInv, SearchNonEmpty, PrefixChains, PathsSound

(* find_all_paths' start == target case appends a cover to the result.    *)
LEMMA ReachTargetSInv ==
    ASSUME SInv, ReachTarget
    PROVE  SInv'
<1>. USE DEF SInv
<1>1. IInv'
  BY PopIInv DEF ReachTarget
<1>2. PrefixChains'
  BY PopChains DEF ReachTarget
<1>3. n > 0 /\ Top.start = n /\ ChainTo(Top.prefix, Top.start)
  <2>1. Len(stack) \in DOMAIN stack
    BY DEF ReachTarget, IInv
  <2>. QED
    BY <2>1 DEF ReachTarget, SearchNonEmpty, PrefixChains, Top
<1>4. /\ IsCover(Top.prefix, n)
      /\ \A r \in DOMAIN Top.prefix :
            /\ Top.prefix[r].phrase = FindBestPhrase(Top.prefix[r].start, Top.prefix[r].end, seq)
            /\ Top.prefix[r].phrase # NoPhrase
  BY <1>3, ChainIsSoundCover
<1>5. /\ paths' = Append(paths, Top.prefix)
      /\ seq' = seq
      /\ Top.prefix \in Seq(Step)
  <2>1. Len(stack) \in DOMAIN stack
    BY DEF ReachTarget, IInv
  <2>2. stack[Len(stack)] \in FrameShape
    BY <2>1 DEF IInv
  <2>3. Top.prefix \in Seq(Step)
    BY <2>2 DEF Top, FrameShape
  <2>. QED
    BY <2>3 DEF ReachTarget
<1>8. paths' \in Seq(Seq(Step))'
  BY <1>5 DEF Step, Answers, SpanPhrase, n
<1>6. PathsSound'
  <2>1. /\ DOMAIN paths' = 1..(Len(paths) + 1)
        /\ \A i \in 1..Len(paths) : paths'[i] = paths[i]
        /\ paths'[Len(paths) + 1] = Top.prefix
    BY <1>5
  <2>2. \A i \in DOMAIN paths' :
           /\ IsCover(paths'[i], n)
           /\ \A r \in DOMAIN paths'[i] :
                 /\ paths'[i][r].phrase = FindBestPhrase(paths'[i][r].start, paths'[i][r].end, seq)
                 /\ paths'[i][r].phrase # NoPhrase
    BY <1>4, <2>1 DEF PathsSound
  <2>. QED
    BY <1>5, <2>2 DEF PathsSound, n
<1>7. SearchNonEmpty'
  BY <1>3, <1>5 DEF SearchNonEmpty, n
<1>. QED
  BY <1>1, <1>2, <1>6, <1>7, <1>8

(* A step that leaves the input, the stack, the memo and the paths alone  *)
(* keeps SInv.                                                              *)
LEMMA FrozenSInv ==
    ASSUME SInv, UNCHANGED <<seq, stack, graph, paths>>
    PROVE  SInv'
<1>1. IInv'
  BY FrozenIInv DEF SInv
<1>. QED
  BY <1>1 DEF SInv, SearchNonEmpty, PrefixChains, PathsSound, ChainTo, SoundInterval,
     Step, Answers, SpanPhrase, n

(* Every step keeps SInv.                                                   *)
LEMMA NextSInv == SInv /\ [Next]_vars => SInv'
<1>. SUFFICES ASSUME SInv, [Next]_vars PROVE SInv'
  OBVIOUS
<1>. USE DEF SInv
<1>1. CASE FindAllPaths
  <2>1. IInv'
    BY <1>1, NextIInv DEF Next
  <2>2. n > 0 /\ seq' = seq /\ paths' = paths
    BY <1>1 DEF FindAllPaths, IInv, n
  <2>3. stack' = << [start |-> 0, end |-> 0, prefix |-> << >>] >>
    BY <1>1 DEF FindAllPaths
  <2>4. PrefixChains'
    BY <2>2, <2>3 DEF PrefixChains, ChainTo, SoundInterval
  <2>. QED
    BY <2>1, <2>2, <2>4 DEF SearchNonEmpty, PathsSound, Step, Answers, SpanPhrase, n
<1>2. CASE ReachTarget
  BY <1>2, ReachTargetSInv
<1>3. CASE TryEnd \/ EndLoop
  <2>1. IInv'
    BY <1>3, TryEndIInv, PopIInv DEF EndLoop
  <2>2. PrefixChains'
    BY <1>3, TryEndChains, PopChains DEF EndLoop
  <2>3. n > 0 /\ seq' = seq /\ paths' = paths
    BY <1>3 DEF TryEnd, EndLoop, SearchNonEmpty
  <2>. QED
    BY <2>1, <2>2, <2>3 DEF SearchNonEmpty, PathsSound, Step, Answers, SpanPhrase, n
<1>4. CASE \/ ConvertNextEmpty \/ TrimPaths \/ TrimCandidate \/ TrimScan
           \/ TrimKeep \/ ReturnAlternative \/ NoPathPanic \/ UNCHANGED vars
  BY <1>4, FrozenSInv DEF ConvertNextEmpty, TrimPaths, TrimCandidate, TrimScan,
     TrimKeep, ReturnAlternative, NoPathPanic, vars
<1>. QED
  BY <1>1, <1>2, <1>3, <1>4 DEF Next

(* Every path find_all_paths returns is a cover of the input made of     *)
(* spans with find_best_phrase's answer, which is never None, for every  *)
(* dictionary meeting the contract: the Graph memo shared by all branches *)
(* of the search only ever holds that answer.                              *)
THEOREM PathsSoundHolds == Spec => []PathsSound
<1>1. Init => SInv
  BY InitSInv
<1>2. SInv /\ [Next]_vars => SInv'
  BY NextSInv
<1>3. SInv => PathsSound
  BY DEF SInv
<1>. QED
  BY <1>1, <1>2, <1>3, PTL DEF Spec
-----------------------------------------------------------------------------
(* The inductive invariant behind TrimDropsOnlyContained: while trim_paths *)
(* scans trimmed_paths for a candidate, every path already passed over and *)
(* not pushed to keeper is contained in the candidate, and drop_candidate  *)
(* is set only once keeper holds a path containing the candidate.         *)

Kept(s) == {s[j] : j \in DOMAIN s}

ScanSound ==
    /\ ci \in DOMAIN paths
    /\ ti <= Len(trimmed) + 1
    /\ \A t \in 1..(ti - 1) :
          trimmed[t] \notin Kept(keeper) => PathContains(paths[ci], trimmed[t])
    /\ drop => \E j \in DOMAIN keeper : PathContains(keeper[j], paths[ci])

TrimState ==
    /\ trimmed \in Seq(Seq(Step))
    /\ keeper \in Seq(Seq(Step))
    /\ ci \in Nat \ {0}
    /\ ti \in Nat \ {0}
    /\ at = "scan" => ScanSound

TInv == SInv /\ TrimState

(* A step that leaves the input alone keeps the set of steps an interval  *)
(* may be.                                                                  *)
LEMMA StepFrozen ==
    ASSUME seq' = seq
    PROVE  Step' = Step
  BY DEF Step, Answers, SpanPhrase, n

(* A step outside the inner loop that leaves trim_paths' state alone keeps *)
(* TrimState.                                                               *)
LEMMA OutsideScanState ==
    ASSUME TrimState, UNCHANGED <<seq, trimmed, keeper, ci, ti>>, at' # "scan"
    PROVE  TrimState'
  BY StepFrozen DEF TrimState

(* trim_paths taking a candidate starts the scan with nothing passed over. *)
LEMMA TrimCandidateState ==
    ASSUME TrimState, TrimCandidate
    PROVE  TrimState'
<1>1. Step' = Step
  BY StepFrozen DEF TrimCandidate
<1>2. ci' \in DOMAIN paths' /\ ti' = 1 /\ keeper' = << >> /\ drop' = FALSE
  BY DEF TrimCandidate, TrimState
<1>3. ti' <= Len(trimmed') + 1
  BY DEF TrimCandidate, TrimState
<1>. QED
  BY <1>1, <1>2, <1>3 DEF TrimCandidate, TrimState, ScanSound

(* Vec::push keeps what the vector held, at the same places, and adds x. *)
LEMMA AppendKept ==
    ASSUME NEW S, NEW s \in Seq(S), NEW x \in S
    PROVE  /\ Append(s, x) \in Seq(S)
           /\ \A j \in DOMAIN s : j \in DOMAIN Append(s, x) /\ Append(s, x)[j] = s[j]
           /\ Len(s) + 1 \in DOMAIN Append(s, x) /\ Append(s, x)[Len(s) + 1] = x
           /\ Kept(s) \subseteq Kept(Append(s, x))
           /\ x \in Kept(Append(s, x))
<1>1. /\ Append(s, x) \in Seq(S)
      /\ \A j \in DOMAIN s : j \in DOMAIN Append(s, x) /\ Append(s, x)[j] = s[j]
      /\ Len(s) + 1 \in DOMAIN Append(s, x) /\ Append(s, x)[Len(s) + 1] = x
  OBVIOUS
<1>. QED
  BY <1>1 DEF Kept

(* One iteration of the inner loop keeps TrimState: the path p scanned is *)
(* left out of keeper only when the candidate contains it, and once p      *)
(* contains the candidate it is pushed, so keeper holds a witness for     *)
(* drop_candidate.                                                          *)
LEMMA TrimScanState ==
    ASSUME TrimState, paths \in Seq(Seq(Step)), TrimScan
    PROVE  TrimState'
<1>. DEFINE p == trimmed[ti]
            candidate == paths[ci]
<1>1. /\ at = "scan" /\ at' = "scan"
      /\ ScanSound
      /\ ti \in 1..Len(trimmed)
      /\ p \in Seq(Step) /\ candidate \in Seq(Step)
      /\ UNCHANGED <<seq, paths, trimmed, ci>>
      /\ ti' = ti + 1
  BY DEF TrimScan, TrimState, ScanSound
<1>2. Step' = Step
  BY <1>1, StepFrozen
<1>3. /\ drop' = (drop \/ PathContains(p, candidate))
      /\ keeper' = IF drop' \/ ~PathContains(candidate, p) THEN Append(keeper, p) ELSE keeper
  BY DEF TrimScan
<1>4. /\ keeper' \in Seq(Seq(Step))
      /\ Kept(keeper) \subseteq Kept(keeper')
      /\ \A j \in DOMAIN keeper : j \in DOMAIN keeper' /\ keeper'[j] = keeper[j]
  <2>1. keeper \in Seq(Seq(Step))
    BY DEF TrimState
  <2>2. CASE keeper' = Append(keeper, p)
    BY <1>1, <2>1, <2>2, AppendKept
  <2>3. CASE keeper' = keeper
    BY <2>1, <2>3
  <2>. QED
    BY <1>3, <2>2, <2>3
<1>5. p \notin Kept(keeper') => PathContains(candidate, p)
  <2>1. ASSUME drop' \/ ~PathContains(candidate, p) PROVE p \in Kept(keeper')
    <3>1. keeper' = Append(keeper, p)
      BY <1>3, <2>1
    <3>. QED
      BY <1>1, <3>1, AppendKept DEF TrimState
  <2>. QED
    BY <2>1
<1>6. \A t \in 1..(ti' - 1) :
         trimmed'[t] \notin Kept(keeper') => PathContains(paths'[ci'], trimmed'[t])
  <2>. SUFFICES ASSUME NEW t \in 1..(ti' - 1), trimmed[t] \notin Kept(keeper')
                PROVE  PathContains(candidate, trimmed[t])
    BY <1>1
  <2>1. CASE t < ti
    <3>1. trimmed[t] \notin Kept(keeper)
      BY <1>4
    <3>. QED
      BY <1>1, <2>1, <3>1 DEF ScanSound
  <2>2. CASE t = ti
    BY <1>5, <2>2
  <2>. QED
    BY <1>1, <2>1, <2>2
<1>7. drop' => \E j \in DOMAIN keeper' : PathContains(keeper'[j], paths'[ci'])
  <2>1. CASE drop
    BY <1>1, <1>4, <2>1 DEF ScanSound
  <2>2. CASE PathContains(p, candidate)
    <3>1. keeper' = Append(keeper, p)
      BY <1>3, <2>2
    <3>2. Len(keeper) + 1 \in DOMAIN keeper' /\ keeper'[Len(keeper) + 1] = p
      BY <3>1, <1>1 DEF TrimState
    <3>. QED
      BY <1>1, <2>2, <3>2
  <2>. QED
    BY <1>3, <2>1, <2>2
<1>8. ti' <= Len(trimmed') + 1 /\ ci' \in DOMAIN paths'
  BY <1>1 DEF ScanSound
<1>. QED
  BY <1>1, <1>2, <1>4, <1>6, <1>7, <1>8 DEF TrimState, ScanSound

(* The end of a candidate's pass keeps TrimState: trimmed_paths becomes    *)
(* keeper, with the candidate pushed unless it was dropped.               *)
LEMMA TrimKeepState ==
    ASSUME TrimState, paths \in Seq(Seq(Step)), TrimKeep
    PROVE  TrimState'
<1>1. /\ ci \in DOMAIN paths /\ keeper \in Seq(Seq(Step))
      /\ paths[ci] \in Seq(Step)
  BY DEF TrimKeep, TrimState, ScanSound
<1>2. trimmed' \in Seq(Seq(Step))
  BY <1>1, AppendKept DEF TrimKeep
<1>3. Step' = Step
  BY StepFrozen DEF TrimKeep
<1>. QED
  BY <1>1, <1>2, <1>3 DEF TrimKeep, TrimState

(* find_all_paths' return starts trim_paths on an empty list.             *)
LEMMA TrimPathsState ==
    ASSUME TrimState, TrimPaths
    PROVE  TrimState'
<1>1. Step' = Step
  BY StepFrozen DEF TrimPaths
<1>. QED
  BY <1>1 DEF TrimPaths, TrimState

LEMMA InitTInv == Init => TInv
<1>. SUFFICES ASSUME Init PROVE TInv
  OBVIOUS
<1>1. SInv
  BY InitSInv
<1>. QED
  BY <1>1 DEF Init, TInv, TrimState

(* Every step keeps TInv.                                                   *)
LEMMA NextTInv == TInv /\ [Next]_vars => TInv'
<1>. SUFFICES ASSUME TInv, [Next]_vars PROVE TInv'
  OBVIOUS
<1>1. SInv'
  BY NextSInv DEF TInv
<1>2. paths \in Seq(Seq(Step)) /\ TrimState
  BY DEF TInv, SInv
<1>3. TrimState'
  <2>1. CASE TrimCandidate
    BY <1>2, <2>1, TrimCandidateState
  <2>2. CASE TrimScan
    BY <1>2, <2>2, TrimScanState
  <2>3. CASE TrimKeep
    BY <1>2, <2>3, TrimKeepState
  <2>4. CASE TrimPaths
    BY <1>2, <2>4, TrimPathsState
  <2>5. CASE \/ ConvertNextEmpty \/ FindAllPaths \/ ReachTarget \/ TryEnd \/ EndLoop
             \/ ReturnAlternative \/ NoPathPanic
    BY <1>2, <2>5, OutsideScanState
    DEF ConvertNextEmpty, FindAllPaths, ReachTarget, TryEnd, EndLoop, ReturnAlternative,
        NoPathPanic
  <2>6. CASE UNCHANGED vars
    <3>1. Step' = Step
      BY <2>6, StepFrozen DEF vars
    <3>. QED
      BY <1>2, <2>6, <3>1 DEF vars, TrimState, ScanSound, Kept
  <2>. QED
    BY <2>1, <2>2, <2>3, <2>4, <2>5, <2>6 DEF Next
<1>. QED
  BY <1>1, <1>3 DEF TInv

(* The only step from the inner loop back to the outer one is the end of  *)
(* a candidate's pass.                                                      *)
LEMMA ScanExitIsTrimKeep ==
    ASSUME [Next]_vars, at = "scan", at' = "trim"
    PROVE  TrimKeep
  BY DEF Next, vars, ConvertNextEmpty, FindAllPaths, ReachTarget, TryEnd, EndLoop,
     TrimPaths, TrimCandidate, TrimScan, ReturnAlternative, NoPathPanic

(* TInv makes every step satisfy TrimPassDropsOnlyContained: the pass has *)
(* scanned all of trimmed_paths, and trimmed_paths' holds all of keeper.  *)
LEMMA TInvTrimPass ==
    ASSUME TInv, [Next]_vars
    PROVE  TrimPassDropsOnlyContained
<1>. SUFFICES ASSUME at = "scan", at' = "trim"
              PROVE  LET candidate == paths[ci]
                         kept == {trimmed'[j] : j \in DOMAIN trimmed'}
                     IN  /\ \A i \in DOMAIN trimmed :
                                trimmed[i] \notin kept => PathContains(candidate, trimmed[i])
                         /\ candidate \notin kept =>
                                \E j \in DOMAIN trimmed' : PathContains(trimmed'[j], candidate)
  BY DEF TrimPassDropsOnlyContained
<1>. DEFINE candidate == paths[ci]
<1>1. TrimKeep
  BY ScanExitIsTrimKeep
<1>2. /\ ScanSound
      /\ keeper \in Seq(Seq(Step))
      /\ candidate \in Seq(Step)
      /\ ti > Len(trimmed) /\ ti \in Nat
      /\ DOMAIN trimmed = 1..Len(trimmed)
  BY <1>1 DEF TInv, SInv, TrimState, ScanSound, TrimKeep
<1>3. /\ Kept(keeper) \subseteq Kept(trimmed')
      /\ \A j \in DOMAIN keeper : j \in DOMAIN trimmed' /\ trimmed'[j] = keeper[j]
      /\ ~drop => candidate \in Kept(trimmed')
  <2>1. CASE drop
    BY <1>1, <2>1 DEF TrimKeep
  <2>2. CASE ~drop
    BY <1>1, <1>2, <2>2, AppendKept DEF TrimKeep
  <2>. QED
    BY <2>1, <2>2
<1>4. \A i \in DOMAIN trimmed :
         trimmed[i] \notin Kept(trimmed') => PathContains(candidate, trimmed[i])
  BY <1>2, <1>3 DEF ScanSound
<1>5. candidate \notin Kept(trimmed') =>
         \E j \in DOMAIN trimmed' : PathContains(trimmed'[j], candidate)
  BY <1>2, <1>3 DEF ScanSound
<1>. QED
  BY <1>4, <1>5 DEF Kept

(* Each pass of trim_paths' outer loop removes only paths the candidate   *)
(* contains and drops the candidate only for a path that stays and        *)
(* contains it, whatever order find_all_paths returned the paths in and   *)
(* for every dictionary meeting the contract.                               *)
THEOREM TrimDropsOnlyContainedHolds == Spec => TrimDropsOnlyContained
<1>1. Init => TInv
  BY InitTInv
<1>2. TInv /\ [Next]_vars => TInv'
  BY NextTInv
<1>3. TInv /\ [Next]_vars => [TrimPassDropsOnlyContained]_vars
  BY TInvTrimPass
<1>. QED
  BY <1>1, <1>2, <1>3, PTL DEF Spec, TrimDropsOnlyContained
=============================================================================
