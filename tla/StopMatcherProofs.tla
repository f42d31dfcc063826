-------------------------- MODULE StopMatcherProofs --------------------------
(***************************************************************************)
(* Proofs about StopMatcher: the stop-sequence check of                    *)
(* check_stopping_criteria and matches_stop_sequence, for every byte set,  *)
(* stop-sequence list, token bounds and chunk length.                      *)
(***************************************************************************)
EXTENDS StopMatcher, SequenceTheorems, WellFoundedInduction, TLAPS

\* No stop sequence of the request is empty.  The stop_empty run shows what
\* an empty one does: matches_stop_sequence panics, on the slice
\* output[next_off..] (batcher.rs line 550) when the new text is empty and
\* on windows(0) (line 551) otherwise.
NoEmptyStop == \A i \in 1..Len(StopSeqs) : Len(StopSeqs[i]) >= 1

\* The type invariant, with the fact that keeps gen within max_new_tokens:
\* a running entry has generated fewer than max_new_tokens tokens.
TInv ==
  /\ TypeOK
  /\ reason = "NotFinished" => gen < MaxNew

-----------------------------------------------------------------------------
(* Lemmas on the data                                                      *)

\* A nonempty set of naturals has a least element, so the CHOOSE of
\* MatchOutcome picks the first matching stop sequence.
LEMMA LeastExists ==
  ASSUME NEW T, T \subseteq Nat, T # {}
  PROVE  \E x \in T : \A y \in T : x <= y
<1>1. \E x \in T : \A y \in T : ~ (<<y, x>> \in OpToRel(<, Nat))
  BY NatLessThanWellFounded, WFMin
<1>2. PICK x \in T : \A y \in T : ~ (<<y, x>> \in OpToRel(<, Nat))
  BY <1>1
<1>3. ASSUME NEW y \in T PROVE x <= y
  <2>1. y < x => <<y, x>> \in OpToRel(<, Nat)
    BY DEF OpToRel
  <2>2. ~(y < x)
    BY <1>2, <2>1, Zenon
  <2>. QED
    BY <2>2
<1>. QED
  BY <1>3

\* A text the decoder returns is a byte sequence of at most ChunkMax bytes.
LEMMA ChunkSeq ==
  ASSUME NEW chunk \in Chunks
  PROVE  chunk \in Seq(Bytes) /\ Len(chunk) \in 0..ChunkMax
<1>1. PICK n \in 0..ChunkMax : chunk \in [1..n -> Bytes]
  BY DEF Chunks
<1>2. chunk \in Seq(Bytes)
  BY <1>1, SeqDef, StopAssumption
<1>3. DOMAIN chunk = 1..Len(chunk) /\ Len(chunk) \in Nat
  BY <1>2, LenProperties
<1>4. Len(chunk) = n
  BY <1>1, <1>3
<1>. QED
  BY <1>1, <1>2, <1>4

\* check_stopping_criteria leaves an entry running only below
\* max_new_tokens.
LEMMA CheckStopRunning ==
  ASSUME NEW g \in Nat, NEW eos \in BOOLEAN, NEW o, NEW tl,
         CheckStop(g, eos, o, tl) = "NotFinished"
  PROVE  g < MaxNew
BY StopAssumption DEF CheckStop

LEMMA CheckStopReasons ==
  ASSUME NEW g, NEW eos, NEW o, NEW tl
  PROVE  CheckStop(g, eos, o, tl) \in Reasons
BY DEF CheckStop, Reasons

-----------------------------------------------------------------------------
(* Lemmas on matches_stop_sequence                                         *)

\* The window of matches_stop_sequence starts at a byte of the output:
\* next_off is at least 1 since the new text is part of the output.
LEMMA WindowStartNat ==
  ASSUME NEW o \in Seq(Bytes), NEW tl \in 0..Len(o), NEW len \in Nat
  PROVE  WindowStart(o, tl, len) \in Nat
BY LenProperties DEF WindowStart

\* A stop sequence found in the window ends somewhere in the output.
LEMMA WindowEnds ==
  ASSUME NEW o \in Seq(Bytes), NEW tl \in 0..Len(o), NEW ss \in Seq(Bytes),
         Len(ss) >= 1, InWindow(o, tl, ss)
  PROVE  \E e \in 1..Len(o) : EndsAt(o, ss, e)
<1>1. Len(o) \in Nat /\ Len(ss) \in Nat
  BY LenProperties
<1>2. WindowStart(o, tl, Len(ss)) \in Nat
  BY <1>1, WindowStartNat
<1>3. PICK p \in WindowStart(o, tl, Len(ss))..(Len(o) - Len(ss)) :
        SubSeq(o, p + 1, p + Len(ss)) = ss
  BY DEF InWindow
<1>4. p + Len(ss) \in 1..Len(o) /\ p + Len(ss) \in Len(ss)..Len(o)
  BY <1>1, <1>2, <1>3
<1>5. SubSeq(o, (p + Len(ss)) - Len(ss) + 1, p + Len(ss)) = ss
  BY <1>1, <1>2, <1>3
<1>. QED
  BY <1>4, <1>5 DEF EndsAt

\* The look-back of len bytes: a stop sequence that ends in the text the
\* token added lies in the window, even when it starts before that text.
LEMMA WindowCovers ==
  ASSUME NEW prev \in Seq(Bytes), NEW chunk \in Seq(Bytes), NEW ss \in Seq(Bytes),
         NEW e \in (Len(prev) + 1)..(Len(prev) + Len(chunk)),
         EndsAt(prev \o chunk, ss, e)
  PROVE  InWindow(prev \o chunk, Len(chunk), ss)
<1>. DEFINE o == prev \o chunk
            p == e - Len(ss)
<1>1. Len(prev) \in Nat /\ Len(chunk) \in Nat /\ Len(ss) \in Nat
  BY LenProperties
<1>2. Len(o) = Len(prev) + Len(chunk)
  BY ConcatProperties
<1>3. Len(ss) >= 1 /\ e \in Len(ss)..Len(o) /\ SubSeq(o, e - Len(ss) + 1, e) = ss
  BY DEF EndsAt
<1>4. p \in WindowStart(o, Len(chunk), Len(ss))..(Len(o) - Len(ss))
  BY <1>1, <1>2, <1>3 DEF WindowStart
<1>5. SubSeq(o, p + 1, p + Len(ss)) = ss
  BY <1>1, <1>3
<1>. QED
  BY <1>4, <1>5 DEF InWindow

\* A stop sequence ending within the earlier output ended there already.
LEMMA EndsAtPrefix ==
  ASSUME NEW prev \in Seq(Bytes), NEW chunk \in Seq(Bytes), NEW ss \in Seq(Bytes),
         NEW e \in 1..Len(prev), EndsAt(prev \o chunk, ss, e)
  PROVE  EndsAt(prev, ss, e)
<1>1. Len(prev) \in Nat /\ Len(ss) \in Nat
  BY LenProperties
<1>2. Len(ss) >= 1 /\ e \in Len(ss)..Len(prev \o chunk)
      /\ SubSeq(prev \o chunk, e - Len(ss) + 1, e) = ss
  BY DEF EndsAt
<1>3. e - Len(ss) + 1 \in 1..Len(prev)
  BY <1>1, <1>2
<1>4. SubSeq(prev \o chunk, e - Len(ss) + 1, e) = SubSeq(prev, e - Len(ss) + 1, e)
  BY <1>3, SubSeqOfConcat1
<1>. QED
  BY <1>1, <1>2, <1>4 DEF EndsAt

\* What matches_stop_sequence decides: a match is a stop sequence ending in
\* the output; no match means no stop sequence lies in its window; without
\* empty stop sequences it never reaches the panicking branch.
LEMMA MatchFacts ==
  ASSUME NEW o \in Seq(Bytes), NEW tl \in 0..Len(o)
  PROVE  /\ MatchOutcome(o, tl) \in {"none", "panic", "match"}
         /\ MatchOutcome(o, tl) = "match" =>
               \E ss \in StopSet, e \in 1..Len(o) : EndsAt(o, ss, e)
         /\ MatchOutcome(o, tl) = "none" =>
               \A i \in 1..Len(StopSeqs) : ~InWindow(o, tl, StopSeqs[i])
         /\ NoEmptyStop => MatchOutcome(o, tl) # "panic"
<1>. DEFINE hits == {i \in 1..Len(StopSeqs) :
                       Len(StopSeqs[i]) = 0 \/ InWindow(o, tl, StopSeqs[i])}
            first == CHOOSE i \in hits : \A j \in hits : i <= j
<1>1. MatchOutcome(o, tl) =
        IF hits = {} THEN "none"
        ELSE IF Len(StopSeqs[first]) = 0 THEN "panic" ELSE "match"
  BY DEF MatchOutcome
<1>2. hits # {} => first \in hits
  <2>1. hits \subseteq Nat
    OBVIOUS
  <2>2. hits # {} => \E x \in hits : \A y \in hits : x <= y
    BY <2>1, LeastExists
  <2>. QED
    BY <2>2
<1>3. \A i \in 1..Len(StopSeqs) : StopSeqs[i] \in Seq(Bytes) /\ Len(StopSeqs[i]) \in Nat
  BY StopAssumption, ElementOfSeq, LenProperties
<1>4. MatchOutcome(o, tl) = "match" =>
        \E ss \in StopSet, e \in 1..Len(o) : EndsAt(o, ss, e)
  <2>1. SUFFICES ASSUME MatchOutcome(o, tl) = "match"
                 PROVE  \E ss \in StopSet, e \in 1..Len(o) : EndsAt(o, ss, e)
    OBVIOUS
  <2>2. first \in hits /\ Len(StopSeqs[first]) # 0
    BY <1>1, <1>2, <2>1
  <2>3. first \in 1..Len(StopSeqs) /\ InWindow(o, tl, StopSeqs[first])
    BY <2>2
  <2>4. StopSeqs[first] \in Seq(Bytes) /\ Len(StopSeqs[first]) >= 1
    BY <1>3, <2>2, <2>3
  <2>5. \E e \in 1..Len(o) : EndsAt(o, StopSeqs[first], e)
    BY <2>3, <2>4, WindowEnds
  <2>. QED
    BY <2>3, <2>5 DEF StopSet
<1>5. NoEmptyStop => MatchOutcome(o, tl) # "panic"
  <2>1. SUFFICES ASSUME NoEmptyStop, MatchOutcome(o, tl) = "panic" PROVE FALSE
    OBVIOUS
  <2>2. first \in hits /\ Len(StopSeqs[first]) = 0
    BY <1>1, <1>2, <2>1
  <2>3. first \in 1..Len(StopSeqs)
    BY <2>2
  <2>. QED
    BY <1>3, <2>1, <2>2, <2>3 DEF NoEmptyStop
<1>. QED
  BY <1>1, <1>4, <1>5

\* The branches of check_stopping_criteria that the stop sequences reach.
LEMMA CheckStopMatch ==
  ASSUME NEW g, NEW eos, NEW o, NEW tl
  PROVE  /\ CheckStop(g, eos, o, tl) = "StopSequence" => MatchOutcome(o, tl) = "match"
         /\ CheckStop(g, eos, o, tl) = "NotFinished" =>
               \/ g < MinNew
               \/ ~(g < MinNew) /\ ~eos /\ ~(g >= MaxNew) /\ MatchOutcome(o, tl) # "match"
BY DEF CheckStop

-----------------------------------------------------------------------------
(* Type correctness                                                        *)

LEMMA InitTInv == Init => TInv
<1>. SUFFICES ASSUME Init PROVE TInv
  OBVIOUS
<1>1. out \in Seq(Bytes) /\ Len(out) = 0
  BY EmptySeq DEF Init
<1>2. MaxNew \in Nat \ {0} /\ ChunkMax \in Nat
  BY StopAssumption
<1>3. gen \in 0..MaxNew /\ pre \in 0..Len(out) /\ lastTl \in 0..ChunkMax
  BY <1>1, <1>2 DEF Init
<1>4. reason \in Reasons /\ crashed \in BOOLEAN
  BY DEF Init, Reasons
<1>5. gen < MaxNew
  BY <1>2 DEF Init
<1>. QED
  BY <1>1, <1>3, <1>4, <1>5 DEF TInv, TypeOK

LEMMA TokenTInv == TInv /\ Token => TInv'
<1>. SUFFICES ASSUME TInv, Token PROVE TInv'
  OBVIOUS
<1>1. PICK chunk \in Chunks, eos \in BOOLEAN :
        LET g == gen + 1
            o == out \o chunk
            reached == g >= MinNew /\ ~eos /\ g < MaxNew
        IN /\ out' = o
           /\ gen' = g
           /\ lastTl' = Len(chunk)
           /\ pre' = IF g < MinNew THEN Len(o) ELSE pre
           /\ IF reached /\ MatchOutcome(o, Len(chunk)) = "panic"
              THEN crashed' = TRUE /\ UNCHANGED reason
              ELSE crashed' = FALSE /\ reason' = CheckStop(g, eos, o, Len(chunk))
  BY DEF Token
<1>. DEFINE g == gen + 1
            o == out \o chunk
<1>2. chunk \in Seq(Bytes) /\ Len(chunk) \in 0..ChunkMax
  BY ChunkSeq
<1>3. gen \in 0..MaxNew /\ gen < MaxNew /\ out \in Seq(Bytes) /\ pre \in 0..Len(out)
  BY DEF TInv, TypeOK, Token
<1>4. o \in Seq(Bytes) /\ Len(o) = Len(out) + Len(chunk)
  BY <1>2, <1>3, ConcatProperties
<1>5. out' \in Seq(Bytes) /\ gen' \in 0..MaxNew /\ lastTl' \in 0..ChunkMax
  BY <1>1, <1>2, <1>3, <1>4, StopAssumption
<1>6. pre' \in 0..Len(out')
  BY <1>1, <1>3, <1>4, LenProperties
<1>7. CASE g >= MinNew /\ ~eos /\ g < MaxNew /\ MatchOutcome(o, Len(chunk)) = "panic"
  BY <1>1, <1>5, <1>6, <1>7 DEF TInv, TypeOK
<1>8. CASE ~(g >= MinNew /\ ~eos /\ g < MaxNew /\ MatchOutcome(o, Len(chunk)) = "panic")
  <2>1. reason' = CheckStop(g, eos, o, Len(chunk)) /\ crashed' = FALSE
    BY <1>1, <1>8
  <2>2. reason' \in Reasons
    BY <2>1, CheckStopReasons
  <2>3. reason' = "NotFinished" => gen' < MaxNew
    BY <1>1, <1>3, <2>1, CheckStopRunning
  <2>. QED
    BY <1>5, <1>6, <2>1, <2>2, <2>3 DEF TInv, TypeOK
<1>. QED
  BY <1>7, <1>8

LEMMA DecodeErrorTInv == TInv /\ DecodeError => TInv'
<1>. SUFFICES ASSUME TInv, DecodeError PROVE TInv'
  OBVIOUS
<1>1. gen \in Nat /\ gen < MaxNew
  BY DEF TInv, TypeOK, DecodeError
<1>2. gen' \in 0..MaxNew
  BY <1>1, StopAssumption DEF DecodeError
<1>3. reason' \in Reasons /\ reason' # "NotFinished"
  BY DEF DecodeError, Reasons
<1>. QED
  BY <1>2, <1>3 DEF TInv, TypeOK, DecodeError

LEMMA NextTInv == TInv /\ [Next]_vars => TInv'
BY TokenTInv, DecodeErrorTInv DEF Next, vars, TInv, TypeOK

\* Every reachable state of the stop-sequence check is well typed: the
\* output is a byte sequence, generated_tokens never exceeds
\* max_new_tokens, and the decoded-before-min prefix lies within the output.
THEOREM StopTypeCorrect == Spec => []TypeOK
<1>1. Init => TInv
  BY InitTInv
<1>2. TInv /\ [Next]_vars => TInv'
  BY NextTInv
<1>3. TInv => TypeOK
  BY DEF TInv
<1>. QED
  BY <1>1, <1>2, <1>3, PTL DEF Spec

-----------------------------------------------------------------------------
(* Exact stop-sequence matching                                            *)

\* The inductive invariant: well typed, no panic, and StopSequenceExact.
\* The last is inductive once the look-back window covers every match that
\* ends in the text a token added (WindowCovers).
SInv == TInv /\ ~crashed /\ StopSequenceExact

LEMMA InitSInv == Init => SInv
<1>. SUFFICES ASSUME Init PROVE SInv
  OBVIOUS
<1>1. TInv
  BY InitTInv
<1>2. Len(out) = 0 /\ pre = 0 /\ reason = "NotFinished" /\ ~crashed
  BY EmptySeq DEF Init
<1>. QED
  BY <1>1, <1>2 DEF SInv, StopSequenceExact

LEMMA TokenSInv ==
  ASSUME NoEmptyStop, SInv, Token
  PROVE  SInv'
<1>1. PICK chunk \in Chunks, eos \in BOOLEAN :
        LET g == gen + 1
            o == out \o chunk
            reached == g >= MinNew /\ ~eos /\ g < MaxNew
        IN /\ out' = o
           /\ gen' = g
           /\ lastTl' = Len(chunk)
           /\ pre' = IF g < MinNew THEN Len(o) ELSE pre
           /\ IF reached /\ MatchOutcome(o, Len(chunk)) = "panic"
              THEN crashed' = TRUE /\ UNCHANGED reason
              ELSE crashed' = FALSE /\ reason' = CheckStop(g, eos, o, Len(chunk))
  BY DEF Token
<1>. DEFINE g == gen + 1
            o == out \o chunk
            tl == Len(chunk)
<1>2. TInv'
  BY TokenTInv DEF SInv
<1>3. chunk \in Seq(Bytes) /\ out \in Seq(Bytes) /\ gen \in Nat /\ pre \in 0..Len(out)
  BY ChunkSeq DEF SInv, TInv, TypeOK
<1>4. o \in Seq(Bytes) /\ Len(o) = Len(out) + tl /\ Len(out) \in Nat /\ tl \in Nat
  BY <1>3, ConcatProperties, LenProperties
<1>5. tl \in 0..Len(o)
  BY <1>4
<1>6. MatchOutcome(o, tl) # "panic"
  BY <1>4, <1>5, MatchFacts
<1>7. crashed' = FALSE /\ reason' = CheckStop(g, eos, o, tl) /\ out' = o
  BY <1>1, <1>6
<1>8. reason' = "StopSequence" =>
        \E ss \in StopSet, e \in 1..Len(out') : EndsAt(out', ss, e)
  BY <1>4, <1>5, <1>7, MatchFacts, CheckStopMatch
<1>9. reason' = "NotFinished" =>
        ~\E ss \in StopSet, e \in (pre' + 1)..Len(out') : EndsAt(out', ss, e)
  <2>1. SUFFICES ASSUME reason' = "NotFinished",
                        NEW ss \in StopSet, NEW e \in (pre' + 1)..Len(out'),
                        EndsAt(out', ss, e)
                 PROVE  FALSE
    OBVIOUS
  <2>2. CASE g < MinNew
    <3>1. pre' = Len(o)
      BY <1>1, <2>2
    <3>. QED
      BY <1>4, <1>7, <2>1, <3>1
  <2>3. CASE ~(g < MinNew)
    <3>1. MatchOutcome(o, tl) = "none"
      BY <1>4, <1>5, <1>6, <1>7, <2>1, <2>3, MatchFacts, CheckStopMatch
    <3>2. pre' = pre
      BY <1>1, <2>3
    <3>3. PICK i \in 1..Len(StopSeqs) : ss = StopSeqs[i]
      BY DEF StopSet
    <3>4. ss \in Seq(Bytes)
      BY <3>3, StopAssumption, ElementOfSeq
    <3>5. EndsAt(o, ss, e) /\ e \in (pre + 1)..Len(o)
      BY <1>7, <2>1, <3>2
    <3>6. CASE e <= Len(out)
      <4>1. EndsAt(out, ss, e)
        BY <1>3, <1>4, <3>4, <3>5, <3>6, EndsAtPrefix
      <4>2. reason = "NotFinished"
        BY DEF Token
      <4>3. e \in (pre + 1)..Len(out)
        BY <1>3, <1>4, <3>5, <3>6
      <4>. QED
        BY <4>1, <4>2, <4>3 DEF SInv, StopSequenceExact
    <3>7. CASE ~(e <= Len(out))
      <4>1. e \in (Len(out) + 1)..(Len(out) + tl)
        BY <1>4, <3>5, <3>7
      <4>2. InWindow(o, tl, ss)
        BY <1>3, <3>4, <3>5, <4>1, WindowCovers
      <4>. QED
        BY <1>4, <1>5, <3>1, <3>3, <4>2, MatchFacts
    <3>. QED
      BY <3>6, <3>7
  <2>. QED
    BY <2>2, <2>3
<1>. QED
  BY <1>2, <1>7, <1>8, <1>9 DEF SInv, StopSequenceExact

LEMMA DecodeErrorSInv == SInv /\ DecodeError => SInv'
<1>. SUFFICES ASSUME SInv, DecodeError PROVE SInv'
  OBVIOUS
<1>1. TInv'
  BY DecodeErrorTInv DEF SInv
<1>. QED
  BY <1>1 DEF SInv, DecodeError, StopSequenceExact

LEMMA NextSInv ==
  ASSUME NoEmptyStop, SInv, [Next]_vars
  PROVE  SInv'
<1>1. CASE Token
  BY <1>1, TokenSInv
<1>2. CASE DecodeError
  BY <1>2, DecodeErrorSInv
<1>3. CASE UNCHANGED vars
  BY <1>3 DEF SInv, TInv, TypeOK, StopSequenceExact, EndsAt, StopSet, vars
<1>. QED
  BY <1>1, <1>2, <1>3 DEF Next

\* For every request without an empty stop sequence, an entry ends with
\* StopSequence only if a stop sequence occurs in its output, and while it
\* runs no stop sequence ends in the output decoded from min_new_tokens on,
\* even one split across tokens: the look-back of matches_stop_sequence
\* (lines 548-550) is long enough, for every stop-sequence list and length.
THEOREM StopSequenceExactHolds == NoEmptyStop => (Spec => []StopSequenceExact)
<1>. SUFFICES ASSUME NoEmptyStop PROVE Spec => []StopSequenceExact
  OBVIOUS
<1>1. Init => SInv
  BY InitSInv
<1>2. SInv /\ [Next]_vars => SInv'
  BY NextSInv
<1>3. SInv => StopSequenceExact
  BY DEF SInv
<1>. QED
  BY <1>1, <1>2, <1>3, PTL DEF Spec

=============================================================================
