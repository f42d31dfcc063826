----------------------------- MODULE StopMatcher -----------------------------
(***************************************************************************)
(* Stop sequences of one entry, token by token (batcher.rs).               *)
(*                                                                         *)
(* For an entry with stop sequences, process_next_tokens feeds each token  *)
(* to the entry's incremental decoder, which returns the newly emissible   *)
(* text (possibly empty, spec 4.B), or fails.  check_stopping_criteria     *)
(* then tries, in order: min_new_tokens, eos, max_new_tokens, and          *)
(* matches_stop_sequence, which searches the accumulated output bytes in a *)
(* window ending at the new text.  Bytes are model values; the decoder is  *)
(* the environment (crate::decoder is not under src/).                     *)
(***************************************************************************)
EXTENDS Naturals, Sequences

CONSTANTS
  Bytes,      \* the byte values
  StopSeqs,   \* stop_seqs, in the order of the request's Vec
  MinNew,     \* min_new_tokens
  MaxNew,     \* max_new_tokens
  ChunkMax    \* the longest text one token decodes to

ASSUME StopAssumption ==
  /\ StopSeqs \in Seq(Seq(Bytes))
  /\ Len(StopSeqs) >= 1
  /\ MinNew \in Nat
  /\ MaxNew \in Nat \ {0}
  /\ MinNew <= MaxNew
  /\ ChunkMax \in Nat

VARIABLES
  out,      \* the decoder's accumulated output, as bytes
  gen,      \* generated_tokens
  reason,   \* the stop reason (NotFinished while the entry runs)
  crashed,  \* the batching task panicked inside matches_stop_sequence
  pre,      \* ghost: length of the output decoded before min_new_tokens
  lastTl    \* ghost: bytes the last token added

vars == <<out, gen, reason, crashed, pre, lastTl>>

Reasons == {"NotFinished", "EosToken", "MaxTokens", "StopSequence", "Error"}

\* The texts one call of the incremental decoder may return.
Chunks == UNION {[1..n -> Bytes] : n \in 0..ChunkMax}

-----------------------------------------------------------------------------
(* matches_stop_sequence(e, Some(text)) with output the accumulated bytes  *)
(* and tl = text.len(): for each stop sequence ss of length len, the       *)
(* windows of length len of output[next_off.checked_sub(len).unwrap_or(0)..] *)
(* with next_off = output.len() + 1 - text.len().                          *)
\* Mutant: the window starts at the new text, without looking back len bytes.
WindowStartNoLookBack(output, tl, len) == Len(output) + 1 - tl

WindowStart(output, tl, len) ==
  LET nextOff == Len(output) + 1 - tl
  IN IF nextOff >= len THEN nextOff - len ELSE 0

InWindow(output, tl, ss) ==
  \E p \in WindowStart(output, tl, Len(ss))..(Len(output) - Len(ss)) :
    SubSeq(output, p + 1, p + Len(ss)) = ss

\* .any stops at the first stop sequence that matches.  An empty one (len 0)
\* reached before any match panics: with an empty text next_off is
\* output.len() + 1 and the slice output[next_off..] is out of range (line
\* 550); with a non-empty text the slice is valid and windows(0) panics
\* (line 551).  Both are the same outcome, a panic of the batching task.
MatchOutcome(output, tl) ==
  LET hits == {i \in 1..Len(StopSeqs) :
                 Len(StopSeqs[i]) = 0 \/ InWindow(output, tl, StopSeqs[i])}
      first == CHOOSE i \in hits : \A j \in hits : i <= j
  IN IF hits = {} THEN "none"
     ELSE IF Len(StopSeqs[first]) = 0 THEN "panic" ELSE "match"

\* Mutant: max_new_tokens is compared with > instead of >=.
CheckStopPastMax(g, eos, output, tl) ==
  IF g < MinNew THEN "NotFinished"
  ELSE IF eos THEN "EosToken"
  ELSE IF g > MaxNew THEN "MaxTokens"
  ELSE IF MatchOutcome(output, tl) = "match" THEN "StopSequence"
  ELSE "NotFinished"

\* check_stopping_criteria without the deadline, for generated_tokens g:
\* min_new_tokens first, then eos, max_new_tokens, the stop sequences.
CheckStop(g, eos, output, tl) ==
  IF g < MinNew THEN "NotFinished"
  ELSE IF eos THEN "EosToken"
  ELSE IF g >= MaxNew THEN "MaxTokens"
  ELSE IF MatchOutcome(output, tl) = "match" THEN "StopSequence"
  ELSE "NotFinished"

-----------------------------------------------------------------------------
Init ==
  /\ out = <<>>
  /\ gen = 0
  /\ reason = "NotFinished"
  /\ crashed = FALSE
  /\ pre = 0
  /\ lastTl = 0

\* One token of process_next_tokens for this entry: generated_tokens += 1,
\* the decoder returns the new text, and the stopping criteria are checked.
Token ==
  /\ reason = "NotFinished"
  /\ ~crashed
  /\ \E chunk \in Chunks, eos \in BOOLEAN :
       LET g == gen + 1
           o == out \o chunk
           reached == g >= MinNew /\ ~eos /\ g < MaxNew
       IN /\ out' = o
          /\ gen' = g
          /\ lastTl' = Len(chunk)
          /\ pre' = IF g < MinNew THEN Len(o) ELSE pre
          /\ IF reached /\ MatchOutcome(o, Len(chunk)) = "panic"
             THEN crashed' = TRUE /\ UNCHANGED reason
             ELSE crashed' = FALSE /\ reason' = CheckStop(g, eos, o, Len(chunk))

\* The decoder fails on the token: the entry ends with a detokenization error.
DecodeError ==
  /\ reason = "NotFinished"
  /\ ~crashed
  /\ gen' = gen + 1
  /\ reason' = "Error"
  /\ UNCHANGED <<out, crashed, pre, lastTl>>

Next == Token \/ DecodeError

Spec == Init /\ [][Next]_vars

-----------------------------------------------------------------------------
(* Properties                                                              *)

TypeOK ==
  /\ out \in Seq(Bytes)
  /\ gen \in 0..MaxNew
  /\ reason \in Reasons
  /\ crashed \in BOOLEAN
  /\ pre \in 0..Len(out)
  /\ lastTl \in 0..ChunkMax

\* ss occurs in o with its last byte at position e.
EndsAt(o, ss, e) ==
  /\ Len(ss) >= 1
  /\ e \in Len(ss)..Len(o)
  /\ SubSeq(o, e - Len(ss) + 1, e) = ss

StopSet == {StopSeqs[i] : i \in 1..Len(StopSeqs)}

\* Stop sequences are matched exactly (spec section 8, with the code's
\* min_new_tokens rule): an entry ends with StopSequence only if its output
\* holds a stop sequence, and while it runs no stop sequence ends in the
\* output decoded since min_new_tokens, even across token boundaries (the
\* look-back of len bytes in matches_stop_sequence, lines 548-550).
StopSequenceExact ==
  /\ reason = "StopSequence" => \E ss \in StopSet, e \in 1..Len(out) : EndsAt(out, ss, e)
  /\ reason = "NotFinished" =>
        ~\E ss \in StopSet, e \in (pre + 1)..Len(out) : EndsAt(out, ss, e)

\* The search window is the suffix of length |stop_seq| plus the bytes this
\* token added (spec 4.F (3)): a stop sequence ending in that suffix, at a
\* token where the stop sequences are checked, ends the entry.
SpecWindowRespected ==
  (reason = "NotFinished" /\ gen >= MinNew /\ gen >= 1) =>
    ~\E ss \in StopSet, e \in 1..Len(out) :
        /\ EndsAt(out, ss, e)
        /\ e - Len(ss) + 1 > Len(out) - (Len(ss) + lastTl)

\* The batching task never panics in matches_stop_sequence (the slice at
\* line 550 or windows(0) at line 551, on an empty stop sequence).
NoMatcherPanic == ~crashed

=============================================================================
