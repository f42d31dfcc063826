----------------------------- MODULE MCBatcher -----------------------------
(* Small instances of Batcher for TLC.                                     *)
EXTENDS Batcher, TLC

CONSTANTS r1, r2, r3

\* Two requests, or three.
MCReq2 == {r1, r2}
MCReq3 == {r1, r2, r3}

\* A unary request with a stop sequence and a deadline, where eos before
\* min_new_tokens must be ignored; a streaming request without stop
\* sequences that ends at max_new_tokens with MaxTokens.
UnaryStop == [stream |-> FALSE, min |-> 2, max |-> 2, stop |-> TRUE,
              deadline |-> TRUE, tokenLimit |-> TRUE]
StreamPlain == [stream |-> TRUE, min |-> 0, max |-> 2, stop |-> FALSE,
                deadline |-> FALSE, tokenLimit |-> FALSE]
MCParams == {UnaryStop, StreamPlain}

\* Requests long enough for the literal 16 of the unary cancellation poll
\* and the literal 5 of the growth warm-up to matter.
LongUnary == [stream |-> FALSE, min |-> 0, max |-> 17, stop |-> FALSE,
              deadline |-> FALSE, tokenLimit |-> TRUE]
ShortStream == [stream |-> TRUE, min |-> 0, max |-> 7, stop |-> FALSE,
                deadline |-> FALSE, tokenLimit |-> FALSE]
MCParamsLong == {LongUnary, ShortStream}

\* Every request id is interchangeable with another.
MCSymmetry == Permutations(MCReq3)
=============================================================================
