---------------------------- MODULE BatcherProofs ----------------------------
(***************************************************************************)
(* Proofs about Batcher: the type invariant for every value of the         *)
(* constants.                                                              *)
(***************************************************************************)
EXTENDS Batcher, WellFoundedInduction, SequenceTheorems, TLAPS

\* TypeOK with the fact that the step loop always holds exactly one cached
\* batch at its top and while a growth prefill is in flight (GrowDone and
\* ShouldTryToGrowBatch read batches[1]).
IInv ==
  /\ TypeOK
  /\ pc \in {"loop", "grow"} => Len(batches) = 1

-----------------------------------------------------------------------------
(* Lemmas about the operators the model is built from.                     *)

\* A nonempty set of naturals has a least element (FirstNewId is defined).
LEMMA NatSetHasMin ==
  ASSUME NEW T \in SUBSET Nat, T # {}
  PROVE  \E x \in T : \A y \in T : x <= y
<1>1. PICK x \in T : \A y \in T : ~(<<y, x>> \in OpToRel(<, Nat))
  BY NatLessThanWellFounded, WFMin
<1>2. ASSUME NEW y \in T PROVE x <= y
  <2>1. ~(<<y, x>> \in OpToRel(<, Nat))
    BY <1>1
  <2>2. ~(y < x)
    BY <2>1 DEF OpToRel
  <2>. QED
    BY <2>2
<1>. QED
  BY <1>2

\* The id the growth prefill is wrapped with is a natural number.
LEMMA FirstNewIdType ==
  ASSUME NEW B \in SUBSET Req, B # {}, DrainedIds \in [Req -> Nat]
  PROVE  FirstNewId(B) \in Nat
<1>. DEFINE Ids == {DrainedIds[b] : b \in B}
<1>1. Ids \in SUBSET Nat /\ Ids # {}
  OBVIOUS
<1>2. PICK i \in Ids : \A j \in Ids : i <= j
  BY <1>1, NatSetHasMin
<1>3. \E k \in Ids : \A b \in B : k <= DrainedIds[b]
  BY <1>2
<1>4. \A k \in Ids : k \in Nat
  BY <1>1
<1>. QED
  BY <1>3, <1>4 DEF FirstNewId

\* The queue's renumbering of the drained channel gives natural ids.
LEMMA DrainedIdsType ==
  ASSUME TypeOK
  PROVE  DrainedIds \in [Req -> Nat]
<1>1. ASSUME NEW r \in InChan PROVE ChanPos(r) \in 1..Len(chan)
  <2>1. \E i \in 1..Len(chan) : chan[i] = r
    BY <1>1 DEF InChan
  <2>. QED
    BY <2>1, Zenon DEF ChanPos
<1>2. nextId \in Nat /\ eid \in [Req -> Nat] /\ Len(chan) \in Nat
  BY DEF TypeOK
<1>. QED
  BY <1>1, <1>2 DEF DrainedIds

\* The queue's buffer and the channel hold requests.
LEMMA PoolType ==
  ASSUME TypeOK
  PROVE  Pool \subseteq Req
<1>1. InChan \subseteq Req
  <2>1. chan \in Seq(Req)
    BY DEF TypeOK
  <2>2. \A i \in 1..Len(chan) : chan[i] \in Req
    BY <2>1
  <2>. QED
    BY <2>2 DEF InChan
<1>. QED
  BY <1>1 DEF Pool, Queued

\* What the server steps is a set of requests.
LEMMA SteppedType ==
  ASSUME NEW bs \in Seq(CachedBatch)
  PROVE  Stepped(bs) \in SUBSET Req
<1>1. ASSUME NEW i \in 1..Len(bs) PROVE Eff(bs[i]) \subseteq Req
  <2>1. bs[i] \in CachedBatch
    BY <1>1
  <2>. QED
    BY <2>1 DEF Eff, CachedBatch
<1>. QED
  BY <1>1 DEF Stepped

\* Every request of a response ends the step with a stop reason.
LEMMA ResultType ==
  ASSUME NEW S \in SUBSET Req, NEW out \in [S -> TokenOutcome \cup {GenError}]
  PROVE  Result(S, out) \in [S -> Reasons]
BY DEF Result, TokenResult, StopReason, Reasons

\* The queue step keeps every variable it writes in its type.
LEMMA PullType ==
  ASSUME TypeOK, NEW B \in SUBSET Req, Pull(B)
  PROVE  /\ phase' \in [Req -> Phases]
         /\ final' \in [Req -> Nat]
         /\ reason' \in [Req -> Reasons]
         /\ eid' \in [Req -> Nat]
         /\ nextId' \in Nat \ {0}
         /\ chan' \in Seq(Req)
         /\ slots' \in 0..QueueSize
<1>1. DrainedIds \in [Req -> Nat]
  BY DrainedIdsType
<1>2. QueueSize \in Nat
  BY BoundsAssumption
<1>. QED
  BY <1>1, <1>2 DEF Pull, TypeOK, Phases, Reasons

\* send_errors keeps the entries' variables in their type.
LEMMA SendErrorsType ==
  ASSUME TypeOK, NEW start, SendErrors(start)
  PROVE  /\ phase' \in [Req -> Phases]
         /\ final' \in [Req -> Nat]
         /\ reason' \in [Req -> Reasons]
BY DEF SendErrors, TypeOK, Phases, Reasons

\* process_next_tokens keeps the entries' variables in their type.
LEMMA ApplyTokensType ==
  ASSUME TypeOK, NEW S \in SUBSET Req, NEW out \in Responses(S),
         ApplyTokens(S, out)
  PROVE  /\ gen' \in [Req -> Nat]
         /\ phase' \in [Req -> Phases]
         /\ final' \in [Req -> Nat]
         /\ reason' \in [Req -> Reasons]
         /\ inprog' \in [Req -> Nat]
<1>1. Result(S, out) \in [S -> Reasons]
  BY ResultType DEF Responses
<1>. QED
  BY <1>1 DEF ApplyTokens, TypeOK, Phases

\* The handle wrap_future returns names a set of requests.
LEMMA NewCachedType ==
  ASSUME NEW S \in SUBSET Req, NEW out
  PROVE  NewCached(S, out) \in CachedBatch
BY DEF NewCached, CachedBatch

\* The hack after a growth prefill leaves at most one well-formed batch.
LEMMA HackType ==
  ASSUME NEW pruned \in BOOLEAN, batches \in Seq(CachedBatch), Len(batches) = 1
  PROVE  Hack(pruned) \in Seq(CachedBatch)
<1>. DEFINE b == batches[1]
<1>1. b \in CachedBatch
  OBVIOUS
<1>2. CASE b.all
  BY <1>2 DEF Hack
<1>3. CASE ~b.all
  <2>1. [mem |-> IF pruned THEN b.mem \ b.completed ELSE b.mem,
         all |-> FALSE, completed |-> {}] \in CachedBatch
    BY <1>1 DEF CachedBatch
  <2>. QED
    BY <1>3, <2>1 DEF Hack
<1>. QED
  BY <1>2, <1>3

-----------------------------------------------------------------------------
(* The strengthened invariant holds initially and is kept by every action. *)

LEMMA InitIInv == Init => IInv
<1>1. (CHOOSE p \in Params : TRUE) \in Params
  BY ParamsAssumption
<1>. QED
  BY <1>1, BoundsAssumption DEF Init, IInv, TypeOK, Phases, Reasons, PCs

LEMMA InferIInv ==
  ASSUME IInv, NEW r \in Req, NEW p \in Params, Infer(r, p)
  PROVE  IInv'
<1>. TypeOK
  BY DEF IInv
<1>1. QueueSize \in Nat
  BY BoundsAssumption
<1>2. par' \in [Req -> Params]
  BY DEF Infer, TypeOK
<1>3. CASE slots < QueueSize
  <2>1. /\ chan' = Append(chan, r)
        /\ slots' = slots + 1
        /\ phase' = [phase EXCEPT ![r] = "chan"]
    BY <1>3 DEF Infer
  <2>2. chan' \in Seq(Req)
    BY <2>1 DEF TypeOK
  <2>3. slots' \in 0..QueueSize
    BY <1>1, <1>3, <2>1 DEF TypeOK
  <2>4. phase' \in [Req -> Phases]
    BY <2>1 DEF TypeOK, Phases
  <2>. QED
    BY <1>2, <2>2, <2>3, <2>4 DEF Infer, IInv, TypeOK
<1>4. CASE ~(slots < QueueSize)
  <2>1. chan' \in Seq(Req) /\ slots' \in 0..QueueSize /\ phase' \in [Req -> Phases]
    BY <1>1, <1>4 DEF Infer, TypeOK, Phases
  <2>. QED
    BY <1>2, <2>1 DEF Infer, IInv, TypeOK
<1>. QED
  BY <1>3, <1>4

LEMMA InferBatchIInv ==
  ASSUME IInv, NEW g \in BatchLists,
         NEW ps \in [DOMAIN g -> {q \in Params : ~q.stream}],
         InferBatch(g, ps)
  PROVE  IInv'
<1>1. PICK k \in 2..Cardinality(Idles) : g \in [1..k -> Idles]
  BY DEF BatchLists
<1>2. k \in Nat /\ Idles \subseteq Req
  BY <1>1 DEF Idles
<1>3. g \in Seq(Req) /\ DOMAIN g = 1..k
  BY <1>1, <1>2
<1>4. par' \in [Req -> Params]
  <2>1. ASSUME NEW q \in Req, \E i \in DOMAIN g : g[i] = q
        PROVE  ps[CHOOSE i \in DOMAIN g : g[i] = q] \in Params
    <3>1. (CHOOSE i \in DOMAIN g : g[i] = q) \in DOMAIN g
      BY <2>1
    <3>. QED
      BY <3>1
  <2>. QED
    BY <2>1 DEF InferBatch, IInv, TypeOK
<1>5. QueueSize \in Nat /\ TypeOK
  BY BoundsAssumption DEF IInv
<1>. USE <1>5
<1>6. CASE slots < QueueSize
  <2>1. /\ chan' = chan \o g
        /\ slots' = slots + 1
        /\ phase' = [r \in Req |-> IF \E i \in DOMAIN g : g[i] = r
                                   THEN "chan" ELSE phase[r]]
    BY <1>6 DEF InferBatch
  <2>2. chan' \in Seq(Req)
    <3>1. chan \in Seq(Req)
      BY DEF TypeOK
    <3>2. chan \o g \in Seq(Req)
      BY <1>3, <3>1, ConcatProperties
    <3>. QED
      BY <2>1, <3>2
  <2>3. slots' \in 0..QueueSize
    BY <1>5, <1>6, <2>1 DEF TypeOK
  <2>4. phase' \in [Req -> Phases]
    <3>1. ASSUME NEW r \in Req
          PROVE  (IF \E i \in DOMAIN g : g[i] = r THEN "chan" ELSE phase[r])
                 \in Phases
      BY DEF TypeOK, Phases
    <3>. QED
      BY <2>1, <3>1
  <2>. QED
    BY <1>4, <2>2, <2>3, <2>4 DEF InferBatch, IInv, TypeOK
<1>7. CASE ~(slots < QueueSize)
  <2>1. /\ UNCHANGED <<chan, slots>>
        /\ phase' = [r \in Req |-> IF \E i \in DOMAIN g : g[i] = r
                                   THEN "rejected" ELSE phase[r]]
    BY <1>7 DEF InferBatch
  <2>2. phase' \in [Req -> Phases]
    <3>1. ASSUME NEW r \in Req
          PROVE  (IF \E i \in DOMAIN g : g[i] = r THEN "rejected" ELSE phase[r])
                 \in Phases
      BY DEF TypeOK, Phases
    <3>. QED
      BY <2>1, <3>1
  <2>. QED
    BY <1>4, <2>1, <2>2 DEF InferBatch, IInv, TypeOK
<1>. QED
  BY <1>6, <1>7

LEMMA CancelIInv ==
  ASSUME IInv, NEW r \in Req, Cancel(r)
  PROVE  IInv'
BY DEF Cancel, IInv, TypeOK

LEMMA ExpireIInv ==
  ASSUME IInv, NEW r \in Req, Expire(r)
  PROVE  IInv'
BY DEF Expire, IInv, TypeOK

LEMMA NextBatchIInv ==
  ASSUME IInv, NextBatch
  PROVE  IInv'
<1>. USE DEF IInv
<1>1. PICK B \in Prefixes(SizeLimit - Cardinality(Live)) :
        /\ Pull(B)
        /\ IF B # {} THEN pc' = "prefill" /\ newBatch' = B
                     ELSE UNCHANGED <<pc, newBatch>>
  BY DEF NextBatch
<1>2. B \in SUBSET Req
  BY <1>1, PoolType DEF Prefixes, Avail
<1>3. pc' \in {"prefill", "wait"} /\ newBatch' \in SUBSET Req
  BY <1>1, <1>2 DEF NextBatch, TypeOK
<1>4. /\ phase' \in [Req -> Phases]
      /\ final' \in [Req -> Nat]
      /\ reason' \in [Req -> Reasons]
      /\ eid' \in [Req -> Nat]
      /\ nextId' \in Nat \ {0}
      /\ chan' \in Seq(Req)
      /\ slots' \in 0..QueueSize
  BY <1>1, <1>2, PullType
<1>5. UNCHANGED <<par, gen, inprog, rxOpen, closedAt, expired, batches,
                  startId, waiting, health>>
  BY DEF NextBatch
<1>. QED
  BY <1>3, <1>4, <1>5 DEF TypeOK, PCs

LEMMA PrefillDoneIInv ==
  ASSUME IInv, PrefillDone
  PROVE  IInv'
<1>. USE DEF IInv
<1>. newBatch \in SUBSET Req /\ TypeOK
  BY DEF TypeOK
<1>0. /\ waiting' = 1
      /\ UNCHANGED <<par, chan, slots, eid, nextId, rxOpen, closedAt, expired,
                     newBatch, startId>>
  BY DEF PrefillDone
<1>1. CASE /\ BackendFails
           /\ SendErrors(0)
           /\ health' = FALSE
           /\ batches' = <<>>
           /\ pc' = "wait"
           /\ UNCHANGED <<gen, inprog>>
  <2>1. /\ phase' \in [Req -> Phases]
        /\ final' \in [Req -> Nat]
        /\ reason' \in [Req -> Reasons]
    BY <1>1, SendErrorsType
  <2>2. batches' \in Seq(CachedBatch)
    BY <1>1, EmptySeq
  <2>3. pc' \in PCs /\ health' \in BOOLEAN
    BY <1>1 DEF PCs
  <2>. QED
    BY <1>0, <1>1, <2>1, <2>2, <2>3 DEF TypeOK
<1>2. CASE \E out \in Responses(newBatch) :
             /\ ApplyTokens(newBatch, out)
             /\ health' = TRUE
             /\ batches' = <<NewCached(newBatch, out)>>
             /\ pc' = IF newBatch \subseteq Live THEN "loop" ELSE "crashed"
  <2>1. PICK out \in Responses(newBatch) :
             /\ ApplyTokens(newBatch, out)
             /\ health' = TRUE
             /\ batches' = <<NewCached(newBatch, out)>>
             /\ pc' = IF newBatch \subseteq Live THEN "loop" ELSE "crashed"
    BY <1>2
  <2>2. batches' \in Seq(CachedBatch) /\ Len(batches') = 1
    BY <2>1, NewCachedType
  <2>3. /\ gen' \in [Req -> Nat]
        /\ phase' \in [Req -> Phases]
        /\ final' \in [Req -> Nat]
        /\ reason' \in [Req -> Reasons]
        /\ inprog' \in [Req -> Nat]
    BY <2>1, ApplyTokensType
  <2>4. pc' \in PCs
    BY <2>1 DEF PCs
  <2>. QED
    BY <1>0, <2>1, <2>2, <2>3, <2>4 DEF TypeOK
<1>. QED
  BY <1>1, <1>2 DEF PrefillDone

LEMMA TryGrowIInv ==
  ASSUME IInv, TryGrow
  PROVE  IInv'
<1>. USE DEF IInv
<1>. /\ TypeOK
     /\ Len(batches) = 1
     /\ DrainedIds \in [Req -> Nat]
  BY DrainedIdsType DEF TryGrow
<1>0. UNCHANGED <<par, gen, inprog, rxOpen, closedAt, expired, batches,
                  waiting, health>>
  BY DEF TryGrow
<1>1. PICK tooLong \in BOOLEAN :
        \/ /\ ShouldTryToGrowBatch(tooLong)
           /\ \E B \in Prefixes(SizeLimit - Cardinality(Live)) :
                /\ Pull(B)
                /\ IF B # {}
                   THEN /\ pc' = "grow"
                        /\ newBatch' = B
                        /\ startId' = FirstNewId(B)
                   ELSE /\ pc' = "step"
                        /\ UNCHANGED <<newBatch, startId>>
        \/ /\ ~ShouldTryToGrowBatch(tooLong)
           /\ pc' = "step"
           /\ UNCHANGED <<phase, final, reason, eid, nextId, chan, slots,
                          newBatch, startId>>
  BY DEF TryGrow
<1>2. CASE \E B \in Prefixes(SizeLimit - Cardinality(Live)) :
                /\ Pull(B)
                /\ IF B # {}
                   THEN /\ pc' = "grow"
                        /\ newBatch' = B
                        /\ startId' = FirstNewId(B)
                   ELSE /\ pc' = "step"
                        /\ UNCHANGED <<newBatch, startId>>
  <2>1. PICK B \in Prefixes(SizeLimit - Cardinality(Live)) :
                /\ Pull(B)
                /\ IF B # {}
                   THEN /\ pc' = "grow"
                        /\ newBatch' = B
                        /\ startId' = FirstNewId(B)
                   ELSE /\ pc' = "step"
                        /\ UNCHANGED <<newBatch, startId>>
    BY <1>2
  <2>2. B \in SUBSET Req
    BY <2>1, PoolType DEF Prefixes, Avail
  <2>3. B # {} => pc' = "grow" /\ newBatch' \in SUBSET Req /\ startId' \in Nat
    <3>1. B # {} => FirstNewId(B) \in Nat
      BY <2>2, FirstNewIdType
    <3>. QED
      BY <2>1, <2>2, <3>1
  <2>4. B = {} => pc' = "step" /\ newBatch' = newBatch /\ startId' = startId
    BY <2>1
  <2>5. /\ pc' \in {"grow", "step"}
        /\ newBatch' \in SUBSET Req
        /\ startId' \in Nat
    BY <2>3, <2>4 DEF TypeOK
  <2>6. /\ phase' \in [Req -> Phases]
        /\ final' \in [Req -> Nat]
        /\ reason' \in [Req -> Reasons]
        /\ eid' \in [Req -> Nat]
        /\ nextId' \in Nat \ {0}
        /\ chan' \in Seq(Req)
        /\ slots' \in 0..QueueSize
    BY <2>1, <2>2, PullType
  <2>. QED
    BY <1>0, <2>5, <2>6 DEF TypeOK, PCs
<1>3. CASE UNCHANGED <<phase, final, reason, eid, nextId, chan, slots,
                       newBatch, startId>> /\ pc' = "step"
  BY <1>0, <1>3 DEF TypeOK, PCs
<1>. QED
  BY <1>1, <1>2, <1>3

LEMMA GrowDoneIInv ==
  ASSUME IInv, GrowDone
  PROVE  IInv'
<1>. USE DEF IInv
<1>. /\ TypeOK
     /\ Len(batches) = 1
     /\ newBatch \in SUBSET Req
  BY DEF GrowDone, TypeOK
<1>0. /\ waiting' = 1
      /\ UNCHANGED <<par, chan, slots, eid, nextId, rxOpen, closedAt, expired,
                     newBatch, startId>>
  BY DEF GrowDone
<1>1. CASE /\ SendErrors(startId)
           /\ health' = FALSE
           /\ \E pruned \in BOOLEAN : batches' = Hack(pruned)
           /\ pc' = "step"
           /\ UNCHANGED <<gen, inprog>>
  <2>1. PICK pruned \in BOOLEAN : batches' = Hack(pruned)
    BY <1>1
  <2>2. batches' \in Seq(CachedBatch)
    BY <2>1, HackType DEF TypeOK
  <2>3. /\ phase' \in [Req -> Phases]
        /\ final' \in [Req -> Nat]
        /\ reason' \in [Req -> Reasons]
    BY <1>1, SendErrorsType
  <2>4. pc' \in PCs /\ health' \in BOOLEAN
    BY <1>1 DEF PCs
  <2>. QED
    BY <1>0, <1>1, <2>2, <2>3, <2>4 DEF TypeOK
<1>2. CASE \E out \in Responses(newBatch) :
             /\ ApplyTokens(newBatch, out)
             /\ health' = TRUE
             /\ batches' = Hack(TRUE) \o <<NewCached(newBatch, out)>>
             /\ pc' = IF newBatch \subseteq Live THEN "step" ELSE "crashed"
  <2>1. PICK out \in Responses(newBatch) :
             /\ ApplyTokens(newBatch, out)
             /\ health' = TRUE
             /\ batches' = Hack(TRUE) \o <<NewCached(newBatch, out)>>
             /\ pc' = IF newBatch \subseteq Live THEN "step" ELSE "crashed"
    BY <1>2
  <2>2. Hack(TRUE) \in Seq(CachedBatch)
    BY HackType DEF TypeOK
  <2>3. <<NewCached(newBatch, out)>> \in Seq(CachedBatch)
    BY NewCachedType
  <2>4. batches' \in Seq(CachedBatch)
    BY <2>1, <2>2, <2>3, ConcatProperties
  <2>5. /\ gen' \in [Req -> Nat]
        /\ phase' \in [Req -> Phases]
        /\ final' \in [Req -> Nat]
        /\ reason' \in [Req -> Reasons]
        /\ inprog' \in [Req -> Nat]
    BY <2>1, ApplyTokensType
  <2>6. pc' \in PCs /\ pc' \notin {"loop", "grow"}
    BY <2>1 DEF PCs
  <2>. QED
    BY <1>0, <2>1, <2>4, <2>5, <2>6 DEF TypeOK
<1>3. ErrorMayUndoPrune \in BOOLEAN
  BY FlagsAssumption
<1>. QED
  BY <1>1, <1>2, <1>3 DEF GrowDone

LEMMA NextTokenDoneIInv ==
  ASSUME IInv, NextTokenDone
  PROVE  IInv'
<1>. USE DEF IInv
<1>. DEFINE S == Stepped(batches)
<1>. /\ TypeOK
     /\ S \in SUBSET Req
  BY SteppedType DEF TypeOK
<1>0. /\ waiting' = waiting + 1
      /\ UNCHANGED <<par, chan, slots, eid, nextId, rxOpen, closedAt, expired,
                     newBatch, startId>>
  BY DEF NextTokenDone
<1>1. CASE /\ S = {}
           /\ batches' = <<>>
           /\ pc' = "wait"
           /\ UNCHANGED <<phase, final, reason, gen, inprog, health>>
  <2>1. batches' \in Seq(CachedBatch) /\ pc' \in PCs
    BY <1>1, EmptySeq DEF PCs
  <2>. QED
    BY <1>0, <1>1, <2>1 DEF TypeOK
<1>2. CASE /\ SendErrors(0)
           /\ health' = FALSE
           /\ batches' = <<>>
           /\ pc' = "wait"
           /\ UNCHANGED <<gen, inprog>>
  <2>1. /\ phase' \in [Req -> Phases]
        /\ final' \in [Req -> Nat]
        /\ reason' \in [Req -> Reasons]
    BY <1>2, SendErrorsType
  <2>2. batches' \in Seq(CachedBatch)
    BY <1>2, EmptySeq
  <2>3. pc' \in PCs /\ health' \in BOOLEAN
    BY <1>2 DEF PCs
  <2>. QED
    BY <1>0, <1>2, <2>1, <2>2, <2>3 DEF TypeOK
<1>3. CASE \E out \in Responses(S) :
             /\ ApplyTokens(S, out)
             /\ health' = TRUE
             /\ batches' = <<NewCached(S, out)>>
             /\ pc' = IF S \subseteq Live THEN "loop" ELSE "crashed"
  <2>1. PICK out \in Responses(S) :
             /\ ApplyTokens(S, out)
             /\ health' = TRUE
             /\ batches' = <<NewCached(S, out)>>
             /\ pc' = IF S \subseteq Live THEN "loop" ELSE "crashed"
    BY <1>3
  <2>2. batches' \in Seq(CachedBatch) /\ Len(batches') = 1
    BY <2>1, NewCachedType
  <2>3. /\ gen' \in [Req -> Nat]
        /\ phase' \in [Req -> Phases]
        /\ final' \in [Req -> Nat]
        /\ reason' \in [Req -> Reasons]
        /\ inprog' \in [Req -> Nat]
    BY <2>1, ApplyTokensType
  <2>4. pc' \in PCs /\ health' \in BOOLEAN
    BY <2>1 DEF PCs
  <2>5. waiting' \in Nat
    BY <1>0 DEF TypeOK
  <2>6. TypeOK'
    BY <1>0, <2>2, <2>3, <2>4, <2>5 DEF TypeOK
  <2>. QED
    BY <2>2, <2>6
<1>. QED
  BY <1>1, <1>2, <1>3 DEF NextTokenDone

\* The strengthened invariant is inductive.
LEMMA NextIInv ==
  ASSUME IInv, [Next]_vars
  PROVE  IInv'
<1>1. CASE \E r \in Req, p \in Params : Infer(r, p)
  BY <1>1, InferIInv
<1>2. CASE \E g \in BatchLists :
             \E ps \in [DOMAIN g -> {p \in Params : ~p.stream}] :
               InferBatch(g, ps)
  BY <1>2, InferBatchIInv
<1>3. CASE \E r \in Req : Cancel(r)
  BY <1>3, CancelIInv
<1>4. CASE \E r \in Req : Expire(r)
  BY <1>4, ExpireIInv
<1>5. CASE BatchingTask
  BY <1>5, NextBatchIInv, PrefillDoneIInv, TryGrowIInv, GrowDoneIInv,
     NextTokenDoneIInv DEF BatchingTask
<1>6. CASE Idle \/ UNCHANGED vars
  BY <1>6 DEF Idle, vars, IInv, TypeOK
<1>. QED
  BY <1>1, <1>2, <1>3, <1>4, <1>5, <1>6 DEF Next

\* Type correctness of the batcher: in every reachable state every variable
\* of the entries map, the channel, the queue counters and batching_task
\* (including the cached batches the task holds) has its type, for every
\* queue size, batch size limit, waiting-token bound and poll period.
THEOREM TypeCorrect == Spec => []TypeOK
<1>1. Init => IInv
  BY InitIInv
<1>2. IInv /\ [Next]_vars => IInv'
  BY NextIInv
<1>3. IInv => TypeOK
  BY DEF IInv
<1>. QED
  BY <1>1, <1>2, <1>3, PTL DEF Spec

=============================================================================
