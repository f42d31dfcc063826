--------------------------- MODULE BatcherAgreement ---------------------------
(***************************************************************************)
(* Proof that the entries map of batching_task agrees with the server's    *)
(* batches (BackendAgreement) for every value of the constants, under the  *)
(* two backend contracts the findings show to be needed: the backend       *)
(* reports no per-request GenerateErrors (or the status count would be     *)
(* wrong, batcher.rs:709), and a failed growth prefill still prunes        *)
(* (batcher.rs:392-396).                                                   *)
(***************************************************************************)
EXTENDS BatcherProofs, FiniteSetTheorems

\* Every entry of the ingress channel is in phase "chan".
ChanOK == \A i \in 1..Len(chan) : phase[chan[i]] = "chan"

\* Queue ids: every id handed out is below nextId and at least 1, and every
\* live entry is older than every queued one.
IdsOrdered ==
  /\ \A x \in Live \cup Queued : eid[x] \in 1..(nextId - 1)
  /\ \A l \in Live, q \in Queued : eid[l] < eid[q]

\* While a growth prefill is in flight, its entries are exactly the live
\* entries with an id of at least first_new_id.
GrowIds ==
  pc = "grow" =>
    /\ startId \in Nat \ {0}
    /\ \A x \in newBatch : startId <= eid[x]
    /\ \A x \in Live \ newBatch : eid[x] < startId

\* The task holds no cached batch while it waits on the queue or on the
\* first prefill, never panics, and agrees with the server.
Agreement ==
  /\ pc # "crashed"
  /\ pc \in {"wait", "prefill"} => batches = <<>>
  /\ BackendAgreement

BInv == IInv /\ ChanOK /\ IdsOrdered /\ GrowIds /\ Agreement

\* The backend contracts under which the entries map agrees with the server.
BackendContract == ~GenErrors /\ ~ErrorMayUndoPrune

-----------------------------------------------------------------------------
(* What the server steps for the handles the task holds.                   *)

LEMMA SteppedNone == Stepped(<<>>) = {}
BY DEF Stepped

LEMMA SteppedOne ==
  ASSUME NEW b
  PROVE  Stepped(<<b>>) = Eff(b)
BY DEF Stepped

LEMMA SteppedTwo ==
  ASSUME NEW x, NEW a, NEW b, Len(x) = 2, x[1] = a, x[2] = b
  PROVE  Stepped(x) = Eff(a) \cup Eff(b)
<1>1. 1..Len(x) = {1, 2}
  OBVIOUS
<1>2. {Eff(x[i]) : i \in {1, 2}} = {Eff(a), Eff(b)}
  OBVIOUS
<1>. QED
  BY <1>1, <1>2 DEF Stepped

LEMMA SteppedSingle ==
  ASSUME NEW x, Len(x) = 1
  PROVE  Stepped(x) = Eff(x[1])
<1>1. 1..Len(x) = {1}
  OBVIOUS
<1>. QED
  BY <1>1 DEF Stepped

\* The hack after a growth prefill, when the server pruned: the server
\* steps what it stepped before for the current batch.
LEMMA HackSteps ==
  ASSUME batches \in Seq(CachedBatch), Len(batches) = 1, NEW n
  PROVE  /\ Stepped(Hack(TRUE)) = Eff(batches[1])
         /\ Stepped(Hack(TRUE) \o <<n>>) = Eff(batches[1]) \cup Eff(n)
<1>. DEFINE b == batches[1]
<1>1. b \in CachedBatch
  OBVIOUS
<1>2. CASE b.all
  <2>1. Hack(TRUE) = <<>> /\ Eff(b) = {}
    BY <1>2 DEF Hack, Eff
  <2>2. <<>> \o <<n>> = <<n>>
    OBVIOUS
  <2>. QED
    BY <2>1, <2>2, SteppedNone, SteppedOne
<1>3. CASE ~b.all
  <2>. DEFINE c == [mem |-> b.mem \ b.completed, all |-> FALSE, completed |-> {}]
  <2>1. Hack(TRUE) = <<c>>
    BY <1>3 DEF Hack
  <2>2. Eff(c) = Eff(b)
    BY <1>1, <1>3 DEF Eff, CachedBatch
  <2>3. /\ Len(<<c>> \o <<n>>) = 2
        /\ (<<c>> \o <<n>>)[1] = c
        /\ (<<c>> \o <<n>>)[2] = n
    <3>1. <<c>> \in Seq({c, n}) /\ <<n>> \in Seq({c, n})
      OBVIOUS
    <3>. QED
      BY <3>1, ConcatProperties
  <2>4. Stepped(<<c>> \o <<n>>) = Eff(c) \cup Eff(n)
    BY <2>3, SteppedTwo
  <2>. QED
    BY <2>1, <2>2, <2>4, SteppedOne
<1>. QED
  BY <1>2, <1>3

\* Without GenerateErrors the status is None exactly when every request of
\* the call completed, so the server goes on stepping exactly the requests
\* that process_next_tokens left in the entries map.
LEMMA NewCachedSteps ==
  ASSUME ~GenErrors, NEW S \in SUBSET Req, NEW out \in Responses(S)
  PROVE  Eff(NewCached(S, out)) = {s \in S : Result(S, out)[s] = "NotFinished"}
<1>. DEFINE done == {s \in S : Result(S, out)[s] # "NotFinished"}
            toks == {s \in S : out[s] # GenError}
<1>1. toks = S
  <2>1. ASSUME NEW s \in S PROVE out[s] \in TokenOutcome
    BY ~GenErrors DEF Responses, Outcomes, TokenOutcome
  <2>2. GenError \notin TokenOutcome
    BY DEF GenError, TokenOutcome
  <2>. QED
    BY <2>1, <2>2
<1>2. IsFiniteSet(S) /\ done \subseteq S
  BY ReqAssumption, FS_Subset
<1>3. Cardinality(done) = Cardinality(S) => done = S
  BY <1>2, FS_Subset
<1>4. NewCached(S, out) = [mem |-> S, all |-> Cardinality(done) = Cardinality(S),
                           completed |-> done]
  BY <1>1 DEF NewCached
<1>5. CASE Cardinality(done) = Cardinality(S)
  <2>1. done = S
    BY <1>3, <1>5
  <2>2. {s \in S : Result(S, out)[s] = "NotFinished"} = {}
    BY <2>1
  <2>. QED
    BY <1>4, <1>5, <2>2 DEF Eff
<1>6. CASE Cardinality(done) # Cardinality(S)
  <2>1. /\ NewCached(S, out).all = FALSE
        /\ NewCached(S, out).mem = S
        /\ NewCached(S, out).completed = done
    <3>1. NewCached(S, out).all = (Cardinality(done) = Cardinality(S))
      BY <1>4
    <3>2. NewCached(S, out).all = FALSE
      BY <3>1, <1>6, Zenon
    <3>. QED
      BY <1>4, <3>2
  <2>2. Eff(NewCached(S, out)) = S \ done
    BY <2>1 DEF Eff
  <2>. QED
    BY <2>2
<1>. QED
  BY <1>5, <1>6


-----------------------------------------------------------------------------
(* How the helpers of the actions move requests in and out of the entries *)
(* map and the queue.                                                      *)

\* The channel and the queue hold no live entry.
LEMMA PoolNotLive ==
  ASSUME TypeOK, ChanOK
  PROVE  /\ Pool \cap Live = {}
         /\ InChan \cap Queued = {}
BY DEF Pool, InChan, Live, Queued, ChanOK

\* process_next_tokens removes exactly the requests whose token ended them.
LEMMA ApplyTokensLive ==
  ASSUME TypeOK, NEW S \in SUBSET Live, NEW out, ApplyTokens(S, out)
  PROVE  /\ Live' = (Live \ S) \cup {s \in S : Result(S, out)[s] = "NotFinished"}
         /\ Queued' = Queued
         /\ \A r \in Req \ Live : phase'[r] = phase[r]
BY DEF ApplyTokens, Live, Queued, TypeOK

\* send_errors(start) removes the live entries from start on (all for None).
LEMMA SendErrorsLive ==
  ASSUME TypeOK, NEW start, SendErrors(start)
  PROVE  /\ Live' = {r \in Live : ~(start = 0 \/ eid[r] >= start)}
         /\ Queued' = Queued
         /\ \A r \in Req \ Live : phase'[r] = phase[r]
BY DEF SendErrors, Live, Queued, TypeOK

\* The queue's next batch joins the entries map; the rest of the drained
\* channel and of the queue stays queued.
LEMMA PullLive ==
  ASSUME TypeOK, ChanOK, NEW B \in SUBSET Avail, Pull(B)
  PROVE  /\ Live' = Live \cup B
         /\ Queued' = Avail \ B
<1>1. Pool \cap Live = {} /\ Avail \subseteq Pool /\ Queued \subseteq Pool
  BY PoolNotLive DEF Avail, Pool
<1>2. Late \cap Avail = {} /\ Pool \subseteq Req
  BY PoolType DEF Avail
<1>3. ASSUME NEW r \in Req
      PROVE  /\ phase'[r] = "live" <=> r \in Live \cup B
             /\ phase'[r] = "queued" <=> r \in Avail \ B
  <2>1. phase'[r] = IF r \in Late THEN "done"
                    ELSE IF r \in B THEN "live"
                    ELSE IF r \in Pool THEN "queued"
                    ELSE phase[r]
    BY DEF Pull
  <2>2. r \in Late => r \notin B /\ r \notin Live /\ r \notin Avail
    BY <1>1, <1>2 DEF Late
  <2>3. r \notin Pool => r \notin Queued /\ r \notin Avail /\ r \notin B
    BY <1>1
  <2>. QED
    BY <2>1, <2>2, <2>3, <1>1 DEF Live, Queued, Late, Avail
<1>4. B \subseteq Req /\ Avail \subseteq Req
  BY <1>1, <1>2
<1>. QED
  BY <1>3, <1>4 DEF Live, Queued

\* The ids the queue assigns: an entry of the channel gets one from nextId
\* on, the others keep theirs.
LEMMA DrainedIdsValues ==
  ASSUME TypeOK
  PROVE  /\ \A r \in InChan : DrainedIds[r] \in nextId..(nextId + Len(chan) - 1)
         /\ \A r \in Req \ InChan : DrainedIds[r] = eid[r]
<1>1. ASSUME NEW r \in InChan PROVE ChanPos(r) \in 1..Len(chan)
  <2>1. \E i \in 1..Len(chan) : chan[i] = r
    BY DEF InChan
  <2>. QED
    BY <2>1 DEF ChanPos
<1>2. Len(chan) \in Nat /\ nextId \in Nat /\ InChan \subseteq Req
  BY PoolType DEF TypeOK, Pool
<1>3. ASSUME NEW r \in InChan
      PROVE  DrainedIds[r] \in nextId..(nextId + Len(chan) - 1)
  <2>1. DrainedIds[r] = nextId + ChanPos(r) - 1
    BY <1>2 DEF DrainedIds
  <2>. QED
    BY <2>1, <1>1, <1>2
<1>4. ASSUME NEW r \in Req \ InChan PROVE DrainedIds[r] = eid[r]
  BY DEF DrainedIds
<1>. QED
  BY <1>3, <1>4

\* Every entry of the queue or the channel gets an id above every live one.
LEMMA DrainedIdsOrder ==
  ASSUME TypeOK, ChanOK, IdsOrdered
  PROVE  /\ \A x \in Pool : DrainedIds[x] \in 1..(nextId + Len(chan) - 1)
         /\ \A l \in Live, x \in Pool : eid[l] < DrainedIds[x]
         /\ \A l \in Live : DrainedIds[l] = eid[l]
<1>1. Pool \cap Live = {} /\ InChan \cap Queued = {} /\ Pool \subseteq Req
  BY PoolNotLive, PoolType
<1>2. Live \subseteq Req \ InChan
  BY <1>1 DEF Pool, Live
<1>3. Queued \subseteq Req \ InChan
  BY <1>1 DEF Queued
<1>4. Len(chan) \in Nat /\ nextId \in Nat \ {0} /\ eid \in [Req -> Nat]
  BY DEF TypeOK
<1>5. \A x \in Queued : DrainedIds[x] = eid[x] /\ eid[x] \in 1..(nextId - 1)
  BY <1>3, DrainedIdsValues DEF IdsOrdered
<1>6. \A l \in Live : DrainedIds[l] = eid[l] /\ eid[l] \in 1..(nextId - 1)
  BY <1>2, DrainedIdsValues DEF IdsOrdered
<1>7. \A x \in InChan : DrainedIds[x] \in nextId..(nextId + Len(chan) - 1)
  BY DrainedIdsValues
<1>8. ASSUME NEW x \in Pool
      PROVE  /\ DrainedIds[x] \in 1..(nextId + Len(chan) - 1)
             /\ \A l \in Live : eid[l] < DrainedIds[x]
  <2>1. CASE x \in Queued
    BY <2>1, <1>4, <1>5, <1>6 DEF IdsOrdered
  <2>2. CASE x \in InChan
    BY <2>2, <1>4, <1>6, <1>7
  <2>. QED
    BY <2>1, <2>2 DEF Pool
<1>. QED
  BY <1>6, <1>8


\* The head of the queue's batch has its least id.
LEMMA FirstNewIdMin ==
  ASSUME NEW B \in SUBSET Req, B # {}, DrainedIds \in [Req -> Nat]
  PROVE  /\ \E b \in B : FirstNewId(B) = DrainedIds[b]
         /\ \A b \in B : FirstNewId(B) <= DrainedIds[b]
<1>. DEFINE Ids == {DrainedIds[b] : b \in B}
<1>1. Ids \in SUBSET Nat /\ Ids # {}
  OBVIOUS
<1>2. \E i \in Ids : \A b \in B : i <= DrainedIds[b]
  <2>1. PICK x \in Ids : \A y \in Ids : x <= y
    BY <1>1, NatSetHasMin
  <2>. QED
    BY <2>1
<1>. QED
  BY <1>2 DEF FirstNewId

-----------------------------------------------------------------------------
(* The client actions leave the entries map, the queue and the task alone. *)

LEMMA SameMapBInv ==
  ASSUME BInv, IInv', ChanOK', Live' = Live, Queued' = Queued,
         UNCHANGED <<eid, nextId, pc, batches, newBatch, startId>>
  PROVE  BInv'
<1>1. IdsOrdered'
  BY DEF BInv, IdsOrdered
<1>2. GrowIds'
  BY DEF BInv, GrowIds
<1>3. Agreement'
  BY DEF BInv, Agreement, BackendAgreement
<1>. QED
  BY <1>1, <1>2, <1>3 DEF BInv

LEMMA InferBInv ==
  ASSUME BInv, NEW r \in Req, NEW p \in Params, Infer(r, p)
  PROVE  BInv'
<1>1. IInv' /\ TypeOK
  BY InferIInv DEF BInv, IInv
<1>2. phase[r] = "idle" /\ \A i \in 1..Len(chan) : chan[i] # r
  BY DEF Infer, BInv, ChanOK
<1>3. UNCHANGED <<eid, nextId, pc, batches, newBatch, startId>>
  BY DEF Infer
<1>4. CASE slots < QueueSize
  <2>1. chan' = Append(chan, r) /\ phase' = [phase EXCEPT ![r] = "chan"]
    BY <1>4 DEF Infer
  <2>2. Live' = Live /\ Queued' = Queued
    BY <1>1, <1>2, <2>1 DEF Live, Queued, TypeOK
  <2>3. ChanOK'
    <3>1. chan \in Seq(Req)
      BY <1>1 DEF TypeOK
    <3>2. /\ Len(chan') = Len(chan) + 1
          /\ \A i \in 1..Len(chan) : chan'[i] = chan[i]
          /\ chan'[Len(chan) + 1] = r
      BY <2>1, <3>1, AppendProperties
    <3>3. ASSUME NEW i \in 1..Len(chan') PROVE phase'[chan'[i]] = "chan"
      <4>1. CASE i \in 1..Len(chan)
        <5>1. chan[i] \in Req
          BY <3>1, <4>1, ElementOfSeq
        <5>. QED
          BY <1>2, <2>1, <3>2, <4>1, <5>1 DEF BInv, ChanOK, TypeOK
      <4>2. CASE i = Len(chan) + 1
        BY <1>1, <2>1, <3>2, <4>2 DEF TypeOK
      <4>. QED
        BY <3>1, <3>2, <4>1, <4>2
    <3>. QED
      BY <3>3 DEF ChanOK
  <2>. QED
    BY <1>1, <1>3, <2>2, <2>3, SameMapBInv
<1>5. CASE ~(slots < QueueSize)
  <2>1. chan' = chan /\ phase' = [phase EXCEPT ![r] = "rejected"]
    BY <1>5 DEF Infer
  <2>2. Live' = Live /\ Queued' = Queued
    BY <1>1, <1>2, <2>1 DEF Live, Queued, TypeOK
  <2>3. ChanOK'
    <3>1. ASSUME NEW i \in 1..Len(chan) PROVE phase'[chan[i]] = "chan"
      <4>1. chan[i] \in Req
        BY <1>1, ElementOfSeq DEF TypeOK
      <4>. QED
        BY <1>2, <2>1, <4>1 DEF BInv, ChanOK, TypeOK
    <3>. QED
      BY <2>1, <3>1 DEF ChanOK
  <2>. QED
    BY <1>1, <1>3, <2>2, <2>3, SameMapBInv
<1>. QED
  BY <1>4, <1>5

LEMMA CancelBInv ==
  ASSUME BInv, NEW r \in Req, Cancel(r)
  PROVE  BInv'
<1>1. IInv'
  BY CancelIInv DEF BInv
<1>2. UNCHANGED <<phase, chan, eid, nextId, pc, batches, newBatch, startId>>
  BY DEF Cancel
<1>3. Live' = Live /\ Queued' = Queued
  BY <1>2 DEF Live, Queued
<1>4. ChanOK'
  BY <1>2 DEF BInv, ChanOK
<1>. QED
  BY <1>1, <1>2, <1>3, <1>4, SameMapBInv

LEMMA ExpireBInv ==
  ASSUME BInv, NEW r \in Req, Expire(r)
  PROVE  BInv'
<1>1. IInv'
  BY ExpireIInv DEF BInv
<1>2. UNCHANGED <<phase, chan, eid, nextId, pc, batches, newBatch, startId>>
  BY DEF Expire
<1>3. Live' = Live /\ Queued' = Queued
  BY <1>2 DEF Live, Queued
<1>4. ChanOK'
  BY <1>2 DEF BInv, ChanOK
<1>. QED
  BY <1>1, <1>2, <1>3, <1>4, SameMapBInv


LEMMA InferBatchBInv ==
  ASSUME BInv, NEW g \in BatchLists,
         NEW ps \in [DOMAIN g -> {q \in Params : ~q.stream}],
         InferBatch(g, ps)
  PROVE  BInv'
<1>1. IInv' /\ TypeOK
  BY InferBatchIInv DEF BInv, IInv
<1>2. PICK k \in 2..Cardinality(Idles) : g \in [1..k -> Idles]
  BY DEF BatchLists
<1>3. k \in Nat /\ g \in Seq(Req) /\ DOMAIN g = 1..k /\ Len(g) = k
      /\ \A i \in 1..k : phase[g[i]] = "idle"
  BY <1>2 DEF Idles
<1>4. chan \in Seq(Req) /\ \A i \in 1..Len(chan) : phase[chan[i]] = "chan"
  BY <1>1 DEF TypeOK, BInv, ChanOK
<1>5. UNCHANGED <<eid, nextId, pc, batches, newBatch, startId>>
  BY DEF InferBatch
\* The entries of g are idle, so neither live, queued nor in the channel.
<1>6. ASSUME NEW v, phase'= [r \in Req |-> IF \E i \in DOMAIN g : g[i] = r
                                          THEN v ELSE phase[r]],
             v \notin {"live", "queued"}
      PROVE  /\ Live' = Live /\ Queued' = Queued
             /\ \A i \in 1..Len(chan) : phase'[chan[i]] = "chan"
  <2>1. ASSUME NEW r \in Req, \E i \in DOMAIN g : g[i] = r
        PROVE  phase[r] = "idle"
    BY <1>3, <2>1
  <2>2. Live' = Live /\ Queued' = Queued
    BY <1>1, <2>1, <1>6 DEF Live, Queued, TypeOK
  <2>3. ASSUME NEW i \in 1..Len(chan) PROVE phase'[chan[i]] = "chan"
    <3>1. chan[i] \in Req /\ phase[chan[i]] = "chan"
      BY <1>4, ElementOfSeq
    <3>. QED
      BY <3>1, <2>1, <1>6
  <2>. QED
    BY <2>2, <2>3
<1>7. CASE slots < QueueSize
  <2>1. /\ chan' = chan \o g
        /\ phase' = [r \in Req |-> IF \E i \in DOMAIN g : g[i] = r
                                   THEN "chan" ELSE phase[r]]
    BY <1>7 DEF InferBatch
  <2>2. /\ Len(chan') = Len(chan) + k
        /\ \A i \in 1..Len(chan) + k :
              chan'[i] = IF i <= Len(chan) THEN chan[i] ELSE g[i - Len(chan)]
    BY <1>3, <1>4, <2>1, ConcatProperties
  <2>3. Live' = Live /\ Queued' = Queued
        /\ \A i \in 1..Len(chan) : phase'[chan[i]] = "chan"
    BY <2>1, <1>6
  <2>4. ASSUME NEW i \in 1..Len(chan'), ~(i <= Len(chan))
        PROVE  phase'[chan'[i]] = "chan"
    <3>1. i - Len(chan) \in 1..k /\ chan'[i] = g[i - Len(chan)]
      BY <1>3, <1>4, <2>2, <2>4
    <3>2. g[i - Len(chan)] \in Req
      BY <1>3, <3>1
    <3>. QED
      BY <2>1, <3>1, <3>2, <1>3
  <2>5. ChanOK'
    <3>1. ASSUME NEW i \in 1..Len(chan'), i <= Len(chan)
          PROVE  phase'[chan'[i]] = "chan"
      <4>1. i \in 1..Len(chan) /\ chan'[i] = chan[i]
        BY <1>3, <1>4, <2>2, <3>1
      <4>. QED
        BY <4>1, <2>3
    <3>. QED
      BY <2>4, <3>1 DEF ChanOK
  <2>. QED
    BY <1>1, <1>5, <2>3, <2>5, SameMapBInv
<1>8. CASE ~(slots < QueueSize)
  <2>1. /\ chan' = chan
        /\ phase' = [r \in Req |-> IF \E i \in DOMAIN g : g[i] = r
                                   THEN "rejected" ELSE phase[r]]
    BY <1>8 DEF InferBatch
  <2>2. Live' = Live /\ Queued' = Queued
        /\ \A i \in 1..Len(chan) : phase'[chan[i]] = "chan"
    BY <2>1, <1>6
  <2>3. ChanOK'
    BY <2>1, <2>2 DEF ChanOK
  <2>. QED
    BY <1>1, <1>5, <2>2, <2>3, SameMapBInv
<1>. QED
  BY <1>7, <1>8


-----------------------------------------------------------------------------
(* batching_task                                                           *)

\* Taking a FIFO prefix of the queue keeps the ids ordered: the entries
\* already live are older than the new batch, and the batch than the rest.
LEMMA PullIds ==
  ASSUME TypeOK, ChanOK, IdsOrdered, NEW k, NEW B \in Prefixes(k), Pull(B)
  PROVE  /\ IdsOrdered'
         /\ ChanOK'
         /\ Live' = Live \cup B
         /\ B \cap Live = {}
         /\ \A l \in Live : eid'[l] = eid[l]
         /\ \A l \in Live, b \in B : eid[l] < eid'[b]
         /\ \A b \in B : eid'[b] \in Nat \ {0}
<1>1. B \subseteq Avail /\ Avail \subseteq Pool /\ Pool \subseteq Req
  BY PoolType DEF Prefixes, Avail
<1>2. Live' = Live \cup B /\ Queued' = Avail \ B
  BY <1>1, PullLive
<1>3. /\ eid' = DrainedIds
      /\ nextId' = nextId + Len(chan)
      /\ chan' = <<>>
  BY DEF Pull
<1>4. /\ \A x \in Pool : DrainedIds[x] \in 1..(nextId + Len(chan) - 1)
      /\ \A l \in Live, x \in Pool : eid[l] < DrainedIds[x]
      /\ \A l \in Live : DrainedIds[l] = eid[l]
  BY DrainedIdsOrder
<1>5. Pool \cap Live = {}
  BY PoolNotLive
<1>6. Len(chan) \in Nat /\ nextId \in Nat
  BY DEF TypeOK
<1>7. \A b \in B, q \in Avail \ B : DrainedIds[b] < DrainedIds[q]
  BY DEF Prefixes
<1>8. IdsOrdered'
  <2>1. \A x \in Live' \cup Queued' : eid'[x] \in 1..(nextId' - 1)
    <3>1. \A x \in Live : eid[x] \in 1..(nextId - 1)
      BY DEF IdsOrdered
    <3>. QED
      BY <1>1, <1>2, <1>3, <1>4, <1>6, <3>1
  <2>2. \A l \in Live', q \in Queued' : eid'[l] < eid'[q]
    BY <1>1, <1>2, <1>3, <1>4, <1>7
  <2>. QED
    BY <2>1, <2>2 DEF IdsOrdered
<1>9. ChanOK'
  BY <1>3 DEF ChanOK
<1>. QED
  BY <1>1, <1>2, <1>3, <1>4, <1>5, <1>8, <1>9

LEMMA NextBatchBInv ==
  ASSUME BInv, NextBatch
  PROVE  BInv'
<1>1. IInv' /\ TypeOK /\ ChanOK /\ IdsOrdered
  BY NextBatchIInv DEF BInv, IInv
<1>2. Live = {} /\ batches = <<>>
  BY DEF NextBatch, BInv, Agreement, BackendAgreement
<1>3. PICK B \in Prefixes(SizeLimit - Cardinality(Live)) :
        /\ Pull(B)
        /\ IF B # {} THEN pc' = "prefill" /\ newBatch' = B
                     ELSE UNCHANGED <<pc, newBatch>>
  BY DEF NextBatch
<1>4. /\ IdsOrdered' /\ ChanOK'
      /\ Live' = B
  BY <1>1, <1>2, <1>3, PullIds
<1>5. batches' = <<>> /\ pc = "wait"
  BY <1>2 DEF NextBatch
<1>6. Agreement'
  <2>1. CASE B # {}
    BY <1>3, <1>4, <1>5, <2>1, SteppedNone DEF Agreement, BackendAgreement
  <2>2. CASE B = {}
    BY <1>3, <1>4, <1>5, <2>2 DEF Agreement, BackendAgreement
  <2>. QED
    BY <2>1, <2>2
<1>7. GrowIds'
  BY <1>3, <1>5 DEF GrowIds
<1>. QED
  BY <1>1, <1>4, <1>6, <1>7 DEF BInv


\* A step that only removes entries from the map keeps the channel and the
\* ids as they are.
LEMMA ShrinkIds ==
  ASSUME TypeOK, ChanOK, IdsOrdered, Live' \subseteq Live, Queued' = Queued,
         \A r \in Req \ Live : phase'[r] = phase[r],
         UNCHANGED <<chan, eid, nextId>>
  PROVE  ChanOK' /\ IdsOrdered'
<1>1. ASSUME NEW i \in 1..Len(chan) PROVE phase'[chan[i]] = "chan"
  <2>1. chan[i] \in Req /\ phase[chan[i]] = "chan"
    BY ElementOfSeq DEF TypeOK, ChanOK
  <2>. QED
    BY <2>1 DEF Live
<1>. QED
  BY <1>1 DEF ChanOK, IdsOrdered

LEMMA PrefillDoneBInv ==
  ASSUME BInv, BackendContract, PrefillDone
  PROVE  BInv'
<1>1. IInv' /\ TypeOK /\ ChanOK /\ IdsOrdered
  BY PrefillDoneIInv DEF BInv, IInv
<1>2. pc = "prefill" /\ batches = <<>> /\ Live = newBatch
  BY SteppedNone DEF PrefillDone, BInv, Agreement, BackendAgreement
<1>3. UNCHANGED <<chan, eid, nextId, newBatch, startId>>
  BY DEF PrefillDone
<1>4. CASE /\ BackendFails
           /\ SendErrors(0)
           /\ batches' = <<>>
           /\ pc' = "wait"
  <2>1. Live' = {} /\ Queued' = Queued /\ \A r \in Req \ Live : phase'[r] = phase[r]
    BY <1>1, <1>4, SendErrorsLive
  <2>2. ChanOK' /\ IdsOrdered'
    BY <1>1, <1>3, <2>1, ShrinkIds
  <2>. QED
    BY <1>1, <1>4, <2>1, <2>2 DEF BInv, GrowIds, Agreement, BackendAgreement
<1>5. CASE \E out \in Responses(newBatch) :
             /\ ApplyTokens(newBatch, out)
             /\ batches' = <<NewCached(newBatch, out)>>
             /\ pc' = IF newBatch \subseteq Live THEN "loop" ELSE "crashed"
  <2>1. PICK out \in Responses(newBatch) :
             /\ ApplyTokens(newBatch, out)
             /\ batches' = <<NewCached(newBatch, out)>>
             /\ pc' = IF newBatch \subseteq Live THEN "loop" ELSE "crashed"
    BY <1>5
  <2>2. newBatch \subseteq Live /\ pc' = "loop"
    BY <1>2, <2>1
  <2>3. /\ Live' = {s \in newBatch : Result(newBatch, out)[s] = "NotFinished"}
        /\ Queued' = Queued /\ \A r \in Req \ Live : phase'[r] = phase[r]
        /\ Live' \subseteq Live
    <3>1. /\ Live' = (Live \ newBatch) \cup
                     {s \in newBatch : Result(newBatch, out)[s] = "NotFinished"}
          /\ Queued' = Queued /\ \A r \in Req \ Live : phase'[r] = phase[r]
      BY <1>1, <2>1, <2>2, ApplyTokensLive
    <3>. QED
      BY <3>1, <1>2
  <2>4. Stepped(batches') = Live'
    <3>1. newBatch \in SUBSET Req /\ ~GenErrors
      BY <1>2 DEF BackendContract, Live
    <3>. QED
      BY <2>1, <2>3, <3>1, NewCachedSteps, SteppedOne
  <2>5. ChanOK' /\ IdsOrdered'
    BY <1>1, <1>3, <2>3, ShrinkIds
  <2>. QED
    BY <1>1, <2>2, <2>4, <2>5 DEF BInv, GrowIds, Agreement, BackendAgreement
<1>. QED
  BY <1>4, <1>5 DEF PrefillDone


LEMMA TryGrowBInv ==
  ASSUME BInv, TryGrow
  PROVE  BInv'
<1>1. IInv' /\ TypeOK /\ ChanOK /\ IdsOrdered
  BY TryGrowIInv DEF BInv, IInv
<1>2. pc = "loop" /\ Stepped(batches) = Live
  BY DEF TryGrow, BInv, Agreement, BackendAgreement
<1>3. UNCHANGED batches
  BY DEF TryGrow
<1>4. PICK tooLong \in (IF Queued # {} THEN BOOLEAN ELSE {FALSE}) :
        \/ /\ ShouldTryToGrowBatch(tooLong)
           /\ \E B \in Prefixes(SizeLimit - Cardinality(Live)) :
                /\ Pull(B)
                /\ IF B # {}
                   THEN /\ pc' = "grow"
                        /\ newBatch' = B
                        /\ startId' = FirstNewId(B)
                   ELSE /\ pc' = "step"
                        /\ UNCHANGED <<newBatch, startId>>
        \/ /\ ~ShouldTryToGrowBatch(tooLong)
           /\ pc' = "step"
           /\ UNCHANGED <<phase, final, reason, eid, nextId, chan, slots,
                          newBatch, startId>>
  BY DEF TryGrow
<1>5. CASE \E B \in Prefixes(SizeLimit - Cardinality(Live)) :
             /\ Pull(B)
             /\ IF B # {}
                THEN /\ pc' = "grow"
                     /\ newBatch' = B
                     /\ startId' = FirstNewId(B)
                ELSE /\ pc' = "step"
                     /\ UNCHANGED <<newBatch, startId>>
  <2>1. PICK B \in Prefixes(SizeLimit - Cardinality(Live)) :
             /\ Pull(B)
             /\ IF B # {}
                THEN /\ pc' = "grow"
                     /\ newBatch' = B
                     /\ startId' = FirstNewId(B)
                ELSE /\ pc' = "step"
                     /\ UNCHANGED <<newBatch, startId>>
    BY <1>5
  <2>2. /\ IdsOrdered' /\ ChanOK'
        /\ Live' = Live \cup B
        /\ B \cap Live = {}
        /\ \A l \in Live : eid'[l] = eid[l]
        /\ \A l \in Live, b \in B : eid[l] < eid'[b]
        /\ \A b \in B : eid'[b] \in Nat \ {0}
    BY <1>1, <2>1, PullIds
  <2>3. CASE B # {}
    <3>1. pc' = "grow" /\ newBatch' = B /\ startId' = FirstNewId(B)
      BY <2>1, <2>3
    <3>2. Agreement'
      BY <1>2, <1>3, <2>2, <3>1 DEF Agreement, BackendAgreement
    <3>3. GrowIds'
      <4>1. B \subseteq Req /\ DrainedIds \in [Req -> Nat] /\ eid' = DrainedIds
        BY <1>1, <2>1, PoolType, DrainedIdsType DEF Prefixes, Avail, Pull
      <4>2. /\ \E b \in B : FirstNewId(B) = DrainedIds[b]
            /\ \A b \in B : FirstNewId(B) <= DrainedIds[b]
        BY <2>3, <4>1, FirstNewIdMin
      <4>3. PICK b0 \in B : startId' = eid'[b0]
        BY <3>1, <4>1, <4>2
      <4>4. \A x \in Live : eid'[x] < startId'
        BY <2>2, <4>3
      <4>5. Live \subseteq Req /\ eid \in [Req -> Nat]
        BY <1>1 DEF Live, TypeOK
      <4>. QED
        BY <2>2, <3>1, <4>1, <4>2, <4>3, <4>4, <4>5 DEF GrowIds
    <3>. QED
      BY <1>1, <2>2, <3>2, <3>3 DEF BInv
  <2>4. CASE B = {}
    <3>1. pc' = "step" /\ Live' = Live
      BY <2>1, <2>2, <2>4
    <3>. QED
      BY <1>1, <1>2, <1>3, <2>2, <3>1 DEF BInv, GrowIds, Agreement, BackendAgreement
  <2>. QED
    BY <2>3, <2>4
<1>6. CASE /\ pc' = "step"
           /\ UNCHANGED <<phase, eid, nextId, chan, newBatch, startId>>
  <2>1. Live' = Live /\ Queued' = Queued
    BY <1>6 DEF Live, Queued
  <2>2. ChanOK' /\ IdsOrdered'
    BY <1>1, <1>6, <2>1 DEF ChanOK, IdsOrdered
  <2>. QED
    BY <1>1, <1>2, <1>3, <1>6, <2>1, <2>2 DEF BInv, GrowIds, Agreement, BackendAgreement
<1>. QED
  BY <1>4, <1>5, <1>6


LEMMA GrowDoneBInv ==
  ASSUME BInv, BackendContract, GrowDone
  PROVE  BInv'
<1>1. IInv' /\ TypeOK /\ ChanOK /\ IdsOrdered /\ GrowIds
  BY GrowDoneIInv DEF BInv, IInv
<1>2. /\ pc = "grow" /\ Len(batches) = 1 /\ batches \in Seq(CachedBatch)
      /\ Live = Eff(batches[1]) \cup newBatch
      /\ Eff(batches[1]) \cap newBatch = {}
  BY SteppedSingle DEF GrowDone, BInv, IInv, TypeOK, Agreement, BackendAgreement
<1>3. UNCHANGED <<chan, eid, nextId, newBatch, startId>>
  BY DEF GrowDone
<1>4. CASE /\ BackendFails
           /\ SendErrors(startId)
           /\ \E pruned \in (IF ErrorMayUndoPrune THEN BOOLEAN ELSE {TRUE}) :
                batches' = Hack(pruned)
           /\ pc' = "step"
  <2>1. batches' = Hack(TRUE)
    BY <1>4 DEF BackendContract
  <2>2. /\ Live' = {r \in Live : ~(startId = 0 \/ eid[r] >= startId)}
        /\ Queued' = Queued /\ \A r \in Req \ Live : phase'[r] = phase[r]
    BY <1>1, <1>4, SendErrorsLive
  \* send_errors(first_new_id) hits exactly the new batch.
  <2>3. Live' = Eff(batches[1])
    <3>1. /\ startId \in Nat \ {0}
          /\ \A x \in newBatch : startId <= eid[x]
          /\ \A x \in Live \ newBatch : eid[x] < startId
      BY <1>1, <1>2 DEF GrowIds
    <3>2. Live \subseteq Req /\ eid \in [Req -> Nat]
      BY <1>1 DEF Live, TypeOK
    <3>. QED
      BY <1>2, <2>2, <3>1, <3>2
  <2>4. Stepped(batches') = Live'
    BY <1>2, <2>1, <2>3, HackSteps
  <2>5. ChanOK' /\ IdsOrdered'
    BY <1>1, <1>3, <2>2, ShrinkIds
  <2>. QED
    BY <1>1, <1>4, <2>4, <2>5 DEF BInv, GrowIds, Agreement, BackendAgreement
<1>5. CASE \E out \in Responses(newBatch) :
             /\ ApplyTokens(newBatch, out)
             /\ batches' = Hack(TRUE) \o <<NewCached(newBatch, out)>>
             /\ pc' = IF newBatch \subseteq Live THEN "step" ELSE "crashed"
  <2>1. PICK out \in Responses(newBatch) :
             /\ ApplyTokens(newBatch, out)
             /\ batches' = Hack(TRUE) \o <<NewCached(newBatch, out)>>
             /\ pc' = IF newBatch \subseteq Live THEN "step" ELSE "crashed"
    BY <1>5
  <2>2. newBatch \subseteq Live /\ pc' = "step"
    BY <1>2, <2>1
  <2>3. /\ Live' = (Live \ newBatch) \cup
                   {s \in newBatch : Result(newBatch, out)[s] = "NotFinished"}
        /\ Queued' = Queued /\ \A r \in Req \ Live : phase'[r] = phase[r]
    BY <1>1, <2>1, <2>2, ApplyTokensLive
  <2>4. Stepped(batches') = Live'
    <3>1. newBatch \in SUBSET Req /\ ~GenErrors
      BY <2>2 DEF BackendContract, Live
    <3>2. Eff(NewCached(newBatch, out)) =
            {s \in newBatch : Result(newBatch, out)[s] = "NotFinished"}
      BY <3>1, NewCachedSteps
    <3>3. Stepped(batches') = Eff(batches[1]) \cup Eff(NewCached(newBatch, out))
      BY <1>2, <2>1, HackSteps
    <3>4. Live \ newBatch = Eff(batches[1])
      BY <1>2
    <3>. QED
      BY <2>3, <3>2, <3>3, <3>4
  <2>5. Live' \subseteq Live
    BY <2>2, <2>3
  <2>6. ChanOK' /\ IdsOrdered'
    BY <1>1, <1>3, <2>3, <2>5, ShrinkIds
  <2>. QED
    BY <1>1, <2>2, <2>4, <2>6 DEF BInv, GrowIds, Agreement, BackendAgreement
<1>. QED
  BY <1>4, <1>5 DEF GrowDone


LEMMA NextTokenDoneBInv ==
  ASSUME BInv, BackendContract, NextTokenDone
  PROVE  BInv'
<1>1. IInv' /\ TypeOK /\ ChanOK /\ IdsOrdered
  BY NextTokenDoneIInv DEF BInv, IInv
<1>2. pc = "step" /\ Stepped(batches) = Live
  BY DEF NextTokenDone, BInv, Agreement, BackendAgreement
<1>3. UNCHANGED <<chan, eid, nextId, newBatch, startId>>
  BY DEF NextTokenDone
<1>4. CASE /\ Stepped(batches) = {}
           /\ batches' = <<>>
           /\ pc' = "wait"
           /\ UNCHANGED phase
  <2>1. Live' = Live /\ Queued' = Queued /\ Live = {}
    BY <1>2, <1>4 DEF Live, Queued
  <2>2. ChanOK' /\ IdsOrdered'
    BY <1>1, <1>3, <1>4, <2>1 DEF ChanOK, IdsOrdered
  <2>. QED
    BY <1>1, <1>4, <2>1, <2>2 DEF BInv, GrowIds, Agreement, BackendAgreement
<1>5. CASE /\ SendErrors(0)
           /\ batches' = <<>>
           /\ pc' = "wait"
  <2>1. Live' = {} /\ Queued' = Queued /\ \A r \in Req \ Live : phase'[r] = phase[r]
    BY <1>1, <1>5, SendErrorsLive
  <2>2. ChanOK' /\ IdsOrdered'
    BY <1>1, <1>3, <2>1, ShrinkIds
  <2>. QED
    BY <1>1, <1>5, <2>1, <2>2 DEF BInv, GrowIds, Agreement, BackendAgreement
<1>6. CASE \E out \in Responses(Stepped(batches)) :
             /\ ApplyTokens(Stepped(batches), out)
             /\ batches' = <<NewCached(Stepped(batches), out)>>
             /\ pc' = IF Stepped(batches) \subseteq Live THEN "loop" ELSE "crashed"
  <2>1. PICK out \in Responses(Live) :
             /\ ApplyTokens(Live, out)
             /\ batches' = <<NewCached(Live, out)>>
             /\ pc' = "loop"
    BY <1>2, <1>6
  <2>2. /\ Live' = {s \in Live : Result(Live, out)[s] = "NotFinished"}
        /\ Queued' = Queued /\ \A r \in Req \ Live : phase'[r] = phase[r]
        /\ Live' \subseteq Live
    <3>1. /\ Live' = (Live \ Live) \cup
                     {s \in Live : Result(Live, out)[s] = "NotFinished"}
          /\ Queued' = Queued /\ \A r \in Req \ Live : phase'[r] = phase[r]
      BY <1>1, <2>1, ApplyTokensLive
    <3>. QED
      BY <3>1
  <2>3. Stepped(batches') = Live'
    <3>1. Live \in SUBSET Req /\ ~GenErrors
      BY DEF BackendContract, Live
    <3>. QED
      BY <2>1, <2>2, <3>1, NewCachedSteps, SteppedOne
  <2>4. ChanOK' /\ IdsOrdered'
    BY <1>1, <1>3, <2>2, ShrinkIds
  <2>. QED
    BY <1>1, <2>1, <2>3, <2>4 DEF BInv, GrowIds, Agreement, BackendAgreement
<1>. QED
  BY <1>4, <1>5, <1>6 DEF NextTokenDone


-----------------------------------------------------------------------------
LEMMA InitBInv == Init => BInv
<1>. SUFFICES ASSUME Init PROVE BInv
  OBVIOUS
<1>1. IInv
  BY InitIInv
<1>2. Live = {} /\ Queued = {} /\ chan = <<>> /\ batches = <<>> /\ pc = "wait"
  BY DEF Init, Live, Queued
<1>. QED
  BY <1>1, <1>2, SteppedNone DEF BInv, ChanOK, IdsOrdered, GrowIds, Agreement,
                                  BackendAgreement

LEMMA NextBInv ==
  ASSUME BInv, BackendContract, [Next]_vars
  PROVE  BInv'
<1>1. CASE \E r \in Req, p \in Params : Infer(r, p)
  BY <1>1, InferBInv
<1>2. CASE \E g \in BatchLists :
             \E ps \in [DOMAIN g -> {p \in Params : ~p.stream}] : InferBatch(g, ps)
  BY <1>2, InferBatchBInv
<1>3. CASE \E r \in Req : Cancel(r)
  BY <1>3, CancelBInv
<1>4. CASE \E r \in Req : Expire(r)
  BY <1>4, ExpireBInv
<1>5. CASE BatchingTask
  BY <1>5, NextBatchBInv, PrefillDoneBInv, TryGrowBInv, GrowDoneBInv,
     NextTokenDoneBInv DEF BatchingTask
<1>6. CASE Idle \/ UNCHANGED vars
  <2>1. UNCHANGED vars
    BY <1>6 DEF Idle
  <2>. QED
    BY <2>1 DEF vars, BInv, IInv, TypeOK, ChanOK, IdsOrdered, GrowIds, Agreement,
                BackendAgreement, Live, Queued
<1>. QED
  BY <1>1, <1>2, <1>3, <1>4, <1>5, <1>6 DEF Next

\* Under the two backend contracts, the entries map of batching_task agrees
\* with the server at every await (lines 356-431 with the status of
\* process_next_tokens and the pruning hack): the server steps exactly the
\* live entries, a prefill in flight adds its batch disjointly, and the task
\* only waits on the queue with an empty map.
THEOREM BackendAgreementHolds == BackendContract => (Spec => []BackendAgreement)
<1>. SUFFICES ASSUME BackendContract PROVE Spec => []BackendAgreement
  OBVIOUS
<1>1. Init => BInv
  BY InitBInv
<1>2. BInv /\ [Next]_vars => BInv'
  BY NextBInv
<1>3. BInv => BackendAgreement
  BY DEF BInv, Agreement
<1>. QED
  BY <1>1, <1>2, <1>3, PTL DEF Spec

\* Under the same contracts, the expect calls of process_next_tokens
\* (lines 588-589 and 692-693) never panic: the server never returns a
\* token for an id the entries map does not hold.
THEOREM NoPanicHolds == BackendContract => (Spec => []NoPanic)
<1>. SUFFICES ASSUME BackendContract PROVE Spec => []NoPanic
  OBVIOUS
<1>1. Init => BInv
  BY InitBInv
<1>2. BInv /\ [Next]_vars => BInv'
  BY NextBInv
<1>3. BInv => NoPanic
  BY DEF BInv, Agreement, NoPanic
<1>. QED
  BY <1>1, <1>2, <1>3, PTL DEF Spec

=============================================================================
