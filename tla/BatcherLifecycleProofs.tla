------------------------ MODULE BatcherLifecycleProofs ------------------------
(***************************************************************************)
(* Proof that Batcher implements RequestLifecycle under the refinement     *)
(* mapping of BatcherLifecycle, for every value of the constants, under    *)
(* the backend contracts of BatcherAgreement (which keep the tokens the    *)
(* server returns to live entries).                                        *)
(***************************************************************************)
EXTENDS BatcherLifecycle, BatcherAgreement

\* The stage of every phase is a stage of the lifecycle.
LEMMA StageType ==
  ASSUME NEW p \in Phases
  PROVE  Stage(p) \in Life!Stages
BY DEF Stage, Phases, Life!Stages

\* A step of batching_task that moves every request along the lifecycle is
\* a Serve step.
LEMMA ServeIntro ==
  ASSUME TypeOK', rxOpen' = rxOpen,
         \A r \in Req : \/ Life!Keep(r) \/ Life!Admit(r) \/ Life!TimeOut(r)
                        \/ Life!Generate(r) \/ Life!Finish(r) \/ Life!Abandon(r)
  PROVE  Life!Serve
<1>1. [r \in Req |-> Stage(phase[r])]' \in [Req -> Life!Stages]
  BY StageType DEF TypeOK
<1>2. gen' \in [Req -> Nat] /\ final' \in [Req -> Nat] /\ reason' \in [Req -> Life!Reasons]
  BY DEF TypeOK, Reasons, Life!Reasons
<1>. QED
  BY <1>1, <1>2 DEF Life!Serve

\* The queue's next batch: expired entries time out with a reply, the batch
\* is admitted, the rest stays pending.
LEMMA PullServe ==
  ASSUME TypeOK, TypeOK', ChanOK, NEW B \in SUBSET Avail, Pull(B),
         UNCHANGED <<gen, rxOpen>>
  PROVE  Life!Serve
<1>1. Pool \subseteq Req /\ \A x \in Pool : phase[x] \in {"chan", "queued"}
  BY PoolType DEF Pool, InChan, Queued, ChanOK
<1>2. ASSUME NEW r \in Req
      PROVE  \/ Life!Keep(r) \/ Life!Admit(r) \/ Life!TimeOut(r)
  <2>1. phase'[r] = IF r \in Late THEN "done"
                    ELSE IF r \in B THEN "live"
                    ELSE IF r \in Pool THEN "queued"
                    ELSE phase[r]
    BY DEF Pull
  <2>2. /\ final'[r] = IF r \in Late THEN final[r] + 1 ELSE final[r]
        /\ reason'[r] = IF r \in Late THEN "TimeLimit" ELSE reason[r]
    BY DEF Pull
  <2>3. CASE r \in Late
    <3>1. r \in Pool
      BY <2>3 DEF Late
    <3>. QED
      BY <1>1, <2>1, <2>2, <2>3, <3>1 DEF Life!TimeOut, Stage
  <2>4. CASE r \notin Late /\ r \in B
    <3>1. r \in Pool
      BY <2>4 DEF Avail
    <3>. QED
      BY <1>1, <2>1, <2>2, <2>4, <3>1 DEF Life!Admit, Stage
  <2>5. CASE r \notin Late /\ r \notin B /\ r \in Pool
    BY <1>1, <2>1, <2>2, <2>5 DEF Life!Keep, Stage
  <2>6. CASE r \notin Late /\ r \notin B /\ r \notin Pool
    BY <2>1, <2>2, <2>6 DEF Life!Keep
  <2>. QED
    BY <2>3, <2>4, <2>5, <2>6
<1>. QED
  BY <1>2, ServeIntro

\* process_next_tokens only cancels an entry whose client closed its sender.
LEMMA TokenResultCancelled ==
  ASSUME NEW r, NEW t, TokenResult(r, t) = "Cancelled"
  PROVE  ~rxOpen[r]
BY DEF TokenResult, StopReason

\* process_next_tokens on live entries S: an entry that stays gains its
\* token, an entry that ends gets its reply or, cancelled, none.
LEMMA ApplyServe ==
  ASSUME TypeOK, TypeOK', NEW S \in SUBSET Live, NEW out, ApplyTokens(S, out),
         rxOpen' = rxOpen
  PROVE  Life!Serve
<1>. DEFINE res == Result(S, out)
<1>2. ASSUME NEW r \in Req
      PROVE  \/ Life!Keep(r) \/ Life!Generate(r) \/ Life!Finish(r) \/ Life!Abandon(r)
  <2>1. /\ gen'[r] = IF r \in S /\ out[r] # GenError THEN gen[r] + 1 ELSE gen[r]
        /\ phase'[r] = IF r \in S /\ res[r] # "NotFinished" THEN "done" ELSE phase[r]
        /\ final'[r] = IF r \in S /\ res[r] \notin {"NotFinished", "Cancelled"}
                       THEN final[r] + 1 ELSE final[r]
        /\ reason'[r] = IF r \in S /\ res[r] # "NotFinished" THEN res[r] ELSE reason[r]
    BY DEF ApplyTokens
  <2>2. CASE r \notin S
    BY <2>1, <2>2 DEF Life!Keep
  <2>3. CASE r \in S
    <3>1. phase[r] = "live" /\ gen[r] \in Nat
      BY <2>3 DEF Live, TypeOK
    <3>2. res[r] = IF out[r] = GenError THEN "Error" ELSE TokenResult(r, out[r])
      BY <2>3 DEF Result
    <3>3. CASE res[r] = "NotFinished"
      <4>1. out[r] # GenError
        BY <3>2, <3>3
      <4>. QED
        BY <2>1, <2>3, <3>1, <3>3, <4>1 DEF Life!Generate, Stage
    <3>4. CASE res[r] = "Cancelled"
      <4>1. out[r] # GenError /\ TokenResult(r, out[r]) = "Cancelled"
        BY <3>2, <3>4
      <4>2. ~rxOpen[r]
        BY <4>1, TokenResultCancelled
      <4>. QED
        BY <2>1, <2>3, <3>1, <3>4, <4>2 DEF Life!Abandon, Stage
    <3>5. CASE res[r] \notin {"NotFinished", "Cancelled"}
      <4>1. reason'[r] \in Life!Reasons \ {"NotFinished", "Cancelled"}
        BY <2>1, <2>3, <3>5 DEF TypeOK, Reasons, Life!Reasons
      <4>. QED
        BY <2>1, <2>3, <3>1, <3>5, <4>1 DEF Life!Finish, Stage
    <3>. QED
      BY <3>3, <3>4, <3>5
  <2>. QED
    BY <2>2, <2>3
<1>. QED
  BY <1>2, ServeIntro

\* send_errors: every entry it hits is live and ends with an Error reply.
LEMMA SendErrorsServe ==
  ASSUME TypeOK, TypeOK', NEW start, SendErrors(start), UNCHANGED <<gen, rxOpen>>
  PROVE  Life!Serve
<1>2. ASSUME NEW r \in Req
      PROVE  Life!Keep(r) \/ Life!Finish(r)
  <2>. DEFINE hit == {x \in Live : start = 0 \/ eid[x] >= start}
  <2>1. /\ phase'[r] = IF r \in hit THEN "done" ELSE phase[r]
        /\ final'[r] = IF r \in hit THEN final[r] + 1 ELSE final[r]
        /\ reason'[r] = IF r \in hit THEN "Error" ELSE reason[r]
    BY DEF SendErrors
  <2>2. CASE r \in hit
    <3>1. phase[r] = "live" /\ gen[r] \in Nat
      BY <2>2 DEF Live, TypeOK
    <3>. QED
      BY <2>1, <2>2, <3>1 DEF Life!Finish, Stage, Life!Reasons
  <2>3. CASE r \notin hit
    BY <2>1, <2>3 DEF Life!Keep
  <2>. QED
    BY <2>2, <2>3
<1>. QED
  BY <1>2, ServeIntro

-----------------------------------------------------------------------------
(* Every step of the batcher is a lifecycle step or a stutter of it.       *)

\* A step that changes none of the mapped variables is a lifecycle stutter.
LEMMA MappedStutter ==
  ASSUME UNCHANGED <<phase, gen, final, reason, rxOpen>>
  PROVE  [Life!Next]_Life!avars
BY DEF Life!avars

LEMMA InferRefines ==
  ASSUME TypeOK, NEW r \in Req, NEW p \in Params, Infer(r, p)
  PROVE  [Life!Next]_Life!avars
<1>1. phase[r] = "idle" /\ UNCHANGED <<gen, final, reason, rxOpen>>
  BY DEF Infer
<1>2. \E to \in {"pending", "rejected"} :
        [x \in Req |-> Stage(phase'[x])] =
          [x \in Req |-> IF x \in {r} THEN to ELSE Stage(phase[x])]
  <2>1. CASE slots < QueueSize
    <3>1. phase' = [phase EXCEPT ![r] = "chan"]
      BY <2>1 DEF Infer
    <3>2. ASSUME NEW x \in Req
          PROVE  Stage(phase'[x]) = IF x \in {r} THEN "pending" ELSE Stage(phase[x])
      <4>1. CASE x \in {r}
        <5>1. phase'[x] = "chan"
          BY <3>1, <4>1 DEF TypeOK
        <5>. QED
          BY <4>1, <5>1 DEF Stage
      <4>2. CASE x \notin {r}
        BY <3>1, <4>2 DEF TypeOK
      <4>. QED
        BY <4>1, <4>2
    <3>. QED
      BY <3>2
  <2>2. CASE ~(slots < QueueSize)
    <3>1. phase' = [phase EXCEPT ![r] = "rejected"]
      BY <2>2 DEF Infer
    <3>2. ASSUME NEW x \in Req
          PROVE  Stage(phase'[x]) = IF x \in {r} THEN "rejected" ELSE Stage(phase[x])
      <4>1. CASE x \in {r}
        <5>1. phase'[x] = "rejected"
          BY <3>1, <4>1 DEF TypeOK
        <5>. QED
          BY <4>1, <5>1 DEF Stage
      <4>2. CASE x \notin {r}
        BY <3>1, <4>2 DEF TypeOK
      <4>. QED
        BY <4>1, <4>2
    <3>. QED
      BY <3>2
  <2>. QED
    BY <2>1, <2>2
<1>3. Life!Submit({r})
  <2>1. \A x \in {r} : [y \in Req |-> Stage(phase[y])][x] = "idle"
    BY <1>1 DEF Stage
  <2>. QED
    BY <1>1, <1>2, <2>1 DEF Life!Submit
<1>. QED
  BY <1>3 DEF Life!Next

LEMMA InferBatchRefines ==
  ASSUME TypeOK, NEW g \in BatchLists,
         NEW ps \in [DOMAIN g -> {q \in Params : ~q.stream}], InferBatch(g, ps)
  PROVE  [Life!Next]_Life!avars
<1>. DEFINE G == {x \in Req : \E i \in DOMAIN g : g[i] = x}
<1>1. G # {} /\ \A x \in G : phase[x] = "idle"
  <2>1. PICK k \in 2..Cardinality(Idles) : g \in [1..k -> Idles]
    BY DEF BatchLists
  <2>2. g[1] \in G
    BY <2>1 DEF Idles
  <2>. QED
    BY <2>2 DEF InferBatch
<1>2. UNCHANGED <<gen, final, reason, rxOpen>>
  BY DEF InferBatch
<1>3. \E to \in {"pending", "rejected"} :
        [x \in Req |-> Stage(phase'[x])] =
          [x \in Req |-> IF x \in G THEN to ELSE Stage(phase[x])]
  <2>1. CASE slots < QueueSize
    <3>1. phase' = [x \in Req |-> IF x \in G THEN "chan" ELSE phase[x]]
      BY <2>1 DEF InferBatch
    <3>2. ASSUME NEW x \in Req
          PROVE  Stage(phase'[x]) = IF x \in G THEN "pending" ELSE Stage(phase[x])
      <4>1. CASE x \in G
        <5>1. phase'[x] = "chan"
          BY <3>1, <4>1 DEF TypeOK
        <5>. QED
          BY <4>1, <5>1 DEF Stage
      <4>2. CASE x \notin G
        BY <3>1, <4>2 DEF TypeOK
      <4>. QED
        BY <4>1, <4>2
    <3>. QED
      BY <3>2
  <2>2. CASE ~(slots < QueueSize)
    <3>1. phase' = [x \in Req |-> IF x \in G THEN "rejected" ELSE phase[x]]
      BY <2>2 DEF InferBatch
    <3>2. ASSUME NEW x \in Req
          PROVE  Stage(phase'[x]) = IF x \in G THEN "rejected" ELSE Stage(phase[x])
      <4>1. CASE x \in G
        <5>1. phase'[x] = "rejected"
          BY <3>1, <4>1 DEF TypeOK
        <5>. QED
          BY <4>1, <5>1 DEF Stage
      <4>2. CASE x \notin G
        BY <3>1, <4>2 DEF TypeOK
      <4>. QED
        BY <4>1, <4>2
    <3>. QED
      BY <3>2
  <2>. QED
    BY <2>1, <2>2
<1>4. Life!Submit(G)
  <2>1. \A x \in G : [y \in Req |-> Stage(phase[y])][x] = "idle"
    BY <1>1 DEF Stage
  <2>. QED
    BY <1>1, <1>2, <1>3, <2>1 DEF Life!Submit
<1>. QED
  BY <1>4 DEF Life!Next

LEMMA CancelRefines ==
  ASSUME NEW r \in Req, Cancel(r)
  PROVE  [Life!Next]_Life!avars
<1>1. Life!Drop(r)
  BY DEF Cancel, Life!Drop, Stage
<1>. QED
  BY <1>1 DEF Life!Next

\* Taking a batch from the queue, at the top of the loop or to grow.
LEMMA PullRefines ==
  ASSUME TypeOK, TypeOK', ChanOK, NEW k, NEW B \in Prefixes(k), Pull(B),
         UNCHANGED <<gen, rxOpen>>
  PROVE  [Life!Next]_Life!avars
<1>1. B \in SUBSET Avail
  BY DEF Prefixes
<1>. QED
  BY <1>1, PullServe DEF Life!Next

LEMMA NextBatchRefines ==
  ASSUME TypeOK, TypeOK', ChanOK, NextBatch
  PROVE  [Life!Next]_Life!avars
<1>1. PICK B \in Prefixes(SizeLimit - Cardinality(Live)) : Pull(B)
  BY DEF NextBatch
<1>. QED
  BY <1>1, PullRefines DEF NextBatch

LEMMA TryGrowRefines ==
  ASSUME TypeOK, TypeOK', ChanOK, TryGrow
  PROVE  [Life!Next]_Life!avars
<1>1. UNCHANGED <<gen, rxOpen>>
  BY DEF TryGrow
<1>2. CASE \E B \in Prefixes(SizeLimit - Cardinality(Live)) : Pull(B)
  BY <1>1, <1>2, PullRefines
<1>3. CASE UNCHANGED <<phase, final, reason>>
  BY <1>1, <1>3, MappedStutter
<1>. QED
  BY <1>2, <1>3 DEF TryGrow

\* A backend answer for the live entries S, or a failed call.
LEMMA AnswerRefines ==
  ASSUME TypeOK, TypeOK', NEW S \in SUBSET Live, rxOpen' = rxOpen,
         \/ \E start : SendErrors(start) /\ UNCHANGED gen
         \/ \E out \in Responses(S) : ApplyTokens(S, out)
  PROVE  [Life!Next]_Life!avars
BY ApplyServe, SendErrorsServe DEF Life!Next

LEMMA PrefillDoneRefines ==
  ASSUME BInv, PrefillDone
  PROVE  [Life!Next]_Life!avars
<1>1. TypeOK /\ TypeOK'
  BY PrefillDoneIInv DEF BInv, IInv
<1>2. newBatch \subseteq Live
  BY SteppedNone DEF PrefillDone, BInv, Agreement, BackendAgreement
<1>. QED
  BY <1>1, <1>2, AnswerRefines DEF PrefillDone

LEMMA GrowDoneRefines ==
  ASSUME BInv, GrowDone
  PROVE  [Life!Next]_Life!avars
<1>1. TypeOK /\ TypeOK'
  BY GrowDoneIInv DEF BInv, IInv
<1>2. newBatch \subseteq Live
  BY DEF GrowDone, BInv, Agreement, BackendAgreement
<1>. QED
  BY <1>1, <1>2, AnswerRefines DEF GrowDone

LEMMA NextTokenDoneRefines ==
  ASSUME BInv, NextTokenDone
  PROVE  [Life!Next]_Life!avars
<1>1. TypeOK /\ TypeOK' /\ rxOpen' = rxOpen
  BY NextTokenDoneIInv DEF BInv, IInv, NextTokenDone
<1>2. Stepped(batches) = Live
  BY DEF NextTokenDone, BInv, Agreement, BackendAgreement
<1>3. CASE UNCHANGED <<phase, final, reason, gen>>
  BY <1>1, <1>3, MappedStutter
<1>4. CASE ~UNCHANGED <<phase, final, reason, gen>>
  <2>1. \/ SendErrors(0) /\ UNCHANGED gen
        \/ \E out \in Responses(Live) : ApplyTokens(Live, out)
    BY <1>2, <1>4 DEF NextTokenDone
  <2>. QED
    BY <1>1, <2>1, AnswerRefines
<1>. QED
  BY <1>3, <1>4

LEMMA NextRefines ==
  ASSUME BInv, BackendContract, [Next]_vars
  PROVE  [Life!Next]_Life!avars
<1>1. TypeOK /\ TypeOK' /\ ChanOK
  BY NextBInv DEF BInv, IInv
<1>2. CASE \E r \in Req, p \in Params : Infer(r, p)
  BY <1>1, <1>2, InferRefines
<1>3. CASE \E g \in BatchLists :
             \E ps \in [DOMAIN g -> {p \in Params : ~p.stream}] : InferBatch(g, ps)
  BY <1>1, <1>3, InferBatchRefines
<1>4. CASE \E r \in Req : Cancel(r)
  BY <1>4, CancelRefines
<1>5. CASE \E r \in Req : Expire(r)
  BY <1>5, MappedStutter DEF Expire
<1>6. CASE BatchingTask
  BY <1>1, <1>6, NextBatchRefines, PrefillDoneRefines, TryGrowRefines,
     GrowDoneRefines, NextTokenDoneRefines DEF BatchingTask
<1>7. CASE Idle \/ UNCHANGED vars
  BY <1>7, MappedStutter DEF Idle, vars
<1>. QED
  BY <1>2, <1>3, <1>4, <1>5, <1>6, <1>7 DEF Next

LEMMA InitRefines == Init => Life!Init
BY DEF Init, Life!Init, Stage

\* Under the backend contracts, every behaviour of batching_task and its
\* clients is one of the request lifecycle (LifecycleRefined): each step
\* moves a request at most one stage on and by at most one token, replies
\* at most once, and cancels only after the client dropped its receiver.
THEOREM LifecycleRefinedHolds == BackendContract => (Spec => LifecycleRefined)
<1>. SUFFICES ASSUME BackendContract PROVE Spec => Life!Spec
  BY DEF LifecycleRefined
<1>1. Init => BInv /\ Life!Init
  BY InitBInv, InitRefines
<1>2. BInv /\ [Next]_vars => BInv' /\ [Life!Next]_Life!avars
  BY NextBInv, NextRefines
<1>. QED
  BY <1>1, <1>2, PTL DEF Spec, Life!Spec

=============================================================================
