---------------------------- MODULE BatcherReplies ----------------------------
(***************************************************************************)
(* The inductive invariant behind TerminalOnce, StopCriteriaRespected,     *)
(* CancelDetected and InputTokensFresh: what each request's counters and   *)
(* reply state are in each phase.  A request outside the entries map that  *)
(* has not ended is untouched; a live one has no reply yet, is below       *)
(* max_new_tokens and, once its client dropped the receiver, has passed    *)
(* no cancellation poll; an ended one was answered once or cancelled.      *)
(***************************************************************************)
EXTENDS BatcherAgreement

\* Not yet in the entries map (or rejected): nothing generated or sent.
Untouched(r) ==
  /\ gen[r] = 0 /\ final[r] = 0 /\ reason[r] = "NotFinished"
  /\ closedAt[r] = 0

\* Since the client dropped its receiver, the live entry has passed no
\* point where process_next_tokens would notice (lines 664-677).
NoPollPassed(r) ==
  ~rxOpen[r] =>
    /\ closedAt[r] <= gen[r]
    /\ par[r].stream => gen[r] = closedAt[r]
    /\ \A k \in (closedAt[r] + 1)..gen[r] : k % CancelCheckPeriod # 0

\* In the entries map: no reply yet, below max_new_tokens.
Running(r) ==
  /\ final[r] = 0 /\ reason[r] = "NotFinished"
  /\ gen[r] < par[r].max
  /\ NoPollPassed(r)

\* Removed: one terminal reply with its reason, or cancelled without one
\* after the receiver was dropped; and the reason fits the counters.
Ended(r) ==
  /\ \/ final[r] = 1 /\ reason[r] \notin {"NotFinished", "Cancelled"}
     \/ final[r] = 0 /\ reason[r] = "Cancelled" /\ ~rxOpen[r]
  /\ gen[r] <= par[r].max
  /\ reason[r] \in {"EosToken", "StopSequence"} => gen[r] >= par[r].min
  /\ reason[r] \in {"TokenLimit", "MaxTokens"} =>
        /\ gen[r] = par[r].max
        /\ (reason[r] = "TokenLimit") = par[r].tokenLimit
  /\ reason[r] = "TimeLimit" => expired[r]
  /\ reason[r] = "StopSequence" => par[r].stop

ReqInv(r) ==
  /\ phase[r] \notin {"live", "done"} => Untouched(r)
  /\ phase[r] = "live" => Running(r)
  /\ phase[r] = "done" => Ended(r)

\* The inductive invariant: the agreement invariant, every request's
\* state, and the fresh entries of a prefill in flight.
RInv ==
  /\ BInv
  /\ \A r \in Req : ReqInv(r)
  /\ InputTokensFresh

-----------------------------------------------------------------------------
(* Lemmas                                                                  *)

\* A request whose state no step touches keeps its invariant.
LEMMA ReqFrame ==
  ASSUME NEW r, ReqInv(r),
         phase'[r] = phase[r], gen'[r] = gen[r], final'[r] = final[r],
         reason'[r] = reason[r], closedAt'[r] = closedAt[r],
         rxOpen'[r] = rxOpen[r], par'[r] = par[r], expired'[r] = expired[r]
  PROVE  ReqInv(r)'
BY DEF ReqInv, Untouched, Running, NoPollPassed, Ended

\* What one iteration of the token loop decides, for a live entry below
\* max_new_tokens with generated_tokens + 1 = g.
LEMMA TokenResultFacts ==
  ASSUME NEW r, NEW t, par[r] \in ParamsType, gen[r] \in Nat,
         par[r].min <= par[r].max, gen[r] < par[r].max,
         rxOpen[r] \in BOOLEAN
  PROVE  LET g == gen[r] + 1
             x == TokenResult(r, t)
         IN /\ x = "NotFinished" =>
                 /\ g < par[r].max
                 /\ ~rxOpen[r] => ~par[r].stream /\ g % CancelCheckPeriod # 0
            /\ x \in {"EosToken", "StopSequence"} => g >= par[r].min
            /\ x \in {"TokenLimit", "MaxTokens"} =>
                 /\ g = par[r].max
                 /\ (x = "TokenLimit") = par[r].tokenLimit
            /\ x = "TimeLimit" => expired[r]
            /\ x = "StopSequence" => par[r].stop
            /\ x = "Cancelled" => ~rxOpen[r]
            /\ x \in Reasons
<1>. DEFINE g == gen[r] + 1
            sr == StopReason(r, g, t)
<1>1. /\ sr = "NotFinished" => g < par[r].max
      /\ sr \in {"EosToken", "StopSequence"} => g >= par[r].min
      /\ sr \in {"TokenLimit", "MaxTokens"} =>
           /\ g = par[r].max
           /\ (sr = "TokenLimit") = par[r].tokenLimit
      /\ sr = "TimeLimit" => expired[r]
      /\ sr = "StopSequence" => par[r].stop
      /\ sr \in Reasons \ {"Cancelled"}
  BY DEF StopReason, ParamsType, Reasons
<1>2. TokenResult(r, t) =
        IF par[r].stop /\ t.dec = "err" THEN "Error"
        ELSE IF sr # "NotFinished"
             THEN IF par[r].stop /\ t.flushErr THEN "Error" ELSE sr
        ELSE IF par[r].stream
             THEN IF rxOpen[r] THEN "NotFinished" ELSE "Cancelled"
        ELSE IF g % CancelCheckPeriod = 0 /\ ~rxOpen[r] THEN "Cancelled"
        ELSE "NotFinished"
  BY DEF TokenResult
<1>. QED
  BY <1>1, <1>2 DEF Reasons

\* Every request's max_new_tokens is at least 1 and min_new_tokens at most it.
LEMMA ParBounds ==
  ASSUME TypeOK, NEW r \in Req
  PROVE  /\ par[r] \in ParamsType
         /\ 1 <= par[r].max /\ par[r].min <= par[r].max
BY ParamsAssumption DEF TypeOK

\* A queue pull: expired entries end with TimeLimit, the batch joins the
\* entries map untouched, the rest stays queued.
LEMMA PullReqInv ==
  ASSUME TypeOK, ChanOK, NEW B \in SUBSET Avail, Pull(B),
         \A r \in Req : ReqInv(r),
         UNCHANGED <<gen, par, expired, closedAt, rxOpen>>
  PROVE  /\ \A r \in Req : ReqInv(r)'
         /\ \A b \in B : gen'[b] = 0
<1>1. Pool \subseteq Req /\ \A x \in Pool : phase[x] \in {"chan", "queued"}
  BY PoolType DEF Pool, InChan, Queued, ChanOK
<1>2. \A x \in Pool : Untouched(x)
  BY <1>1 DEF ReqInv
<1>3. ASSUME NEW r \in Req PROVE ReqInv(r)'
  <2>1. phase'[r] = IF r \in Late THEN "done"
                    ELSE IF r \in B THEN "live"
                    ELSE IF r \in Pool THEN "queued"
                    ELSE phase[r]
    BY DEF Pull
  <2>2. /\ final'[r] = IF r \in Late THEN final[r] + 1 ELSE final[r]
        /\ reason'[r] = IF r \in Late THEN "TimeLimit" ELSE reason[r]
    BY DEF Pull
  <2>3. /\ par[r].max \in Nat /\ par[r].min \in Nat
        /\ par[r].tokenLimit \in BOOLEAN /\ par[r].stop \in BOOLEAN
        /\ 1 <= par[r].max /\ par[r].min <= par[r].max
    BY ParBounds DEF ParamsType
  <2>4. CASE r \in Late
    <3>1. r \in Pool /\ expired[r]
      BY <2>4 DEF Late
    <3>2. /\ phase'[r] = "done" /\ final'[r] = 1 /\ reason'[r] = "TimeLimit"
          /\ gen'[r] = 0 /\ par'[r] = par[r] /\ expired'[r]
      BY <1>2, <2>1, <2>2, <2>4, <3>1 DEF Untouched
    <3>3. gen'[r] <= par'[r].max
      BY <2>3, <3>2
    <3>4. final'[r] = 1 /\ reason'[r] \notin {"NotFinished", "Cancelled"}
      BY <3>2
    <3>5. reason'[r] = "TimeLimit" => expired'[r]
      BY <3>2
    <3>6. Ended(r)'
      BY <3>2, <3>3, <3>4, <3>5 DEF Ended
    <3>. QED
      BY <3>2, <3>6 DEF ReqInv
  <2>5. CASE r \notin Late /\ r \in B
    <3>1. r \in Pool
      BY <2>5 DEF Avail
    <3>2. /\ phase'[r] = "live" /\ final'[r] = 0 /\ reason'[r] = "NotFinished"
          /\ gen'[r] = 0 /\ closedAt'[r] = 0 /\ par'[r] = par[r]
      BY <1>2, <2>1, <2>2, <2>5, <3>1 DEF Untouched
    <3>3. NoPollPassed(r)'
      BY <3>2 DEF NoPollPassed
    <3>4. Running(r)'
      BY <2>3, <3>2, <3>3 DEF Running
    <3>. QED
      BY <3>2, <3>4 DEF ReqInv
  <2>6. CASE r \notin Late /\ r \notin B /\ r \in Pool
    BY <1>2, <2>1, <2>2, <2>6 DEF ReqInv, Untouched
  <2>7. CASE r \notin Late /\ r \notin B /\ r \notin Pool
    BY <2>1, <2>2, <2>7, ReqFrame
  <2>. QED
    BY <2>4, <2>5, <2>6, <2>7
<1>4. \A b \in B : gen'[b] = 0
  BY <1>2 DEF Avail, Untouched
<1>. QED
  BY <1>3, <1>4

\* send_errors: the live entries it hits end with an Error reply.
LEMMA SendErrorsReqInv ==
  ASSUME TypeOK, NEW start, SendErrors(start), \A r \in Req : ReqInv(r),
         UNCHANGED <<gen, par, expired, closedAt, rxOpen>>
  PROVE  \A r \in Req : ReqInv(r)'
<1>. DEFINE hit == {x \in Live : start = 0 \/ eid[x] >= start}
<1>1. ASSUME NEW r \in Req PROVE ReqInv(r)'
  <2>1. /\ phase'[r] = IF r \in hit THEN "done" ELSE phase[r]
        /\ final'[r] = IF r \in hit THEN final[r] + 1 ELSE final[r]
        /\ reason'[r] = IF r \in hit THEN "Error" ELSE reason[r]
    BY DEF SendErrors
  <2>2. CASE r \in hit
    <3>1. phase[r] = "live" /\ Running(r)
      BY <2>2 DEF Live, ReqInv
    <3>2. /\ phase'[r] = "done" /\ final'[r] = 1 /\ reason'[r] = "Error"
          /\ gen'[r] = gen[r] /\ par'[r] = par[r] /\ gen[r] < par[r].max
      BY <2>1, <2>2, <3>1 DEF Running
    <3>3. gen[r] \in Nat /\ par[r].max \in Nat
      BY ParBounds DEF TypeOK, ParamsType
    <3>. QED
      BY <3>2, <3>3 DEF ReqInv, Ended
  <2>3. CASE r \notin hit
    BY <2>1, <2>3, ReqFrame
  <2>. QED
    BY <2>2, <2>3
<1>. QED
  BY <1>1

\* Without per-request GenerateErrors the backend answers every stepped
\* entry with a token.
LEMMA OutIsToken ==
  ASSUME ~GenErrors, NEW S, NEW out \in Responses(S), NEW r \in S
  PROVE  out[r] \in TokenOutcome /\ out[r] # GenError
<1>1. out[r] \in Outcomes(r)
  BY DEF Responses
<1>2. out[r] \in TokenOutcome
  BY <1>1 DEF Outcomes
<1>. QED
  BY <1>2 DEF TokenOutcome, GenError

\* process_next_tokens on live entries: an entry that stays is still below
\* max_new_tokens and has passed no poll since its receiver was dropped; an
\* entry that ends has its one reply and a reason that fits its counters.
LEMMA ApplyReqInv ==
  ASSUME TypeOK, ~GenErrors, NEW S \in SUBSET Live, NEW out \in Responses(S),
         ApplyTokens(S, out), \A r \in Req : ReqInv(r),
         UNCHANGED <<par, expired, closedAt, rxOpen>>
  PROVE  \A r \in Req : ReqInv(r)'
<1>. DEFINE res == Result(S, out)
<1>1. ASSUME NEW r \in Req PROVE ReqInv(r)'
  <2>1. /\ gen'[r] = IF r \in S /\ out[r] # GenError THEN gen[r] + 1 ELSE gen[r]
        /\ phase'[r] = IF r \in S /\ res[r] # "NotFinished" THEN "done" ELSE phase[r]
        /\ final'[r] = IF r \in S /\ res[r] \notin {"NotFinished", "Cancelled"}
                       THEN final[r] + 1 ELSE final[r]
        /\ reason'[r] = IF r \in S /\ res[r] # "NotFinished" THEN res[r] ELSE reason[r]
    BY DEF ApplyTokens
  <2>2. CASE r \notin S
    BY <2>1, <2>2, ReqFrame
  <2>3. CASE r \in S
    <3>. DEFINE g == gen[r] + 1
                x == TokenResult(r, out[r])
    <3>1. out[r] # GenError /\ res[r] = x
      BY <2>3, OutIsToken DEF Result
    <3>2. phase[r] = "live" /\ Running(r)
      BY <2>3 DEF Live, ReqInv
    <3>3. /\ par[r] \in ParamsType /\ par[r].max \in Nat /\ par[r].min \in Nat
          /\ par[r].tokenLimit \in BOOLEAN /\ par[r].stop \in BOOLEAN
          /\ par[r].stream \in BOOLEAN
          /\ 1 <= par[r].max /\ par[r].min <= par[r].max
          /\ gen[r] \in Nat /\ closedAt[r] \in Nat /\ rxOpen[r] \in BOOLEAN
          /\ expired[r] \in BOOLEAN
      BY ParBounds DEF ParamsType, TypeOK
    <3>4. gen[r] < par[r].max /\ final[r] = 0
      BY <3>2 DEF Running
    <3>5. /\ x = "NotFinished" =>
               /\ g < par[r].max
               /\ ~rxOpen[r] => ~par[r].stream /\ g % CancelCheckPeriod # 0
          /\ x \in {"EosToken", "StopSequence"} => g >= par[r].min
          /\ x \in {"TokenLimit", "MaxTokens"} =>
               /\ g = par[r].max
               /\ (x = "TokenLimit") = par[r].tokenLimit
          /\ x = "TimeLimit" => expired[r]
          /\ x = "StopSequence" => par[r].stop
          /\ x = "Cancelled" => ~rxOpen[r]
          /\ x \in Reasons
      BY <3>3, <3>4, TokenResultFacts
    <3>6. gen'[r] = g /\ par'[r] = par[r] /\ expired'[r] = expired[r]
          /\ closedAt'[r] = closedAt[r] /\ rxOpen'[r] = rxOpen[r]
      BY <2>1, <2>3, <3>1
    <3>7. CASE x = "NotFinished"
      <4>1. phase'[r] = "live" /\ final'[r] = 0 /\ reason'[r] = "NotFinished"
        BY <2>1, <2>3, <3>1, <3>2, <3>4, <3>7 DEF Running
      <4>2. NoPollPassed(r)'
        <5>1. SUFFICES ASSUME ~rxOpen'[r]
                       PROVE  /\ closedAt'[r] <= gen'[r]
                              /\ par'[r].stream => gen'[r] = closedAt'[r]
                              /\ \A k \in (closedAt'[r] + 1)..gen'[r] :
                                   k % CancelCheckPeriod # 0
          BY DEF NoPollPassed
        <5>2. ~rxOpen[r] /\ ~par[r].stream /\ g % CancelCheckPeriod # 0
          BY <3>5, <3>6, <3>7, <5>1
        <5>3. /\ closedAt[r] <= gen[r]
              /\ \A k \in (closedAt[r] + 1)..gen[r] : k % CancelCheckPeriod # 0
          BY <3>2, <5>2 DEF Running, NoPollPassed
        <5>. QED
          BY <3>3, <3>6, <5>2, <5>3
      <4>3. Running(r)'
        BY <3>5, <3>6, <3>7, <4>1, <4>2 DEF Running
      <4>. QED
        BY <4>1, <4>3 DEF ReqInv
    <3>8. CASE x # "NotFinished"
      <4>1. phase'[r] = "done" /\ reason'[r] = x
        BY <2>1, <2>3, <3>1, <3>8
      <4>2. \/ final'[r] = 1 /\ x \notin {"NotFinished", "Cancelled"}
            \/ final'[r] = 0 /\ x = "Cancelled" /\ ~rxOpen'[r]
        BY <2>1, <2>3, <3>1, <3>4, <3>5, <3>6, <3>8
      <4>3. gen'[r] <= par'[r].max
        BY <3>3, <3>4, <3>6
      <4>4. Ended(r)'
        BY <3>5, <3>6, <4>1, <4>2, <4>3 DEF Ended
      <4>. QED
        BY <4>1, <4>4 DEF ReqInv
    <3>. QED
      BY <3>7, <3>8
  <2>. QED
    BY <2>2, <2>3
<1>. QED
  BY <1>1

-----------------------------------------------------------------------------
(* Each action keeps every request's invariant and InputTokensFresh.        *)

\* A step of the task that leaves the prefill awaits, or of a client that
\* leaves the task and every counter alone, keeps InputTokensFresh.
LEMMA FreshKept ==
  ASSUME InputTokensFresh,
         \/ pc' \notin {"prefill", "grow"}
         \/ UNCHANGED <<pc, newBatch, gen>>
  PROVE  InputTokensFresh'
BY DEF InputTokensFresh

LEMMA InferReqInv ==
  ASSUME TypeOK, \A r \in Req : ReqInv(r), NEW r0 \in Req, NEW p \in Params,
         Infer(r0, p)
  PROVE  \A r \in Req : ReqInv(r)'
<1>1. ASSUME NEW r \in Req PROVE ReqInv(r)'
  <2>1. CASE r = r0
    <3>1. phase[r] = "idle" /\ Untouched(r)
      BY <2>1 DEF Infer, ReqInv
    <3>2. phase'[r] \in {"chan", "rejected"}
      BY <2>1 DEF Infer, TypeOK
    <3>3. UNCHANGED <<gen, final, reason, closedAt>>
      BY DEF Infer
    <3>. QED
      BY <3>1, <3>2, <3>3 DEF ReqInv, Untouched
  <2>2. CASE r # r0
    BY <2>2, ReqFrame DEF Infer, TypeOK
  <2>. QED
    BY <2>1, <2>2
<1>. QED
  BY <1>1

LEMMA InferBatchReqInv ==
  ASSUME TypeOK, \A r \in Req : ReqInv(r), NEW g \in BatchLists,
         NEW ps \in [DOMAIN g -> {q \in Params : ~q.stream}], InferBatch(g, ps)
  PROVE  \A r \in Req : ReqInv(r)'
<1>. DEFINE G == {x \in Req : \E i \in DOMAIN g : g[i] = x}
<1>1. UNCHANGED <<gen, final, reason, closedAt, rxOpen, expired>>
  BY DEF InferBatch
<1>2. /\ \A x \in G : phase[x] = "idle" /\ phase'[x] \in {"chan", "rejected"}
      /\ \A x \in Req \ G : phase'[x] = phase[x] /\ par'[x] = par[x]
  BY DEF InferBatch
<1>3. ASSUME NEW r \in Req PROVE ReqInv(r)'
  <2>1. CASE r \in G
    <3>1. Untouched(r)
      BY <1>2, <2>1 DEF ReqInv
    <3>. QED
      BY <1>1, <1>2, <2>1, <3>1 DEF ReqInv, Untouched
  <2>2. CASE r \notin G
    BY <1>1, <1>2, <2>2, ReqFrame
  <2>. QED
    BY <2>1, <2>2
<1>. QED
  BY <1>3

LEMMA CancelReqInv ==
  ASSUME TypeOK, \A r \in Req : ReqInv(r), NEW r0 \in Req, Cancel(r0)
  PROVE  \A r \in Req : ReqInv(r)'
<1>1. ASSUME NEW r \in Req PROVE ReqInv(r)'
  <2>1. CASE r = r0
    <3>1. /\ phase'[r] = phase[r] /\ phase[r] \in {"chan", "queued", "live"}
          /\ closedAt'[r] = gen[r] /\ ~rxOpen'[r]
          /\ UNCHANGED <<gen, final, reason, par>>
      BY <2>1 DEF Cancel, TypeOK
    <3>2. CASE phase[r] \in {"chan", "queued"}
      BY <3>1, <3>2 DEF ReqInv, Untouched
    <3>3. CASE phase[r] = "live"
      <4>1. Running(r)
        BY <3>3 DEF ReqInv
      <4>2. gen[r] \in Nat
        BY DEF TypeOK
      <4>3. NoPollPassed(r)'
        BY <3>1, <4>2 DEF NoPollPassed
      <4>. QED
        BY <3>1, <3>3, <4>1, <4>3 DEF ReqInv, Running
    <3>. QED
      BY <3>1, <3>2, <3>3
  <2>2. CASE r # r0
    BY <2>2, ReqFrame DEF Cancel, TypeOK
  <2>. QED
    BY <2>1, <2>2
<1>. QED
  BY <1>1

LEMMA ExpireReqInv ==
  ASSUME TypeOK, \A r \in Req : ReqInv(r), NEW r0 \in Req, Expire(r0)
  PROVE  \A r \in Req : ReqInv(r)'
<1>1. ASSUME NEW r \in Req PROVE ReqInv(r)'
  <2>1. CASE r = r0
    <3>1. /\ phase'[r] = phase[r] /\ phase[r] \in {"chan", "queued", "live"}
          /\ UNCHANGED <<gen, final, reason, par, closedAt, rxOpen>>
      BY <2>1 DEF Expire
    <3>. QED
      BY <3>1 DEF ReqInv, Untouched, Running, NoPollPassed
  <2>2. CASE r # r0
    BY <2>2, ReqFrame DEF Expire, TypeOK
  <2>. QED
    BY <2>1, <2>2
<1>. QED
  BY <1>1

LEMMA NextBatchRInv ==
  ASSUME TypeOK, ChanOK, \A r \in Req : ReqInv(r), NextBatch
  PROVE  (\A r \in Req : ReqInv(r))' /\ InputTokensFresh'
<1>1. PICK B \in Prefixes(SizeLimit - Cardinality(Live)) :
        /\ Pull(B)
        /\ IF B # {} THEN pc' = "prefill" /\ newBatch' = B
                     ELSE UNCHANGED <<pc, newBatch>>
  BY DEF NextBatch
<1>2. pc = "wait" /\ UNCHANGED <<gen, par, expired, closedAt, rxOpen>>
  BY DEF NextBatch
<1>3. (\A r \in Req : ReqInv(r))' /\ \A b \in B : gen'[b] = 0
  BY <1>1, <1>2, PullReqInv DEF Prefixes
<1>. QED
  BY <1>1, <1>2, <1>3 DEF InputTokensFresh

LEMMA TryGrowRInv ==
  ASSUME TypeOK, ChanOK, \A r \in Req : ReqInv(r), TryGrow
  PROVE  (\A r \in Req : ReqInv(r))' /\ InputTokensFresh'
<1>1. UNCHANGED <<gen, par, expired, closedAt, rxOpen>>
  BY DEF TryGrow
<1>2. CASE \E B \in Prefixes(SizeLimit - Cardinality(Live)) :
             /\ Pull(B)
             /\ IF B # {}
                THEN /\ pc' = "grow"
                     /\ newBatch' = B
                     /\ startId' = FirstNewId(B)
                ELSE /\ pc' = "step"
                     /\ UNCHANGED <<newBatch, startId>>
  <2>1. PICK B \in Prefixes(SizeLimit - Cardinality(Live)) :
             /\ Pull(B)
             /\ IF B # {}
                THEN /\ pc' = "grow"
                     /\ newBatch' = B
                     /\ startId' = FirstNewId(B)
                ELSE /\ pc' = "step"
                     /\ UNCHANGED <<newBatch, startId>>
    BY <1>2
  <2>2. (\A r \in Req : ReqInv(r))' /\ \A b \in B : gen'[b] = 0
    BY <1>1, <2>1, PullReqInv DEF Prefixes
  <2>. QED
    BY <2>1, <2>2 DEF InputTokensFresh
<1>3. CASE /\ pc' = "step"
           /\ UNCHANGED <<phase, final, reason>>
  <2>1. ASSUME NEW r \in Req PROVE ReqInv(r)'
    BY <1>1, <1>3, ReqFrame
  <2>. QED
    BY <1>3, <2>1 DEF InputTokensFresh
<1>. QED
  BY <1>2, <1>3 DEF TryGrow

\* A backend answer to the live entries S, or a failed call, after which
\* the task is no longer at a prefill await.
LEMMA AnswerRInv ==
  ASSUME TypeOK, ~GenErrors, \A r \in Req : ReqInv(r), InputTokensFresh,
         NEW S \in SUBSET Live,
         UNCHANGED <<par, expired, closedAt, rxOpen>>,
         pc' \notin {"prefill", "grow"},
         \/ \E start : SendErrors(start) /\ UNCHANGED gen
         \/ \E out \in Responses(S) : ApplyTokens(S, out)
  PROVE  (\A r \in Req : ReqInv(r))' /\ InputTokensFresh'
BY ApplyReqInv, SendErrorsReqInv, FreshKept

LEMMA PrefillDoneRInv ==
  ASSUME BInv, BackendContract, \A r \in Req : ReqInv(r), InputTokensFresh,
         PrefillDone
  PROVE  (\A r \in Req : ReqInv(r))' /\ InputTokensFresh'
<1>1. TypeOK /\ ~GenErrors
  BY DEF BInv, IInv, BackendContract
<1>2. newBatch \subseteq Live
  BY SteppedNone DEF PrefillDone, BInv, Agreement, BackendAgreement
<1>3. pc' \notin {"prefill", "grow"}
  BY DEF PrefillDone
<1>. QED
  BY <1>1, <1>2, <1>3, AnswerRInv DEF PrefillDone

LEMMA GrowDoneRInv ==
  ASSUME BInv, BackendContract, \A r \in Req : ReqInv(r), InputTokensFresh,
         GrowDone
  PROVE  (\A r \in Req : ReqInv(r))' /\ InputTokensFresh'
<1>1. TypeOK /\ ~GenErrors
  BY DEF BInv, IInv, BackendContract
<1>2. newBatch \subseteq Live
  BY DEF GrowDone, BInv, Agreement, BackendAgreement
<1>3. pc' \notin {"prefill", "grow"}
  BY DEF GrowDone
<1>. QED
  BY <1>1, <1>2, <1>3, AnswerRInv DEF GrowDone

LEMMA NextTokenDoneRInv ==
  ASSUME BInv, BackendContract, \A r \in Req : ReqInv(r), InputTokensFresh,
         NextTokenDone
  PROVE  (\A r \in Req : ReqInv(r))' /\ InputTokensFresh'
<1>1. TypeOK /\ ~GenErrors
  BY DEF BInv, IInv, BackendContract
<1>2. Stepped(batches) = Live
  BY DEF NextTokenDone, BInv, Agreement, BackendAgreement
<1>3. pc' \notin {"prefill", "grow"} /\ UNCHANGED <<par, expired, closedAt, rxOpen>>
  BY DEF NextTokenDone
<1>4. CASE UNCHANGED <<phase, final, reason, gen>>
  <2>1. ASSUME NEW r \in Req PROVE ReqInv(r)'
    BY <1>3, <1>4, ReqFrame
  <2>. QED
    BY <1>3, <2>1, FreshKept
<1>5. CASE ~UNCHANGED <<phase, final, reason, gen>>
  <2>1. \/ SendErrors(0) /\ UNCHANGED gen
        \/ \E out \in Responses(Live) : ApplyTokens(Live, out)
    BY <1>2, <1>5 DEF NextTokenDone
  <2>. QED
    BY <1>1, <1>3, <2>1, AnswerRInv
<1>. QED
  BY <1>4, <1>5

-----------------------------------------------------------------------------
\* Rounding c up past itself to a multiple of P.
LEMMA NextMultiple ==
  ASSUME NEW c \in Nat, NEW P \in Nat \ {0}
  PROVE  /\ c % P \in 0..(P - 1)
         /\ (c + P - (c % P)) % P = 0
<1>1. c % P \in 0..(P - 1)
  BY SMTT(30)
<1>2. (c + P - (c % P)) % P = 0
  BY SMTT(30)
<1>. QED
  BY <1>1, <1>2

\* Among P consecutive numbers one is a multiple of P: a stretch c+1..n
\* without one is shorter than P.
LEMMA NoMultipleGap ==
  ASSUME NEW c \in Nat, NEW n \in Nat, NEW P \in Nat \ {0}, c <= n,
         \A k \in (c + 1)..n : k % P # 0
  PROVE  n < c + P
<1>1. SUFFICES ASSUME n >= c + P PROVE FALSE
  OBVIOUS
<1>. DEFINE w == c + P - (c % P)
<1>2. c % P \in 0..(P - 1)
  BY NextMultiple
<1>3. w % P = 0
  BY NextMultiple
<1>4. w \in (c + 1)..n
  BY <1>1, <1>2
<1>. QED
  BY <1>3, <1>4

LEMMA InitRInv == Init => RInv
<1>. SUFFICES ASSUME Init PROVE RInv
  OBVIOUS
<1>1. BInv
  BY InitBInv
<1>2. \A r \in Req : ReqInv(r)
  BY DEF Init, ReqInv, Untouched
<1>3. InputTokensFresh
  BY DEF Init, InputTokensFresh
<1>. QED
  BY <1>1, <1>2, <1>3 DEF RInv

LEMMA NextRInv ==
  ASSUME RInv, BackendContract, [Next]_vars
  PROVE  RInv'
<1>1. BInv' /\ BInv /\ TypeOK /\ ChanOK
  BY NextBInv DEF RInv, BInv, IInv
<1>2. \A r \in Req : ReqInv(r)
  BY DEF RInv
<1>3. InputTokensFresh
  BY DEF RInv
<1>4. (\A r \in Req : ReqInv(r))' /\ InputTokensFresh'
  <2>1. CASE \E r \in Req, p \in Params : Infer(r, p)
    <3>1. UNCHANGED <<pc, newBatch, gen>>
      BY <2>1 DEF Infer
    <3>. QED
      BY <1>1, <1>2, <1>3, <2>1, <3>1, InferReqInv, FreshKept
  <2>2. CASE \E g \in BatchLists :
               \E ps \in [DOMAIN g -> {p \in Params : ~p.stream}] : InferBatch(g, ps)
    <3>1. UNCHANGED <<pc, newBatch, gen>>
      BY <2>2 DEF InferBatch
    <3>. QED
      BY <1>1, <1>2, <1>3, <2>2, <3>1, InferBatchReqInv, FreshKept
  <2>3. CASE \E r \in Req : Cancel(r)
    <3>1. UNCHANGED <<pc, newBatch, gen>>
      BY <2>3 DEF Cancel
    <3>. QED
      BY <1>1, <1>2, <1>3, <2>3, <3>1, CancelReqInv, FreshKept
  <2>4. CASE \E r \in Req : Expire(r)
    <3>1. UNCHANGED <<pc, newBatch, gen>>
      BY <2>4 DEF Expire
    <3>. QED
      BY <1>1, <1>2, <1>3, <2>4, <3>1, ExpireReqInv, FreshKept
  <2>5. CASE BatchingTask
    BY <1>1, <1>2, <1>3, <2>5, NextBatchRInv, TryGrowRInv, PrefillDoneRInv,
       GrowDoneRInv, NextTokenDoneRInv DEF BatchingTask
  <2>6. CASE Idle \/ UNCHANGED vars
    <3>1. UNCHANGED vars
      BY <2>6 DEF Idle
    <3>2. ASSUME NEW r \in Req PROVE ReqInv(r)'
      BY <1>2, <3>1, ReqFrame DEF vars
    <3>. QED
      BY <1>3, <3>1, <3>2, FreshKept DEF vars
  <2>. QED
    BY <2>1, <2>2, <2>3, <2>4, <2>5, <2>6 DEF Next
<1>. QED
  BY <1>1, <1>4 DEF RInv

-----------------------------------------------------------------------------
(* Theorems                                                                *)

\* Under the backend contracts (no per-request GenerateErrors, a failed
\* growth prefill still prunes), RInv holds in every reachable state.
THEOREM RInvHolds == BackendContract => (Spec => []RInv)
<1>. SUFFICES ASSUME BackendContract PROVE Spec => []RInv
  OBVIOUS
<1>1. Init => RInv
  BY InitRInv
<1>2. RInv /\ [Next]_vars => RInv'
  BY NextRInv
<1>. QED
  BY <1>1, <1>2, PTL DEF Spec

\* The inductive invariant of the agreement proof (channel entries in phase
\* chan, ordered queue ids, the growth batch's ids, the map agreeing with
\* the server) holds in every reachable state under the same contracts.
THEOREM BInvHolds == BackendContract => (Spec => []BInv)
<1>. SUFFICES ASSUME BackendContract PROVE Spec => []BInv
  OBVIOUS
<1>1. Init => BInv
  BY InitBInv
<1>2. BInv /\ [Next]_vars => BInv'
  BY NextBInv
<1>. QED
  BY <1>1, <1>2, PTL DEF Spec

LEMMA RInvTerminalOnce == RInv => TerminalOnce
<1>. SUFFICES ASSUME RInv, NEW r \in Req
              PROVE  /\ final[r] <= 1
                     /\ (phase[r] = "done") = (final[r] = 1 \/ reason[r] = "Cancelled")
                     /\ reason[r] = "Cancelled" => final[r] = 0 /\ ~rxOpen[r]
  BY DEF TerminalOnce
<1>1. ReqInv(r)
  BY DEF RInv
<1>2. CASE phase[r] = "done"
  BY <1>1, <1>2 DEF ReqInv, Ended
<1>3. CASE phase[r] = "live"
  BY <1>1, <1>3 DEF ReqInv, Running
<1>4. CASE phase[r] \notin {"live", "done"}
  BY <1>1, <1>4 DEF ReqInv, Untouched
<1>. QED
  BY <1>2, <1>3, <1>4

LEMMA RInvStopCriteria == RInv => StopCriteriaRespected
<1>. SUFFICES ASSUME RInv, NEW r \in Req
              PROVE  /\ gen[r] <= par[r].max
                     /\ reason[r] \in {"EosToken", "StopSequence"} => gen[r] >= par[r].min
                     /\ reason[r] \in {"TokenLimit", "MaxTokens"} =>
                           /\ gen[r] = par[r].max
                           /\ (reason[r] = "TokenLimit") = par[r].tokenLimit
                     /\ reason[r] = "TimeLimit" => expired[r]
                     /\ reason[r] = "StopSequence" => par[r].stop
  BY DEF StopCriteriaRespected
<1>1. TypeOK /\ ReqInv(r)
  BY DEF RInv, BInv, IInv
<1>2. gen[r] \in Nat /\ par[r].max \in Nat /\ 1 <= par[r].max
  BY <1>1, ParBounds DEF TypeOK, ParamsType
<1>3. CASE phase[r] = "done"
  BY <1>1, <1>3 DEF ReqInv, Ended
<1>4. CASE phase[r] = "live"
  BY <1>1, <1>2, <1>4 DEF ReqInv, Running
<1>5. CASE phase[r] \notin {"live", "done"}
  BY <1>1, <1>2, <1>5 DEF ReqInv, Untouched
<1>. QED
  BY <1>3, <1>4, <1>5

LEMMA RInvCancelDetected == RInv => CancelDetected
<1>. SUFFICES ASSUME RInv, NEW r \in Live, ~rxOpen[r]
              PROVE  gen[r] < closedAt[r] +
                        (IF par[r].stream THEN 1 ELSE CancelCheckPeriod)
  BY DEF CancelDetected
<1>1. TypeOK /\ Running(r)
  BY DEF RInv, BInv, IInv, ReqInv, Live
<1>2. /\ closedAt[r] <= gen[r]
      /\ par[r].stream => gen[r] = closedAt[r]
      /\ \A k \in (closedAt[r] + 1)..gen[r] : k % CancelCheckPeriod # 0
  BY <1>1 DEF Running, NoPollPassed
<1>3. gen[r] \in Nat /\ closedAt[r] \in Nat /\ CancelCheckPeriod \in Nat \ {0}
  BY <1>1, BoundsAssumption DEF TypeOK, Live
<1>4. CASE par[r].stream
  BY <1>2, <1>3, <1>4
<1>5. CASE ~par[r].stream
  BY <1>2, <1>3, <1>5, NoMultipleGap
<1>. QED
  BY <1>4, <1>5

\* Every request gets at most one terminal response, leaves the system
\* exactly when answered or cancelled, and is cancelled only after its
\* client dropped the receiver (send_final in send_errors,
\* process_next_tokens and early_timeout), for every value of the constants.
THEOREM TerminalOnceHolds == BackendContract => (Spec => []TerminalOnce)
BY RInvHolds, RInvTerminalOnce, PTL

\* check_stopping_criteria's order is respected by every ended request:
\* never beyond max_new_tokens, eos and stop sequences only from
\* min_new_tokens on, TokenLimit / MaxTokens exactly at the limit.
THEOREM StopCriteriaHolds == BackendContract => (Spec => []StopCriteriaRespected)
BY RInvHolds, RInvStopCriteria, PTL

\* A dropped receiver is noticed within one token for a stream and within
\* CancelCheckPeriod tokens for a unary request (the generated_tokens % 16
\* poll, lines 664-677), for every period.
THEOREM CancelDetectedHolds == BackendContract => (Spec => []CancelDetected)
BY RInvHolds, RInvCancelDetected, PTL

=============================================================================
