------------------------------- MODULE Batcher -------------------------------
(***************************************************************************)
(* The continuous-batching core of the router (src/router/src/batcher.rs). *)
(*                                                                         *)
(*  - clients: Batcher::infer / infer_batch / infer_stream put entries    *)
(*    into the bounded ingress channel (try_send), and may drop their     *)
(*    receiver at any time (cancellation);                                 *)
(*  - the Queue (crate::queue, not under src/, modelled from the spec)    *)
(*    drains the channel, assigns ids in arrival order, pre-screens       *)
(*    expired entries and hands out FIFO prefixes as batches;             *)
(*  - batching_task: one action per segment of the task between two      *)
(*    awaits (next_batch, prefill, growth prefill, next_token);           *)
(*  - TokenProcessor::wrap_future / process_next_tokens / send_errors     *)
(*    are part of the action that consumes the backend's answer.          *)
(*                                                                         *)
(* The backend (the sharded model server) is the environment: it answers  *)
(* each RPC with an error, or with one outcome per request it steps: a    *)
(* generated token or a per-request GenerateError.  A cached batch is the  *)
(* record of the server-side batch the router holds a handle to.          *)
(***************************************************************************)
EXTENDS Naturals, Sequences, FiniteSets

CONSTANTS
  Req,               \* request handles of the clients
  Params,            \* the request parameter records clients may send
  QueueSize,         \* capacity of the ingress channel, channel(queue_size)
  SizeLimit,         \* batch_size_limit (config.size_limit)
  MaxWaitingTokens,  \* max_waiting_tokens
  GrowWarmup,        \* the literal 5 of should_try_to_grow_batch
  CancelCheckPeriod, \* the literal 16 of the unary cancellation poll
  GenErrors,         \* the backend may report per-request GenerateErrors
  BackendFails,      \* a backend RPC may fail as a whole
  ErrorMayUndoPrune  \* a failed growth prefill may not have applied to_prune

ParamsType ==
  [stream: BOOLEAN, min: Nat, max: Nat, stop: BOOLEAN,
   deadline: BOOLEAN, tokenLimit: BOOLEAN]

ASSUME ReqAssumption == IsFiniteSet(Req) /\ Req # {}

\* Request validation happens before the batcher: min <= max, max >= 1.
ASSUME ParamsAssumption ==
  /\ Params # {}
  /\ Params \subseteq ParamsType
  /\ \A p \in Params : 1 <= p.max /\ p.min <= p.max

ASSUME BoundsAssumption ==
  /\ QueueSize \in Nat \ {0}
  /\ SizeLimit \in Nat \ {0}
  /\ MaxWaitingTokens \in Nat
  /\ GrowWarmup \in Nat
  /\ CancelCheckPeriod \in Nat \ {0}

ASSUME FlagsAssumption ==
  {GenErrors, BackendFails, ErrorMayUndoPrune} \subseteq BOOLEAN

-----------------------------------------------------------------------------
Phases == {"idle", "chan", "queued", "live", "done", "rejected"}

Reasons == {"NotFinished", "EosToken", "MaxTokens", "TokenLimit",
            "StopSequence", "TimeLimit", "Cancelled", "Error"}

PCs == {"wait", "prefill", "loop", "grow", "step", "crashed"}

\* A CachedBatch handle with the members of the server-side batch it names.
\* all = TRUE is status None: every request of the last call completed.
CachedBatch == [mem: SUBSET Req, all: BOOLEAN, completed: SUBSET Req]

\* What the backend answers for one request: a token (is it eos, what the
\* incremental decoder makes of it, does the final flush fail) or an error.
TokenOutcome == [eos: BOOLEAN, dec: {"ok", "match", "err"}, flushErr: BOOLEAN]
GenError == [eos |-> FALSE, dec |-> "generr", flushErr |-> FALSE]

VARIABLES
  phase,     \* where each request is: client, channel, queue, entries map
  par,       \* request parameters
  chan,      \* the entries in the ingress channel, in send order
  slots,     \* number of Vec<Entry> messages in the channel
  eid,       \* Entry id, assigned by the queue (0 = not yet)
  nextId,    \* next id the queue assigns
  gen,       \* Entry.generated_tokens
  inprog,    \* in-progress stream events delivered to the client
  final,     \* terminal responses sent with send_final
  reason,    \* stop reason of the terminal response (or Cancelled)
  rxOpen,    \* the client still holds its receiver
  closedAt,  \* generated_tokens when the client dropped its receiver
  expired,   \* the request's deadline has passed
  pc,        \* where batching_task is suspended
  batches,   \* the cached batches the task holds (cached_batch / batches)
  newBatch,  \* requests of the batch whose prefill is in flight
  startId,   \* first_new_id of the growth prefill in flight
  waiting,   \* waiting_tokens
  health     \* generation_health

vars == <<phase, par, chan, slots, eid, nextId, gen, inprog, final, reason,
          rxOpen, closedAt, expired, pc, batches, newBatch, startId,
          waiting, health>>

TypeOK ==
  /\ phase \in [Req -> Phases]
  /\ par \in [Req -> Params]
  /\ chan \in Seq(Req)
  /\ slots \in 0..QueueSize
  /\ eid \in [Req -> Nat]
  /\ nextId \in Nat \ {0}
  /\ gen \in [Req -> Nat]
  /\ inprog \in [Req -> Nat]
  /\ final \in [Req -> Nat]
  /\ reason \in [Req -> Reasons]
  /\ rxOpen \in [Req -> BOOLEAN]
  /\ closedAt \in [Req -> Nat]
  /\ expired \in [Req -> BOOLEAN]
  /\ pc \in PCs
  /\ batches \in Seq(CachedBatch)
  /\ newBatch \in SUBSET Req
  /\ startId \in Nat
  /\ waiting \in Nat
  /\ health \in BOOLEAN

-----------------------------------------------------------------------------
(* The entries map (TokenProcessor.entries) and the queue's buffer.        *)
Live == {r \in Req : phase[r] = "live"}
Queued == {r \in Req : phase[r] = "queued"}

\* The requests the server steps for a cached batch: a batch with status
\* None is dropped, otherwise its completed ids are pruned first.
Eff(b) == IF b.all THEN {} ELSE b.mem \ b.completed
Stepped(bs) == UNION {Eff(bs[i]) : i \in 1..Len(bs)}

-----------------------------------------------------------------------------
(* The Queue: drain the channel, assign ids in arrival order, terminate   *)
(* the entries whose deadline has passed (InferResponse::early_timeout),  *)
(* and select a FIFO prefix of at most k entries.                          *)
ChanPos(r) == CHOOSE i \in 1..Len(chan) : chan[i] = r
InChan == {chan[i] : i \in 1..Len(chan)}
Pool == Queued \cup InChan
DrainedIds == [r \in Req |-> IF r \in InChan THEN nextId + ChanPos(r) - 1
                                              ELSE eid[r]]
Late == {r \in Pool : expired[r]}
Avail == Pool \ Late
Prefixes(k) ==
  {B \in SUBSET Avail :
     /\ Cardinality(B) <= k
     /\ \A b \in B, q \in Avail \ B : DrainedIds[b] < DrainedIds[q]}

\* Mutant: an expired entry is dropped from the queue without a reply.
PullNoReply(B) ==
  /\ phase' = [r \in Req |-> IF r \in Late THEN "done"
                             ELSE IF r \in B THEN "live"
                             ELSE IF r \in Pool THEN "queued"
                             ELSE phase[r]]
  /\ UNCHANGED <<final, reason>>
  /\ eid' = DrainedIds
  /\ nextId' = nextId + Len(chan)
  /\ chan' = <<>>
  /\ slots' = 0

\* Queue::next_batch / try_next_batch taking B; the taken entries join the
\* entries map.
Pull(B) ==
  /\ phase' = [r \in Req |-> IF r \in Late THEN "done"
                             ELSE IF r \in B THEN "live"
                             ELSE IF r \in Pool THEN "queued"
                             ELSE phase[r]]
  /\ final' = [r \in Req |-> IF r \in Late THEN final[r] + 1 ELSE final[r]]
  /\ reason' = [r \in Req |-> IF r \in Late THEN "TimeLimit" ELSE reason[r]]
  /\ eid' = DrainedIds
  /\ nextId' = nextId + Len(chan)
  /\ chan' = <<>>
  /\ slots' = 0

-----------------------------------------------------------------------------
(* TokenProcessor                                                          *)

\* Mutant: eos is honoured before min_new_tokens is reached.
StopReasonEosFirst(r, g, t) ==
  IF par[r].deadline /\ expired[r] THEN "TimeLimit"
  ELSE IF t.eos THEN "EosToken"
  ELSE IF g < par[r].min THEN "NotFinished"
  ELSE IF g >= par[r].max
       THEN IF par[r].tokenLimit THEN "TokenLimit" ELSE "MaxTokens"
  ELSE IF par[r].stop /\ t.dec = "match" THEN "StopSequence"
  ELSE "NotFinished"

\* check_stopping_criteria: the first criterion that holds wins.
StopReason(r, g, t) ==
  IF par[r].deadline /\ expired[r] THEN "TimeLimit"
  ELSE IF g < par[r].min THEN "NotFinished"
  ELSE IF t.eos THEN "EosToken"
  ELSE IF g >= par[r].max
       THEN IF par[r].tokenLimit THEN "TokenLimit" ELSE "MaxTokens"
  ELSE IF par[r].stop /\ t.dec = "match" THEN "StopSequence"
  ELSE "NotFinished"

\* Mutant: a failed in-progress stream send is ignored (unwrap_or_default).
TokenResultStreamIgnoresClosed(r, t) ==
  LET g == gen[r] + 1
      sr == StopReason(r, g, t)
  IN IF par[r].stop /\ t.dec = "err" THEN "Error"
     ELSE IF sr # "NotFinished"
          THEN IF par[r].stop /\ t.flushErr THEN "Error" ELSE sr
     ELSE IF par[r].stream THEN "NotFinished"
     ELSE IF g % CancelCheckPeriod = 0 /\ ~rxOpen[r] THEN "Cancelled"
     ELSE "NotFinished"

\* Mutant: the unary oneshot sender is never polled for closure.
TokenResultNoUnaryPoll(r, t) ==
  LET g == gen[r] + 1
      sr == StopReason(r, g, t)
  IN IF par[r].stop /\ t.dec = "err" THEN "Error"
     ELSE IF sr # "NotFinished"
          THEN IF par[r].stop /\ t.flushErr THEN "Error" ELSE sr
     ELSE IF par[r].stream
          THEN IF rxOpen[r] THEN "NotFinished" ELSE "Cancelled"
     ELSE "NotFinished"

\* One iteration of the token loop of process_next_tokens: what becomes
\* of request r when its token t is processed.  NotFinished = stays.
TokenResult(r, t) ==
  LET g == gen[r] + 1
      sr == StopReason(r, g, t)
  IN IF par[r].stop /\ t.dec = "err" THEN "Error"
     ELSE IF sr # "NotFinished"
          THEN IF par[r].stop /\ t.flushErr THEN "Error" ELSE sr
     ELSE IF par[r].stream
          THEN IF rxOpen[r] THEN "NotFinished" ELSE "Cancelled"
     ELSE IF g % CancelCheckPeriod = 0 /\ ~rxOpen[r] THEN "Cancelled"
     ELSE "NotFinished"

\* What the backend may answer for request r.
Outcomes(r) ==
  (IF par[r].stop THEN TokenOutcome
   ELSE {t \in TokenOutcome : t.dec = "ok" /\ ~t.flushErr})
  \cup (IF GenErrors THEN {GenError} ELSE {})

Responses(S) ==
  {out \in [S -> TokenOutcome \cup {GenError}] :
     \A s \in S : out[s] \in Outcomes(s)}

\* Mutant: a GenerateError removes the entry without sending the error.
ResultErrorNoReply(S, out) ==
  [s \in S |-> IF out[s] = GenError THEN "Cancelled"
               ELSE TokenResult(s, out[s])]

Result(S, out) ==
  [s \in S |-> IF out[s] = GenError THEN "Error" ELSE TokenResult(s, out[s])]

\* process_next_tokens applied to the entries.
ApplyTokens(S, out) ==
  LET res == Result(S, out)
  IN /\ gen' = [r \in Req |-> IF r \in S /\ out[r] # GenError
                              THEN gen[r] + 1 ELSE gen[r]]
     /\ phase' = [r \in Req |-> IF r \in S /\ res[r] # "NotFinished"
                                THEN "done" ELSE phase[r]]
     /\ final' = [r \in Req |->
                    IF r \in S /\ res[r] \notin {"NotFinished", "Cancelled"}
                    THEN final[r] + 1 ELSE final[r]]
     /\ reason' = [r \in Req |-> IF r \in S /\ res[r] # "NotFinished"
                                 THEN res[r] ELSE reason[r]]
     /\ inprog' = [r \in Req |->
                     IF r \in S /\ par[r].stream /\ res[r] = "NotFinished"
                     THEN inprog[r] + 1 ELSE inprog[r]]

\* The CachedBatch wrap_future returns: status None when as many requests
\* completed as tokens were returned.
NewCached(S, out) ==
  LET done == {s \in S : Result(S, out)[s] # "NotFinished"}
      toks == {s \in S : out[s] # GenError}
  IN [mem |-> S, all |-> Cardinality(done) = Cardinality(toks),
      completed |-> done]

\* Mutant: send_errors keeps the entry whose id is start_id.
SendErrorsKeepFirst(start) ==
  LET hit == {r \in Live : start = 0 \/ eid[r] > start}
  IN /\ phase' = [r \in Req |-> IF r \in hit THEN "done" ELSE phase[r]]
     /\ final' = [r \in Req |-> IF r \in hit THEN final[r] + 1 ELSE final[r]]
     /\ reason' = [r \in Req |-> IF r \in hit THEN "Error" ELSE reason[r]]

\* send_errors(start_id): start 0 stands for None.
SendErrors(start) ==
  LET hit == {r \in Live : start = 0 \/ eid[r] >= start}
  IN /\ phase' = [r \in Req |-> IF r \in hit THEN "done" ELSE phase[r]]
     /\ final' = [r \in Req |-> IF r \in hit THEN final[r] + 1 ELSE final[r]]
     /\ reason' = [r \in Req |-> IF r \in hit THEN "Error" ELSE reason[r]]

-----------------------------------------------------------------------------
(* Clients                                                                 *)

\* Mutant: the channel accepts one message more than its capacity.
InferOverCapacity(r, p) ==
  /\ pc # "crashed"
  /\ phase[r] = "idle"
  /\ par' = [par EXCEPT ![r] = p]
  /\ IF slots <= QueueSize
     THEN /\ chan' = Append(chan, r)
          /\ slots' = slots + 1
          /\ phase' = [phase EXCEPT ![r] = "chan"]
     ELSE /\ phase' = [phase EXCEPT ![r] = "rejected"]
          /\ UNCHANGED <<chan, slots>>
  /\ UNCHANGED <<eid, nextId, gen, inprog, final, reason, rxOpen, closedAt,
                 expired, pc, batches, newBatch, startId, waiting, health>>

\* Batcher::infer and infer_stream: enqueue_request with one entry.
Infer(r, p) ==
  /\ pc # "crashed"
  /\ phase[r] = "idle"
  /\ par' = [par EXCEPT ![r] = p]
  /\ IF slots < QueueSize
     THEN /\ chan' = Append(chan, r)
          /\ slots' = slots + 1
          /\ phase' = [phase EXCEPT ![r] = "chan"]
     ELSE /\ phase' = [phase EXCEPT ![r] = "rejected"]
          /\ UNCHANGED <<chan, slots>>
  /\ UNCHANGED <<eid, nextId, gen, inprog, final, reason, rxOpen, closedAt,
                 expired, pc, batches, newBatch, startId, waiting, health>>

\* Batcher::infer_batch: several unary entries in one channel message.
InferBatch(g, ps) ==
  /\ pc # "crashed"
  /\ \A i \in DOMAIN g : phase[g[i]] = "idle" /\ ~ps[i].stream
  /\ par' = [r \in Req |-> IF \E i \in DOMAIN g : g[i] = r
                           THEN ps[CHOOSE i \in DOMAIN g : g[i] = r]
                           ELSE par[r]]
  /\ IF slots < QueueSize
     THEN /\ chan' = chan \o g
          /\ slots' = slots + 1
          /\ phase' = [r \in Req |-> IF \E i \in DOMAIN g : g[i] = r
                                     THEN "chan" ELSE phase[r]]
     ELSE /\ phase' = [r \in Req |-> IF \E i \in DOMAIN g : g[i] = r
                                     THEN "rejected" ELSE phase[r]]
          /\ UNCHANGED <<chan, slots>>
  /\ UNCHANGED <<eid, nextId, gen, inprog, final, reason, rxOpen, closedAt,
                 expired, pc, batches, newBatch, startId, waiting, health>>

\* The client drops its oneshot receiver or its ResponseStream.
Cancel(r) ==
  /\ pc # "crashed"
  /\ rxOpen[r]
  /\ phase[r] \in {"chan", "queued", "live"}
  /\ rxOpen' = [rxOpen EXCEPT ![r] = FALSE]
  /\ closedAt' = [closedAt EXCEPT ![r] = gen[r]]
  /\ UNCHANGED <<phase, par, chan, slots, eid, nextId, gen, inprog, final,
                 reason, expired, pc, batches, newBatch, startId, waiting,
                 health>>

\* Time passes the request's deadline.
Expire(r) ==
  /\ pc # "crashed"
  /\ par[r].deadline
  /\ ~expired[r]
  /\ phase[r] \in {"chan", "queued", "live"}
  /\ expired' = [expired EXCEPT ![r] = TRUE]
  /\ UNCHANGED <<phase, par, chan, slots, eid, nextId, gen, inprog, final,
                 reason, rxOpen, closedAt, pc, batches, newBatch, startId,
                 waiting, health>>

-----------------------------------------------------------------------------
(* batching_task, one action per segment between two awaits                *)

\* Await queue.next_batch(entries) until it yields a batch, then call
\* client.prefill(batch, []).
NextBatch ==
  /\ pc = "wait"
  /\ Pool # {}
  /\ \E B \in Prefixes(SizeLimit - Cardinality(Live)) :
       /\ (B = {}) = (Avail = {})
       /\ Pull(B)
       /\ IF B # {} THEN pc' = "prefill" /\ newBatch' = B
                    ELSE UNCHANGED <<pc, newBatch>>
  /\ UNCHANGED <<par, gen, inprog, rxOpen, closedAt, expired, batches,
                 startId, waiting, health>>

\* The first prefill returns; wrap_future(.., None) processes the answer.
PrefillDone ==
  /\ pc = "prefill"
  /\ waiting' = 1
  /\ \/ /\ BackendFails
        /\ SendErrors(0)
        /\ health' = FALSE
        /\ batches' = <<>>
        /\ pc' = "wait"
        /\ UNCHANGED <<gen, inprog>>
     \/ \E out \in Responses(newBatch) :
        /\ ApplyTokens(newBatch, out)
        /\ health' = TRUE
        /\ batches' = <<NewCached(newBatch, out)>>
        /\ pc' = IF newBatch \subseteq Live THEN "loop" ELSE "crashed"
  /\ UNCHANGED <<par, chan, slots, eid, nextId, rxOpen, closedAt, expired,
                 newBatch, startId>>

SomeCompleted(b) == b.all \/ b.completed # {}

ShouldTryToGrowBatch(tooLong) ==
  /\ waiting > GrowWarmup
  /\ Cardinality(Live) < SizeLimit
  /\ \/ waiting >= MaxWaitingTokens
     \/ SomeCompleted(batches[1])
     \/ tooLong

\* Mutant: the growth prefill is wrapped with start_id None.
FirstNewIdNone(B) == 0

\* new_batch.requests.first(): the head of the FIFO prefix.
FirstNewId(B) == CHOOSE i \in {DrainedIds[b] : b \in B} :
                   \A b \in B : i <= DrainedIds[b]

\* Top of the step loop: decide on growth, maybe take a batch with
\* try_next_batch and call prefill(new_batch, to_prune), else call
\* next_token(batches).  tooLong is queue.next_entry_waiting_too_long().
TryGrow ==
  /\ pc = "loop"
  /\ \E tooLong \in (IF Queued # {} THEN BOOLEAN ELSE {FALSE}) :
       \/ /\ ShouldTryToGrowBatch(tooLong)
          /\ \E B \in Prefixes(SizeLimit - Cardinality(Live)) :
               /\ Pull(B)
               /\ IF B # {}
                  THEN /\ pc' = "grow"
                       /\ newBatch' = B
                       /\ startId' = FirstNewId(B)
                  ELSE /\ pc' = "step"
                       /\ UNCHANGED <<newBatch, startId>>
       \/ /\ ~ShouldTryToGrowBatch(tooLong)
          /\ pc' = "step"
          /\ UNCHANGED <<phase, final, reason, eid, nextId, chan, slots,
                         newBatch, startId>>
  /\ UNCHANGED <<par, gen, inprog, rxOpen, closedAt, expired, batches,
                 waiting, health>>

\* Mutant: to_prune is always empty, yet the completed ids are cleared.
HackNoPruneSent(pruned) ==
  LET b == batches[1]
  IN IF b.all THEN <<>>
     ELSE <<[mem |-> b.mem, all |-> FALSE, completed |-> {}]>>

\* Mutant: the current batch is dropped whatever its status.
HackDropsAlways(pruned) == <<>>

\* The "Hack for now" after the growth prefill: the current batch's
\* completed ids are taken as pruned; a batch with status None is dropped.
\* pruned: whether the server really pruned them.
Hack(pruned) ==
  LET b == batches[1]
  IN IF b.all THEN <<>>
     ELSE <<[mem |-> IF pruned THEN b.mem \ b.completed ELSE b.mem,
             all |-> FALSE, completed |-> {}]>>

\* The growth prefill returns; wrap_future(.., Some(first_new_id)); the
\* current batch is updated, the new one appended; next_token is called.
GrowDone ==
  /\ pc = "grow"
  /\ waiting' = 1
  /\ \/ /\ BackendFails
        /\ SendErrors(startId)
        /\ health' = FALSE
        /\ \E pruned \in (IF ErrorMayUndoPrune THEN BOOLEAN ELSE {TRUE}) :
             batches' = Hack(pruned)
        /\ pc' = "step"
        /\ UNCHANGED <<gen, inprog>>
     \/ \E out \in Responses(newBatch) :
        /\ ApplyTokens(newBatch, out)
        /\ health' = TRUE
        /\ batches' = Hack(TRUE) \o <<NewCached(newBatch, out)>>
        /\ pc' = IF newBatch \subseteq Live THEN "step" ELSE "crashed"
  /\ UNCHANGED <<par, chan, slots, eid, nextId, rxOpen, closedAt, expired,
                 newBatch, startId>>

\* next_token(batches) returns; wrap_future(.., None).  A token for an id
\* that is not in the entries map panics the task (expect), and the
\* panic exits the process.
NextTokenDone ==
  /\ pc = "step"
  /\ waiting' = waiting + 1
  /\ LET S == Stepped(batches)
     IN \/ /\ S = {}
           /\ batches' = <<>>
           /\ pc' = "wait"
           /\ UNCHANGED <<phase, final, reason, gen, inprog, health>>
        \/ /\ S # {}
           /\ BackendFails
           /\ SendErrors(0)
           /\ health' = FALSE
           /\ batches' = <<>>
           /\ pc' = "wait"
           /\ UNCHANGED <<gen, inprog>>
        \/ /\ S # {}
           /\ \E out \in Responses(S) :
                /\ ApplyTokens(S, out)
                /\ health' = TRUE
                /\ batches' = <<NewCached(S, out)>>
                /\ pc' = IF S \subseteq Live THEN "loop" ELSE "crashed"
  /\ UNCHANGED <<par, chan, slots, eid, nextId, rxOpen, closedAt, expired,
                 newBatch, startId>>

BatchingTask ==
  \/ NextBatch
  \/ PrefillDone
  \/ TryGrow
  \/ GrowDone
  \/ NextTokenDone

\* The task parked in next_batch with no client left to send a request.
Idle ==
  /\ pc = "wait"
  /\ \A r \in Req : phase[r] \in {"done", "rejected"}
  /\ UNCHANGED vars

-----------------------------------------------------------------------------
Init ==
  /\ phase = [r \in Req |-> "idle"]
  /\ par = [r \in Req |-> CHOOSE p \in Params : TRUE]
  /\ chan = <<>>
  /\ slots = 0
  /\ eid = [r \in Req |-> 0]
  /\ nextId = 1
  /\ gen = [r \in Req |-> 0]
  /\ inprog = [r \in Req |-> 0]
  /\ final = [r \in Req |-> 0]
  /\ reason = [r \in Req |-> "NotFinished"]
  /\ rxOpen = [r \in Req |-> TRUE]
  /\ closedAt = [r \in Req |-> 0]
  /\ expired = [r \in Req |-> FALSE]
  /\ pc = "wait"
  /\ batches = <<>>
  /\ newBatch = {}
  /\ startId = 0
  /\ waiting = 0
  /\ health \in BOOLEAN

Idles == {r \in Req : phase[r] = "idle"}

\* The request lists infer_batch may be called with.
BatchLists ==
  {g \in UNION {[1..k -> Idles] : k \in 2..Cardinality(Idles)} :
     \A i, j \in DOMAIN g : i # j => g[i] # g[j]}

Next ==
  \/ \E r \in Req, p \in Params : Infer(r, p)
  \/ \E g \in BatchLists :
       \E ps \in [DOMAIN g -> {p \in Params : ~p.stream}] : InferBatch(g, ps)
  \/ \E r \in Req : Cancel(r)
  \/ \E r \in Req : Expire(r)
  \/ BatchingTask
  \/ Idle

Spec == Init /\ [][Next]_vars

\* batching_task runs on its own tokio task and is never starved; every
\* backend RPC is assumed to return.
FairSpec == Spec /\ WF_vars(BatchingTask)


-----------------------------------------------------------------------------
(* Properties                                                              *)

\* The entries map agrees with the server: whenever batching_task is at a
\* backend call or at the top of the step loop, the requests the server
\* will step are exactly the live entries (no entry the server has lost,
\* no token for an id the map no longer holds, lines 356-431 with
\* process_next_tokens' status at 708-709 and the pruning hack at 392-396);
\* and the task only waits on the queue with an empty map.
BackendAgreement ==
  /\ pc = "wait" => Live = {}
  /\ pc \in {"loop", "step"} => Stepped(batches) = Live
  /\ pc \in {"prefill", "grow"} =>
        /\ Live = Stepped(batches) \cup newBatch
        /\ Stepped(batches) \cap newBatch = {}

\* No leak (spec section 8): when the loop is back at queue.next_batch, the
\* in-flight map is empty.
NoLeak == pc = "wait" => Live = {}

\* The batching task never panics on an id the entries map does not hold
\* (the expect calls of process_next_tokens, lines 588-589 and 692-693).
NoPanic == pc # "crashed"

\* Every entry of a prefill in flight, first or growth, has generated no
\* token yet, as process_input_tokens asserts (line 565).  The entries come
\* from the queue model (Pull), so this is a conjunct of the proofs'
\* invariant (BatcherReplies), not a check of batcher.rs.
InputTokensFresh ==
  pc \in {"prefill", "grow"} => \A r \in newBatch : gen[r] = 0

\* Every request gets at most one terminal response; a request has left
\* the system exactly when it got one or was cancelled; and the batcher
\* only cancels (sends nothing) after the client dropped its receiver
\* (send_final in send_errors, process_next_tokens and early_timeout).
TerminalOnce ==
  \A r \in Req :
    /\ final[r] <= 1
    /\ (phase[r] = "done") = (final[r] = 1 \/ reason[r] = "Cancelled")
    /\ reason[r] = "Cancelled" => final[r] = 0 /\ ~rxOpen[r]

\* The stop reason a request ends with agrees with its counters and
\* parameters: never more than max_new_tokens, eos and stop sequences only
\* count from min_new_tokens on, TokenLimit / MaxTokens exactly at the
\* limit and as max_is_token_limit says (check_stopping_criteria).
StopCriteriaRespected ==
  \A r \in Req :
    /\ gen[r] <= par[r].max
    /\ reason[r] \in {"EosToken", "StopSequence"} => gen[r] >= par[r].min
    /\ reason[r] \in {"TokenLimit", "MaxTokens"} =>
          /\ gen[r] = par[r].max
          /\ (reason[r] = "TokenLimit") = par[r].tokenLimit
    /\ reason[r] = "TimeLimit" => expired[r]
    /\ reason[r] = "StopSequence" => par[r].stop

\* A cancelled request leaves the batch soon (spec section 8): a stream
\* after at most one more token, a unary request before CancelCheckPeriod
\* more tokens (the generated_tokens % 16 poll of the oneshot sender).
CancelDetected ==
  \A r \in Live :
    ~rxOpen[r] =>
      gen[r] < closedAt[r] + (IF par[r].stream THEN 1 ELSE CancelCheckPeriod)

\* A failed growth prefill terminates only the requests it added: every
\* entry that was in flight before the growth survives the step (send_errors
\* with start_id = first_new_id, lines 386-390 and 516-526).  So the
\* entries map never shrinks below the batch_size read before the growth
\* prefill, and added_batch_size = new_batch_size - batch_size (line 405)
\* cannot underflow.
GrowthKeepsInflight ==
  [][pc = "grow" => (Live \ newBatch) \subseteq Live']_vars

\* Every request the channel accepted is eventually answered or cancelled.
AllRequestsEnd ==
  \A r \in Req : phase[r] = "chan" ~> phase[r] = "done"

=============================================================================
