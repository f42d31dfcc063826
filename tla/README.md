# A TLA+ model of the router's continuous-batching core

This directory holds a TLA+ model of `src/router/src/batcher.rs`, the
continuous-batching core of the text-generation router, together with the
TLC configurations that check it and TLAPS proofs about it.

## The system

`batcher.rs` has the following parts (the letters are those of `spec.md`):

| part | code | what it does |
|---|---|---|
| A Backend façade | `text_generation_client` (`client/src/lib.rs`) | `prefill(batch, to_prune)` and `next_token(batches)`. Each returns tokens, input tokens, per-request `GenerateError`s and a next batch id, or a `ClientError`. |
| B Incremental decoder | `crate::decoder` (not under `src/`) | Turns token ids into text for entries with stop sequences. |
| C Entry | `crate::queue::Entry` | Per-request state: counters, parameters and one reply channel. |
| D Admission queue | `enqueue_request` (`try_send` on a bounded channel); `crate::queue::Queue` (not under `src/`) | Holds pending entries and hands out FIFO prefixes as batches. |
| E Batching loop | `batching_task` | The scheduler. It has three kinds of await: the queue, a prefill, and a next_token. |
| F Token processor | `TokenProcessor` | Applies each backend answer to the entries map: stop criteria, replies, cancellation, errors. |
| G Response stream | `ResponseStream` | The client side of a stream. Dropping it cancels the request. |

Clients (`infer`, `infer_stream`, `infer_batch`) and `batching_task` run
concurrently: clients only `try_send` into the channel and drop their
receivers, while `batching_task` owns the entries map and calls the backend.
Every change to an entry happens in `batching_task`, between two of its awaits.
So the interleavings are client actions (send, cancel, deadline passing)
against the segments of `batching_task`, with the backend answering or failing
each RPC.

## Module `Batcher`

### State

| variable | code |
|---|---|
| `phase[r]` | Where request r is: `idle` (not sent), `chan` (in the ingress channel), `queued` (in the queue's buffer), `live` (in `TokenProcessor.entries`), `done` (removed after a terminal reply or a cancellation), `rejected` (`RequestQueueFull`). |
| `par[r]` | The parameters the batcher reads (`ParamsType`): stream or unary; min/max new tokens; stop sequences present; deadline present; `max_is_token_limit`. |
| `chan`, `slots` | The entries in the channel in send order, and the number of `Vec<Entry>` messages occupying the channel's `queue_size` slots. |
| `eid`, `nextId` | Entry ids, assigned in arrival order by the queue. |
| `gen`, `inprog`, `final`, `reason` | `generated_tokens`, in-progress stream events, terminal replies sent, and the stop reason. |
| `rxOpen`, `closedAt` | The client's receiver is alive, and `generated_tokens` when it was dropped. |
| `expired` | The deadline has passed (time is a nondeterministic `Expire` step). |
| `pc` | The await `batching_task` is suspended at. |
| `batches` | The cached batches (`cached_batch` / `batches`). |
| `newBatch`, `startId` | The batch whose prefill is in flight, and its `first_new_id`. |
| `waiting` | `waiting_tokens`. |
| `health` | `generation_health`. |

A `CachedBatch` is the record `[mem, all, completed]`:
- `mem` is the server-side batch;
- `all` is status `None`;
- `completed` is `completed_ids`.

`Eff(b)` is what the server steps for that handle: nothing if `all`,
otherwise `mem \ completed`. This is the server's pruning.

### Actions

- **`Infer(r, p)`**: `infer` / `infer_stream` with `enqueue_request`.
- **`InferBatch(g, ps)`**: `infer_batch`, one channel message for all entries, unary only.
- **`Cancel(r)`**: the client drops its receiver.
- **`Expire(r)`**: a deadline passes.
- **`NextBatch`**: the queue yields a batch.
  - It runs `Pull`: drain the channel, assign ids, answer expired entries with `TimeLimit` (`early_timeout`), and take a FIFO prefix.
  - It then calls `prefill`.
- **`PrefillDone`**: the answer to the first prefill, processed by `wrap_future`.
- **`TryGrow`**: the top of the step loop.
  - It takes `should_try_to_grow_batch` and `try_next_batch`, computes `to_prune` and `first_new_id`, and sends the growth prefill or goes on to `next_token`.
  - `next_entry_waiting_too_long` is a free boolean, possible only while the queue is non-empty.
- **`GrowDone`**: the answer to the growth prefill.
  - It runs `wrap_future(.., Some(first_new_id))`, then the "Hack for now" (`Hack`) and the append of the new cached batch.
- **`NextTokenDone`**: the answer to `next_token(batches)`.
- **`Idle`**: the loop parked in `next_batch` after every client has been served.

The backend's answer is chosen from `Responses(S)`. It gives one outcome per
stepped request: a token (eos or not; for entries with stop sequences, a
decoded chunk that matches a stop sequence, a decode error, or a failing
flush) or a `GenerateError` (only when `GenErrors`). `Result` and `ApplyTokens`
are the whole of `process_next_tokens`:
- the decode-error path;
- `check_stopping_criteria` (`StopReason`, in the code's priority order);
- flush errors, the stream send failure, and the unary poll every
  `CancelCheckPeriod` tokens;
- the `GenerateError` loop;
- the `completed_ids.len() == request_count` status (`NewCached`).

A token for a request that is not live is the `expect` panic. The task then
moves to `pc = "crashed"` and the process exits.

## Runs

| run | checks | shows |
|---|---|---|
| `core` | `TypeOK`, `BackendAgreement`, `TerminalOnce`, `StopCriteriaRespected`, `CancelDetected`, `NoPanic`, `GrowthKeepsInflight` | The main invariants hold with 3 requests, batch size limit 2, a 1-slot channel and a failing backend (about 895k states, 1–2 min, with symmetry). |
| `generr_single` | `BackendAgreement`, `TerminalOnce` | These hold with per-request errors when a batch has one request. |
| `literals` | `CancelDetected` | Holds with the code's literals: warm-up 5 and poll period 16, with `max_new_tokens` 17. |
| `live` | `AllRequestsEnd` under `FairSpec` | Every accepted request ends. |
| `refines` (`MCBatcherLifecycle`) | `LifecycleRefined` | On the core instance the batcher implements the abstract request lifecycle (895k states, about 2 min). |
| `stop_exact` (`MCStopMatcher`) | `TypeOK`, `StopSequenceExact` | Stop sequences `aba` and `bb` over two bytes, chunks of 0–2 bytes, `min_new_tokens` 2, `max_new_tokens` 5: matching is exact within the code's rule (2880 states). |
| `generr_leak` (violation) | `NoLeak` | Finding 1, below. |
| `prune_lost` (violation) | `NoPanic` | Finding 2, below. |
| `stop_spec_window` (violation) | `SpecWindowRespected` | Finding 3, below. |
| `stop_empty` (violation) | `NoMatcherPanic` | Finding 4, below. |

What the properties say:
- **`BackendAgreement`**: the requests the server will step are exactly the live entries, at every await. An in-flight prefill adds its batch disjointly.
- **`TerminalOnce`**: at most one terminal reply per request, and `done` exactly when answered or cancelled. A cancellation happens only after the client dropped its receiver.
- **`StopCriteriaRespected`**: the stop reason agrees with the counters and parameters.
- **`CancelDetected`**: a dropped receiver is noticed within 1 token (stream) or `CancelCheckPeriod` tokens (unary).
- **`NoPanic`**: the `expect` calls of `process_next_tokens` (lines 588-589, 692-693) never find an id missing from the map.
- **`GrowthKeepsInflight`**: an action property. A growth step never removes an entry that was in flight before it. The step that can break it is a failed growth prefill: `send_errors(first_new_id)` must spare the older entries, which relies on FIFO ids. On the success path it holds by the shape of `GrowDone`, whose tokens touch only the new batch. So it says nothing about the `usize` subtraction `added_batch_size = new_batch_size - batch_size` at line 405, whose logging is not modelled.
- **`LifecycleRefined`**: `Life!Spec`, the abstract lifecycle under the refinement mapping of `BatcherLifecycle`.
- **`StopSequenceExact`** (`StopMatcher`): an entry ends with `StopSequence` only if its output holds a stop sequence. While it runs, no stop sequence ends in the bytes decoded from `min_new_tokens` on, even one spanning several tokens or tokens that decode to no text.
- **`AllRequestsEnd`**: every request the channel accepted eventually gets an answer or is cancelled.

Each property has a mutant in `PROJECT.json`, a plausible bug in the mapped
code that TLC catches.

**Bounds.** 2–3 requests are enough for every interleaving the properties are
about:
- an old entry and a new one in one call;
- a growth while another request waits;
- two requests in one `infer_batch` message.

The parameter sets are chosen so that each stop reason can happen:
- unary with `min = max = 2`, stop sequences, a deadline and `max_is_token_limit`;
- a stream with `max = 2`.

In the small runs the growth warm-up is 0 and the unary poll period is 2. With
the code's 5 and 16, no request lives long enough in a 3-request model to grow
or to be polled. The `literals` run uses the real literals with requests up to
17 tokens long, so the poll at 16 is reached.

**Fairness.** `FairSpec` puts weak fairness on `BatchingTask`. The task is a
dedicated tokio task (`Batcher::new`, line 60) and never blocks except on the
queue and on backend RPCs. It assumes every RPC returns, since the code has no
timeout (a hazard in `PROJECT.json`). Clients get no fairness: a client may
never send.

## Module `StopMatcher`

One entry with stop sequences, token by token: `process_next_tokens`
(lines 591-640), `check_stopping_criteria` (527-540) and
`matches_stop_sequence` (543-556).
- `out` is the decoder's accumulated output, as a sequence of byte model values; `gen` is `generated_tokens`; `reason` is the stop reason.
- `Token`: `generated_tokens += 1`. The decoder returns a chunk of 0 to `ChunkMax` bytes, which is appended, and the criteria are checked in the code's order: `min_new_tokens`, eos, `max_new_tokens`, stop sequences.
- `DecodeError`: the decoder fails and the entry ends with an error.
- `WindowStart`/`InWindow` translate `output[next_off.checked_sub(len).unwrap_or(0)..].windows(len)` with `next_off = output.len() + 1 - text.len()`.
- `MatchOutcome` keeps the order of `.any` over `stop_seqs`: a match stops the search, and an empty stop sequence reached before any match panics (the slice at line 550 when the text is empty, `windows(0)` at line 551 otherwise).
- The ghost variables `pre` (bytes decoded before `min_new_tokens`) and `lastTl` (bytes of the last chunk) are read only by properties.

The runs use `CHECK_DEADLOCK FALSE` because a finished entry has no next step.

**Bounds.** The `stop_exact` instance exercises the cases a window error would
miss:
- `aba` overlaps itself, and `bb` overlaps the end of `aba`;
- chunks of 2 bytes let a stop sequence span two tokens, and chunks of 0 bytes let a token add no text;
- `max_new_tokens` 5 allows matches up to 10 bytes into the output.

## Modules `RequestLifecycle` and `BatcherLifecycle`

`RequestLifecycle` is what the batcher promises each client (spec sections
3, 4.D, 4.F and 8), with no queues, batches or backend. Each request has a
stage (idle, pending, running, ended, rejected), a token count, a reply
count, a stop reason and whether its client holds the receiver. The actions
are:
- `Submit(G)`: all requests of one call are accepted, or all are rejected.
- `Drop(r)`: the client drops its receiver.
- `Serve`: one step of the batching loop. Each request is kept, admitted, timed out with a reply, given one token, finished with one reply, or abandoned without a reply after its client dropped the receiver.

`BatcherLifecycle` maps `Batcher` onto it:
- phases `chan` and `queued` are pending, `live` is running, `done` is ended;
- `gen`, `final`, `reason` and `rxOpen` are the tokens, replies, reason and receiver.

`LifecycleRefined == Life!Spec` is checked by the `refines` run and proved below.

## Findings

1. **Status miscount (`batcher.rs:709`).** `completed_ids` also counts the ids
   of `GenerateError`s, but `request_count` is `outputs.len()`, the number of
   tokens. When as many requests error as continue, `process_next_tokens`
   returns `None`. The loop then drops the batch and goes back to
   `next_batch`, and the entries still in the map are never stepped or
   answered. This assumes the backend omits a token for an errored request,
   which is what the wire shape suggests.
2. **Prune after a failed growth prefill (`batcher.rs:392-396`).** The code
   clears `completed_ids` whether or not the prefill succeeded. If a failed
   prefill did not apply `to_prune` on the server, `next_token` returns tokens
   for removed ids and the `expect` at line 589 panics. `spec.md` lists this
   as an open question. The passing runs assume the prune is applied
   (`ErrorMayUndoPrune = FALSE`).
3. **Stop-sequence window one byte short (`batcher.rs:548`).** The code
   searches `output[next_off - len..]` with
   `next_off = output.len() + 1 - text.len()`, a window of
   `|stop_seq| + added - 1` bytes. Spec 4.F (3) says the suffix of length
   `|stop_seq| + added`. TLC's trace: `bb` is decoded by token 1 with
   `min_new_tokens = 2`, then token 2 decodes to no text. The spec's window
   holds `bb`, but the code's does not, and the entry runs on. Within the
   code's own rule (matches must end after `min_new_tokens`),
   `StopSequenceExact` holds.
4. **Empty stop sequence (`batcher.rs:550`).** An empty stop sequence after
   one that does not match panics the batching task, and the process exits.
   Where it panics depends on the text. In TLC's trace the last token decodes
   to no text, so `next_off = output.len() + 1`, and the slice
   `output[next_off..]` at line 550 is out of range. With a non-empty text,
   the slice is valid and `windows(0)` panics at line 551. The spec neither excludes empty stop sequences nor says
   where they are rejected.

## Proofs

### Type correctness (`BatcherProofs`)

`THEOREM TypeCorrect == Spec => []TypeOK` is proved for all constants that
satisfy the module's assumptions.

`TypeOK` alone is not inductive, because `ShouldTryToGrowBatch` and `Hack`
read `batches[1]`. The inductive invariant `IInv` adds
`pc \in {"loop","grow"} => Len(batches) = 1`.

The proof has one lemma per action, each built on lemmas about the operators
the actions use:
- `PullType`, `SendErrorsType`, `ApplyTokensType`, `NewCachedType`, `HackType`, `SteppedType`, `ResultType`;
- `DrainedIdsType`: the CHOOSE in `ChanPos` is defined;
- `FirstNewIdType`: a nonempty set of naturals has a least element, by `WFMin` and `NatLessThanWellFounded` of `WellFoundedInduction`.

### Agreement with the server (`BatcherAgreement`)

Both theorems assume `BackendContract == ~GenErrors /\ ~ErrorMayUndoPrune`:
- `THEOREM BackendAgreementHolds == BackendContract => (Spec => []BackendAgreement)`;
- `THEOREM NoPanicHolds == BackendContract => (Spec => []NoPanic)`.

The two findings show that both halves of the contract are needed:
`generr_leak` breaks `NoLeak`, part of `BackendAgreement`, when `GenErrors`,
and `prune_lost` breaks `NoPanic` when `ErrorMayUndoPrune`.

The inductive invariant is `BInv`. TLC checked it on the core instance
before it was proved. It has these conjuncts:
- `IInv`;
- `ChanOK`: every channel entry is in phase `chan`. So the channel, the queue and the map are disjoint.
- `IdsOrdered`: ids are in `1..nextId-1`, and every live id is below every queued id.
- `GrowIds`: while a growth prefill is in flight, `newBatch` is exactly the live entries with id `>= startId`, and `startId > 0`.
- `Agreement`: no crash, no cached batch at `wait` or `prefill`, and `BackendAgreement`.

`BackendAgreement` alone is not inductive. The step that needs more is the
failed growth prefill. `send_errors(first_new_id)` removes the live entries
with an id at least `first_new_id`, and these must be exactly the new batch.
That holds only because the queue hands out FIFO prefixes with increasing ids,
which is `IdsOrdered` (kept by `Pull`, lemma `PullIds`) and `GrowIds`
(established by `TryGrow` through `FirstNewIdMin`).

The other lemmas say how each helper moves requests:
- `PullLive`, `ApplyTokensLive`, `SendErrorsLive`, `ShrinkIds`: how requests move between the queue, the map and `done`;
- `NewCachedSteps`: without `GenerateError`s, the status is `None` exactly when every request completed, so the server goes on with exactly the unfinished ones;
- `HackSteps`: after the hack, with the prune applied, the server steps what it stepped before for the current batch.

There is one lemma per action (`InferBInv` … `NextTokenDoneBInv`), and `NextBInv` combines them.

### Per-request results (`BatcherReplies`)

`BatcherReplies` extends `BatcherAgreement`. Its theorems all assume `BackendContract`:
- `RInvHolds`: `Spec => []RInv`;
- `BInvHolds`: `Spec => []BInv`;
- `TerminalOnceHolds`: `Spec => []TerminalOnce`;
- `StopCriteriaHolds`: `Spec => []StopCriteriaRespected`;
- `CancelDetectedHolds`: `Spec => []CancelDetected`.

None of the three properties is inductive. Each says something about
`gen`, `final`, `reason` and `closedAt`, and these counters are only
meaningful in the phase a request is in. The strengthening `RInv` is `BInv`,
`InputTokensFresh`, and for every request `ReqInv(r)`, which splits on the phase:
- `Untouched`: before the map (`new`, `chan`, `queued`), nothing was generated, sent or closed. So `Pull` admits fresh entries, and `InputTokensFresh` (every entry of a prefill in flight has generated nothing) is carried as a conjunct. It is not a check of `batcher.rs`: the entries come from the queue model.
- `Running`: a live entry is unfinished and below `max_new_tokens`. `NoPollPassed` says that once its receiver is closed, no poll point of `process_next_tokens` was passed since: a stream has generated nothing since `closedAt`, and no multiple of `CancelCheckPeriod` lies in `closedAt+1..gen` for a unary request.
- `Ended`: a done entry has either exactly one final response and a terminal reason, or was cancelled with no response and a closed receiver. Its reason matches its counters, as `check_stopping_criteria` decided them.

`BInv` is needed for the steps that apply backend answers. They touch only
live entries (`BackendAgreement`), and a failed growth prefill removes only
fresh ones (`GrowIds`).

The lemmas:
- `TokenResultFacts`: what one iteration of the token loop decides, stated once for the token, stop and cancel branches of `TokenResult`.
- `PullReqInv`, `ApplyReqInv`, `SendErrorsReqInv`: the helpers preserve `ReqInv`.
- One lemma per action, combined by `NextRInv`.
- `NoMultipleGap`: among `P` consecutive numbers one is a multiple of `P`. It turns `NoPollPassed` into the bound `gen < closedAt + CancelCheckPeriod` of `CancelDetected`, for every period. TLC only checked the periods 2 and 16.

### Stop sequences (`StopMatcherProofs`)

The theorems:
- `StopTypeCorrect`: `Spec => []TypeOK`.
- `StopSequenceExactHolds`: `NoEmptyStop => (Spec => []StopSequenceExact)`.

`NoEmptyStop` says that every stop sequence has at least one byte. The
hypothesis is needed. With an empty stop sequence, the matcher panics (the
slice at line 550 or `windows(0)` at 551). The entry then stops with
`NotFinished` while a later stop sequence may already end in the new text.
The `stop_empty` run shows that case. `NoMatcherPanic` is not stated as a
theorem: under `NoEmptyStop` it follows from the definition of
`MatchOutcome`. It stays the property of that violation run.

The type invariant `TInv` adds one fact to `TypeOK`: a running entry is below
`max_new_tokens`. The order of the checks in `check_stopping_criteria`
guarantees it (`CheckStopRunning`).

The inductive invariant `SInv` is `TInv /\ ~crashed /\ StopSequenceExact`.
The step that needs an argument is a token that leaves the entry running
above `min_new_tokens`. Take a stop sequence that ends in the output:
- If it ends in the earlier output, it ended there already (`EndsAtPrefix`, via `SubSeqOfConcat1`). That is excluded by the invariant.
- If it ends in the new text, the look-back window of `len` bytes contains it (`WindowCovers`), so `matches_stop_sequence` would have found it.

`MatchFacts` turns the CHOOSE of the first hit into a fact. A nonempty set
of indices has a least element: `LeastExists`, from `WFMin` and
`NatLessThanWellFounded`. TLC checked `SInv` with `max_new_tokens` 6 before
it was proved.

### Refinement (`BatcherLifecycleProofs`)

`THEOREM LifecycleRefinedHolds == BackendContract => (Spec => LifecycleRefined)`.

The argument:
- `Init` maps to `Life!Init`.
- Every step from a state satisfying `BInv` maps to a `Life!Next` step or a stutter.

`BInv` is needed because a backend answer maps to `Serve` only if it concerns
live entries. `BackendAgreement` says the stepped set, and `newBatch` at a
prefill, are subsets of `Live`. The lemmas are:
- `ServeIntro`: a per-request case split closes a `Serve` step.
- `PullServe`: a queue pull times out the late entries, admits the batch and keeps the rest.
- `ApplyServe`: `process_next_tokens` generates, finishes, or abandons. Abandoning relies on `TokenResultCancelled`: a cancel happens only with the receiver closed.
- `SendErrorsServe`: errors finish live entries.
- one lemma per action, combined by `NextRefines`.

### Only model-checked

These stay with TLC:
- `GrowthKeepsInflight` is an action property. Its proof would need an invariant of the growth path that is not yet written.
- `SpecWindowRespected` is the spec's window rule, which the code does not follow (the `stop_spec_window` finding). There is nothing true to prove about it.
- Liveness (`AllRequestsEnd`) needs fairness and ENABLED, which TLAPS cannot reason about.

## Not modelled

- The gRPC client, sharding and the decoder's text.
- `BatchType` token budgets: a batch is bounded by count only.
- `process_input_tokens`: data only. Whether its assert (line 565) can fire is decided by `crate::queue`, which is not under `src/`.
- `log_new_batch`.
- `InferResponse` payloads and error formatting.
- `ResponseStream::poll_next`.
- In `Batcher`, `matches_stop_sequence` is abstracted to the outcome `match`. `StopMatcher` models it on bytes for one entry; the two are not composed.
- `Times::from`'s `batch_time.unwrap()` in `early_timeout` (line 726). Whether the queue sets `batch_time` before its deadline pre-screen is decided in `crate::queue`, which is not under `src/`.

## Plan

1. Prove `GrowthKeepsInflight` from `BInv`.
2. Compose `StopMatcher` with `Batcher`, so that the match outcome is derived from bytes.
3. A module for `ResponseStream::poll_next` and its `Drop`.
