--------------------------- MODULE BatcherLifecycle ---------------------------
(***************************************************************************)
(* Batcher implements RequestLifecycle: the channel and the queue are      *)
(* "pending", the entries map is "running", a request removed after its    *)
(* reply or its cancellation has "ended".                                  *)
(***************************************************************************)
EXTENDS Batcher

\* Where a request is, as its client sees it.
Stage(p) ==
  CASE p = "idle"                -> "idle"
    [] p \in {"chan", "queued"}  -> "pending"
    [] p = "live"                -> "running"
    [] p = "done"                -> "ended"
    [] p = "rejected"            -> "rejected"

Life == INSTANCE RequestLifecycle
          WITH st <- [r \in Req |-> Stage(phase[r])],
               tokens <- gen, replies <- final, why <- reason, open <- rxOpen

\* Every behaviour of the batcher is one of the request lifecycle: a step of
\* batching_task moves each request at most one stage on and by at most one
\* token, replies to it at most once and cancels it only after its client
\* dropped the receiver; infer_batch accepts or rejects all its entries.
LifecycleRefined == Life!Spec

=============================================================================
