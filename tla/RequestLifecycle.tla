--------------------------- MODULE RequestLifecycle ---------------------------
(***************************************************************************)
(* What the batcher promises each client about its request (spec sections  *)
(* 3, 4.D, 4.F and 8), without queues, batches or a backend.               *)
(*                                                                         *)
(* A request is submitted alone or with others in one all-or-nothing call, *)
(* waits, runs, and ends.  While it runs it gains at most one token per    *)
(* step.  It ends once, with one terminal reply, unless its client dropped *)
(* the receiver, in which case it may end Cancelled without a reply.  A    *)
(* request that times out while waiting ends with TimeLimit.  Any number   *)
(* of requests may move in one step of the batching loop.                  *)
(***************************************************************************)
EXTENDS Naturals

CONSTANT Req

VARIABLES
  st,       \* idle, pending (channel or queue), running, ended, rejected
  tokens,   \* tokens generated for the request
  replies,  \* terminal replies sent
  why,      \* the stop reason
  open      \* the client still holds its receiver

avars == <<st, tokens, replies, why, open>>

Stages == {"idle", "pending", "running", "ended", "rejected"}

Reasons == {"NotFinished", "EosToken", "MaxTokens", "TokenLimit",
            "StopSequence", "TimeLimit", "Cancelled", "Error"}

Init ==
  /\ st = [r \in Req |-> "idle"]
  /\ tokens = [r \in Req |-> 0]
  /\ replies = [r \in Req |-> 0]
  /\ why = [r \in Req |-> "NotFinished"]
  /\ open = [r \in Req |-> TRUE]

\* enqueue(entries): all entries of one call are accepted, or all rejected.
Submit(G) ==
  /\ G # {}
  /\ \A r \in G : st[r] = "idle"
  /\ \E to \in {"pending", "rejected"} :
       st' = [r \in Req |-> IF r \in G THEN to ELSE st[r]]
  /\ UNCHANGED <<tokens, replies, why, open>>

\* The client drops its receiver.
Drop(r) ==
  /\ open[r]
  /\ st[r] \in {"pending", "running"}
  /\ open' = [open EXCEPT ![r] = FALSE]
  /\ UNCHANGED <<st, tokens, replies, why>>

\* What one step of the batching loop may do to request r.
Keep(r) ==
  /\ st'[r] = st[r] /\ tokens'[r] = tokens[r]
  /\ replies'[r] = replies[r] /\ why'[r] = why[r]

Admit(r) ==
  /\ st[r] = "pending" /\ st'[r] = "running"
  /\ tokens'[r] = tokens[r] /\ replies'[r] = replies[r] /\ why'[r] = why[r]

TimeOut(r) ==
  /\ st[r] = "pending" /\ st'[r] = "ended"
  /\ tokens'[r] = tokens[r] /\ replies'[r] = replies[r] + 1
  /\ why'[r] = "TimeLimit"

Generate(r) ==
  /\ st[r] = "running" /\ st'[r] = "running"
  /\ tokens'[r] = tokens[r] + 1
  /\ replies'[r] = replies[r] /\ why'[r] = why[r]

Finish(r) ==
  /\ st[r] = "running" /\ st'[r] = "ended"
  /\ tokens'[r] \in {tokens[r], tokens[r] + 1}
  /\ replies'[r] = replies[r] + 1
  /\ why'[r] \in Reasons \ {"NotFinished", "Cancelled"}

Abandon(r) ==
  /\ st[r] = "running" /\ ~open[r] /\ st'[r] = "ended"
  /\ tokens'[r] \in {tokens[r], tokens[r] + 1}
  /\ replies'[r] = replies[r]
  /\ why'[r] = "Cancelled"

Serve ==
  /\ st' \in [Req -> Stages]
  /\ tokens' \in [Req -> Nat]
  /\ replies' \in [Req -> Nat]
  /\ why' \in [Req -> Reasons]
  /\ \A r \in Req :
       Keep(r) \/ Admit(r) \/ TimeOut(r) \/ Generate(r) \/ Finish(r) \/ Abandon(r)
  /\ UNCHANGED open

Next ==
  \/ \E G \in SUBSET Req : Submit(G)
  \/ \E r \in Req : Drop(r)
  \/ Serve

Spec == Init /\ [][Next]_avars

-----------------------------------------------------------------------------
\* Every request gets at most one terminal reply, and a request ends without
\* one only when its client had dropped the receiver.
AnsweredOnce ==
  \A r \in Req :
    /\ replies[r] <= 1
    /\ replies[r] = 1 <=> (st[r] = "ended" /\ why[r] # "Cancelled")
    /\ why[r] = "Cancelled" => ~open[r]

=============================================================================
