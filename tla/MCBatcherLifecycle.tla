------------------------- MODULE MCBatcherLifecycle -------------------------
(* The core instance of MCBatcher, checked against the request lifecycle.  *)
EXTENDS BatcherLifecycle, MCBatcher
=============================================================================
