-------------------------- MODULE MCReconcileLoop --------------------------
(* Small instance of ReconcileLoop for TLC.                                *)
EXTENDS ReconcileLoop

\* One metadata change and one certificate change: each can land in any step
\* of a running tick, before or after the other.
MCMaxChanges == 1

\* Two failed syncs: a failure, a success, and a failure again, with the
\* requeue goroutine of the first still pending.
MCMaxFailures == 2

\* Three failed syncs: three requeue goroutines racing on incrementalBackoff,
\* the least needed for a write to overwrite a larger value with a smaller.

\* One Stop() (the signal handler calls it once).
MCMaxStopCalls == 1

\* A first Stop() and a second one that finds the shutdown in progress.
MCMaxStopCallsTwice == 2

\* incrementalBackoffInterval as set by NewLoadBalancerController.
MCBackoffInterval == 5

=============================================================================
