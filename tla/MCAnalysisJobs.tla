--------------------------- MODULE MCAnalysisJobs ---------------------------
(***************************************************************************)
(* Instances of AnalysisJobs for TLC.  The code's durations differ by       *)
(* orders of magnitude; here they are one to three ticks that keep the      *)
(* relations the code relies on: deadline + margin <= lease, a watchdog     *)
(* and a backoff shorter than, as long as, or longer than a lease between   *)
(* the configurations, and a backoff that keeps its formula.                *)
(***************************************************************************)
EXTENDS AnalysisJobs, TLC

CONSTANTS BackoffBase, BackoffCap   \* ANALYSIS_DISPATCH_BACKOFF_BASE_MS, .._CAP_MS

\* dispatchBackoffMs: exponential, capped.
MCBackoff == [n \in 1..MaxDispatch |-> Smaller(BackoffBase * 2^(n - 1), BackoffCap)]

\* Nonces, interview ids and idempotency keys are compared for equality only and
\* no choice depends on them, so they are interchangeable for safety.
SafetySymmetry == Permutations(Invocation) \cup Permutations(Interview) \cup Permutations(Key)

=============================================================================
