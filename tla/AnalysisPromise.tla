-------------------------- MODULE AnalysisPromise ---------------------------
(***************************************************************************)
(* What durable analysis jobs promise a researcher, without leases,        *)
(* alarms, messages, epochs or retries of RPCs.                            *)
(*                                                                         *)
(* A job is offered once.  At most one caller ever starts it, only that    *)
(* caller may send the provider request, and it sends one at most.  Only   *)
(* an answer that was paid for completes the job.  Work whose outcome is   *)
(* unknown ends as uncertain and is never started again; a researcher      *)
(* gets another attempt only as another job.                               *)
(***************************************************************************)
CONSTANTS Job, Caller, None

VARIABLES
  phase,   \* where each job is
  payer,   \* the one caller that may send its request
  paid,    \* the callers that sent it
  result   \* the caller whose answer is attached

vars == <<phase, payer, paid, result>>

Init ==
  /\ phase  = [k \in Job |-> "none"]
  /\ payer  = [k \in Job |-> None]
  /\ paid   = [k \in Job |-> {}]
  /\ result = [k \in Job |-> None]

Offer(k) ==
  /\ phase[k] = "none"
  /\ phase' = [phase EXCEPT ![k] = "open"]
  /\ UNCHANGED <<payer, paid, result>>

Start(k, c) ==
  /\ phase[k] = "open" /\ payer[k] = None
  /\ phase' = [phase EXCEPT ![k] = "started"]
  /\ payer' = [payer EXCEPT ![k] = c]
  /\ UNCHANGED <<paid, result>>

\* The payer's request may go out after others gave the job up as uncertain or
\* withdrew it, but never for a job reported as failed.
Pay(k) ==
  /\ payer[k] # None /\ paid[k] = {}
  /\ phase[k] \in {"started", "uncertain", "gone"}
  /\ paid' = [paid EXCEPT ![k] = {payer[k]}]
  /\ UNCHANGED <<phase, payer, result>>

Complete(k) ==
  /\ phase[k] = "started" /\ paid[k] = {payer[k]}
  /\ phase' = [phase EXCEPT ![k] = "complete"]
  /\ result' = [result EXCEPT ![k] = payer[k]]
  /\ UNCHANGED <<payer, paid>>

\* One transaction may give up several jobs: an operator's freeze, an activation.
\* Started work is only reported as failed when its payer knows it failed.
GiveUp(S) ==
  /\ \A k \in S : phase[k] \in {"open", "started"}
  /\ \E verdict \in [S -> {"failed", "uncertain"}] :
       /\ \A k \in S : phase[k] = "started" /\ paid[k] = {} => verdict[k] = "uncertain"
       /\ phase' = [k \in Job |-> IF k \in S THEN verdict[k] ELSE phase[k]]
  /\ UNCHANGED <<payer, paid, result>>

\* Deletion of the interview, or pruning of a generation that was retried.
Withdraw(S) ==
  /\ phase' = [k \in Job |-> IF k \in S THEN "gone" ELSE phase[k]]
  /\ result' = [k \in Job |-> IF k \in S THEN None ELSE result[k]]
  /\ UNCHANGED <<payer, paid>>

Next ==
  \/ \E k \in Job : Offer(k) \/ Pay(k) \/ Complete(k)
  \/ \E k \in Job, c \in Caller : Start(k, c)
  \/ \E S \in SUBSET Job : GiveUp(S) \/ Withdraw(S)

Spec == Init /\ [][Next]_vars

=============================================================================
