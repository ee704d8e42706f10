------------------------- MODULE SynchronousAnalysis -------------------------
(***************************************************************************)
(* Analysing an interview in the request, over the researcher's Redis.      *)
(*                                                                         *)
(* A run, after a participant's save or at a researcher's press, claims the *)
(* interview, reads it, calls the provider, and attaches the result or      *)
(* records a failure.  The claim is a lease: a run whose lease ended may    *)
(* still be waiting for the provider while another takes over.  Each of the *)
(* calls is one script over the record, the study and its guard; its answer *)
(* may be lost, and a call given up may be carried out later.  A deletion   *)
(* may leave the record readable between its purge passes.                  *)
(*                                                                         *)
(* One interview.  A result is named after the run that paid for it.        *)
(***************************************************************************)
EXTENDS Naturals, FiniteSets

CONSTANTS Run, NoRun

ASSUME RunAssumption == NoRun \notin Run /\ IsFiniteSet(Run)

VARIABLES
  exists,       \* interview:<id> is there
  guarded,      \* the study's guard is a tombstone
  status,       \* analysis.status of the record
  claim,        \* analysis.claimId: the run whose claim it is
  fresh,        \* the claim is younger than ANALYSIS_CLAIM_LEASE_MS
  attempts,     \* analysis.attempts
  synthesis,    \* the result stored in the record
  run,          \* each run: what it does next
  late,         \* writes given up, that may still be carried out
  ended,        \* history: leases that ended over a running analysis
  answered      \* history: what each run reported

record == <<exists, guarded, status, claim, fresh, attempts, synthesis>>
synchronous == <<record, run, late, ended, answered>>

SynchronousInit ==
  /\ exists = TRUE /\ guarded = FALSE /\ fresh = FALSE /\ attempts = 0
  /\ status = "pending" /\ claim = NoRun /\ synthesis = NoRun
  /\ run = [r \in Run |-> "idle"] /\ late = {} /\ ended = 0 /\ answered = [r \in Run |-> "nothing"]

Reports(r, what) ==
  /\ run' = [run EXCEPT ![r] = "ended"] /\ answered' = [answered EXCEPT ![r] = what]
Proceeds(r, does) == run' = [run EXCEPT ![r] = does] /\ UNCHANGED answered

-----------------------------------------------------------------------------
(* ATTACH_INTERVIEW_ANALYSIS_SCRIPT. *)

ClaimsComplete == exists /\ ~guarded /\ ~(status = "running" /\ fresh)   \* mutant: a complete analysis is claimed again

ClaimsRunning == exists /\ ~guarded /\ status # "complete"   \* mutant: a running claim is taken over at once

Claimable == exists /\ ~guarded /\ status # "complete" /\ ~(status = "running" /\ fresh)

\* claim.  A claim whose answer is lost leaves the record running to nobody.
Claim(r, heard) ==
  /\ run[r] = "idle"
  /\ IF Claimable
     THEN /\ status' = "running" /\ claim' = r /\ fresh' = TRUE /\ attempts' = attempts + 1
          /\ IF heard THEN Proceeds(r, "reads") ELSE Reports(r, "unavailable")
     ELSE /\ heard /\ UNCHANGED <<status, claim, fresh, attempts>>
          /\ Reports(r, IF exists /\ ~guarded THEN (IF status = "complete" THEN "already-complete" ELSE "busy") ELSE "unavailable")
  /\ UNCHANGED <<exists, guarded, synthesis, late, ended>>

\* complete and fail: the run's own claim, still running.
Settleable(r) == exists /\ ~guarded /\ status = "running" /\ claim = r

\* What a settlement that is refused is told.
Refusal == IF ~exists THEN "not-found" ELSE IF guarded THEN "unavailable" ELSE IF status = "complete" THEN "already-complete" ELSE "busy"

Attach(r) ==
  IF Settleable(r) THEN status' = "complete" /\ synthesis' = r /\ claim' = NoRun /\ fresh' = FALSE
  ELSE UNCHANGED <<status, synthesis, claim, fresh>>

RecordFailure(r) ==
  IF Settleable(r) THEN status' = "failed" /\ claim' = NoRun /\ fresh' = FALSE /\ UNCHANGED synthesis
  ELSE UNCHANGED <<status, synthesis, claim, fresh>>

-----------------------------------------------------------------------------
(* runInterviewAnalysis. *)

\* The record is read after the claim; it may have gone.
ReadInterview(r) ==
  /\ run[r] = "reads"
  /\ IF exists THEN Proceeds(r, "calls") ELSE Reports(r, "not-found")
  /\ UNCHANGED <<record, late, ended>>

CallSynthesis(r) ==
  /\ run[r] = "calls" /\ Proceeds(r, "waits")
  /\ UNCHANGED <<record, late, ended>>

\* The provider's result, or a failure (a bad result and one too large too).
SynthesisReturns(r, good) ==
  /\ run[r] = "waits" /\ Proceeds(r, IF good THEN "attaches" ELSE "fails")
  /\ UNCHANGED <<record, late, ended>>

\* The attach answers; or its answer is lost, or it is given up before it is
\* carried out, and the run records a storage failure.
AttachResult(r, outcome) ==
  /\ run[r] = "attaches"
  /\ IF outcome = "given up" THEN UNCHANGED record ELSE Attach(r) /\ UNCHANGED <<exists, guarded, attempts>>
  /\ late' = IF outcome = "given up" THEN late \cup {<<"attach", r>>} ELSE late
  /\ IF outcome = "heard" /\ (Settleable(r) \/ Refusal # "unavailable")
     THEN Reports(r, IF Settleable(r) THEN "complete" ELSE Refusal)
     ELSE Proceeds(r, "marks")
  /\ UNCHANGED ended

\* recordFailure: "failed" only when its write was acknowledged, and never for
\* a storage failure.
ReportFailure(r, outcome) ==
  /\ run[r] \in {"fails", "marks"}
  /\ IF outcome = "given up" THEN UNCHANGED record ELSE RecordFailure(r) /\ UNCHANGED <<exists, guarded, attempts>>
  /\ late' = IF outcome = "given up" THEN late \cup {<<"fail", r>>} ELSE late
  /\ Reports(r, IF outcome # "heard" THEN "unavailable"
                ELSE IF Settleable(r) THEN (IF run[r] = "fails" THEN "failed" ELSE "unavailable") ELSE Refusal)
  /\ UNCHANGED ended

\* A write given up is carried out after all.
Straggle(write) ==
  /\ late' = late \ {write}
  /\ IF write[1] = "attach" THEN Attach(write[2]) ELSE RecordFailure(write[2])
  /\ UNCHANGED <<exists, guarded, attempts, run, ended, answered>>

LeaseEnds ==
  /\ status = "running" /\ fresh /\ fresh' = FALSE /\ ended' = ended + 1
  /\ UNCHANGED <<exists, guarded, status, claim, attempts, synthesis, run, late, answered>>

CrashRun(r) ==
  /\ run[r] \notin {"idle", "ended"} /\ run' = [run EXCEPT ![r] = "ended"]
  /\ UNCHANGED <<record, late, ended, answered>>

\* The deletion of the study sets its tombstone; a later pass purges the record.
Tombstone ==
  /\ ~guarded /\ guarded' = TRUE
  /\ UNCHANGED <<exists, status, claim, fresh, attempts, synthesis, run, late, ended, answered>>
PurgeInterview ==
  /\ guarded /\ exists /\ exists' = FALSE
  /\ UNCHANGED <<guarded, status, claim, fresh, attempts, synthesis, run, late, ended, answered>>

SynchronousNext ==
  \/ \E r \in Run :
       \/ \E heard \in BOOLEAN : Claim(r, heard)
       \/ ReadInterview(r) \/ CallSynthesis(r) \/ CrashRun(r)
       \/ \E good \in BOOLEAN : SynthesisReturns(r, good)
       \/ \E outcome \in {"heard", "lost", "given up"} : AttachResult(r, outcome) \/ ReportFailure(r, outcome)
  \/ \E write \in late : Straggle(write)
  \/ LeaseEnds \/ Tombstone \/ PurgeInterview

SynchronousSpec == SynchronousInit /\ [][SynchronousNext]_synchronous

-----------------------------------------------------------------------------
(* Properties. *)

SynchronousTypeOK ==
  /\ status \in {"pending", "running", "failed", "complete"} /\ attempts \in 0..Cardinality(Run)
  /\ claim \in Run \cup {NoRun} /\ synthesis \in Run \cup {NoRun}

\* "Exactly one gets 'claimed' and the loser never reaches the provider": runs
\* are on their way to the provider at the same time only because leases ended
\* under the earlier ones, one lease for each run too many.
OverlapNeedsAnEndedLease ==
  Cardinality({r \in Run : run[r] \in {"reads", "calls", "waits"}}) <= 1 + ended

\* Whatever takeover, lost answer or straggling write comes before or after, a
\* run told "complete" is the one whose result the record holds, and one told
\* "already-complete" finds a result there.
ReportedResultStands ==
  /\ (status = "complete") = (synthesis # NoRun)
  /\ \A r \in Run : /\ answered[r] = "complete" => synthesis = r
                    /\ answered[r] = "already-complete" => synthesis # NoRun
=============================================================================
