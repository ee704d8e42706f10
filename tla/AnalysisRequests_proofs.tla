------------------------ MODULE AnalysisRequests_proofs ------------------------
(***************************************************************************)
(* Proofs about analysis as it is asked for: run in the request             *)
(* (SynchronousAnalysis, for any number of runs), and queued and watched    *)
(* from pages and batches (AnalysisPage, for any number of either).         *)
(***************************************************************************)
EXTENDS SynchronousAnalysis, AnalysisPage, FiniteSetTheorems, TLAPS

-----------------------------------------------------------------------------
(* Analysing in the request. *)

Steps == {"idle", "reads", "calls", "waits", "attaches", "fails", "marks", "ended"}
Answers == {"nothing", "unavailable", "already-complete", "busy", "not-found", "complete", "failed"}
Asking == {"reads", "calls", "waits"}
Begun == Steps \ {"idle"}
At(A) == {r \in Run : run[r] \in A}

Shape ==
  /\ status \in {"pending", "running", "failed", "complete"}
  /\ claim \in Run \cup {NoRun} /\ synthesis \in Run \cup {NoRun}
  /\ run \in [Run -> Steps] /\ answered \in [Run -> Answers]
  /\ ended \in Nat /\ attempts \in Nat /\ late \subseteq {"attach", "fail"} \X Run

\* A write given up belongs to a run that has finished with the provider.
LateIsOver == \A write \in late : run[write[2]] \in {"marks", "ended"}

\* Every claim is another run's.
AttemptsCounted == attempts <= Cardinality(At(Begun))

\* Every run on its way to the provider lost its lease, but the one that holds it.
LeasesCounted ==
  /\ Cardinality(At(Asking)) <= ended + 1
  /\ Cardinality(At(Asking)) <= ended \/ (status = "running" /\ fresh /\ claim \in At(Asking))

IInv == Shape /\ LateIsOver /\ AttemptsCounted /\ LeasesCounted /\ ReportedResultStands

-----------------------------------------------------------------------------
(* What a step of one run does to the runs at some steps. *)

\* The runs at a place are finitely many.
LEMMA AtIsFinite ==
  ASSUME NEW CONSTANT A
  PROVE IsFiniteSet(At(A)) /\ Cardinality(At(A)) \in Nat
<1>1. At(A) \subseteq Run
  BY DEF At
<1> QED
  BY <1>1, RunAssumption, FS_Subset, FS_CardinalityType

\* A run that moves is counted where it arrives and no longer where it was.
LEMMA AtMoves ==
  ASSUME NEW CONSTANT A, NEW r \in Run, NEW does \in Steps,
         run \in [Run -> Steps], run' = [run EXCEPT ![r] = does]
  PROVE /\ r \in At(A) <=> run[r] \in A
        /\ does \in A => At(A)' = At(A) \cup {r}
        /\ does \notin A => At(A)' = At(A) \ {r}
BY DEF At

\* How many there are.
LEMMA AtCounts ==
  ASSUME NEW CONSTANT A, NEW r \in Run, NEW does \in Steps,
         run \in [Run -> Steps], run' = [run EXCEPT ![r] = does]
  PROVE /\ Cardinality(At(A)) \in Nat /\ Cardinality(At(A)') \in Nat
        /\ does \in A /\ run[r] \notin A => Cardinality(At(A)') = Cardinality(At(A)) + 1
        /\ does \in A /\ run[r] \in A => At(A)' = At(A)
        /\ does \notin A /\ run[r] \notin A => At(A)' = At(A)
        /\ does \notin A /\ run[r] \in A => /\ At(A)' = At(A) \ {r}
                                            /\ Cardinality(At(A)') = Cardinality(At(A)) - 1
<1>1. IsFiniteSet(At(A)) /\ Cardinality(At(A)) \in Nat
  BY AtIsFinite
<1>2. /\ r \in At(A) <=> run[r] \in A
      /\ does \in A => At(A)' = At(A) \cup {r}
      /\ does \notin A => At(A)' = At(A) \ {r}
  BY AtMoves
<1>3. /\ Cardinality(At(A) \cup {r}) = IF r \in At(A) THEN Cardinality(At(A)) ELSE Cardinality(At(A)) + 1
  BY <1>1, FS_AddElement
<1>4. /\ Cardinality(At(A) \ {r}) = IF r \in At(A) THEN Cardinality(At(A)) - 1 ELSE Cardinality(At(A))
  BY <1>1, FS_RemoveElement
<1>5. Cardinality(At(A) \cup {r}) \in Nat /\ Cardinality(At(A) \ {r}) \in Nat
  BY <1>1, FS_AddElement, FS_RemoveElement, FS_CardinalityType
<1>6. r \in At(A) => At(A) \cup {r} = At(A)
  OBVIOUS
<1>7. r \notin At(A) => At(A) \ {r} = At(A)
  OBVIOUS
<1> QED
  BY <1>1, <1>2, <1>3, <1>4, <1>5, <1>6, <1>7

-----------------------------------------------------------------------------
(* The shape of the state. *)

\* The shape holds at first.
LEMMA ShapeInit == SynchronousInit => Shape
BY DEF SynchronousInit, Shape, Steps, Answers

\* Every step keeps the shape.
LEMMA ShapeNext == Shape /\ [SynchronousNext]_synchronous => Shape'
<1> SUFFICES ASSUME Shape, [SynchronousNext]_synchronous PROVE Shape'
  OBVIOUS
<1> USE DEF Shape, Steps, Answers, record
<1>1. ASSUME NEW r \in Run, NEW heard \in BOOLEAN, Claim(r, heard) PROVE Shape'
  <2>1. CASE Claimable /\ heard
    BY <1>1, <2>1 DEF Claim, Proceeds
  <2>2. CASE Claimable /\ ~heard
    BY <1>1, <2>2 DEF Claim, Reports
  <2>3. CASE ~Claimable
    BY <1>1, <2>3 DEF Claim, Reports
  <2> QED
    BY <2>1, <2>2, <2>3
<1>2. ASSUME NEW r \in Run, ReadInterview(r) \/ CallSynthesis(r) \/ CrashRun(r) PROVE Shape'
  <2>1. CASE ReadInterview(r)
    BY <2>1 DEF ReadInterview, Reports, Proceeds
  <2>2. CASE CallSynthesis(r)
    BY <2>2 DEF CallSynthesis, Proceeds
  <2>3. CASE CrashRun(r)
    BY <2>3 DEF CrashRun
  <2> QED
    BY <1>2, <2>1, <2>2, <2>3
<1>3. ASSUME NEW r \in Run, NEW good \in BOOLEAN, SynthesisReturns(r, good) PROVE Shape'
  BY <1>3 DEF SynthesisReturns, Proceeds
<1>4. ASSUME NEW r \in Run, NEW outcome, AttachResult(r, outcome) PROVE Shape'
  <2>1. UNCHANGED <<status, claim, synthesis>> \/ (status' = "complete" /\ claim' = NoRun /\ synthesis' = r)
    BY <1>4 DEF AttachResult, Attach
  <2>2. late' = late \/ late' = late \cup {<<"attach", r>>}
    BY <1>4 DEF AttachResult
  <2>4. late' \subseteq {"attach", "fail"} \X Run
    BY <2>2
  <2>5. UNCHANGED <<ended, attempts>>
    BY <1>4 DEF AttachResult
  <2>3. run' \in [Run -> Steps] /\ answered' \in [Run -> Answers]
    <3>1. CASE outcome = "heard" /\ (Settleable(r) \/ Refusal # "unavailable")
      BY <1>4, <3>1 DEF AttachResult, Reports, Refusal
    <3>2. CASE ~(outcome = "heard" /\ (Settleable(r) \/ Refusal # "unavailable"))
      BY <1>4, <3>2 DEF AttachResult, Proceeds
    <3> QED
      BY <3>1, <3>2
  <2> QED
    BY <2>1, <2>3, <2>4, <2>5
<1>5. ASSUME NEW r \in Run, NEW outcome, ReportFailure(r, outcome) PROVE Shape'
  <2>1. UNCHANGED <<status, claim, synthesis>> \/ (status' = "failed" /\ claim' = NoRun /\ synthesis' = synthesis)
    BY <1>5 DEF ReportFailure, RecordFailure
  <2>2. late' = late \/ late' = late \cup {<<"fail", r>>}
    BY <1>5 DEF ReportFailure
  <2>4. late' \subseteq {"attach", "fail"} \X Run
    BY <2>2
  <2>5. UNCHANGED <<ended, attempts>>
    BY <1>5 DEF ReportFailure
  <2>3. run' \in [Run -> Steps] /\ answered' \in [Run -> Answers]
    BY <1>5 DEF ReportFailure, Reports, Refusal
  <2> QED
    BY <2>1, <2>3, <2>4, <2>5
<1>6. ASSUME NEW write \in late, Straggle(write) PROVE Shape'
  BY <1>6 DEF Straggle, Attach, RecordFailure
<1>7. CASE LeaseEnds \/ Tombstone \/ PurgeInterview
  BY <1>7 DEF LeaseEnds, Tombstone, PurgeInterview
<1>8. CASE UNCHANGED synchronous
  BY <1>8 DEF synchronous
<1> QED
  BY <1>1, <1>2, <1>3, <1>4, <1>5, <1>6, <1>7, <1>8 DEF SynchronousNext

\* Every step leaves a late write to a run that marks its failure or has ended.
LEMMA LateIsOverNext == Shape /\ LateIsOver /\ [SynchronousNext]_synchronous => LateIsOver'
<1> SUFFICES ASSUME Shape, LateIsOver, [SynchronousNext]_synchronous PROVE LateIsOver'
  OBVIOUS
<1> USE DEF Shape, Steps, LateIsOver, record
<1>1. ASSUME NEW r \in Run, NEW heard \in BOOLEAN, Claim(r, heard) PROVE LateIsOver'
  <2>1. CASE Claimable /\ heard
    BY <1>1, <2>1 DEF Claim, Proceeds
  <2>2. CASE Claimable /\ ~heard
    BY <1>1, <2>2 DEF Claim, Reports
  <2>3. CASE ~Claimable
    BY <1>1, <2>3 DEF Claim, Reports
  <2> QED
    BY <2>1, <2>2, <2>3
<1>2. ASSUME NEW r \in Run, ReadInterview(r) \/ CallSynthesis(r) \/ CrashRun(r) PROVE LateIsOver'
  <2>1. CASE ReadInterview(r)
    BY <2>1 DEF ReadInterview, Reports, Proceeds
  <2>2. CASE CallSynthesis(r)
    BY <2>2 DEF CallSynthesis, Proceeds
  <2>3. CASE CrashRun(r)
    BY <2>3 DEF CrashRun
  <2> QED
    BY <1>2, <2>1, <2>2, <2>3
<1>3. ASSUME NEW r \in Run, NEW good \in BOOLEAN, SynthesisReturns(r, good) PROVE LateIsOver'
  BY <1>3 DEF SynthesisReturns, Proceeds
<1>4. ASSUME NEW r \in Run, NEW outcome \in {"heard", "lost", "given up"}, AttachResult(r, outcome) PROVE LateIsOver'
  <2>1. \A write \in late' : write \in late \/ write[2] = r
    <3>1. late' = late \/ late' = late \cup {<<"attach", r>>}
      BY <1>4 DEF AttachResult
    <3>2. ASSUME NEW write \in late', write \notin late PROVE write[2] = r
      <4>1. write = <<"attach", r>>
        BY <3>1, <3>2
      <4> QED
        BY <4>1
    <3> QED
      BY <3>2
  <2>2. run' = [run EXCEPT ![r] = "ended"] \/ run' = [run EXCEPT ![r] = "marks"]
    BY <1>4 DEF AttachResult, Reports, Proceeds
  <2> QED
    BY <2>1, <2>2
<1>5. ASSUME NEW r \in Run, NEW outcome \in {"heard", "lost", "given up"}, ReportFailure(r, outcome) PROVE LateIsOver'
  <2>1. \A write \in late' : write \in late \/ write[2] = r
    <3>1. late' = late \/ late' = late \cup {<<"fail", r>>}
      BY <1>5 DEF ReportFailure
    <3>2. ASSUME NEW write \in late', write \notin late PROVE write[2] = r
      <4>1. write = <<"fail", r>>
        BY <3>1, <3>2
      <4> QED
        BY <4>1
    <3> QED
      BY <3>2
  <2>2. run' = [run EXCEPT ![r] = "ended"] \/ run' = [run EXCEPT ![r] = "marks"]
    BY <1>5 DEF ReportFailure, Reports
  <2> QED
    BY <2>1, <2>2
<1>6. ASSUME NEW write \in late, Straggle(write) PROVE LateIsOver'
  BY <1>6 DEF Straggle
<1>7. CASE LeaseEnds \/ Tombstone \/ PurgeInterview
  BY <1>7 DEF LeaseEnds, Tombstone, PurgeInterview
<1>8. CASE UNCHANGED synchronous
  BY <1>8 DEF synchronous
<1> QED
  BY <1>1, <1>2, <1>3, <1>4, <1>5, <1>6, <1>7, <1>8 DEF SynchronousNext

-----------------------------------------------------------------------------
(* Counting claims and leases. *)

\* Every step has a run that began for every attempt it counts.
LEMMA AttemptsCountedNext == Shape /\ AttemptsCounted /\ [SynchronousNext]_synchronous => AttemptsCounted'
<1> SUFFICES ASSUME Shape, AttemptsCounted, [SynchronousNext]_synchronous PROVE AttemptsCounted'
  OBVIOUS
<1> USE DEF AttemptsCounted
<1>1. ASSUME NEW r \in Run, NEW does \in Begun, run' = [run EXCEPT ![r] = does],
             run[r] # "idle", attempts' = attempts
      PROVE AttemptsCounted'
  BY <1>1, AtCounts DEF Shape, Begun, Steps
<1>2. ASSUME NEW r \in Run, NEW heard \in BOOLEAN, Claim(r, heard) PROVE AttemptsCounted'
  <2>1. PICK does \in Begun : run' = [run EXCEPT ![r] = does]
    BY <1>2 DEF Claim, Reports, Proceeds, Begun, Steps
  <2>2. run[r] = "idle" /\ attempts' \in {attempts, attempts + 1}
    BY <1>2 DEF Claim
  <2>3. Cardinality(At(Begun)') = Cardinality(At(Begun)) + 1 /\ Cardinality(At(Begun)) \in Nat
    BY <2>1, <2>2, AtCounts DEF Shape, Begun
  <2> QED
    BY <2>2, <2>3 DEF Shape
<1>3. ASSUME NEW r \in Run, ReadInterview(r) \/ CallSynthesis(r) \/ CrashRun(r) PROVE AttemptsCounted'
  <2>1. PICK does \in Begun : run' = [run EXCEPT ![r] = does]
    BY <1>3 DEF ReadInterview, CallSynthesis, CrashRun, Reports, Proceeds, Begun, Steps
  <2> QED
    BY <1>1, <1>3, <2>1 DEF ReadInterview, CallSynthesis, CrashRun, record
<1>4. ASSUME NEW r \in Run, NEW good \in BOOLEAN, SynthesisReturns(r, good) PROVE AttemptsCounted'
  <2>1. PICK does \in Begun : run' = [run EXCEPT ![r] = does]
    BY <1>4 DEF SynthesisReturns, Proceeds, Begun, Steps
  <2> QED
    BY <1>1, <1>4, <2>1 DEF SynthesisReturns, record
<1>5. ASSUME NEW r \in Run, NEW outcome, AttachResult(r, outcome) PROVE AttemptsCounted'
  <2>1. PICK does \in Begun : run' = [run EXCEPT ![r] = does]
    BY <1>5 DEF AttachResult, Reports, Proceeds, Begun, Steps
  <2> QED
    BY <1>1, <1>5, <2>1 DEF AttachResult, record
<1>6. ASSUME NEW r \in Run, NEW outcome, ReportFailure(r, outcome) PROVE AttemptsCounted'
  <2>1. run' = [run EXCEPT ![r] = "ended"] /\ run[r] # "idle" /\ attempts' = attempts
    BY <1>6 DEF ReportFailure, Reports, record
  <2> QED
    BY <1>1, <2>1 DEF Begun, Steps
<1>7. ASSUME run' = run, attempts' = attempts PROVE AttemptsCounted'
  BY <1>7 DEF At
<1>8. ASSUME NEW write \in late, Straggle(write) PROVE AttemptsCounted'
  BY <1>7, <1>8 DEF Straggle
<1>9. CASE LeaseEnds \/ Tombstone \/ PurgeInterview \/ UNCHANGED synchronous
  BY <1>7, <1>9 DEF LeaseEnds, Tombstone, PurgeInterview, synchronous, record
<1> QED
  BY <1>2, <1>3, <1>4, <1>5, <1>6, <1>8, <1>9 DEF SynchronousNext

\* Every step keeps the runs that ask within the leases that ended, and one.
LEMMA LeasesCountedNext ==
  Shape /\ LateIsOver /\ LeasesCounted /\ [SynchronousNext]_synchronous => LeasesCounted'
<1> SUFFICES ASSUME Shape, LateIsOver, LeasesCounted, [SynchronousNext]_synchronous PROVE LeasesCounted'
  OBVIOUS
<1>0. Cardinality(At(Asking)) \in Nat
  BY AtIsFinite
\* A run that goes on or leaves, with the record as it was.
<1>1. ASSUME NEW r \in Run, NEW does \in Steps, run' = [run EXCEPT ![r] = does],
             run[r] \in Asking \/ does \notin Asking,
             UNCHANGED <<status, fresh, claim, ended>>
      PROVE LeasesCounted'
  <2>1. /\ Cardinality(At(Asking)') \in Nat
        /\ does \in Asking /\ run[r] \in Asking => At(Asking)' = At(Asking)
        /\ does \notin Asking /\ run[r] \notin Asking => At(Asking)' = At(Asking)
        /\ does \notin Asking /\ run[r] \in Asking => /\ At(Asking)' = At(Asking) \ {r}
                                                      /\ Cardinality(At(Asking)') = Cardinality(At(Asking)) - 1
    BY <1>1, AtCounts DEF Shape
  <2>2. CASE does \notin Asking /\ run[r] \in Asking
    BY <1>0, <1>1, <2>1, <2>2 DEF LeasesCounted, Shape
  <2>3. CASE At(Asking)' = At(Asking)
    BY <1>1, <2>3 DEF LeasesCounted
  <2> QED
    BY <1>1, <2>1, <2>2, <2>3
\* A settlement by a run that has finished with the provider.
<1>2. ASSUME NEW r \in Run, run[r] \notin Asking, At(Asking)' = At(Asking), ended' = ended,
             claim = r \/ UNCHANGED <<status, fresh, claim>>
      PROVE LeasesCounted'
  BY <1>2 DEF LeasesCounted, At
<1>3. ASSUME NEW r \in Run, NEW heard \in BOOLEAN, Claim(r, heard) PROVE LeasesCounted'
  <2>1. CASE Claimable /\ heard
    <3>1. /\ status' = "running" /\ fresh' /\ claim' = r /\ ended' = ended
          /\ run[r] = "idle" /\ run' = [run EXCEPT ![r] = "reads"]
      BY <1>3, <2>1 DEF Claim, Proceeds
    <3>2. "reads" \in Steps /\ "reads" \in Asking /\ run[r] \notin Asking
      BY <3>1 DEF Steps, Asking
    <3>4. At(Asking)' = At(Asking) \cup {r} /\ Cardinality(At(Asking)') = Cardinality(At(Asking)) + 1
      BY <3>1, <3>2, AtCounts, AtMoves DEF Shape
    <3>3. Cardinality(At(Asking)) <= ended
      BY <2>1 DEF Claimable, LeasesCounted
    <3> QED
      BY <1>0, <3>1, <3>3, <3>4 DEF LeasesCounted, Shape
  <2>2. CASE Claimable /\ ~heard
    <3>1. ended' = ended /\ run[r] = "idle" /\ run' = [run EXCEPT ![r] = "ended"]
      BY <1>3, <2>2 DEF Claim, Reports
    <3>2. At(Asking)' = At(Asking)
      BY <3>1, AtCounts DEF Shape, Steps, Asking
    <3>3. Cardinality(At(Asking)) <= ended
      BY <2>2 DEF Claimable, LeasesCounted
    <3> QED
      BY <1>0, <3>1, <3>2, <3>3 DEF LeasesCounted, Shape
  <2>3. CASE ~Claimable
    <3>1. UNCHANGED <<status, fresh, claim, ended>> /\ run' = [run EXCEPT ![r] = "ended"]
      BY <1>3, <2>3 DEF Claim, Reports
    <3> QED
      BY <1>1, <3>1 DEF Steps, Asking
  <2> QED
    BY <2>1, <2>2, <2>3
<1>4. ASSUME NEW r \in Run, ReadInterview(r) \/ CallSynthesis(r) \/ CrashRun(r) PROVE LeasesCounted'
  <2>1. PICK does \in Steps : run' = [run EXCEPT ![r] = does] /\ (run[r] \in Asking \/ does \notin Asking)
    BY <1>4 DEF ReadInterview, CallSynthesis, CrashRun, Reports, Proceeds, Steps, Asking
  <2> QED
    BY <1>1, <1>4, <2>1 DEF ReadInterview, CallSynthesis, CrashRun, record
<1>5. ASSUME NEW r \in Run, NEW good \in BOOLEAN, SynthesisReturns(r, good) PROVE LeasesCounted'
  <2>1. PICK does \in Steps : run' = [run EXCEPT ![r] = does] /\ run[r] \in Asking
    BY <1>5 DEF SynthesisReturns, Proceeds, Steps, Asking
  <2> QED
    BY <1>1, <1>5, <2>1 DEF SynthesisReturns, record
<1>6. ASSUME NEW r \in Run, NEW outcome, AttachResult(r, outcome) PROVE LeasesCounted'
  <2>1. PICK does \in Steps : run' = [run EXCEPT ![r] = does] /\ does \notin Asking
    BY <1>6 DEF AttachResult, Reports, Proceeds, Steps, Asking
  <2>2. run[r] = "attaches" /\ ended' = ended
    BY <1>6 DEF AttachResult
  <2>3. At(Asking)' = At(Asking)
    BY <2>1, <2>2, AtCounts DEF Shape, Asking
  <2>4. claim = r \/ UNCHANGED <<status, fresh, claim>>
    BY <1>6 DEF AttachResult, Attach, Settleable, record
  <2> QED
    BY <1>2, <2>2, <2>3, <2>4 DEF Asking
<1>7. ASSUME NEW r \in Run, NEW outcome, ReportFailure(r, outcome) PROVE LeasesCounted'
  <2>1. run' = [run EXCEPT ![r] = "ended"] /\ run[r] \in {"fails", "marks"} /\ ended' = ended
    BY <1>7 DEF ReportFailure, Reports
  <2>2. At(Asking)' = At(Asking)
    BY <2>1, AtCounts DEF Shape, Steps, Asking
  <2>3. claim = r \/ UNCHANGED <<status, fresh, claim>>
    BY <1>7 DEF ReportFailure, RecordFailure, Settleable, record
  <2> QED
    BY <1>2, <2>1, <2>2, <2>3 DEF Asking
<1>8. ASSUME NEW write \in late, Straggle(write) PROVE LeasesCounted'
  <2>1. write[2] \in Run /\ run[write[2]] \notin Asking
    BY DEF Shape, LateIsOver, Asking
  <2>2. At(Asking)' = At(Asking) /\ ended' = ended
    BY <1>8 DEF Straggle, At
  <2>3. claim = write[2] \/ UNCHANGED <<status, fresh, claim>>
    BY <1>8 DEF Straggle, Attach, RecordFailure, Settleable
  <2> QED
    BY <1>2, <2>1, <2>2, <2>3
<1>9. CASE LeaseEnds
  <2>1. run' = run /\ ended' = ended + 1
    BY <1>9 DEF LeaseEnds
  <2>2. At(Asking)' = At(Asking)
    BY <2>1 DEF At
  <2> QED
    BY <1>0, <2>1, <2>2 DEF LeasesCounted, Shape
<1>10. CASE Tombstone \/ PurgeInterview \/ UNCHANGED synchronous
  BY <1>10 DEF Tombstone, PurgeInterview, synchronous, record, LeasesCounted, At
<1> QED
  BY <1>3, <1>4, <1>5, <1>6, <1>7, <1>8, <1>9, <1>10 DEF SynchronousNext

-----------------------------------------------------------------------------
(* What is reported. *)

\* Every step keeps a result that was reported.
LEMMA ReportedNext ==
  Shape /\ ReportedResultStands /\ [SynchronousNext]_synchronous => ReportedResultStands'
<1> SUFFICES ASSUME Shape, ReportedResultStands, [SynchronousNext]_synchronous PROVE ReportedResultStands'
  OBVIOUS
<1> USE RunAssumption DEF Shape, ReportedResultStands, record
<1>1. ASSUME NEW r \in Run, NEW heard \in BOOLEAN, Claim(r, heard) PROVE ReportedResultStands'
  BY <1>1 DEF Claim, Claimable, Reports, Proceeds
<1>2. ASSUME NEW r \in Run, ReadInterview(r) \/ CallSynthesis(r) \/ CrashRun(r) PROVE ReportedResultStands'
  BY <1>2 DEF ReadInterview, CallSynthesis, CrashRun, Reports, Proceeds
<1>3. ASSUME NEW r \in Run, NEW good \in BOOLEAN, SynthesisReturns(r, good) PROVE ReportedResultStands'
  BY <1>3 DEF SynthesisReturns, Proceeds
<1>4. ASSUME NEW r \in Run, NEW outcome \in {"heard", "lost", "given up"}, AttachResult(r, outcome)
      PROVE ReportedResultStands'
  BY ZenonT(60), <1>4 DEF AttachResult, Attach, Settleable, Refusal, Reports, Proceeds
<1>5. ASSUME NEW r \in Run, NEW outcome, ReportFailure(r, outcome) PROVE ReportedResultStands'
  BY <1>5 DEF ReportFailure, RecordFailure, Settleable, Refusal, Reports
<1>6. ASSUME NEW write \in late, Straggle(write) PROVE ReportedResultStands'
  BY <1>6 DEF Straggle, Attach, RecordFailure, Settleable
<1>7. CASE LeaseEnds \/ Tombstone \/ PurgeInterview \/ UNCHANGED synchronous
  BY <1>7 DEF LeaseEnds, Tombstone, PurgeInterview, synchronous
<1> QED
  BY <1>1, <1>2, <1>3, <1>4, <1>5, <1>6, <1>7 DEF SynchronousNext

-----------------------------------------------------------------------------
(* The theorems. *)

\* The inductive invariant: a write given up belongs to a run that is done with
\* the provider, and every lease but one has ended under the runs that are not.
THEOREM SynchronousInvariance == SynchronousSpec => []IInv
<1>1. SynchronousInit => IInv
  <2> SUFFICES ASSUME SynchronousInit PROVE IInv
    OBVIOUS
  <2>1. At(Asking) = {}
    BY DEF SynchronousInit, At, Asking
  <2>2. At(Begun) = {}
    BY DEF SynchronousInit, At, Begun, Steps
  <2>3. LateIsOver /\ ReportedResultStands
    BY DEF SynchronousInit, LateIsOver, ReportedResultStands
  <2>4. LeasesCounted /\ AttemptsCounted
    BY <2>1, <2>2, FS_EmptySet DEF SynchronousInit, LeasesCounted, AttemptsCounted
  <2> QED
    BY <2>3, <2>4, ShapeInit DEF IInv
<1>2. IInv /\ [SynchronousNext]_synchronous => IInv'
  BY ShapeNext, LateIsOverNext, AttemptsCountedNext, LeasesCountedNext, ReportedNext DEF IInv
<1> QED
  BY <1>1, <1>2, PTL DEF SynchronousSpec

\* However many runs there are, as many of them are on their way to the provider
\* as leases ended under earlier ones, and one more.
THEOREM LeaseFencesProvider == SynchronousSpec => []OverlapNeedsAnEndedLease
<1>1. IInv => OverlapNeedsAnEndedLease
  <2> SUFFICES ASSUME IInv PROVE OverlapNeedsAnEndedLease
    OBVIOUS
  <2>1. OverlapNeedsAnEndedLease <=> Cardinality(At(Asking)) <= 1 + ended
    BY DEF OverlapNeedsAnEndedLease, At, Asking
  <2>2. Cardinality(At(Asking)) \in Nat
    BY AtIsFinite
  <2> QED
    BY <2>1, <2>2 DEF IInv, LeasesCounted, Shape
<1> QED
  BY <1>1, SynchronousInvariance, PTL

\* Whatever a run reported about the result is what the record holds.
THEOREM ReportsAreTrue == SynchronousSpec => []ReportedResultStands
<1>1. IInv => ReportedResultStands
  BY DEF IInv
<1> QED
  BY <1>1, SynchronousInvariance, PTL

\* Every reachable state has its shape, and no run claims twice.
THEOREM SynchronousTypeCorrect == SynchronousSpec => []SynchronousTypeOK
<1>1. IInv => SynchronousTypeOK
  <2> SUFFICES ASSUME IInv PROVE SynchronousTypeOK
    OBVIOUS
  <2>1. At(Begun) \subseteq Run
    BY DEF At
  <2>2. Cardinality(At(Begun)) <= Cardinality(Run) /\ Cardinality(Run) \in Nat /\ Cardinality(At(Begun)) \in Nat
    BY <2>1, RunAssumption, AtIsFinite, FS_Subset, FS_CardinalityType
  <2> QED
    BY <2>2 DEF IInv, Shape, AttemptsCounted, SynchronousTypeOK
<1> QED
  BY <1>1, SynchronousInvariance, PTL

-----------------------------------------------------------------------------
(* The pages over queued analysis: the invariant. *)

\* States a page may hold: there were such, and the work has been there.
Met(s, j) ==
  /\ s \in State /\ (s.generation = 0 <=> s.kind = "not-scheduled")
  /\ Promise!Reached(s, j)

\* A start was asked for upon a state that had ended short of complete.
AskedFor(press) ==
  /\ press.expected < MaxShown
  /\ \E s \in pressed : s.generation = press.expected /\ ~Active(s) /\ s.kind # "complete"

\* The starts that may still be carried out, or asked for again.
Outstanding ==
  delayed \cup {retained[c] : c \in {u \in Client : retained[u] # Blank}}
    \cup {post[c].request : c \in {u \in Client : post[u] # Blank}}

\* A poller's phase says what keeps it up to date.
Sound(p, away, reading) ==
  /\ p.phase = "waiting" => p.timer
  /\ p.phase = "reading" => reading
  /\ p.phase = "exhausted" => p.ended
  /\ p.phase = "halted" => p.error
  /\ p.phase = "paused" => away
  /\ p.phase = "idle" => p.session = "none" /\ ~Active(p.shown)
  /\ p.phase = "starting" => ~Active(p.shown)
  /\ p.phase \in Over \cup {"starting"} => ~p.timer
  /\ p.phase \notin Over => p.shown # Blank

\* A page is not a batch, and one that is closed does nothing.
PageOfTab(p, reading) ==
  /\ p.phase \notin {"counted", "awaiting", "stopped", "starting"}
  /\ p.phase = "closed" => p = Closed /\ ~reading

\* What was replaced had failed, and an outcome is recorded.
OutcomesStand ==
  /\ Met(job, job)
  /\ \A g \in 1..job.generation : g < job.generation => outcomes[g] = "failed"
  /\ Terminal(job) => outcomes[job.generation] = job.kind

StatesMet ==
  /\ \A s \in pressed : Met(s, job)
  /\ \A c \in Client :
       /\ client[c].shown # Blank => Met(client[c].shown, job)
       /\ statusRead[c].answer # Blank => Met(statusRead[c].answer, job)
       /\ statusRead[c].state = "answered" => statusRead[c].answer # Blank
       /\ reload[c] # Blank => Met(reload[c], job)

\* A start was asked for by somebody who saw what it replaces, and its key is
\* told a newer generation.
StartsAsked ==
  /\ \A press \in Outstanding : AskedFor(press)
  /\ \A c \in Client :
       /\ post[c] # Blank /\ post[c].told = "accepted" =>
            post[c].answer # Blank /\ Met(post[c].answer, job) /\ post[c].answer.generation > post[c].request.expected
       /\ client[c].phase = "starting" => post[c] # Blank /\ post[c].request.expected = client[c].shown.generation

KeysTell ==
  /\ \A a, b \in Outstanding : a.key = b.key => a.expected = b.expected
  /\ \A a \in Outstanding : a.key \in DOMAIN retryReceipts => retryReceipts[a.key] > a.expected
  /\ \A a \in Outstanding : a.key[2] <= minted[a.key[1]]
  /\ \A k \in DOMAIN retryReceipts : k \in Client \X (1..MaxMinted) /\ k[2] <= minted[k[1]]

PollersSound ==
  \A c \in Client :
    /\ Sound(client[c], c \in suspended, Reading(c))
    /\ c \in Tab => PageOfTab(client[c], Reading(c))

PagesInvariant == PagesTypeOK /\ OutcomesStand /\ StatesMet /\ StartsAsked /\ KeysTell /\ PollersSound
-----------------------------------------------------------------------------
(* The workspace's states. *)

\* A step of the work: none, one of the consumer, or a new generation over
\* an outcome short of complete.
Progress(j, k) ==
  \/ k = j
  \/ /\ Active(j) /\ k \in State /\ k.generation = j.generation
     /\ k.kind \in IF j.kind = "queued" THEN {"running"} ELSE {"complete", "failed"}
  \/ ~Active(j) /\ j.kind # "complete" /\ k = [generation |-> j.generation + 1, kind |-> "queued"] /\ k \in State

\* The blank is not a state, an action or a request.
LEMMA BlankIsNone ==
  /\ \A s \in State : s # Blank
  /\ \A a \in Action : a # Blank
  /\ \A q \in Start : q # Blank
BY BlankAssumption, PageAssumption DEF Action

\* The numbers a state holds.
LEMMA Generations == \A s \in State : s.generation \in Nat /\ s.generation <= MaxShown
BY PageAssumption DEF State

\* A state has two fields.
LEMMA SameState ==
  ASSUME NEW s \in State, NEW t \in State, s.generation = t.generation, s.kind = t.kind
  PROVE s = t
BY DEF State

\* What a page holds was once the case, whatever the work does next.
LEMMA MetAfter ==
  ASSUME NEW j, NEW k, j \in State, NEW s, Met(s, j), Progress(j, k)
  PROVE Met(s, k)
<1> j.generation \in Nat /\ s \in State /\ s.generation \in Nat
  BY Generations DEF Met
<1>1. CASE k = j
  BY <1>1
<1>2. CASE Active(j) /\ k \in State /\ k.generation = j.generation
           /\ k.kind \in IF j.kind = "queued" THEN {"running"} ELSE {"complete", "failed"}
  <2>1. Promise!Reached(s, j)
    BY DEF Met
  <2>2. CASE s = j
    BY <1>2, <2>2 DEF Met, Promise!Reached, Promise!Ended, Active
  <2>3. CASE s # j
    BY <1>2, <2>1, <2>3 DEF Met, Promise!Reached, Promise!Ended, Active
  <2> QED BY <2>2, <2>3
<1>3. CASE ~Active(j) /\ j.kind # "complete" /\ k = [generation |-> j.generation + 1, kind |-> "queued"]
  <2>1. k.generation = j.generation + 1
    BY <1>3
  <2>2. s.generation < k.generation /\ s.kind # "complete"
    BY <2>1, <1>3, BlankIsNone DEF Met, Promise!Reached, Promise!Ended, Active
  <2> QED BY <2>2 DEF Met, Promise!Reached
<1> QED BY <1>1, <1>2, <1>3 DEF Progress

\* A state that ended short of complete, of the generation the work is in, is
\* the state it is in.
LEMMA PressedIsCurrent ==
  ASSUME NEW j \in State, Met(j, j), NEW s, Met(s, j), s.generation = j.generation,
         ~Active(s), s.kind # "complete", ~Active(j), j.kind # "complete"
  PROVE s = j
<1> s \in State /\ s # Blank /\ j # Blank
  BY BlankIsNone DEF Met
<1>1. CASE s.kind = "failed"
  BY <1>1, Generations DEF Met, Promise!Reached, Promise!Ended
<1>2. CASE s.kind = "not-scheduled"
  BY <1>2, SameState DEF Met
<1> QED BY <1>1, <1>2 DEF State, Active

\* What is adopted is one of the two, and a page that adopts a state moves on.
LEMMA AdoptMovesOn ==
  ASSUME NEW j \in State, NEW s, NEW t, Met(t, j), s # Blank => Met(s, j)
  PROVE /\ Adopt(s, t) \in {s, t} /\ Adopt(s, t) # Blank /\ Met(Adopt(s, t), j)
        /\ s # Blank => Promise!MovesOn(s, Adopt(s, t))
        /\ s = Blank => Adopt(s, t) = t
<1> t \in State /\ t # Blank /\ t.generation \in Nat /\ j.generation \in Nat
  BY BlankIsNone, Generations DEF Met
<1>1. Adopt(s, t) \in {s, t} /\ Adopt(s, t) # Blank /\ (s = Blank => Adopt(s, t) = t)
  BY DEF Adopt
<1>2. ASSUME s # Blank PROVE Promise!MovesOn(s, Adopt(s, t))
  <2> s \in State /\ s.generation \in Nat /\ Met(s, j)
    BY <1>2, Generations DEF Met
  <2>1. CASE Adopt(s, t) = s
    BY <2>1 DEF Promise!MovesOn
  <2>2. CASE Adopt(s, t) = t /\ t # s
    <3>1. ~(t.generation < s.generation) /\ ~(t.generation = s.generation /\ Terminal(s) /\ ~Terminal(t))
      BY <2>2, <1>2 DEF Adopt
    <3>2. CASE t.generation = s.generation
      <4>1. ASSUME Promise!Ended(s) PROVE FALSE
        <5>1. Terminal(s) /\ Terminal(t)
          BY <3>1, <3>2, <4>1 DEF Terminal, Promise!Ended
        <5>2. s = t
          BY <5>1, <3>2, SameState DEF Met, Promise!Reached, Promise!Ended, Terminal
        <5> QED BY <5>2, <2>2
      <4> QED BY <4>1, <3>2, <2>2 DEF Promise!MovesOn
    <3>3. CASE t.generation # s.generation
      BY <3>1, <3>3, <2>2 DEF Promise!MovesOn
    <3> QED BY <3>2, <3>3
  <2> QED BY <2>1, <2>2, <1>1
<1> QED BY <1>1, <1>2

-----------------------------------------------------------------------------
(* The poller. *)

\* What scheduleNext leaves: a phase that says what comes next.
LEMMA ScheduleNextSound ==
  ASSUME NEW p \in Poller, p.shown # Blank, NEW hidden \in BOOLEAN, NEW reading \in BOOLEAN
  PROVE /\ ScheduleNext(p, hidden) \in Poller /\ ScheduleNext(p, hidden).shown = p.shown
        /\ Sound(ScheduleNext(p, hidden), hidden, reading)
        /\ ScheduleNext(p, hidden).phase \notin Over \cup {"starting"}
        /\ p.session # "none" => ScheduleNext(p, hidden).phase # "idle"
<1> DEFINE q == [p EXCEPT !.session = IF @ = "none" THEN "open" ELSE @]
<1>1. CASE ~Active(p.shown)
  <2> DEFINE r == [p EXCEPT !.phase = IF p.session = "none" THEN "idle" ELSE "settled"]
  <2>1. ScheduleNext(p, hidden) = r
    BY <1>1 DEF ScheduleNext
  <2>2. r \in Poller /\ r.shown = p.shown /\ r.phase \in {"idle", "settled"} /\ r.session = p.session
        /\ (r.phase = "idle" <=> p.session = "none")
    BY DEF Poller
  <2> HIDE DEF r
  <2> QED BY <2>1, <2>2, <1>1 DEF Sound, Over
<1>2. CASE Active(p.shown)
  <2>0. q \in Poller /\ q.shown = p.shown /\ q.session \in {"open", "over"}
    BY DEF Poller
  <2>1. ScheduleNext(p, hidden) =
          IF hidden THEN [q EXCEPT !.phase = "paused"]
          ELSE IF q.session = "over" THEN [q EXCEPT !.phase = "exhausted", !.ended = TRUE]
          ELSE [q EXCEPT !.phase = "waiting", !.timer = TRUE]
    BY <1>2 DEF ScheduleNext
  <2> HIDE DEF q
  <2>2. CASE hidden
    <3> DEFINE r == [q EXCEPT !.phase = "paused"]
    <3>1. r \in Poller /\ r.shown = p.shown /\ r.phase = "paused"
      BY <2>0 DEF Poller
    <3>2. ScheduleNext(p, hidden) = r
      BY <2>1, <2>2
    <3> HIDE DEF r
    <3> QED BY <3>1, <3>2, <2>2 DEF Sound, Over
  <2>3. CASE ~hidden /\ q.session = "over"
    <3> DEFINE r == [q EXCEPT !.phase = "exhausted", !.ended = TRUE]
    <3>1. r \in Poller /\ r.shown = p.shown /\ r.phase = "exhausted" /\ r.ended
      BY <2>0 DEF Poller
    <3>2. ScheduleNext(p, hidden) = r
      BY <2>1, <2>3
    <3> HIDE DEF r
    <3> QED BY <3>1, <3>2 DEF Sound, Over
  <2>4. CASE ~hidden /\ q.session # "over"
    <3> DEFINE r == [q EXCEPT !.phase = "waiting", !.timer = TRUE]
    <3>1. r \in Poller /\ r.shown = p.shown /\ r.phase = "waiting" /\ r.timer
      BY <2>0 DEF Poller
    <3>2. ScheduleNext(p, hidden) = r
      BY <2>1, <2>4
    <3> HIDE DEF r
    <3> QED BY <3>1, <3>2 DEF Sound, Over
  <2> QED BY <2>2, <2>3, <2>4
<1> QED BY <1>1, <1>2

\* A poller that starts is in a session.
LEMMA StartPollerSound ==
  ASSUME NEW p \in Poller, p.shown # Blank, NEW hidden \in BOOLEAN, NEW reading \in BOOLEAN
  PROVE /\ StartPoller(p, hidden) \in Poller /\ StartPoller(p, hidden).shown = p.shown
        /\ Sound(StartPoller(p, hidden), hidden, reading)
        /\ StartPoller(p, hidden).phase \notin Over \cup {"starting", "idle"}
<1> DEFINE q == [p EXCEPT !.timer = FALSE, !.session = "open", !.error = FALSE, !.ended = FALSE]
<1>1. q \in Poller /\ q.shown = p.shown /\ q.session = "open"
  BY DEF Poller
<1>2. StartPoller(p, hidden) = ScheduleNext(q, hidden)
  BY DEF StartPoller
<1> HIDE DEF q
<1> QED BY <1>1, <1>2, ScheduleNextSound

\* A state that is seeded settles the poller, or leaves it as it is.
LEMMA SeedIs ==
  ASSUME NEW p \in Poller, NEW t \in State, Adopt(p.shown, t) \in State
  PROVE /\ Seed(p, t) \in Poller /\ Seed(p, t).shown = Adopt(p.shown, t)
        /\ Seed(p, t).session = p.session
        /\ Settles(p, t) => Seed(p, t).phase = "settled"
        /\ ~Settles(p, t) => /\ Seed(p, t).phase = p.phase /\ Seed(p, t).timer = p.timer
                             /\ Seed(p, t).ended = p.ended /\ Seed(p, t).error = p.error
<1> DEFINE q == [p EXCEPT !.shown = Adopt(p.shown, t)]
<1> DEFINE r == [q EXCEPT !.timer = FALSE, !.error = FALSE, !.phase = "settled"]
<1>1. q \in Poller /\ q.shown = Adopt(p.shown, t) /\ q.session = p.session /\ q.phase = p.phase
      /\ q.timer = p.timer /\ q.ended = p.ended /\ q.error = p.error
  BY DEF Poller
<1>2. r \in Poller /\ r.shown = Adopt(p.shown, t) /\ r.session = p.session /\ r.phase = "settled"
  BY DEF Poller
<1>3. Seed(p, t) = IF Settles(p, t) THEN r ELSE q
  BY DEF Seed, Poller
<1> HIDE DEF q, r
<1> QED BY <1>1, <1>2, <1>3

\* A poller no batch watches, or one that watches pending work, is left alone.
LEMMA WaitedSound ==
  ASSUME NEW p \in Poller, NEW away \in BOOLEAN, NEW reading \in BOOLEAN,
         Active(p.shown) => Sound(p, away, reading)
  PROVE /\ Waited(p) \in Poller /\ Waited(p).shown = p.shown
        /\ Sound(Waited(p), away, reading)
        /\ Waited(p).phase # "starting"
        /\ Waited(p).phase \notin Over => Waited(p) = p
<1> DEFINE over(phase) == [Closed EXCEPT !.shown = p.shown, !.phase = phase]
<1>1. ASSUME NEW phase \in Over
      PROVE over(phase) \in Poller /\ over(phase).shown = p.shown /\ over(phase).phase = phase
            /\ over(phase).timer = FALSE
  BY DEF Closed, Fresh, Poller, Over
<1>2. Waited(p) \in {over("counted"), over("stopped"), over("awaiting"), p}
  BY DEF Waited
<1>3. Waited(p) = p \/ \E phase \in Over : Waited(p) = over(phase)
  BY <1>2 DEF Over
<1>4. CASE \E phase \in Over : Waited(p) = over(phase)
  <2>1. PICK phase \in Over : Waited(p) = over(phase)
    BY <1>4
  <2>2. over(phase) \in Poller /\ over(phase).shown = p.shown /\ over(phase).phase = phase
        /\ over(phase).timer = FALSE
    BY <1>1, <2>1
  <2> HIDE DEF over
  <2> QED BY <2>1, <2>2 DEF Sound, Over
<1>5. CASE Waited(p) = p /\ Active(p.shown)
  BY <1>5 DEF Sound
<1>6. CASE Waited(p) = p /\ ~Active(p.shown)
  <2>1. Waited(p) = over("counted") \/ Waited(p) = over("stopped")
    BY <1>6 DEF Waited
  <2> QED BY <2>1, <1>4 DEF Over
<1> QED BY <1>3, <1>4, <1>5, <1>6

-----------------------------------------------------------------------------
(* What a step of a page or a batch does to its poller. *)

\* What c's poller is after a step of c, and that nobody else's moved.
PageStep(c) ==
  /\ client' \in [Client -> Poller] /\ statusRead' \in [Client -> StatusAnswer] /\ suspended' \subseteq Client
  /\ \A u \in Client \ {c} : /\ client'[u] = client[u] /\ statusRead'[u] = statusRead[u]
                             /\ u \in suspended' <=> u \in suspended
  /\ Sound(client'[c], c \in suspended', statusRead'[c].state # "none")
  /\ c \in Tab => PageOfTab(client'[c], statusRead'[c].state # "none")
  /\ client'[c].shown # Blank => Met(client'[c].shown, job)
  /\ statusRead'[c].answer # Blank => Met(statusRead'[c].answer, job)
  /\ statusRead'[c].state = "answered" => statusRead'[c].answer # Blank
  /\ client[c].phase \notin Over /\ client'[c].phase \notin Over
       => Promise!MovesOn(client[c].shown, client'[c].shown)
  /\ client'[c].phase = "starting" =>
       \/ client[c].phase = "starting" /\ client'[c].shown = client[c].shown
       \/ post'[c] # Blank /\ post'[c].request.expected = client'[c].shown.generation

\* What the invariant says of one page.
LEMMA PageIs ==
  ASSUME PagesInvariant, NEW c \in Client
  PROVE /\ client \in [Client -> Poller] /\ client[c] \in Poller /\ job \in State
        /\ statusRead \in [Client -> StatusAnswer] /\ statusRead[c] \in StatusAnswer
        /\ suspended \subseteq Client /\ (c \in suspended) \in BOOLEAN /\ (statusRead[c].state # "none") \in BOOLEAN
        /\ Sound(client[c], c \in suspended, statusRead[c].state # "none")
        /\ c \in Tab => PageOfTab(client[c], statusRead[c].state # "none")
        /\ client[c].shown # Blank => Met(client[c].shown, job)
        /\ statusRead[c].answer # Blank => Met(statusRead[c].answer, job)
        /\ statusRead[c].state = "answered" => statusRead[c].answer # Blank
        /\ reload[c] # Blank => Met(reload[c], job)
        /\ c \in Batch <=> c \notin Tab
BY PageAssumption DEF PagesInvariant, PagesTypeOK, PollersSound, StatesMet, Reading, Client

\* A state is not left by staying in it.
LEMMA StaysMovesOn == \A s : Promise!MovesOn(s, s)
BY DEF Promise!MovesOn

\* onChange leaves a page its poller, and a batch what it is waiting for.
LEMMA TurnsSound ==
  ASSUME PagesInvariant, NEW c \in Client, NEW p \in Poller, Turns(c, p), p.phase # "starting",
         NEW away \in BOOLEAN, NEW reading \in BOOLEAN,
         c \in Tab \/ Active(p.shown) => Sound(p, away, reading),
         c \in Tab => PageOfTab(p, reading)
  PROVE /\ client' \in [Client -> Poller] /\ \A u \in Client \ {c} : client'[u] = client[u]
        /\ client'[c].shown = p.shown /\ client'[c].phase # "starting"
        /\ Sound(client'[c], away, reading) /\ (c \in Tab => PageOfTab(client'[c], reading))
<1>1. client' = [client EXCEPT ![c] = IF c \in Batch THEN Waited(p) ELSE p]
  BY DEF Turns
<1>2. c \in Batch => /\ Waited(p) \in Poller /\ Waited(p).shown = p.shown
                     /\ Sound(Waited(p), away, reading) /\ Waited(p).phase # "starting"
  BY WaitedSound, PageIs
<1>3. client' \in [Client -> Poller] /\ (\A u \in Client \ {c} : client'[u] = client[u])
      /\ client'[c] = IF c \in Batch THEN Waited(p) ELSE p
  BY <1>1, <1>2, PageIs
<1>4. CASE c \in Batch
  BY <1>2, <1>3, <1>4, PageIs
<1>5. CASE c \notin Batch
  BY <1>3, <1>5, PageIs
<1> QED BY <1>4, <1>5

\* A read that begins: the poller is reading.
LEMMA AsksStatusSteps ==
  ASSUME PagesInvariant, NEW c \in Client, AsksStatus(c, client[c]), client[c].phase \notin Over,
         suspended' \subseteq Client, \A u \in Client \ {c} : u \in suspended' <=> u \in suspended
  PROVE PageStep(c)
<1> DEFINE p == [client[c] EXCEPT !.timer = FALSE, !.phase = "reading"]
<1>0. client[c] \in Poller /\ client[c].shown # Blank /\ (c \in suspended') \in BOOLEAN
      /\ (client[c].shown # Blank => Met(client[c].shown, job))
  BY PageIs DEF Sound
<1>1. p \in Poller /\ p.shown = client[c].shown /\ p.phase = "reading"
  BY <1>0 DEF Poller
<1>2. Turns(c, p)
  BY DEF AsksStatus
<1>3. statusRead' \in [Client -> StatusAnswer] /\ (\A u \in Client \ {c} : statusRead'[u] = statusRead[u])
      /\ statusRead'[c].state = "asked" /\ statusRead'[c].answer = Blank
  <2> DEFINE asked == [state |-> "asked", answer |-> Blank,
                       inSession |-> client[c].session # "none" /\ ~client[c].ended]
  <2>1. asked \in StatusAnswer /\ asked.state = "asked" /\ asked.answer = Blank
    BY <1>0 DEF StatusAnswer, Poller
  <2>2. statusRead' = [statusRead EXCEPT ![c] = asked]
    BY DEF AsksStatus
  <2> HIDE DEF asked
  <2> QED BY <2>1, <2>2, PageIs
<1> HIDE DEF p
<1>4. Sound(p, c \in suspended', TRUE) /\ PageOfTab(p, TRUE)
  BY <1>0, <1>1 DEF Sound, PageOfTab, Over
<1>5. /\ client' \in [Client -> Poller] /\ \A u \in Client \ {c} : client'[u] = client[u]
      /\ client'[c].shown = p.shown /\ client'[c].phase # "starting"
      /\ Sound(client'[c], c \in suspended', TRUE) /\ (c \in Tab => PageOfTab(client'[c], TRUE))
  <2>1. p.phase # "starting"
    BY <1>1
  <2> QED BY <2>1, <1>0, <1>1, <1>2, <1>4, TurnsSound
<1>6. Sound(client'[c], c \in suspended', statusRead'[c].state # "none")
      /\ (c \in Tab => PageOfTab(client'[c], statusRead'[c].state # "none"))
  BY <1>3, <1>5 DEF Sound, PageOfTab
<1> QED BY <1>0, <1>1, <1>3, <1>5, <1>6, StaysMovesOn DEF PageStep

\* A read that ends: the poller is what it makes of the answer, or of none.
LEMMA EndsReadSteps ==
  ASSUME PagesInvariant, NEW c \in Client, EndsRead(c), suspended' = suspended,
         NEW p \in Poller, Turns(c, p), p.phase # "starting",
         c \in Tab \/ Active(p.shown) => Sound(p, c \in suspended, FALSE),
         c \in Tab => PageOfTab(p, FALSE),
         p.shown # Blank => Met(p.shown, job),
         client[c].phase \notin Over => Promise!MovesOn(client[c].shown, p.shown)
  PROVE PageStep(c)
<1>1. NoRead \in StatusAnswer /\ NoRead.state = "none" /\ NoRead.answer = Blank
  BY DEF NoRead, StatusAnswer
<1>2. statusRead' \in [Client -> StatusAnswer] /\ (\A u \in Client \ {c} : statusRead'[u] = statusRead[u])
      /\ statusRead'[c] = NoRead
  BY <1>1, PageIs DEF EndsRead
<1>3. /\ client' \in [Client -> Poller] /\ \A u \in Client \ {c} : client'[u] = client[u]
      /\ client'[c].shown = p.shown /\ client'[c].phase # "starting"
      /\ Sound(client'[c], c \in suspended, FALSE) /\ (c \in Tab => PageOfTab(client'[c], FALSE))
  <2>1. (c \in suspended) \in BOOLEAN /\ FALSE \in BOOLEAN
    OBVIOUS
  <2> QED BY <2>1, TurnsSound
<1>4. Sound(client'[c], c \in suspended', statusRead'[c].state # "none")
      /\ (c \in Tab => PageOfTab(client'[c], statusRead'[c].state # "none"))
  BY <1>1, <1>2, <1>3 DEF Sound, PageOfTab
<1>5. suspended' \subseteq Client
  BY PageIs
<1> QED BY <1>1, <1>2, <1>3, <1>4, <1>5 DEF PageStep

\* The timer, the return of a page and checkStatus begin a read.
LEMMA TimerFiresSteps ==
  ASSUME PagesInvariant, NEW c \in Client, TimerFires(c)
  PROVE PageStep(c)
<1>1. client[c].phase \notin Over
  BY PageIs DEF TimerFires, Sound
<1> QED BY <1>1, AsksStatusSteps, PageIs DEF TimerFires

\* A page that is back reads if it was paused.
LEMMA ReturnsSteps ==
  ASSUME PagesInvariant, NEW c \in Client, Returns(c)
  PROVE PageStep(c)
<1>1. suspended' = suspended \ {c} /\ suspended' \subseteq Client /\ (c \in suspended') = FALSE
  BY PageIs DEF Returns
<1>2. CASE client[c].phase = "paused"
  BY <1>1, <1>2, AsksStatusSteps DEF Returns, Over
<1>3. CASE client[c].phase # "paused"
  <2>1. client' = client /\ statusRead' = statusRead /\ post' = post
    BY <1>3 DEF Returns
  <2>2. Sound(client[c], c \in suspended', statusRead[c].state # "none")
    BY <1>3, <1>1, PageIs DEF Sound
  <2> QED BY <1>1, <2>1, <2>2, PageIs, StaysMovesOn DEF PageStep
<1> QED BY <1>2, <1>3

\* checkStatus reads once more.
LEMMA CheckStatusSteps ==
  ASSUME PagesInvariant, NEW c \in Client, CheckStatus(c)
  PROVE PageStep(c)
<1>1. client[c].phase \notin Over
  BY PageIs DEF CheckStatus, PageOfTab, Over
<1> QED BY <1>1, AsksStatusSteps, PageIs DEF CheckStatus

\* A step that leaves the pollers alone.
LEMMA StillSteps ==
  ASSUME PagesInvariant, NEW c \in Client, UNCHANGED <<client, statusRead, suspended>>
  PROVE PageStep(c)
BY PageIs, StaysMovesOn DEF PageStep

\* A refresh reads, unless a read is outstanding.
LEMMA RefreshSteps ==
  ASSUME PagesInvariant, NEW c \in Client, c \in Tab, client[c].phase # "closed", Refresh(c), suspended' = suspended
  PROVE PageStep(c)
<1>1. client[c].phase \notin Over
  BY PageIs DEF PageOfTab, Over
<1> QED BY <1>1, AsksStatusSteps, StillSteps, PageIs DEF Refresh

\* The route's answer is a state the work is in.
LEMMA StatusReadSteps ==
  ASSUME PagesInvariant, NEW c \in Client, StatusRead(c)
  PROVE PageStep(c)
<1>0. statusRead[c] \in StatusAnswer /\ statusRead[c].state = "asked"
  BY PageIs DEF StatusRead
<1> DEFINE told == [statusRead[c] EXCEPT !.state = "answered", !.answer = job]
<1>1. told \in StatusAnswer /\ told.state = "answered" /\ told.answer = job
  BY <1>0, PageIs DEF StatusAnswer
<1>2. statusRead' = [statusRead EXCEPT ![c] = told]
  BY PageIs DEF StatusRead
<1> HIDE DEF told
<1>3. statusRead' \in [Client -> StatusAnswer] /\ (\A u \in Client \ {c} : statusRead'[u] = statusRead[u])
      /\ statusRead'[c] = told
  BY <1>1, <1>2, PageIs
<1>4. Met(job, job) /\ job # Blank
  BY BlankIsNone, PageIs DEF PagesInvariant, OutcomesStand
<1>5. client' = client /\ suspended' = suspended
  BY DEF StatusRead
<1>6. Sound(client'[c], c \in suspended', statusRead'[c].state # "none")
      /\ (c \in Tab => PageOfTab(client'[c], statusRead'[c].state # "none"))
  BY <1>0, <1>1, <1>3, <1>5, PageIs DEF Sound, PageOfTab
<1> QED BY <1>1, <1>3, <1>4, <1>5, <1>6, PageIs, StaysMovesOn DEF PageStep

\* The answer is adopted, and the next read is scheduled.
LEMMA ReadAnswersSteps ==
  ASSUME PagesInvariant, NEW c \in Client, ReadAnswers(c)
  PROVE PageStep(c)
<1> DEFINE t == statusRead[c].answer
           q == [client[c] EXCEPT !.error = FALSE, !.shown = Adopt(client[c].shown, t)]
           p == ScheduleNext(q, c \in suspended)
<1>0. client[c] \in Poller /\ t # Blank /\ Met(t, job) /\ (c \in suspended) \in BOOLEAN /\ suspended' = suspended
      /\ EndsRead(c) /\ (client[c].shown # Blank => Met(client[c].shown, job))
      /\ statusRead[c].state # "none"
  BY PageIs DEF ReadAnswers
<1>1. Adopt(client[c].shown, t) # Blank /\ Met(Adopt(client[c].shown, t), job)
      /\ (client[c].shown # Blank => Promise!MovesOn(client[c].shown, Adopt(client[c].shown, t)))
  BY <1>0, AdoptMovesOn, PageIs
<1>2. q \in Poller /\ q.shown = Adopt(client[c].shown, t)
  BY <1>0, <1>1 DEF Poller, Met
<1>3. Turns(c, p)
  BY PageIs DEF ReadAnswers, Poller
<1> HIDE DEF q, t
<1>4. p \in Poller /\ p.shown = Adopt(client[c].shown, t) /\ Sound(p, c \in suspended, FALSE)
      /\ p.phase \notin Over \cup {"starting"}
  BY <1>0, <1>1, <1>2, ScheduleNextSound
<1> HIDE DEF p
<1>5. PageOfTab(p, FALSE) /\ p.phase # "starting"
  BY <1>4 DEF PageOfTab, Over
<1>6. client[c].phase \notin Over => client[c].shown # Blank
  BY PageIs DEF Sound
<1> QED BY <1>0, <1>1, <1>3, <1>4, <1>5, <1>6, EndsReadSteps

\* A read that ends without an answer halts the poller, pauses it, or exhausts it.
LEMMA UnansweredSteps ==
  ASSUME PagesInvariant, NEW c \in Client, Reading(c), EndsRead(c), suspended' = suspended,
         NEW p \in Poller, Turns(c, p), p.shown = client[c].shown,
         \/ p.phase = "halted" /\ p.error
         \/ p.phase = "exhausted" /\ p.ended
         \/ p.phase = "paused" /\ c \in suspended
  PROVE PageStep(c)
<1>0. p.phase # "starting" /\ p.phase \notin Over
  BY DEF Over
<1>1. c \in Tab \/ Active(p.shown) => p.shown # Blank
  BY PageIs DEF Active, Reading, PageOfTab, Sound, Over
<1>2. c \in Tab \/ Active(p.shown) => Sound(p, c \in suspended, FALSE)
  BY <1>1 DEF Sound, Over
<1>3. PageOfTab(p, FALSE)
  BY DEF PageOfTab
<1> QED BY <1>0, <1>2, <1>3, EndsReadSteps, PageIs, StaysMovesOn

\* A read that fails.
LEMMA ReadFailsSteps ==
  ASSUME PagesInvariant, NEW c \in Client, NEW network \in BOOLEAN, ReadFails(c, network)
  PROVE PageStep(c)
<1> DEFINE paused == [client[c] EXCEPT !.phase = "paused"]
           halted == [client[c] EXCEPT !.error = TRUE, !.phase = "halted"]
<1>1. paused \in Poller /\ paused.shown = client[c].shown /\ paused.phase = "paused"
  BY PageIs DEF Poller
<1>2. halted \in Poller /\ halted.shown = client[c].shown /\ halted.phase = "halted" /\ halted.error
  BY PageIs DEF Poller
<1>3. Reading(c) /\ EndsRead(c) /\ suspended' = suspended
  BY DEF ReadFails
<1>4. (c \in suspended /\ Turns(c, paused)) \/ Turns(c, halted)
  BY DEF ReadFails
<1> HIDE DEF paused, halted
<1> QED BY <1>1, <1>2, <1>3, <1>4, UnansweredSteps

\* A read that expires.
LEMMA ReadExpiresSteps ==
  ASSUME PagesInvariant, NEW c \in Client, ReadExpires(c)
  PROVE PageStep(c)
<1> DEFINE paused == [client[c] EXCEPT !.phase = "paused"]
           exhausted == [client[c] EXCEPT !.phase = "exhausted", !.ended = TRUE]
           halted == [client[c] EXCEPT !.error = TRUE, !.phase = "halted"]
<1>1. paused \in Poller /\ paused.shown = client[c].shown /\ paused.phase = "paused"
  BY PageIs DEF Poller
<1>2. halted \in Poller /\ halted.shown = client[c].shown /\ halted.phase = "halted" /\ halted.error
  BY PageIs DEF Poller
<1>3. exhausted \in Poller /\ exhausted.shown = client[c].shown /\ exhausted.phase = "exhausted" /\ exhausted.ended
  BY PageIs DEF Poller
<1>4. Reading(c) /\ EndsRead(c) /\ suspended' = suspended
  BY DEF ReadExpires
<1>5. (c \in suspended /\ Turns(c, paused)) \/ Turns(c, exhausted) \/ Turns(c, halted)
  BY DEF ReadExpires
<1> HIDE DEF paused, halted, exhausted
<1> QED BY <1>1, <1>2, <1>3, <1>4, <1>5, UnansweredSteps

\* A session that is over is noticed when the next read is scheduled.
LEMMA BudgetRunsOutSteps ==
  ASSUME PagesInvariant, NEW c \in Client, BudgetRunsOut(c)
  PROVE PageStep(c)
<1> DEFINE p == [client[c] EXCEPT !.session = "over"]
<1>1. p \in Poller /\ p.shown = client[c].shown /\ p.phase = client[c].phase /\ p.timer = client[c].timer
      /\ p.ended = client[c].ended /\ p.error = client[c].error /\ client[c].session = "open"
  BY PageIs DEF Poller, BudgetRunsOut
<1>2. client' = [client EXCEPT ![c] = p] /\ statusRead' = statusRead /\ suspended' = suspended
  BY PageIs DEF BudgetRunsOut, Poller
<1> HIDE DEF p
<1>3. client' \in [Client -> Poller] /\ (\A u \in Client \ {c} : client'[u] = client[u]) /\ client'[c] = p
  BY <1>1, <1>2, PageIs
<1>4. Sound(p, c \in suspended, statusRead[c].state # "none")
  BY <1>1, PageIs DEF Sound
<1>5. c \in Tab => PageOfTab(p, statusRead[c].state # "none")
  <2>1. client[c] # Closed
    BY <1>1 DEF Closed, Fresh
  <2> QED BY <2>1, <1>1, PageIs DEF PageOfTab
<1> QED BY <1>1, <1>2, <1>3, <1>4, <1>5, PageIs, StaysMovesOn DEF PageStep

\* A page that is hidden is paused where its timer ran.
LEMMA SuspendSteps ==
  ASSUME PagesInvariant, NEW c \in Client, Suspend(c)
  PROVE PageStep(c)
<1>1. suspended' \subseteq Client /\ c \in suspended' /\ statusRead' = statusRead
      /\ \A u \in Client \ {c} : u \in suspended' <=> u \in suspended
  BY PageIs DEF Suspend
<1>2. CASE ~client[c].timer
  <2>1. client' = client
    BY <1>2, PageIs DEF Suspend
  <2>2. Sound(client[c], TRUE, statusRead[c].state # "none")
    BY PageIs DEF Sound
  <2> QED BY <1>1, <2>1, <2>2, PageIs, StaysMovesOn DEF PageStep, Sound
<1>3. CASE client[c].timer
  <2> DEFINE p == [client[c] EXCEPT !.timer = FALSE, !.phase = "paused"]
  <2>1. p \in Poller /\ p.shown = client[c].shown /\ p.phase = "paused"
    BY PageIs DEF Poller
  <2>2. client' = [client EXCEPT ![c] = p]
    BY <1>3, PageIs DEF Suspend
  <2>3. client[c].phase \notin Over
    BY <1>3, PageIs DEF Sound
  <2> HIDE DEF p
  <2>4. client' \in [Client -> Poller] /\ (\A u \in Client \ {c} : client'[u] = client[u]) /\ client'[c] = p
    BY <2>1, <2>2, PageIs
  <2>5. Sound(p, c \in suspended', statusRead[c].state # "none")
    BY <2>1, <2>3, <1>1, PageIs DEF Sound, Over
  <2>6. PageOfTab(p, statusRead[c].state # "none")
    BY <2>1 DEF PageOfTab
  <2> QED BY <1>1, <2>1, <2>4, <2>5, <2>6, PageIs, StaysMovesOn DEF PageStep
<1> QED BY <1>2, <1>3

\* A poller of a page that is seeded, and started where it finds work.
LEMMA SeededSteps ==
  ASSUME PagesInvariant, NEW c \in Client, c \in Tab, NEW p \in Poller, NEW t, Met(t, job),
         p.shown # Blank => Met(p.shown, job),
         \/ p = client[c] /\ p.phase # "closed"
         \/ p = Fresh /\ client[c].phase = "closed",
         NEW starts \in BOOLEAN,
         starts \/ ~(Active(Seed(p, t).shown) /\ p.phase = "idle"),
         client' = [client EXCEPT ![c] = IF starts THEN StartPoller(Seed(p, t), c \in suspended) ELSE Seed(p, t)],
         statusRead' = IF starts \/ Settles(p, t) THEN [statusRead EXCEPT ![c] = NoRead] ELSE statusRead,
         suspended' = suspended
  PROVE PageStep(c)
<1> DEFINE q == Seed(p, t)
           r == IF starts THEN StartPoller(q, c \in suspended) ELSE q
           reading == statusRead'[c].state # "none"
<1>1. Adopt(p.shown, t) # Blank /\ Met(Adopt(p.shown, t), job) /\ Adopt(p.shown, t) \in State /\ t \in State
      /\ (p.shown # Blank => Promise!MovesOn(p.shown, Adopt(p.shown, t)))
  BY AdoptMovesOn, PageIs DEF Met
<1>2. /\ q \in Poller /\ q.shown = Adopt(p.shown, t) /\ q.session = p.session
      /\ Settles(p, t) => q.phase = "settled"
      /\ ~Settles(p, t) => q.phase = p.phase /\ q.timer = p.timer /\ q.ended = p.ended /\ q.error = p.error
  BY <1>1, SeedIs
<1>3. NoRead \in StatusAnswer /\ NoRead.state = "none" /\ NoRead.answer = Blank
  BY DEF NoRead, StatusAnswer
<1>4. /\ statusRead' \in [Client -> StatusAnswer] /\ \A u \in Client \ {c} : statusRead'[u] = statusRead[u]
      /\ statusRead'[c] = IF starts \/ Settles(p, t) THEN NoRead ELSE statusRead[c]
  BY <1>3, PageIs
<1>5. reading \in BOOLEAN /\ (c \in suspended) \in BOOLEAN
  OBVIOUS
<1>6. p.phase \notin Over
  BY PageIs DEF PageOfTab, Over, Fresh
<1>7. ~starts /\ Settles(p, t) => ~Active(q.shown)
  BY <1>2 DEF Settles
<1>8. Sound(p, c \in suspended, statusRead[c].state # "none") \/ p = Fresh
  BY PageIs
<1>9. r \in Poller /\ r.shown = q.shown /\ Sound(r, c \in suspended, reading) /\ PageOfTab(r, reading)
      /\ r.phase \notin Over \cup {"starting"}
  <2>1. CASE starts
    <3>1. r = StartPoller(q, c \in suspended)
      BY <2>1
    <3> HIDE DEF r, q, reading
    <3>2. r \in Poller /\ r.shown = q.shown /\ Sound(r, c \in suspended, reading)
          /\ r.phase \notin Over \cup {"starting", "idle"}
      BY <3>1, <1>1, <1>2, <1>5, StartPollerSound
    <3> QED BY <3>2 DEF PageOfTab, Over
  <2>2. CASE ~starts /\ Settles(p, t)
    <3>1. r = q /\ q.phase = "settled"
      BY <2>2, <1>2
    <3> HIDE DEF r, q, reading
    <3> QED BY <3>1, <1>1, <1>2 DEF Sound, PageOfTab, Over
  <2>3. CASE ~starts /\ ~Settles(p, t)
    <3>1. r = q /\ q.phase = p.phase /\ q.timer = p.timer /\ q.ended = p.ended /\ q.error = p.error
          /\ reading = (statusRead[c].state # "none")
      BY <2>3, <1>2, <1>4
    <3>2. p.phase # "starting"
      BY PageIs DEF PageOfTab, Fresh
    <3>3. ~Active(q.shown) \/ p.phase # "idle"
      BY <2>3
    <3>4. p = Fresh => p.phase = "idle" /\ p.session = "none"
      BY DEF Fresh
    <3>5. p # Fresh => Sound(p, c \in suspended, statusRead[c].state # "none")
      BY <1>8
    <3> HIDE DEF r, q, reading
    <3>6. Sound(q, c \in suspended, reading)
      BY <3>1, <3>2, <3>3, <3>4, <3>5, <1>1, <1>2, <1>6 DEF Sound, Over
    <3>7. PageOfTab(q, reading)
      BY <3>1, <3>2, <1>6 DEF PageOfTab, Over
    <3> QED BY <3>1, <3>2, <3>6, <3>7, <1>2, <1>6
  <2> QED BY <2>1, <2>2, <2>3
<1>10. client' = [client EXCEPT ![c] = r]
  OBVIOUS
<1> HIDE DEF r, q
<1>11. client' \in [Client -> Poller] /\ (\A u \in Client \ {c} : client'[u] = client[u]) /\ client'[c] = r
  BY <1>9, <1>10, PageIs
<1>12. Sound(client'[c], c \in suspended', statusRead'[c].state # "none")
       /\ PageOfTab(client'[c], statusRead'[c].state # "none")
  BY <1>9, <1>11
<1>13. client'[c].shown # Blank => Met(client'[c].shown, job)
  BY <1>1, <1>2, <1>9, <1>11
<1>14. client[c].phase \notin Over => Promise!MovesOn(client[c].shown, client'[c].shown)
  <2>1. client[c].phase \notin Over => p = client[c] /\ p.shown # Blank
    BY PageIs DEF Over, Sound
  <2> QED BY <2>1, <1>1, <1>2, <1>9, <1>11
<1>15. client'[c].phase # "starting"
  BY <1>9, <1>11
<1>16. suspended' \subseteq Client
  BY PageIs
<1>17. /\ statusRead'[c].answer # Blank => Met(statusRead'[c].answer, job)
       /\ statusRead'[c].state = "answered" => statusRead'[c].answer # Blank
  BY <1>3, <1>4, PageIs
<1> QED BY <1>4, <1>11, <1>12, <1>13, <1>14, <1>15, <1>16, <1>17 DEF PageStep

\* The record seeds the poller, which is started where it has no session.
LEMMA RecordArrivesSteps ==
  ASSUME PagesInvariant, NEW c \in Client, RecordArrives(c)
  PROVE PageStep(c)
<1> DEFINE p == IF client[c].phase = "closed" THEN Fresh ELSE client[c]
           t == reload[c]
           starts == Seed(p, t).session = "none" /\ Active(Seed(p, t).shown)
<1>1. c \in Tab /\ t # Blank /\ Met(t, job) /\ suspended' = suspended
  BY PageIs DEF RecordArrives
<1>2. client' = [client EXCEPT ![c] = IF starts THEN StartPoller(Seed(p, t), c \in suspended) ELSE Seed(p, t)]
      /\ statusRead' = IF starts \/ Settles(p, t) THEN [statusRead EXCEPT ![c] = NoRead] ELSE statusRead
  BY DEF RecordArrives
<1>3. Fresh \in Poller /\ Fresh.shown = Blank /\ Fresh.session = "none" /\ Fresh.phase = "idle"
  BY DEF Fresh, Poller, Over
<1>4. p \in Poller /\ (p.shown # Blank => Met(p.shown, job))
      /\ ((p = client[c] /\ p.phase # "closed") \/ (p = Fresh /\ client[c].phase = "closed"))
      /\ (p.phase = "idle" => p.session = "none")
  BY <1>3, PageIs DEF Sound
<1>5. Adopt(p.shown, t) \in State /\ t \in State
  BY <1>1, <1>4, AdoptMovesOn, PageIs DEF Met
<1>6. Seed(p, t).session = p.session
  BY <1>4, <1>5, SeedIs
<1>7. starts \in BOOLEAN /\ (starts \/ ~(Active(Seed(p, t).shown) /\ p.phase = "idle"))
  BY <1>4, <1>6
<1> HIDE DEF p, t, starts
<1> QED BY <1>1, <1>2, <1>4, <1>7, SeededSteps

\* The state an accepted start reports seeds the poller, which is started anew while it is pending.
LEMMA PostAcceptedSteps ==
  ASSUME PagesInvariant, NEW c \in Client, PostAccepted(c)
  PROVE PageStep(c)
<1> DEFINE t == post[c].answer
           starts == Active(t)
<1>1. c \in Tab /\ t # Blank /\ Met(t, job) /\ suspended' = suspended /\ client[c].phase # "closed"
  BY DEF PostAccepted, PagesInvariant, StartsAsked
<1>2. client' = [client EXCEPT ![c] = IF starts THEN StartPoller(Seed(client[c], t), c \in suspended)
                                     ELSE Seed(client[c], t)]
      /\ statusRead' = IF starts \/ Settles(client[c], t) THEN [statusRead EXCEPT ![c] = NoRead] ELSE statusRead
  BY DEF PostAccepted
<1>3. Adopt(client[c].shown, t) \in {client[c].shown, t} /\ Adopt(client[c].shown, t) \in State /\ t \in State
  BY <1>1, AdoptMovesOn, PageIs DEF Met
<1>4. Seed(client[c], t).shown = Adopt(client[c].shown, t)
  BY <1>3, SeedIs, PageIs
<1>5. starts \in BOOLEAN /\ (starts \/ ~(Active(Seed(client[c], t).shown) /\ client[c].phase = "idle"))
  BY <1>3, <1>4, PageIs DEF Sound, Active
<1> HIDE DEF t, starts
<1> QED BY <1>1, <1>2, <1>5, SeededSteps, PageIs

\* A page that is left is closed.
LEMMA LeavePageSteps ==
  ASSUME PagesInvariant, NEW c \in Client, LeavePage(c)
  PROVE PageStep(c)
<1>1. Closed \in Poller /\ Closed.phase = "closed" /\ Closed.shown = Blank /\ Closed.timer = FALSE
  BY DEF Closed, Fresh, Poller, Over
<1>2. NoRead \in StatusAnswer /\ NoRead.state = "none" /\ NoRead.answer = Blank
  BY DEF NoRead, StatusAnswer
<1>3. client' \in [Client -> Poller] /\ (\A u \in Client \ {c} : client'[u] = client[u]) /\ client'[c] = Closed
  BY <1>1, PageIs DEF LeavePage
<1>4. statusRead' \in [Client -> StatusAnswer] /\ (\A u \in Client \ {c} : statusRead'[u] = statusRead[u])
      /\ statusRead'[c] = NoRead
  BY <1>2, PageIs DEF LeavePage, EndsRead
<1>5. suspended' = suspended
  BY DEF LeavePage
<1>6. Sound(Closed, c \in suspended, FALSE) /\ PageOfTab(Closed, FALSE)
  BY <1>1 DEF Sound, PageOfTab, Over
<1>7. Closed.phase \in Over
  BY <1>1 DEF Over
<1>8. (NoRead.state # "none") = FALSE
  BY <1>2
<1> QED BY <1>1, <1>2, <1>3, <1>4, <1>5, <1>6, <1>7, <1>8, PageIs DEF PageStep, Over

\* actionFor: a retained action of the generation, or a new one with a key of its own.
LEMMA ActionForIs ==
  ASSUME PagesInvariant, NEW c \in Client, NEW s \in State, Pressable(c, s)
  PROVE /\ ActionFor(c, s) \in Action /\ ActionFor(c, s).expected = s.generation
        /\ \/ retained[c] # Blank /\ ActionFor(c, s) = retained[c]
           \/ /\ ActionFor(c, s).key = <<c, minted[c] + 1>> /\ minted[c] + 1 \in 1..MaxMinted
              /\ ActionFor(c, s) # retained[c]
<1> DEFINE new == [key |-> <<c, minted[c] + 1>>, expected |-> s.generation]
<1>1. minted[c] \in 0..MaxMinted /\ retained[c] \in Action \cup {Blank} /\ MaxMinted \in Nat /\ MaxShown \in Nat
      /\ s.generation \in 0..MaxShown
  BY PageAssumption DEF PagesInvariant, PagesTypeOK, State
<1>2. CASE retained[c] # Blank /\ retained[c].expected = s.generation
  BY <1>1, <1>2 DEF ActionFor
<1>3. CASE ~(retained[c] # Blank /\ retained[c].expected = s.generation)
  <2>1. ActionFor(c, s) = new
    BY <1>3 DEF ActionFor
  <2>2. new \in [key : Client \X Nat, expected : Nat] /\ new.expected = s.generation
        /\ new.key = <<c, minted[c] + 1>>
    BY <1>1
  <2>3. new # Blank
    BY <2>2, BlankAssumption
  <2>4. new # retained[c]
    BY <1>3, <2>2, <2>3
  <2>5. minted[c] < MaxMinted
    BY <2>1, <2>4 DEF Pressable
  <2>6. minted[c] + 1 \in 1..MaxMinted
    BY <1>1, <2>5
  <2>7. new \in Action
    BY <1>1, <2>6 DEF Action
  <2> HIDE DEF new
  <2> QED BY <2>1, <2>2, <2>4, <2>6, <2>7
<1> QED BY <1>2, <1>3

\* A start that is sent is outstanding, upon the state that was shown.
LEMMA SendsIs ==
  ASSUME PagesInvariant, NEW c \in Client, NEW s \in State, Pressable(c, s), Sends(c, s)
  PROVE /\ post'[c] # Blank /\ post'[c] \in Start /\ post'[c].request = ActionFor(c, s)
        /\ post'[c].request.expected = s.generation /\ post'[c].told = "nothing"
<1> DEFINE q == [request |-> ActionFor(c, s), told |-> "nothing", answer |-> Blank]
<1>1. q \in Start
  BY ActionForIs DEF Start
<1>2. post'[c] = q
  BY DEF Sends, PagesInvariant, PagesTypeOK
<1>3. q.request = ActionFor(c, s) /\ q.told = "nothing"
  OBVIOUS
<1> HIDE DEF q
<1> QED BY <1>1, <1>2, <1>3, ActionForIs, BlankIsNone

\* A batch waits for work that is pending, or starts what had ended.
LEMMA BatchTakesItemSteps ==
  ASSUME PagesInvariant, NEW c \in Client, BatchTakesItem(c)
  PROVE PageStep(c)
<1> DEFINE t == reload[c]
           q == [Fresh EXCEPT !.shown = t]
           s == [Fresh EXCEPT !.shown = t, !.phase = "starting"]
           p == StartPoller(q, c \in suspended)
<1>0. c \in Batch /\ c \notin Tab /\ client[c].phase \in Over /\ t # Blank /\ Met(t, job) /\ t \in State
      /\ statusRead' = statusRead /\ suspended' = suspended
      /\ (c \in suspended) \in BOOLEAN /\ (statusRead[c].state # "none") \in BOOLEAN
  BY PageIs DEF BatchTakesItem, Met
<1>1. q \in Poller /\ q.shown = t /\ s \in Poller /\ s.shown = t /\ s.phase = "starting" /\ ~s.timer
  BY <1>0 DEF Fresh, Poller, Over
<1>2. CASE Active(t)
  <2>1. Turns(c, p)
    BY <1>2 DEF BatchTakesItem
  <2> HIDE DEF q, t
  <2>2. p \in Poller /\ p.shown = t /\ Sound(p, c \in suspended, statusRead[c].state # "none")
        /\ p.phase # "starting"
    BY <1>0, <1>1, StartPollerSound
  <2> HIDE DEF p
  <2>3. /\ client' \in [Client -> Poller] /\ \A u \in Client \ {c} : client'[u] = client[u]
        /\ client'[c].shown = t /\ client'[c].phase # "starting"
        /\ Sound(client'[c], c \in suspended, statusRead[c].state # "none")
    <3> DEFINE away == c \in suspended
               reading == statusRead[c].state # "none"
    <3>1. away \in BOOLEAN /\ reading \in BOOLEAN /\ p \in Poller /\ p.shown = t /\ p.phase # "starting"
          /\ Turns(c, p) /\ Sound(p, away, reading) /\ c \notin Tab
      BY <1>0, <2>1, <2>2
    <3> HIDE DEF away, reading
    <3>2. /\ client' \in [Client -> Poller] /\ \A u \in Client \ {c} : client'[u] = client[u]
          /\ client'[c].shown = t /\ client'[c].phase # "starting"
          /\ Sound(client'[c], away, reading)
      BY <3>1, TurnsSound
    <3> QED BY <3>2 DEF away, reading
  <2> QED BY <1>0, <2>3, PageIs DEF PageStep
<1>3. CASE ~Active(t)
  <2>1. client' = [client EXCEPT ![c] = s] /\ Sends(c, t) /\ Pressable(c, t)
    BY <1>3 DEF BatchTakesItem
  <2>2. post'[c] # Blank /\ post'[c].request.expected = t.generation
    BY <1>0, <2>1, SendsIs
  <2> HIDE DEF s, t
  <2>3. client' \in [Client -> Poller] /\ (\A u \in Client \ {c} : client'[u] = client[u]) /\ client'[c] = s
    BY <1>1, <2>1, PageIs
  <2>4. Sound(s, c \in suspended, statusRead[c].state # "none")
    BY <1>0, <1>1, <1>3 DEF Sound, Over
  <2> QED BY <1>0, <1>1, <2>2, <2>3, <2>4, PageIs DEF PageStep
<1> QED BY <1>2, <1>3

\* The batch waits for what its start reports, which is newer than what it started from.
LEMMA BatchStartedSteps ==
  ASSUME PagesInvariant, NEW c \in Client, BatchStarted(c)
  PROVE PageStep(c) /\ client'[c].phase # "starting"
<1> DEFINE t == post[c].answer
           q == [Fresh EXCEPT !.shown = t]
           p == StartPoller(q, c \in suspended)
           s == [client[c] EXCEPT !.phase = "stopped"]
<1>0. c \notin Tab /\ c \in Batch /\ client[c].phase = "starting" /\ post[c] # Blank
      /\ statusRead' = statusRead /\ suspended' = suspended
      /\ (c \in suspended) \in BOOLEAN /\ (statusRead[c].state # "none") \in BOOLEAN
  BY PageIs DEF BatchStarted, PageOfTab, PagesInvariant, StartsAsked
<1>1. CASE post[c].told = "state-changed"
  <2>1. client' = [client EXCEPT ![c] = s]
    BY <1>1, PageIs DEF BatchStarted
  <2>2. s \in Poller /\ s.phase = "stopped" /\ s.timer = client[c].timer /\ s.shown = client[c].shown /\ ~s.timer
    BY <1>0, PageIs DEF Poller, Over, Sound
  <2> HIDE DEF s
  <2>3. client' \in [Client -> Poller] /\ (\A u \in Client \ {c} : client'[u] = client[u]) /\ client'[c] = s
    BY <2>1, <2>2, PageIs
  <2>4. Sound(s, c \in suspended, statusRead[c].state # "none") /\ s.phase \in Over
    BY <2>2 DEF Sound, Over
  <2> QED BY <1>0, <2>2, <2>3, <2>4, PageIs DEF PageStep, Over
<1>2. CASE post[c].told # "state-changed"
  <2>1. post[c].told = "accepted"
    BY <1>0, <1>2 DEF BatchStarted, PagesInvariant, PagesTypeOK, Start
  <2>2. t # Blank /\ Met(t, job) /\ t \in State
    BY <1>0, <2>1 DEF PagesInvariant, StartsAsked, Met
  <2>3. q \in Poller /\ q.shown = t
    BY <2>2 DEF Fresh, Poller, Over
  <2>4. Turns(c, p)
    BY <1>2 DEF BatchStarted
  <2> HIDE DEF q, t
  <2>5. p \in Poller /\ p.shown = t /\ Sound(p, c \in suspended, statusRead[c].state # "none")
        /\ p.phase # "starting"
    BY <1>0, <2>2, <2>3, StartPollerSound
  <2> HIDE DEF p
  <2>6. /\ client' \in [Client -> Poller] /\ \A u \in Client \ {c} : client'[u] = client[u]
        /\ client'[c].shown = t /\ client'[c].phase # "starting"
        /\ Sound(client'[c], c \in suspended, statusRead[c].state # "none")
    <3> DEFINE away == c \in suspended
               reading == statusRead[c].state # "none"
    <3>1. away \in BOOLEAN /\ reading \in BOOLEAN /\ p \in Poller /\ p.shown = t /\ p.phase # "starting"
          /\ Turns(c, p) /\ Sound(p, away, reading) /\ c \notin Tab
      BY <1>0, <2>4, <2>5
    <3> HIDE DEF away, reading
    <3>2. /\ client' \in [Client -> Poller] /\ \A u \in Client \ {c} : client'[u] = client[u]
          /\ client'[c].shown = t /\ client'[c].phase # "starting"
          /\ Sound(client'[c], away, reading)
      BY <3>1, TurnsSound
    <3> QED BY <3>2 DEF away, reading
  <2>7. Promise!MovesOn(client[c].shown, client'[c].shown)
    <3>1. t.generation > post[c].request.expected /\ post[c].request.expected = client[c].shown.generation
      BY <1>0, <2>1 DEF t, PagesInvariant, StartsAsked
    <3> QED BY <3>1, <2>6 DEF Promise!MovesOn
  <2> QED BY <1>0, <2>2, <2>6, <2>7, PageIs DEF PageStep
<1> QED BY <1>1, <1>2

\* A batch that stops shows nothing and reads nothing.
LEMMA BatchStopsSteps ==
  ASSUME PagesInvariant, NEW c \in Client, BatchStops(c)
  PROVE PageStep(c) /\ client'[c].phase # "starting"
<1> DEFINE p == [Closed EXCEPT !.phase = "stopped", !.shown = client[c].shown]
<1>1. p \in Poller /\ p.phase = "stopped" /\ p.shown = client[c].shown /\ p.timer = FALSE
  BY PageIs DEF Closed, Fresh, Poller, Over
<1>2. NoRead \in StatusAnswer /\ NoRead.state = "none" /\ NoRead.answer = Blank
  BY DEF NoRead, StatusAnswer
<1>3. client' = [client EXCEPT ![c] = p] /\ c \notin Tab /\ suspended' = suspended
  BY PageIs DEF BatchStops
<1> HIDE DEF p
<1>4. client' \in [Client -> Poller] /\ (\A u \in Client \ {c} : client'[u] = client[u]) /\ client'[c] = p
  BY <1>1, <1>3, PageIs
<1>5. statusRead' \in [Client -> StatusAnswer] /\ (\A u \in Client \ {c} : statusRead'[u] = statusRead[u])
      /\ statusRead'[c] = NoRead
  BY <1>2, PageIs DEF BatchStops, EndsRead
<1>6. Sound(p, c \in suspended, FALSE) /\ p.phase \in Over
  BY <1>1 DEF Sound, Over
<1>7. (NoRead.state # "none") = FALSE
  BY <1>2
<1> QED BY <1>1, <1>2, <1>3, <1>4, <1>5, <1>6, <1>7, PageIs DEF PageStep

\* What a step of c does to its reload and to its start: the start goes, and may
\* be carried out late, or another is sent upon what c shows.
RequestStep(c) ==
  /\ UNCHANGED workspace
  /\ loaded' \in {loaded, [loaded EXCEPT ![c] = reload[c]]}
  /\ reload' \in {reload, [reload EXCEPT ![c] = Blank], [reload EXCEPT ![c] = job]}
  /\ \/ /\ pressed' = pressed /\ minted' = minted
        /\ post' \in {post, [post EXCEPT ![c] = Blank]}
        /\ post' # post => client'[c].phase # "starting"
        /\ retained' \in {retained, [retained EXCEPT ![c] = Blank]}
        /\ delayed' = delayed \/ (post[c] # Blank /\ delayed' = delayed \cup {post[c].request})
     \/ /\ client'[c].shown # Blank /\ Met(client'[c].shown, job) /\ client'[c].phase \notin Over
        /\ ~Active(client'[c].shown) /\ client'[c].shown.kind # "complete"
        /\ client[c].phase # "starting"
        /\ Pressable(c, client'[c].shown) /\ Sends(c, client'[c].shown) /\ delayed' = delayed

\* A step of a page or a batch.
ClientStep(c) ==
  \/ TimerFires(c) \/ StatusRead(c) \/ ReadAnswers(c) \/ ReadExpires(c) \/ BudgetRunsOut(c)
  \/ \E network \in BOOLEAN : ReadFails(c, network)
  \/ Suspend(c) \/ Returns(c)
  \/ RecordRead(c) \/ RecordArrives(c) \/ PressRun(c)
  \/ PostAccepted(c) \/ PostRefused(c) \/ PostLost(c) \/ PostDenied(c)
  \/ CheckStatus(c) \/ LeavePage(c) \/ PostUnwanted(c)
  \/ BatchTakesItem(c) \/ BatchStarted(c) \/ BatchStops(c)

\* A step that touches no request.
LEMMA NoRequestStep ==
  ASSUME NEW c \in Client, UNCHANGED <<workspace, pressed, loaded, reload, post, retained, minted, delayed>>
  PROVE RequestStep(c)
BY DEF RequestStep

\* A page is never starting: that is a batch's phase.
LEMMA PagesNeverStart ==
  ASSUME NEW c \in Client, c \in Tab, PageStep(c)
  PROVE client'[c].phase # "starting"
BY DEF PageStep, PageOfTab

\* Every step of a page or a batch is such a step.
LEMMA ClientSteps ==
  ASSUME PagesInvariant, NEW c \in Client, ClientStep(c)
  PROVE PageStep(c) /\ RequestStep(c)
<1>1. CASE TimerFires(c)
  BY <1>1, TimerFiresSteps, NoRequestStep DEF TimerFires
<1>2. CASE StatusRead(c)
  BY <1>2, StatusReadSteps, NoRequestStep DEF StatusRead
<1>3. CASE ReadAnswers(c)
  BY <1>3, ReadAnswersSteps, NoRequestStep DEF ReadAnswers
<1>4. CASE ReadExpires(c)
  BY <1>4, ReadExpiresSteps, NoRequestStep DEF ReadExpires
<1>5. CASE BudgetRunsOut(c)
  BY <1>5, BudgetRunsOutSteps, NoRequestStep DEF BudgetRunsOut
<1>6. ASSUME NEW network \in BOOLEAN, ReadFails(c, network) PROVE PageStep(c) /\ RequestStep(c)
  BY <1>6, ReadFailsSteps, NoRequestStep DEF ReadFails
<1>7. CASE Suspend(c)
  BY <1>7, SuspendSteps, NoRequestStep DEF Suspend
<1>8. CASE Returns(c)
  BY <1>8, ReturnsSteps, NoRequestStep DEF Returns
<1>9. CASE RecordRead(c)
  <2>1. PageStep(c)
    BY <1>9, StillSteps DEF RecordRead
  <2> QED BY <1>9, <2>1 DEF RecordRead, RequestStep
<1>10. CASE RecordArrives(c)
  <2>1. PageStep(c)
    BY <1>10, RecordArrivesSteps
  <2> QED BY <1>10, <2>1 DEF RecordArrives, RequestStep
<1>11. CASE PressRun(c)
  <2>1. PageStep(c)
    BY <1>11, StillSteps DEF PressRun
  <2>2. client'[c] = client[c] /\ client[c].shown # Blank /\ Met(client[c].shown, job)
        /\ client[c].phase \notin Over /\ client[c].phase # "starting"
    BY <1>11, PageIs DEF PressRun, PageOfTab, Sound, Over
  <2> QED BY <1>11, <2>1, <2>2 DEF PressRun, RequestStep
<1>12. CASE PostAccepted(c)
  <2>1. PageStep(c) /\ client'[c].phase # "starting"
    BY <1>12, PostAcceptedSteps, PagesNeverStart DEF PostAccepted
  <2> QED BY <1>12, <2>1 DEF PostAccepted, ForgetsKey, RequestStep
<1>13. CASE PostRefused(c)
  <2>1. PageStep(c) /\ client'[c].phase # "starting"
    BY <1>13, RefreshSteps, PagesNeverStart DEF PostRefused
  <2> QED BY <1>13, <2>1 DEF PostRefused, ForgetsKey, RequestStep
<1>14. CASE PostLost(c)
  <2>1. PageStep(c) /\ client'[c].phase # "starting"
    BY <1>14, RefreshSteps, PagesNeverStart DEF PostLost
  <2> QED BY <1>14, <2>1 DEF PostLost, RequestStep
<1>15. CASE PostDenied(c)
  <2>1. PageStep(c) /\ client'[c].phase # "starting"
    BY <1>15, StillSteps, PagesNeverStart DEF PostDenied
  <2> QED BY <1>15, <2>1 DEF PostDenied, RequestStep
<1>16. CASE CheckStatus(c)
  BY <1>16, CheckStatusSteps, NoRequestStep DEF CheckStatus
<1>17. CASE LeavePage(c)
  <2>1. PageStep(c)
    BY <1>17, LeavePageSteps
  <2> QED BY <1>17, <2>1 DEF LeavePage, RequestStep
<1>18. CASE PostUnwanted(c)
  <2>1. PageStep(c) /\ client'[c].phase # "starting"
    BY <1>18, StillSteps, PagesNeverStart DEF PostUnwanted
  <2> QED BY <1>18, <2>1 DEF PostUnwanted, RequestStep
<1>19. CASE BatchTakesItem(c)
  <2>1. PageStep(c)
    BY <1>19, BatchTakesItemSteps
  <2>2. CASE Active(reload[c])
    BY <1>19, <2>1, <2>2 DEF BatchTakesItem, RequestStep
  <2>3. CASE ~Active(reload[c])
    <3> DEFINE s == [Fresh EXCEPT !.shown = reload[c], !.phase = "starting"]
    <3>1. client'[c] = s
      BY <1>19, <2>3, PageIs DEF BatchTakesItem
    <3>2. s.shown = reload[c] /\ s.phase \notin Over
      BY DEF Fresh, Over
    <3>3. Met(reload[c], job) /\ client[c].phase # "starting"
      BY <1>19, PageIs DEF BatchTakesItem, Over
    <3> HIDE DEF s
    <3> QED BY <1>19, <2>1, <2>3, <3>1, <3>2, <3>3 DEF BatchTakesItem, RequestStep
  <2> QED BY <2>2, <2>3
<1>20. CASE BatchStarted(c)
  <2>1. PageStep(c)
    BY <1>20, BatchStartedSteps
  <2>2. client'[c].phase # "starting"
    BY <1>20, BatchStartedSteps
  <2> QED BY <1>20, <2>1, <2>2 DEF BatchStarted, ForgetsKey, RequestStep
<1>21. CASE BatchStops(c)
  <2>1. PageStep(c) /\ client'[c].phase # "starting"
    BY <1>21, BatchStopsSteps
  <2> QED BY <1>21, <2>1 DEF BatchStops, RequestStep
<1> QED
  BY <1>1, <1>2, <1>3, <1>4, <1>5, <1>6, <1>7, <1>8, <1>9, <1>10, <1>11, <1>12, <1>13, <1>14, <1>15, <1>16,
     <1>17, <1>18, <1>19, <1>20, <1>21 DEF ClientStep

-----------------------------------------------------------------------------
(* The invariant after a step of a page or a batch. *)

\* The types.
LEMMA TypesAfterClient ==
  ASSUME PagesInvariant, NEW c \in Client, PageStep(c), RequestStep(c)
  PROVE PagesTypeOK'
<1>1. job' = job /\ outcomes' = outcomes /\ retryReceipts' = retryReceipts
  BY DEF RequestStep, workspace
<1>2. loaded' \in [Client -> State \cup {Blank}] /\ reload' \in [Client -> State \cup {Blank}]
  <2>1. loaded \in [Client -> State \cup {Blank}] /\ reload \in [Client -> State \cup {Blank}] /\ job \in State
    BY DEF PagesInvariant, PagesTypeOK
  <2>2. loaded' \in [Client -> State \cup {Blank}]
    BY <2>1 DEF RequestStep
  <2>3. reload' \in [Client -> State \cup {Blank}]
    BY <2>1 DEF RequestStep
  <2> QED BY <2>2, <2>3
<1>3. client' \in [Client -> Poller] /\ statusRead' \in [Client -> StatusAnswer] /\ suspended' \subseteq Client
  BY DEF PageStep
<1>4. pressed' \subseteq State /\ delayed' \subseteq Action /\ post' \in [Client -> Start \cup {Blank}]
      /\ retained' \in [Client -> Action \cup {Blank}] /\ minted' \in [Client -> 0..MaxMinted]
  <2>1. CASE /\ pressed' = pressed /\ minted' = minted
             /\ post' \in {post, [post EXCEPT ![c] = Blank]}
             /\ retained' \in {retained, [retained EXCEPT ![c] = Blank]}
             /\ delayed' = delayed \/ (post[c] # Blank /\ delayed' = delayed \cup {post[c].request})
    <3>1. post[c] # Blank => post[c].request \in Action
      BY DEF PagesInvariant, PagesTypeOK, Start
    <3> QED BY <2>1, <3>1 DEF PagesInvariant, PagesTypeOK
  <2>2. CASE /\ client'[c].shown # Blank /\ Met(client'[c].shown, job)
             /\ Pressable(c, client'[c].shown) /\ Sends(c, client'[c].shown) /\ delayed' = delayed
    <3> DEFINE s == client'[c].shown
               q == [request |-> ActionFor(c, s), told |-> "nothing", answer |-> Blank]
    <3>0. s \in State
      BY <2>2 DEF Met
    <3>1. pressed' = pressed \cup {s} /\ retained' = [retained EXCEPT ![c] = ActionFor(c, s)]
          /\ minted' = [minted EXCEPT ![c] = IF ActionFor(c, s) = retained[c] THEN minted[c] ELSE minted[c] + 1]
          /\ post' = [post EXCEPT ![c] = q] /\ delayed' = delayed
      BY <2>2 DEF Sends, PagesInvariant, PagesTypeOK
    <3>2. Pressable(c, s)
      BY <2>2
    <3> HIDE DEF s
    <3>3. ActionFor(c, s) \in Action /\ (ActionFor(c, s) = retained[c] \/ minted[c] + 1 \in 1..MaxMinted)
      BY <3>0, <3>2, ActionForIs
    <3>4. q \in Start
      BY <3>3 DEF Start
    <3> HIDE DEF q
    <3>5. minted' \in [Client -> 0..MaxMinted]
      BY <3>1, <3>3, PageAssumption DEF PagesInvariant, PagesTypeOK
    <3> QED BY <3>0, <3>1, <3>3, <3>4, <3>5 DEF PagesInvariant, PagesTypeOK
  <2> QED BY <2>1, <2>2 DEF RequestStep
<1> QED BY <1>1, <1>2, <1>3, <1>4 DEF PagesInvariant, PagesTypeOK

\* What is held is a state the work was in.
LEMMA StatesMetAfterClient ==
  ASSUME PagesInvariant, NEW c \in Client, PageStep(c), RequestStep(c)
  PROVE StatesMet'
<1>1. job' = job /\ Met(job, job)
  BY DEF RequestStep, workspace, PagesInvariant, OutcomesStand
<1>2. ASSUME NEW s \in pressed' PROVE Met(s, job)
  BY <1>2 DEF RequestStep, Sends, PagesInvariant, StatesMet
<1>3. ASSUME NEW u \in Client
      PROVE /\ client'[u].shown # Blank => Met(client'[u].shown, job)
            /\ statusRead'[u].answer # Blank => Met(statusRead'[u].answer, job)
            /\ statusRead'[u].state = "answered" => statusRead'[u].answer # Blank
  BY PageIs DEF PageStep
<1>4. ASSUME NEW u \in Client, reload'[u] # Blank PROVE Met(reload'[u], job)
  BY <1>1, <1>4, PageIs DEF RequestStep, PagesInvariant, PagesTypeOK
<1>5. StatesMet' <=> /\ \A s \in pressed' : Met(s, job)'
                     /\ \A u \in Client : /\ client'[u].shown # Blank => Met(client[u].shown, job)'
                                          /\ statusRead'[u].answer # Blank => Met(statusRead[u].answer, job)'
                                          /\ statusRead'[u].state = "answered" => statusRead'[u].answer # Blank
                                          /\ reload'[u] # Blank => Met(reload[u], job)'
  BY DEF StatesMet
<1> QED BY <1>1, <1>2, <1>3, <1>4, <1>5 DEF Met, Promise!Reached, Promise!Ended

\* Nobody else's poller moved.
LEMMA PollersSoundAfterClient ==
  ASSUME PagesInvariant, NEW c \in Client, PageStep(c)
  PROVE PollersSound'
<1>1. ASSUME NEW u \in Client
      PROVE /\ Sound(client'[u], u \in suspended', statusRead'[u].state # "none")
            /\ u \in Tab => PageOfTab(client'[u], statusRead'[u].state # "none")
  <2>1. CASE u = c
    BY <2>1 DEF PageStep
  <2>2. CASE u # c
    BY <2>2, PageIs DEF PageStep, Sound, PageOfTab
  <2> QED BY <2>1, <2>2
<1> QED BY <1>1 DEF PollersSound, Reading, Sound, PageOfTab

\* What is still outstanding after a step of c.
LEMMA OutstandingAfter ==
  ASSUME PagesInvariant, NEW c \in Client, RequestStep(c)
  PROVE \/ pressed' = pressed /\ minted' = minted /\ Outstanding' \subseteq Outstanding
        \/ /\ client'[c].shown \in State /\ Pressable(c, client'[c].shown)
           /\ ~Active(client'[c].shown) /\ client'[c].shown.kind # "complete"
           /\ pressed' = pressed \cup {client'[c].shown}
           /\ minted' = [minted EXCEPT ![c] = IF ActionFor(c, client'[c].shown) = retained[c] THEN minted[c]
                                              ELSE minted[c] + 1]
           /\ Outstanding' \subseteq Outstanding \cup {ActionFor(c, client'[c].shown)}
<1>1. CASE /\ pressed' = pressed /\ minted' = minted
           /\ post' \in {post, [post EXCEPT ![c] = Blank]}
           /\ retained' \in {retained, [retained EXCEPT ![c] = Blank]}
           /\ delayed' = delayed \/ (post[c] # Blank /\ delayed' = delayed \cup {post[c].request})
  <2>1. \A u \in Client : retained'[u] \in {retained[u], Blank} /\ post'[u] \in {post[u], Blank}
    BY <1>1 DEF PagesInvariant, PagesTypeOK
  <2>2. ASSUME NEW a \in Outstanding' PROVE a \in Outstanding
    <3>1. CASE a \in delayed'
      BY <1>1, <3>1 DEF Outstanding
    <3>2. CASE \E u \in Client : retained'[u] # Blank /\ a = retained'[u]
      BY <2>1, <3>2 DEF Outstanding
    <3>3. CASE \E u \in Client : post'[u] # Blank /\ a = post'[u].request
      BY <2>1, <3>3 DEF Outstanding
    <3> QED BY <3>1, <3>2, <3>3 DEF Outstanding
  <2> QED BY <1>1, <2>2
<1>2. CASE /\ client'[c].shown # Blank /\ Met(client'[c].shown, job) /\ client'[c].phase \notin Over
           /\ ~Active(client'[c].shown) /\ client'[c].shown.kind # "complete"
           /\ Pressable(c, client'[c].shown) /\ Sends(c, client'[c].shown) /\ delayed' = delayed
  <2> DEFINE s == client'[c].shown
             q == [request |-> ActionFor(c, s), told |-> "nothing", answer |-> Blank]
  <2>1. pressed' = pressed \cup {s} /\ retained' = [retained EXCEPT ![c] = ActionFor(c, s)]
        /\ minted' = [minted EXCEPT ![c] = IF ActionFor(c, s) = retained[c] THEN minted[c] ELSE minted[c] + 1]
        /\ post' = [post EXCEPT ![c] = q] /\ delayed' = delayed
    BY <1>2 DEF Sends, PagesInvariant, PagesTypeOK
  <2>2. q.request = ActionFor(c, s)
    OBVIOUS
  <2>3. s \in State
    BY <1>2 DEF Met
  <2> HIDE DEF s, q
  <2>4. \A u \in Client : /\ retained'[u] \in {retained[u], ActionFor(c, s)}
                          /\ post'[u] \in {post[u], q}
    BY <2>1 DEF PagesInvariant, PagesTypeOK
  <2>5. ASSUME NEW a \in Outstanding' PROVE a \in Outstanding \cup {ActionFor(c, s)}
    <3>1. CASE a \in delayed'
      BY <2>1, <3>1 DEF Outstanding
    <3>2. CASE \E u \in Client : retained'[u] # Blank /\ a = retained'[u]
      BY <2>4, <3>2 DEF Outstanding
    <3>3. CASE \E u \in Client : post'[u] # Blank /\ a = post'[u].request
      BY <2>2, <2>4, <3>3 DEF Outstanding
    <3> QED BY <3>1, <3>2, <3>3 DEF Outstanding
  <2>6. Outstanding' \subseteq Outstanding \cup {ActionFor(c, s)}
    BY <2>5
  <2> QED BY <1>2, <2>1, <2>3, <2>6 DEF s
<1> QED BY <1>1, <1>2 DEF RequestStep

\* A start that is sent was asked for upon what c shows.
LEMMA StartsAskedAfterClient ==
  ASSUME PagesInvariant, NEW c \in Client, PageStep(c), RequestStep(c)
  PROVE StartsAsked'
<1>1. job' = job
  BY DEF RequestStep, workspace
<1>2. ASSUME NEW a \in Outstanding' PROVE AskedFor(a)'
  <2>1. CASE a \in Outstanding
    <3>1. pressed \subseteq pressed'
      BY OutstandingAfter
    <3>2. AskedFor(a)
      BY <2>1 DEF PagesInvariant, StartsAsked
    <3> QED BY <3>1, <3>2 DEF AskedFor
  <2>2. CASE a \notin Outstanding
    <3> DEFINE s == client'[c].shown
    <3>1. s \in State /\ Pressable(c, s) /\ ~Active(s) /\ s.kind # "complete" /\ s \in pressed'
          /\ a = ActionFor(c, s)
      BY <1>2, <2>2, OutstandingAfter
    <3> HIDE DEF s
    <3>2. a.expected = s.generation /\ s.generation < MaxShown
      BY <3>1, ActionForIs DEF Pressable
    <3> QED BY <3>1, <3>2 DEF AskedFor
  <2> QED BY <2>1, <2>2
<1>3. ASSUME NEW u \in Client, post'[u] # Blank, post'[u].told = "accepted"
      PROVE post'[u].answer # Blank /\ Met(post'[u].answer, job)
            /\ post'[u].answer.generation > post'[u].request.expected
  <2>1. post'[u] = post[u]
    <3>1. u # c => post'[u] = post[u]
      BY DEF RequestStep, Sends, PagesInvariant, PagesTypeOK
    <3>2. u = c => post' \in {post, [post EXCEPT ![c] = Blank]}
      <4>1. ASSUME Sends(c, client'[c].shown) PROVE post'[c].told = "nothing"
        BY <4>1 DEF Sends, PagesInvariant, PagesTypeOK
      <4> QED BY <4>1, <1>3 DEF RequestStep
    <3> QED BY <1>3, <3>1, <3>2 DEF PagesInvariant, PagesTypeOK
  <2> QED BY <1>3, <2>1 DEF PagesInvariant, StartsAsked
<1>4. ASSUME NEW u \in Client, client'[u].phase = "starting"
      PROVE post'[u] # Blank /\ post'[u].request.expected = client'[u].shown.generation
  <2>1. CASE u # c
    <3>1. client'[u] = client[u] /\ post'[u] = post[u]
      BY <2>1 DEF PageStep, RequestStep, Sends, PagesInvariant, PagesTypeOK
    <3> QED BY <1>4, <3>1 DEF PagesInvariant, StartsAsked
  <2>2. CASE u = c /\ client[c].phase = "starting" /\ client'[c].shown = client[c].shown
    <3>1. post' = post
      BY <1>4, <2>2 DEF RequestStep
    <3> QED BY <3>1, <2>2 DEF PagesInvariant, StartsAsked
  <2>3. CASE u = c /\ post'[c] # Blank /\ post'[c].request.expected = client'[c].shown.generation
    BY <2>3
  <2> QED BY <1>4, <2>1, <2>2, <2>3 DEF PageStep
<1>5. StartsAsked' <=>
        /\ \A a \in Outstanding' : AskedFor(a)'
        /\ \A u \in Client :
             /\ post'[u] # Blank /\ post'[u].told = "accepted" =>
                  post'[u].answer # Blank /\ Met(post[u].answer, job)'
                  /\ post'[u].answer.generation > post'[u].request.expected
             /\ client'[u].phase = "starting" =>
                  post'[u] # Blank /\ post'[u].request.expected = client'[u].shown.generation
  BY DEF StartsAsked
<1> QED BY <1>1, <1>2, <1>3, <1>4, <1>5 DEF Met, Promise!Reached, Promise!Ended

\* A new start has a key of its own, or repeats the one that is retained.
LEMMA KeysTellAfterClient ==
  ASSUME PagesInvariant, NEW c \in Client, PageStep(c), RequestStep(c)
  PROVE KeysTell'
<1>0. retryReceipts' = retryReceipts
  BY DEF RequestStep, workspace
<1>1. CASE pressed' = pressed /\ minted' = minted /\ Outstanding' \subseteq Outstanding
  BY <1>0, <1>1 DEF PagesInvariant, KeysTell
<1>2. CASE /\ client'[c].shown \in State /\ Pressable(c, client'[c].shown)
           /\ minted' = [minted EXCEPT ![c] = IF ActionFor(c, client'[c].shown) = retained[c] THEN minted[c]
                                              ELSE minted[c] + 1]
           /\ Outstanding' \subseteq Outstanding \cup {ActionFor(c, client'[c].shown)}
  <2> DEFINE n == ActionFor(c, client'[c].shown)
  <2>1. CASE retained[c] # Blank /\ n = retained[c]
    <3>1. n \in Outstanding
      BY <2>1 DEF Outstanding
    <3>2. minted' = minted
      BY <1>2, <2>1 DEF PagesInvariant, PagesTypeOK
    <3>3. Outstanding' \subseteq Outstanding
      BY <1>2, <3>1
    <3> QED BY <1>0, <3>2, <3>3 DEF PagesInvariant, KeysTell
  <2>2. CASE n.key = <<c, minted[c] + 1>> /\ minted[c] + 1 \in 1..MaxMinted /\ n # retained[c]
    <3>0. Outstanding' \subseteq Outstanding \cup {n} /\ minted \in [Client -> 0..MaxMinted] /\ MaxMinted \in Nat
      BY <1>2, PageAssumption DEF PagesInvariant, PagesTypeOK
    <3> HIDE DEF n
    <3>1. minted' = [minted EXCEPT ![c] = minted[c] + 1]
      BY <1>2, <2>2 DEF n
    <3>2. minted'[c] = minted[c] + 1 /\ \A u \in Client : u # c => minted'[u] = minted[u]
      BY <3>0, <3>1
    <3>3. \A u \in Client : minted[u] \in Nat /\ minted'[u] \in Nat /\ minted[u] <= minted'[u]
      BY <3>0, <3>2
    <3>4. \A a \in Outstanding : a.key \in Client \X (1..MaxMinted)
      <4>1. Outstanding \subseteq Action
        BY DEF Outstanding, PagesInvariant, PagesTypeOK, Start
      <4> QED BY <4>1 DEF Action
    <3>5. \A a \in Outstanding : a.key # n.key /\ a.key[2] <= minted'[a.key[1]]
      <4> SUFFICES ASSUME NEW a \in Outstanding PROVE a.key # n.key /\ a.key[2] <= minted'[a.key[1]]
        OBVIOUS
      <4>1. a.key[1] \in Client /\ a.key[2] \in Nat /\ a.key[2] <= minted[a.key[1]]
        BY <3>4, <3>0 DEF PagesInvariant, KeysTell
      <4>2. n.key[1] = c /\ n.key[2] = minted[c] + 1
        BY <2>2
      <4>3. minted[c] \in Nat
        BY <3>0
      <4> QED BY <3>3, <4>1, <4>2, <4>3
    <3>6. n.key \notin DOMAIN retryReceipts
      <4>1. ASSUME n.key \in DOMAIN retryReceipts PROVE FALSE
        <5>1. n.key[2] <= minted[n.key[1]]
          BY <4>1 DEF PagesInvariant, KeysTell
        <5>2. minted[c] + 1 <= minted[c] /\ minted[c] \in Nat
          BY <2>2, <3>0, <5>1
        <5> QED BY <5>2
      <4> QED BY <4>1
    <3>7. n.key[2] <= minted'[n.key[1]]
      BY <2>2, <3>2, <3>0
    <3>8. \A k \in DOMAIN retryReceipts : k \in Client \X (1..MaxMinted) /\ k[2] <= minted'[k[1]]
      <4> SUFFICES ASSUME NEW k \in DOMAIN retryReceipts PROVE k \in Client \X (1..MaxMinted) /\ k[2] <= minted'[k[1]]
        OBVIOUS
      <4>1. k \in Client \X (1..MaxMinted) /\ k[2] <= minted[k[1]]
        BY DEF PagesInvariant, KeysTell
      <4>2. k[1] \in Client /\ k[2] \in Nat
        BY <4>1, <3>0
      <4> QED BY <3>3, <4>1, <4>2, <3>0
    <3>9. \A a, b \in Outstanding' : a.key = b.key => a.expected = b.expected
      BY <3>0, <3>5 DEF PagesInvariant, KeysTell
    <3>10. \A a \in Outstanding' : a.key \in DOMAIN retryReceipts => retryReceipts[a.key] > a.expected
      BY <3>0, <3>6 DEF PagesInvariant, KeysTell
    <3>11. \A a \in Outstanding' : a.key[2] <= minted'[a.key[1]]
      BY <3>0, <3>5, <3>7
    <3> QED BY <1>0, <3>8, <3>9, <3>10, <3>11 DEF KeysTell
  <2> QED BY <1>2, <2>1, <2>2, ActionForIs
<1> QED BY <1>1, <1>2, OutstandingAfter

\* The invariant.
LEMMA InvariantAfterClient ==
  ASSUME PagesInvariant, NEW c \in Client, ClientStep(c)
  PROVE PagesInvariant'
<1>1. PageStep(c) /\ RequestStep(c)
  BY ClientSteps
<1>2. OutcomesStand'
  BY <1>1 DEF RequestStep, workspace, PagesInvariant, OutcomesStand, Met, Promise!Reached, Promise!Ended, Terminal
<1> QED
  BY <1>1, <1>2, TypesAfterClient, StatesMetAfterClient, StartsAskedAfterClient, KeysTellAfterClient,
     PollersSoundAfterClient DEF PagesInvariant

-----------------------------------------------------------------------------
(* The work, and the starts that are carried out. *)

\* Work that is pending or complete is newer than what a start would replace.
LEMMA NewerThanAsked ==
  ASSUME PagesInvariant, NEW press \in Outstanding, Active(job) \/ job.kind = "complete"
  PROVE job.generation > press.expected
<1>1. PICK s \in pressed : s.generation = press.expected /\ ~Active(s) /\ s.kind # "complete"
  BY DEF PagesInvariant, StartsAsked, AskedFor
<1>2. Met(s, job) /\ Met(job, job) /\ job \in State
  BY DEF PagesInvariant, StatesMet, OutcomesStand, PagesTypeOK
<1>3. s \in State /\ s.generation \in Nat /\ job.generation \in Nat /\ s # Blank /\ job # Blank
  BY <1>2, Generations, BlankIsNone DEF Met
<1>4. s # job
  BY <1>1
<1>5. CASE s.kind = "failed"
  BY <1>1, <1>2, <1>3, <1>4, <1>5 DEF Met, Promise!Reached, Promise!Ended
<1>6. CASE s.kind = "not-scheduled"
  BY <1>1, <1>2, <1>3, <1>4, <1>6 DEF Met, Promise!Reached, Active
<1> QED BY <1>1, <1>3, <1>5, <1>6 DEF State, Active

\* Work begins again only over the state somebody pressed on.
LEMMA AllocatesOverPressed ==
  ASSUME PagesInvariant, NEW press \in Outstanding, Allocates(press)
  PROVE /\ job \in pressed /\ ~Active(job) /\ job.kind # "complete" /\ press.expected = job.generation
        /\ job.generation < MaxShown
<1>1. PICK s \in pressed : s.generation = press.expected /\ ~Active(s) /\ s.kind # "complete"
  BY DEF PagesInvariant, StartsAsked, AskedFor
<1>2. Met(s, job) /\ Met(job, job) /\ job \in State /\ press.expected < MaxShown
  BY DEF PagesInvariant, StatesMet, OutcomesStand, PagesTypeOK, StartsAsked, AskedFor
<1>3. s = job
  BY <1>1, <1>2, PressedIsCurrent DEF Allocates
<1> QED BY <1>1, <1>2, <1>3 DEF Allocates

\* The state a key is told of its generation.
LEMMA ToldOfIs ==
  ASSUME PagesInvariant, NEW g \in 1..job.generation
  PROVE ToldOf(g).generation = g /\ Met(ToldOf(g), job)
<1> DEFINE s == ToldOf(g)
<1>1. job \in State /\ Met(job, job) /\ job.generation \in Nat /\ job.generation <= MaxShown /\ MaxShown \in Nat
      /\ (g < job.generation => outcomes[g] = "failed")
  BY Generations, PageAssumption DEF PagesInvariant, OutcomesStand, PagesTypeOK
<1>2. s.generation = g /\ s.kind = IF g = job.generation THEN job.kind ELSE outcomes[g]
  BY DEF ToldOf
<1>3. CASE g = job.generation
  <2>1. s \in State
    BY <1>1, <1>3 DEF ToldOf, State
  <2>2. s = job
    BY <1>1, <1>2, <1>3, <2>1, SameState
  <2> QED BY <1>1, <1>2, <2>2
<1>4. CASE g # job.generation
  <2>1. g < job.generation /\ s.kind = "failed"
    BY <1>1, <1>2, <1>4
  <2>2. s = [generation |-> g, kind |-> "failed"]
    BY <1>1, <1>4, <2>1 DEF ToldOf
  <2>3. s \in State
    BY <1>1, <2>1, <2>2 DEF State
  <2> QED BY <1>1, <1>2, <2>1, <2>3 DEF Met, Promise!Reached
<1> QED BY <1>3, <1>4

\* acceptAnalysisRetry: the work, the outcomes and the receipts after it.
LEMMA AcceptIs ==
  ASSUME PagesInvariant, NEW press \in Outstanding, Accept(press)
  PROVE /\ \/ job' = job /\ outcomes' = outcomes
           \/ /\ Allocates(press) /\ job' = [generation |-> job.generation + 1, kind |-> "queued"]
              /\ outcomes' = [g \in DOMAIN outcomes \cup {job.generation + 1} |->
                                IF g = job.generation + 1 THEN "none" ELSE outcomes[g]]
        /\ retryReceipts' \in [DOMAIN retryReceipts' -> 1..job'.generation]
        /\ DOMAIN retryReceipts' \subseteq DOMAIN retryReceipts \cup {press.key}
        /\ \A k \in DOMAIN retryReceipts : retryReceipts'[k] = retryReceipts[k]
        /\ press.key \in DOMAIN retryReceipts' => retryReceipts'[press.key] > press.expected
<1> DEFINE told(g) == [k \in DOMAIN retryReceipts \cup {press.key} |-> IF k = press.key THEN g ELSE retryReceipts[k]]
<1>1. job \in State /\ Met(job, job) /\ job.generation \in Nat
      /\ retryReceipts \in [DOMAIN retryReceipts -> 1..job.generation]
  BY Generations DEF PagesInvariant, OutcomesStand, PagesTypeOK
<1>2. press.key \in DOMAIN retryReceipts => retryReceipts[press.key] > press.expected
  BY DEF PagesInvariant, KeysTell
<1>3. CASE press.key \in DOMAIN retryReceipts \/ ~Allocates(press)
  <2>1. job' = job /\ outcomes' = outcomes
    BY <1>3 DEF Accept
  <2>2. CASE press.key \notin DOMAIN retryReceipts /\ Active(job)
    <3>1. retryReceipts' = told(job.generation)
      BY <1>3, <2>2 DEF Accept
    <3>2. job.generation > press.expected
      BY <2>2, NewerThanAsked
    <3>3. job.generation \in 1..job.generation
      BY <1>1, <2>2, BlankIsNone DEF Met, Active
    <3> QED BY <1>1, <2>1, <2>2, <3>1, <3>2, <3>3
  <2>3. CASE ~(press.key \notin DOMAIN retryReceipts /\ Active(job))
    <3>1. retryReceipts' = retryReceipts
      BY <1>3, <2>3 DEF Accept
    <3> QED BY <1>1, <1>2, <2>1, <3>1
  <2> QED BY <2>2, <2>3
<1>4. CASE press.key \notin DOMAIN retryReceipts /\ Allocates(press)
  <2> DEFINE next == job.generation + 1
  <2>1. job' = [generation |-> next, kind |-> "queued"]
        /\ outcomes' = [g \in DOMAIN outcomes \cup {next} |-> IF g = next THEN "none" ELSE outcomes[g]]
        /\ retryReceipts' = told(next)
    BY <1>4 DEF Accept
  <2>2. press.expected = job.generation
    BY <1>4, AllocatesOverPressed
  <2>3. job'.generation = next /\ next > press.expected /\ next \in Nat
    BY <1>1, <2>1, <2>2
  <2>4. retryReceipts' \in [DOMAIN retryReceipts' -> 1..job'.generation]
    <3>1. \A k \in DOMAIN retryReceipts : retryReceipts[k] \in 1..next
      BY <1>1
    <3>2. next \in 1..next
      BY <1>1
    <3> HIDE DEF next
    <3> QED BY <2>1, <2>3, <3>1, <3>2
  <2>5. DOMAIN retryReceipts' = DOMAIN retryReceipts \cup {press.key}
        /\ (\A k \in DOMAIN retryReceipts : retryReceipts'[k] = retryReceipts[k])
        /\ retryReceipts'[press.key] = next
    BY <1>4, <2>1
  <2> QED BY <1>4, <2>1, <2>3, <2>4, <2>5
<1> QED BY <1>3, <1>4

\* What the work does, in the start or in the consumer.
WorkStep ==
  /\ Progress(job, job') /\ job' \in State
  /\ outcomes' \in [0..job'.generation -> {"none", "complete", "failed"}] /\ OutcomesStand'

\* The consumer's step.
LEMMA JobMovesWorks ==
  ASSUME PagesInvariant, JobMoves
  PROVE WorkStep
<1>1. PICK kind \in IF job.kind = "queued" THEN {"running"} ELSE {"complete", "failed"} :
         /\ job' = [job EXCEPT !.kind = kind]
         /\ outcomes' = IF kind = "running" THEN outcomes ELSE [outcomes EXCEPT ![job.generation] = kind]
  BY DEF JobMoves
<1>2. job \in State /\ Met(job, job) /\ job.generation \in Nat /\ Active(job)
      /\ outcomes \in [0..job.generation -> {"none", "complete", "failed"}]
      /\ \A g \in 1..job.generation : g < job.generation => outcomes[g] = "failed"
  BY Generations DEF PagesInvariant, OutcomesStand, PagesTypeOK, JobMoves
<1>3. job' \in State /\ job'.generation = job.generation /\ job'.kind = kind
  BY <1>1, <1>2 DEF State
<1>4. Progress(job, job')
  BY <1>1, <1>2, <1>3 DEF Progress
<1>5. job.generation # 0
  BY <1>2 DEF Met, Active
<1>6. Met(job, job)'
  BY <1>1, <1>3, <1>5 DEF Met, Promise!Reached
<1>7. job.generation \in 0..job.generation
  BY <1>2
<1>8. outcomes' \in [0..job'.generation -> {"none", "complete", "failed"}]
      /\ (\A g \in 1..job.generation : g < job.generation => outcomes'[g] = "failed")
      /\ (kind # "running" => outcomes'[job.generation] = kind)
  BY <1>1, <1>2, <1>3, <1>7
<1>9. OutcomesStand'
  BY <1>1, <1>3, <1>6, <1>8 DEF OutcomesStand, Terminal
<1> QED BY <1>2, <1>3, <1>4, <1>8, <1>9 DEF WorkStep

\* A start that is carried out.
LEMMA AcceptWorks ==
  ASSUME PagesInvariant, NEW press \in Outstanding, Accept(press)
  PROVE WorkStep
<1>1. job \in State /\ Met(job, job) /\ job.generation \in Nat
      /\ outcomes \in [0..job.generation -> {"none", "complete", "failed"}]
      /\ (\A g \in 1..job.generation : g < job.generation => outcomes[g] = "failed")
      /\ (Terminal(job) => outcomes[job.generation] = job.kind)
  BY Generations DEF PagesInvariant, OutcomesStand, PagesTypeOK
<1>2. CASE job' = job /\ outcomes' = outcomes
  <2>1. OutcomesStand'
    BY <1>2 DEF PagesInvariant, OutcomesStand, Met, Promise!Reached, Promise!Ended, Terminal
  <2> QED BY <1>1, <1>2, <2>1 DEF WorkStep, Progress
<1>3. CASE /\ Allocates(press) /\ job' = [generation |-> job.generation + 1, kind |-> "queued"]
           /\ outcomes' = [g \in DOMAIN outcomes \cup {job.generation + 1} |->
                             IF g = job.generation + 1 THEN "none" ELSE outcomes[g]]
  <2> DEFINE next == job.generation + 1
  <2>1. job \in pressed /\ ~Active(job) /\ job.kind # "complete" /\ job.generation < MaxShown
    BY <1>3, AllocatesOverPressed
  <2>2. job'.generation = next /\ job'.kind = "queued"
    BY <1>3
  <2>3. job' \in State
    BY <1>1, <1>3, <2>1, PageAssumption DEF State
  <2>4. Progress(job, job')
    BY <1>3, <2>1, <2>3 DEF Progress
  <2>5. Met(job, job)'
    BY <1>1, <2>2, <2>3 DEF Met, Promise!Reached
  <2>6. 0..next = 0..job.generation \cup {next}
    BY <1>1
  <2>7. outcomes' \in [0..job'.generation -> {"none", "complete", "failed"}]
        /\ \A g \in 0..job.generation : outcomes'[g] = outcomes[g]
    BY <1>1, <1>3, <2>2, <2>6
  <2>8. ASSUME NEW g \in 1..next, g < next PROVE outcomes'[g] = "failed"
    <3>1. g \in 1..job.generation /\ g \in 0..job.generation
      BY <1>1, <2>8
    <3>2. CASE g = job.generation
      <4>1. job.kind = "failed"
        BY <1>1, <2>1, <3>1, <3>2, BlankIsNone DEF Met, State, Active
      <4> QED BY <1>1, <2>7, <3>1, <3>2, <4>1, BlankIsNone DEF Terminal
    <3>3. CASE g # job.generation
      <4>1. g < job.generation
        BY <1>1, <3>1, <3>3
      <4> QED BY <1>1, <2>7, <3>1, <4>1
    <3> QED BY <3>2, <3>3
  <2>9. OutcomesStand'
    BY <2>2, <2>5, <2>8 DEF OutcomesStand, Terminal
  <2> QED BY <2>1, <2>3, <2>4, <2>7, <2>9 DEF WorkStep
<1> QED BY <1>2, <1>3, AcceptIs

\* acceptOutcomeResponse: the answer is a state of the work once the start is
\* carried out, newer than the one it replaced.
LEMMA AnswerIs ==
  ASSUME PagesInvariant, NEW press \in Outstanding, Accept(press), Answer(press) # Blank
  PROVE Met(Answer(press), job') /\ Answer(press).generation > press.expected
<1>1. WorkStep /\ job \in State /\ Met(job, job)
  BY AcceptWorks DEF PagesInvariant, OutcomesStand, PagesTypeOK
<1>2. CASE press.key \in DOMAIN retryReceipts
  <2>1. retryReceipts[press.key] \in 1..job.generation /\ retryReceipts[press.key] > press.expected
    BY <1>2 DEF PagesInvariant, PagesTypeOK, KeysTell
  <2>2. Answer(press) = ToldOf(retryReceipts[press.key])
    BY <1>2 DEF Answer
  <2>3. Met(Answer(press), job) /\ Answer(press).generation > press.expected
    BY <2>1, <2>2, ToldOfIs
  <2> QED BY <1>1, <2>3, MetAfter DEF WorkStep
<1>3. CASE press.key \notin DOMAIN retryReceipts /\ (Active(job) \/ job.kind = "complete")
  <2>1. Answer(press) = job
    BY <1>3 DEF Answer
  <2>2. job.generation > press.expected
    BY <1>3, NewerThanAsked
  <2> QED BY <1>1, <2>1, <2>2, MetAfter DEF WorkStep
<1>4. CASE press.key \notin DOMAIN retryReceipts /\ ~(Active(job) \/ job.kind = "complete")
  <2>1. Allocates(press) /\ Answer(press) = [generation |-> job.generation + 1, kind |-> "queued"]
    BY <1>4 DEF Answer
  <2>2. job' = Answer(press)
    BY <1>4, <2>1 DEF Accept
  <2>3. Met(job', job') /\ job.generation \in Nat
    BY <1>1, Generations DEF WorkStep, OutcomesStand
  <2>4. press.expected = job.generation
    BY <2>1 DEF Allocates
  <2>5. Answer(press).generation = job.generation + 1
    BY <2>1
  <2> QED BY <2>2, <2>3, <2>4, <2>5
<1> QED BY <1>2, <1>3, <1>4

\* The invariant after a step of the work that leaves the pages alone.
LEMMA InvariantAfterWork ==
  ASSUME PagesInvariant, WorkStep,
         UNCHANGED <<pressed, client, statusRead, loaded, reload, retained, minted, suspended>>,
         delayed' \subseteq delayed, post' \in [Client -> Start \cup {Blank}],
         \A u \in Client :
           /\ post'[u] # Blank <=> post[u] # Blank
           /\ post[u] # Blank => post'[u].request = post[u].request
           /\ post'[u] # Blank /\ post'[u].told = "accepted" =>
                post'[u].answer # Blank /\ Met(post'[u].answer, job')
                /\ post'[u].answer.generation > post'[u].request.expected,
         retryReceipts' \in [DOMAIN retryReceipts' -> 1..job'.generation],
         \A a \in Outstanding : a.key \in DOMAIN retryReceipts' => retryReceipts'[a.key] > a.expected,
         \A k \in DOMAIN retryReceipts' : k \in DOMAIN retryReceipts \/ \E a \in Outstanding : k = a.key
  PROVE PagesInvariant'
<1>1. Outstanding' \subseteq Outstanding
  BY DEF Outstanding
<1>2. PagesTypeOK'
  BY DEF WorkStep, PagesInvariant, PagesTypeOK
<1>3. \A s : Met(s, job) => Met(s, job')
  BY MetAfter DEF WorkStep, PagesInvariant, PagesTypeOK
<1>4. StatesMet'
  <2>1. \A s \in pressed : Met(s, job')
    BY <1>3 DEF PagesInvariant, StatesMet
  <2>2. \A u \in Client : /\ client[u].shown # Blank => Met(client[u].shown, job')
                          /\ statusRead[u].answer # Blank => Met(statusRead[u].answer, job')
                          /\ statusRead[u].state = "answered" => statusRead[u].answer # Blank
                          /\ reload[u] # Blank => Met(reload[u], job')
    BY <1>3 DEF PagesInvariant, StatesMet
  <2>3. StatesMet' <=> /\ \A s \in pressed : Met(s, job)'
                       /\ \A u \in Client : /\ client[u].shown # Blank => Met(client[u].shown, job)'
                                            /\ statusRead[u].answer # Blank => Met(statusRead[u].answer, job)'
                                            /\ statusRead[u].state = "answered" => statusRead[u].answer # Blank
                                            /\ reload[u] # Blank => Met(reload[u], job)'
    BY DEF StatesMet
  <2> QED BY <2>1, <2>2, <2>3 DEF Met, Promise!Reached, Promise!Ended
<1>5. StartsAsked'
  <2>1. \A a \in Outstanding' : AskedFor(a)'
    BY <1>1 DEF PagesInvariant, StartsAsked, AskedFor
  <2>2. ASSUME NEW u \in Client, client'[u].phase = "starting"
        PROVE post'[u] # Blank /\ post'[u].request.expected = client'[u].shown.generation
    BY <2>2 DEF PagesInvariant, StartsAsked
  <2>3. StartsAsked' <=>
          /\ \A a \in Outstanding' : AskedFor(a)'
          /\ \A u \in Client :
               /\ post'[u] # Blank /\ post'[u].told = "accepted" =>
                    post'[u].answer # Blank /\ Met(post[u].answer, job)'
                    /\ post'[u].answer.generation > post'[u].request.expected
               /\ client'[u].phase = "starting" =>
                    post'[u] # Blank /\ post'[u].request.expected = client'[u].shown.generation
    BY DEF StartsAsked
  <2> QED BY <2>1, <2>2, <2>3 DEF Met, Promise!Reached, Promise!Ended
<1>6. KeysTell'
  <2>1. \A a, b \in Outstanding' : a.key = b.key => a.expected = b.expected
    BY <1>1 DEF PagesInvariant, KeysTell
  <2>2. \A a \in Outstanding' : a.key[2] <= minted'[a.key[1]]
    BY <1>1 DEF PagesInvariant, KeysTell
  <2>3. \A a \in Outstanding : a.key \in Client \X (1..MaxMinted) /\ a.key[2] <= minted[a.key[1]]
    <3>1. Outstanding \subseteq Action
      BY DEF Outstanding, PagesInvariant, PagesTypeOK, Start
    <3> QED BY <3>1 DEF Action, PagesInvariant, KeysTell
  <2>4. \A k \in DOMAIN retryReceipts' : k \in Client \X (1..MaxMinted) /\ k[2] <= minted'[k[1]]
    BY <2>3 DEF PagesInvariant, KeysTell
  <2> QED BY <1>1, <2>1, <2>2, <2>4 DEF KeysTell
<1>7. PollersSound'
  BY DEF PagesInvariant, PollersSound, Sound, PageOfTab, Reading
<1> QED BY <1>2, <1>4, <1>5, <1>6, <1>7 DEF WorkStep, PagesInvariant

\* The keys after a start that is carried out.
LEMMA KeysAfterAccept ==
  ASSUME PagesInvariant, NEW press \in Outstanding, Accept(press)
  PROVE /\ retryReceipts' \in [DOMAIN retryReceipts' -> 1..job'.generation]
        /\ \A a \in Outstanding : a.key \in DOMAIN retryReceipts' => retryReceipts'[a.key] > a.expected
        /\ \A k \in DOMAIN retryReceipts' : k \in DOMAIN retryReceipts \/ \E a \in Outstanding : k = a.key
<1>1. ASSUME NEW a \in Outstanding, a.key \in DOMAIN retryReceipts' PROVE retryReceipts'[a.key] > a.expected
  <2>1. CASE a.key = press.key
    <3>1. a.expected = press.expected
      BY <2>1 DEF PagesInvariant, KeysTell
    <3> QED BY <1>1, <2>1, <3>1, AcceptIs
  <2>2. CASE a.key # press.key
    <3>1. a.key \in DOMAIN retryReceipts
      BY <1>1, <2>2, AcceptIs
    <3> QED BY <3>1, AcceptIs DEF PagesInvariant, KeysTell
  <2> QED BY <2>1, <2>2
<1> QED BY <1>1, AcceptIs

\* The consumer's step leaves the pages alone.
LEMMA InvariantAfterJobMoves ==
  ASSUME PagesInvariant, JobMoves
  PROVE PagesInvariant'
<1>1. WorkStep /\ job'.generation = job.generation
  BY JobMovesWorks DEF JobMoves, PagesInvariant, PagesTypeOK, State
<1>2. \A u \in Client : post[u] # Blank /\ post[u].told = "accepted" =>
        post[u].answer # Blank /\ Met(post[u].answer, job') /\ post[u].answer.generation > post[u].request.expected
  BY <1>1, MetAfter DEF WorkStep, PagesInvariant, StartsAsked, PagesTypeOK
<1>3. UNCHANGED <<pressed, client, statusRead, loaded, reload, retained, minted, suspended>>
      /\ UNCHANGED <<delayed, post, retryReceipts>>
  BY DEF JobMoves
<1>4. post' \in [Client -> Start \cup {Blank}] /\ retryReceipts' \in [DOMAIN retryReceipts' -> 1..job'.generation]
      /\ \A a \in Outstanding : a.key \in DOMAIN retryReceipts' => retryReceipts'[a.key] > a.expected
  BY <1>1, <1>3 DEF PagesInvariant, PagesTypeOK, KeysTell
<1> QED BY <1>1, <1>2, <1>3, <1>4, InvariantAfterWork

\* The start is carried out, and its answer is on its way.
LEMMA InvariantAfterPostExecutes ==
  ASSUME PagesInvariant, NEW c \in Client, PostExecutes(c)
  PROVE PagesInvariant'
<1> DEFINE press == post[c].request
           q == [post[c] EXCEPT !.answer = Answer(press),
                                !.told = IF Answer(press) = Blank THEN "state-changed" ELSE "accepted"]
<1>1. post[c] \in Start /\ post[c] # Blank /\ press \in Outstanding /\ Accept(press)
  BY DEF PostExecutes, Outstanding, PagesInvariant, PagesTypeOK
<1>2. WorkStep
  BY <1>1, AcceptWorks
<1>3. Answer(press) # Blank => Answer(press) \in State /\ Met(Answer(press), job')
      /\ Answer(press).generation > press.expected
  BY <1>1, AnswerIs DEF Met
<1>4. post' = [post EXCEPT ![c] = q]
  BY DEF PostExecutes, PagesInvariant, PagesTypeOK
<1>5. q \in Start /\ q.request = press /\ q.answer = Answer(press) /\ (q.told = "accepted" => Answer(press) # Blank)
  BY <1>1, <1>3 DEF Start
<1>6. \A a \in Start : a # Blank
  BY BlankIsNone
<1> HIDE DEF q
<1>7. post' \in [Client -> Start \cup {Blank}] /\ post'[c] = q /\ \A u \in Client : u # c => post'[u] = post[u]
  BY <1>4, <1>5 DEF PagesInvariant, PagesTypeOK
<1>8. ASSUME NEW u \in Client
      PROVE /\ post'[u] # Blank <=> post[u] # Blank
            /\ post[u] # Blank => post'[u].request = post[u].request
            /\ post'[u] # Blank /\ post'[u].told = "accepted" =>
                 post'[u].answer # Blank /\ Met(post'[u].answer, job')
                 /\ post'[u].answer.generation > post'[u].request.expected
  <2>1. CASE u = c
    BY <2>1, <1>1, <1>3, <1>5, <1>6, <1>7
  <2>2. CASE u # c
    BY <2>2, <1>2, <1>7, MetAfter DEF WorkStep, PagesInvariant, StartsAsked, PagesTypeOK
  <2> QED BY <2>1, <2>2
<1>9. UNCHANGED <<pressed, client, statusRead, loaded, reload, retained, minted, suspended>>
      /\ delayed' \subseteq delayed
  BY DEF PostExecutes
<1> HIDE DEF press
<1> QED BY <1>1, <1>2, <1>7, <1>8, <1>9, KeysAfterAccept, InvariantAfterWork

\* A start that was given up is carried out.
LEMMA InvariantAfterDelayedExecutes ==
  ASSUME PagesInvariant, NEW press \in delayed, DelayedExecutes(press)
  PROVE PagesInvariant'
<1>1. press \in Outstanding /\ Accept(press)
  BY DEF DelayedExecutes, Outstanding
<1>2. WorkStep
  BY <1>1, AcceptWorks
<1>3. UNCHANGED <<pressed, client, statusRead, loaded, reload, retained, minted, suspended, post>>
      /\ delayed' \subseteq delayed
  BY DEF DelayedExecutes
<1>4. \A u \in Client : post[u] # Blank /\ post[u].told = "accepted" =>
        post[u].answer # Blank /\ Met(post[u].answer, job') /\ post[u].answer.generation > post[u].request.expected
  BY <1>2, MetAfter DEF WorkStep, PagesInvariant, StartsAsked, PagesTypeOK
<1>5. post' \in [Client -> Start \cup {Blank}]
  BY <1>3 DEF PagesInvariant, PagesTypeOK
<1> QED BY <1>1, <1>2, <1>3, <1>4, <1>5, KeysAfterAccept, InvariantAfterWork

\* Nothing is shown and nothing asked for at first.
LEMMA PagesInvariantInit == PagesInit => PagesInvariant
<1> SUFFICES ASSUME PagesInit PROVE PagesInvariant
  OBVIOUS
<1>1. Closed \in Poller /\ Closed.phase = "closed" /\ Closed.shown = Blank /\ Closed.timer = FALSE
  BY DEF Closed, Fresh, Poller, Over
<1>2. NoRead \in StatusAnswer /\ NoRead.state = "none" /\ NoRead.answer = Blank
  BY DEF NoRead, StatusAnswer
<1>3. job \in State /\ (job.generation = 0 \/ job.generation = 1) /\ job.generation \in Nat
      /\ (job.generation = 0 <=> job.kind = "not-scheduled") /\ ~Terminal(job)
  <2>1. CASE job = [generation |-> 0, kind |-> "not-scheduled"]
    BY <2>1, PageAssumption DEF State, Terminal
  <2>2. CASE job = [generation |-> 1, kind |-> "queued"]
    BY <2>2, PageAssumption DEF State, Terminal
  <2> QED BY <2>1, <2>2 DEF PagesInit
<1>4. \A c \in Client : /\ client[c] = Closed /\ statusRead[c] = NoRead /\ reload[c] = Blank /\ post[c] = Blank
                        /\ retained[c] = Blank /\ minted[c] = 0
  BY DEF PagesInit
<1>5. PagesTypeOK
  <2>1. outcomes \in [0..job.generation -> {"none", "complete", "failed"}]
    BY DEF PagesInit
  <2>2. retryReceipts \in [DOMAIN retryReceipts -> 1..job.generation]
    BY DEF PagesInit
  <2>3. pressed \subseteq State /\ delayed \subseteq Action /\ suspended \subseteq Client
    BY DEF PagesInit
  <2>4. client \in [Client -> Poller] /\ statusRead \in [Client -> StatusAnswer]
    BY <1>1, <1>2 DEF PagesInit
  <2>5. {loaded, reload} \subseteq [Client -> State \cup {Blank}] /\ post \in [Client -> Start \cup {Blank}]
        /\ retained \in [Client -> Action \cup {Blank}]
    BY DEF PagesInit
  <2>6. minted \in [Client -> 0..MaxMinted]
    BY PageAssumption DEF PagesInit
  <2> QED BY <1>3, <2>1, <2>2, <2>3, <2>4, <2>5, <2>6 DEF PagesTypeOK
<1>6. OutcomesStand
  BY <1>3 DEF OutcomesStand, Met, Promise!Reached
<1>7. StatesMet
  BY <1>1, <1>2, <1>4 DEF PagesInit, StatesMet
<1>8. Outstanding = {}
  BY <1>4 DEF Outstanding, PagesInit
<1>9. StartsAsked
  BY <1>1, <1>4, <1>8 DEF StartsAsked
<1>10. KeysTell
  BY <1>8 DEF KeysTell, PagesInit
<1>11. PollersSound
  BY <1>1, <1>2, <1>4 DEF PollersSound, Sound, PageOfTab, Reading, Over
<1> QED BY <1>5, <1>6, <1>7, <1>9, <1>10, <1>11 DEF PagesInvariant

\* The steps, by who takes them.
LEMMA PagesNextIs ==
  ASSUME PagesNext
  PROVE \/ JobMoves \/ (\E c \in Client : ClientStep(c)) \/ (\E c \in Client : PostExecutes(c))
        \/ \E press \in delayed : DelayedExecutes(press)
BY DEF PagesNext, ClientStep

\* The invariant is inductive.
LEMMA PagesInvariantNext == PagesInvariant /\ [PagesNext]_pages => PagesInvariant'
<1> SUFFICES ASSUME PagesInvariant, [PagesNext]_pages PROVE PagesInvariant'
  OBVIOUS
<1>1. CASE PagesNext
  BY <1>1, PagesNextIs, InvariantAfterJobMoves, InvariantAfterClient, InvariantAfterPostExecutes,
     InvariantAfterDelayedExecutes
<1>2. CASE UNCHANGED pages
  <2>1. UNCHANGED <<job, outcomes, pressed, retryReceipts, client, statusRead>>
        /\ UNCHANGED <<loaded, reload, post, retained, minted, delayed, suspended>>
    BY <1>2 DEF pages
  <2>2. PagesTypeOK'
    BY <2>1 DEF PagesInvariant, PagesTypeOK
  <2>3. OutcomesStand'
    BY <2>1 DEF PagesInvariant, OutcomesStand, Met, Promise!Reached, Promise!Ended, Terminal
  <2>4. StatesMet'
    BY <2>1 DEF PagesInvariant, StatesMet, Met, Promise!Reached, Promise!Ended
  <2>5. Outstanding' = Outstanding
    BY <2>1 DEF Outstanding
  <2>6. StartsAsked'
    BY <2>1, <2>5 DEF PagesInvariant, StartsAsked, AskedFor, Met, Promise!Reached, Promise!Ended
  <2>7. KeysTell'
    BY <2>1, <2>5 DEF PagesInvariant, KeysTell
  <2>8. PollersSound'
    BY <2>1 DEF PagesInvariant, PollersSound, Sound, PageOfTab, Reading
  <2> QED BY <2>2, <2>3, <2>4, <2>6, <2>7, <2>8 DEF PagesInvariant
<1> QED BY <1>1, <1>2

\* What is held was once the case, a start that may still be carried out was
\* asked for by somebody who saw what it replaces, its key is told only newer
\* generations, and a poller's phase says what keeps it up to date.
THEOREM PagesInvariance == PagesSpec => []PagesInvariant
BY PagesInvariantInit, PagesInvariantNext, PTL DEF PagesSpec

\* The pages, their requests and their keys stay of their types.
THEOREM PagesTyped == PagesSpec => []PagesTypeOK
<1>1. PagesInvariant => PagesTypeOK
  BY DEF PagesInvariant
<1> QED BY <1>1, PagesInvariance, PTL

-----------------------------------------------------------------------------
(* The pages implement PagePromise. *)

\* A page that shows pending work looks, will look when it is back, or says it stopped.
Watched == \A c \in Client :
  Shows(c) /\ Active(client[c].shown) => WatchOf(c) \in {"looks", "away", "stopped", "settled"}

\* A page that shows pending work is watched: its phase says by what.
LEMMA PagesAreWatched == PagesInvariant => Watched
<1> SUFFICES ASSUME PagesInvariant, NEW c \in Client, Shows(c), Active(client[c].shown)
             PROVE WatchOf(c) \in {"looks", "away", "stopped", "settled"}
  BY DEF Watched
<1>1. client[c] \in Poller /\ client[c].phase \notin Over
      /\ Sound(client[c], c \in suspended, statusRead[c].state # "none")
  BY PageIs DEF Shows
<1>2. client[c].phase \in {"idle", "waiting", "reading", "paused", "exhausted", "halted", "settled", "starting"}
  BY <1>1 DEF Poller
<1>3. CASE client[c].phase = "settled"
  BY <1>3 DEF WatchOf
<1>4. CASE client[c].phase # "settled"
  <2>1. client[c].timer \/ Reading(c) \/ client[c].ended \/ client[c].error \/ c \in suspended
    BY <1>1, <1>2, <1>4 DEF Sound, Reading
  <2> QED BY <2>1 DEF WatchOf
<1> QED BY <1>3, <1>4

\* A step that leaves the pages alone shows nothing else.
LEMMA ShowsNothingElse ==
  ASSUME UNCHANGED <<client, statusRead, suspended>>
  PROVE /\ [c \in Client |-> IF Shows(c) THEN client[c].shown ELSE Blank]'
             = [c \in Client |-> IF Shows(c) THEN client[c].shown ELSE Blank]
        /\ [c \in Client |-> WatchOf(c)]' = [c \in Client |-> WatchOf(c)]
BY DEF Shows, WatchOf, Reading

\* A step of a page or a batch is a look at the work, or a press.
LEMMA ClientLooks ==
  ASSUME PagesInvariant, Watched', NEW c \in Client, ClientStep(c)
  PROVE Promise!Look(c)
<1> DEFINE shows(u) == IF Shows(u) THEN client[u].shown ELSE Blank
<1>0. PageStep(c) /\ RequestStep(c)
  BY ClientSteps
<1>1. job' = job
  BY <1>0 DEF RequestStep, workspace
<1>2. ASSUME NEW u \in Client \ {c} PROVE shows(u)' = shows(u) /\ WatchOf(u)' = WatchOf(u)
  <2>1. client'[u] = client[u] /\ statusRead'[u] = statusRead[u] /\ (u \in suspended' <=> u \in suspended)
    BY <1>0, <1>2 DEF PageStep
  <2> QED BY <2>1 DEF Shows, WatchOf, Reading
<1>3. ASSUME shows(c)' # Blank
      PROVE Promise!Reached(shows(c)', job) /\ (shows(c) # Blank => Promise!MovesOn(shows(c), shows(c)'))
  <2>1. client'[c].phase \notin Over /\ shows(c)' = client'[c].shown /\ client'[c].shown # Blank
    BY <1>3 DEF Shows
  <2>2. Promise!Reached(client'[c].shown, job)
    BY <1>0, <2>1 DEF PageStep, Met
  <2>3. ASSUME shows(c) # Blank PROVE Promise!MovesOn(client[c].shown, client'[c].shown) /\ shows(c) = client[c].shown
    BY <1>0, <2>1, <2>3 DEF PageStep, Shows
  <2> QED BY <2>1, <2>2, <2>3
<1>4. ASSUME Promise!Unfinished(shows(c)') PROVE WatchOf(c)' \in {"looks", "away", "stopped", "settled"}
  <2>1. Shows(c)' /\ Active(client'[c].shown)
    BY <1>4 DEF Promise!Unfinished, Active
  <2> QED BY <2>1 DEF Watched, Active
<1>5. pressed \subseteq pressed' /\ pressed' \subseteq pressed \cup {shows(c)'}
  <2>1. CASE pressed' = pressed
    BY <2>1
  <2>2. CASE client'[c].phase \notin Over /\ Sends(c, client'[c].shown)
    BY <2>2 DEF Sends, Shows
  <2> QED BY <1>0, <2>1, <2>2 DEF RequestStep
<1>6. \A u \in Client : /\ [v \in Client |-> shows(v)][u] = shows(u)
                        /\ [v \in Client |-> shows(v)]'[u] = shows(u)'
                        /\ [v \in Client |-> WatchOf(v)][u] = WatchOf(u)
                        /\ [v \in Client |-> WatchOf(v)]'[u] = WatchOf(u)'
  OBVIOUS
<1>7. Promise!Look(c) <=>
        /\ \A u \in Client \ {c} : /\ [v \in Client |-> shows(v)]'[u] = [v \in Client |-> shows(v)][u]
                                   /\ [v \in Client |-> WatchOf(v)]'[u] = [v \in Client |-> WatchOf(v)][u]
        /\ [v \in Client |-> shows(v)]'[c] # Blank =>
             /\ Promise!Reached([v \in Client |-> shows(v)]'[c], job)
             /\ [v \in Client |-> shows(v)][c] # Blank =>
                  Promise!MovesOn([v \in Client |-> shows(v)][c], [v \in Client |-> shows(v)]'[c])
        /\ Promise!Unfinished([v \in Client |-> shows(v)]'[c]) =>
             [v \in Client |-> WatchOf(v)]'[c] \in {"looks", "away", "stopped", "settled"}
        /\ pressed \subseteq pressed' /\ pressed' \subseteq pressed \cup {[v \in Client |-> shows(v)]'[c]}
        /\ job' = job
  BY DEF Promise!Look
<1> HIDE DEF shows
<1> QED BY <1>1, <1>2, <1>3, <1>4, <1>5, <1>6, <1>7

\* The consumer's step is the work's.
LEMMA JobMovesIsWork ==
  ASSUME PagesInvariant, JobMoves
  PROVE Promise!Work
<1>1. PICK kind \in IF job.kind = "queued" THEN {"running"} ELSE {"complete", "failed"} :
        job' = [job EXCEPT !.kind = kind]
  BY DEF JobMoves
<1>2. job \in State
  BY DEF PagesInvariant, PagesTypeOK
<1>3. job'.generation = job.generation /\ job'.kind = kind
  BY <1>1, <1>2 DEF State
<1>4. Promise!Unfinished(job)
  BY DEF JobMoves, Active, Promise!Unfinished
<1>5. UNCHANGED <<client, statusRead, suspended, pressed>>
  BY DEF JobMoves
<1> QED BY <1>1, <1>3, <1>4, <1>5, ShowsNothingElse DEF Promise!Work

\* A start that is carried out does the work again where it was pressed on, or nothing.
LEMMA AcceptIsAgain ==
  ASSUME PagesInvariant, NEW press \in Outstanding, Accept(press),
         UNCHANGED <<client, statusRead, suspended, pressed>>
  PROVE Promise!Again \/ UNCHANGED Promise!vars
<1>1. CASE job' = job
  BY <1>1, ShowsNothingElse DEF Promise!vars
<1>2. CASE Allocates(press) /\ job' = [generation |-> job.generation + 1, kind |-> "queued"]
  <2>1. job \in pressed /\ ~Active(job) /\ job.kind # "complete"
    BY <1>2, AllocatesOverPressed
  <2> QED BY <1>2, <2>1, ShowsNothingElse DEF Promise!Again, Promise!Unfinished, Active
<1> QED BY <1>1, <1>2, AcceptIs

\* Every step is one of the promise, or none.
LEMMA PagesStepKeepsPromise ==
  PagesInvariant /\ Watched' /\ [PagesNext]_pages => [Promise!Next]_(Promise!vars)
<1> SUFFICES ASSUME PagesInvariant, Watched', [PagesNext]_pages PROVE [Promise!Next]_(Promise!vars)
  OBVIOUS
<1>1. CASE JobMoves
  BY <1>1, JobMovesIsWork DEF Promise!Next
<1>2. CASE \E c \in Client : ClientStep(c)
  BY <1>2, ClientLooks DEF Promise!Next
<1>3. CASE \E c \in Client : PostExecutes(c)
  <2>1. PICK c \in Client : PostExecutes(c)
    BY <1>3
  <2>2. post[c].request \in Outstanding /\ Accept(post[c].request)
        /\ UNCHANGED <<client, statusRead, suspended, pressed>>
    BY <2>1 DEF PostExecutes, Outstanding
  <2> QED BY <2>2, AcceptIsAgain DEF Promise!Next
<1>4. CASE \E press \in delayed : DelayedExecutes(press)
  <2>1. PICK press \in delayed : DelayedExecutes(press)
    BY <1>4
  <2>2. press \in Outstanding /\ Accept(press) /\ UNCHANGED <<client, statusRead, suspended, pressed>>
    BY <2>1 DEF DelayedExecutes, Outstanding
  <2> QED BY <2>2, AcceptIsAgain DEF Promise!Next
<1>5. CASE UNCHANGED pages
  <2>1. UNCHANGED <<job, pressed, client, statusRead, suspended>>
    BY <1>5 DEF pages
  <2> QED BY <2>1, ShowsNothingElse DEF Promise!vars
<1> QED BY <1>1, <1>2, <1>3, <1>4, <1>5, PagesNextIs

\* At first nothing is shown.
LEMMA PagesStartKeepsPromise == PagesInit => Promise!Init
<1> SUFFICES ASSUME PagesInit PROVE Promise!Init
  OBVIOUS
<1>1. Closed.phase \in Over
  BY DEF Closed, Fresh, Over
<1>2. \A c \in Client : client[c] = Closed /\ ~Shows(c)
  BY <1>1 DEF PagesInit, Shows
<1>3. \A c \in Client : WatchOf(c) = "nothing"
  BY <1>2 DEF WatchOf
<1> QED BY <1>2, <1>3 DEF PagesInit, Promise!Init

\* However many pages and batches there are, and whatever is lost, repeated or
\* carried out late: work is done again only over an outcome somebody saw and
\* pressed on, what a page shows never goes back, and a page that shows pending
\* work looks, is away, or says that it stopped (or had settled before).
THEOREM PagesKeepTheirPromise == PagesSpec => PagesKeepPromise
<1>1. PagesInvariant' => Watched'
  BY PagesAreWatched, PTL
<1>2. PagesInvariant /\ PagesInvariant' /\ [PagesNext]_pages => [Promise!Next]_(Promise!vars)
  BY <1>1, PagesStepKeepsPromise
<1> QED
  BY <1>2, PagesStartKeepsPromise, PagesInvariance, PTL DEF PagesSpec, PagesKeepPromise, Promise!Spec
=============================================================================
