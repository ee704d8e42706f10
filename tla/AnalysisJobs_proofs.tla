------------------------ MODULE AnalysisJobs_proofs -------------------------
(***************************************************************************)
(* Theorems about AnalysisJobs, for every value of its constants.          *)
(***************************************************************************)
EXTENDS AnalysisJobs, TLAPS

-----------------------------------------------------------------------------
(* Lemmas about the rows and the alarm.                                    *)

\* A row that is absent, or freshly allocated in a known epoch, is well typed.
LEMMA NoRowTyped == NoRow \in JobRow
BY ConstantsAssumption DEF NoRow, JobRow, Ticks, Epoch, Nonterminal, Terminal

\* settleJob keeps a row well typed: no lease, no due time, a receipt or none.
LEMMA SettledTyped ==
  ASSUME NEW row \in JobRow, NEW to \in Terminal, NEW receipt \in Invocation \cup {None}
  PROVE  Settled(row, to, receipt) \in JobRow
BY DEF Settled, JobRow, Ticks, Terminal

\* The other updates of a row, each as a handler or the scheduler makes it.
LEMMA ClaimedTyped ==
  ASSUME NEW row \in JobRow, NEW i \in Invocation, NEW at \in Nat
  PROVE  [row EXCEPT !.state = "claimed", !.nonce = i, !.lease = at, !.due = at] \in JobRow
BY DEF JobRow, Ticks, Nonterminal

\* markAnalysisStarted's update of a row.
LEMMA StartedTyped ==
  ASSUME NEW row \in JobRow
  PROVE  [row EXCEPT !.state = "started"] \in JobRow
BY DEF JobRow, Nonterminal

\* The projection's updates.
LEMMA StatusTyped ==
  ASSUME NEW row \in AnalysisRow, NEW status \in {"pending", "running"}
  PROVE  [row EXCEPT !.status = status] \in AnalysisRow
BY DEF AnalysisRow

\* finishAnalysisJob's projection of a completed generation.
LEMMA CompletedTyped ==
  ASSUME NEW row \in AnalysisRow, NEW g \in Generation, NEW i \in Invocation
  PROVE  [row EXCEPT !.status = "complete", !.recovery = FALSE, !.result = <<g, i>>] \in AnalysisRow
<1> DEFINE result == <<g, i>>
<1>1. result \in Generation \X Invocation
  OBVIOUS
<1> HIDE DEF result
<1>2. [row EXCEPT !.status = "complete", !.recovery = FALSE, !.result = result] \in AnalysisRow
  BY <1>1 DEF AnalysisRow
<1> QED BY <1>2 DEF result

\* allocateGeneration's projection of a new generation.
LEMMA AllocatedTyped ==
  ASSUME NEW row \in AnalysisRow, NEW g \in Generation
  PROVE  [row EXCEPT !.status = "pending", !.gen = g, !.recovery = FALSE] \in AnalysisRow
<1>1. g \in 0..MaxGeneration
  BY ConstantsAssumption DEF Generation
<1> QED BY <1>1 DEF AnalysisRow

\* armAlarmNoLaterThan yields a time.
LEMMA ArmTyped ==
  ASSUME alarm \in Ticks, NEW at \in Nat
  PROVE  ArmNoLaterThan(at) \in Nat
BY DEF ArmNoLaterThan, Ticks, Smaller

\* settleJob's projection of failed or uncertain generations.
LEMMA ProjectFailedTyped ==
  ASSUME analysis \in [Interview -> AnalysisRow], NEW S, NEW to
  PROVE  ProjectFailed(S, to) \in [Interview -> AnalysisRow]
BY DEF ProjectFailed, AnalysisRow

\* A countdown stays a countdown.
LEMMA DownTyped ==
  ASSUME NEW t \in Ticks
  PROVE  /\ Down(t) \in Ticks
         /\ t # None => Down(t) \in Nat
BY ConstantsAssumption DEF Down, Ticks

-----------------------------------------------------------------------------
(* Type correctness, one lemma per handler and one step per action.        *)

\* Settling a job leaves the tables well typed.
LEMMA SettleJobTyped ==
  ASSUME TypeOK, NEW k \in JobId, NEW to \in Terminal, NEW receipt \in Invocation \cup {None},
         SettleJob(k, to, receipt)
  PROVE  job' \in [JobId -> JobRow] /\ analysis' \in [Interview -> AnalysisRow]
BY SettledTyped, ProjectFailedTyped DEF SettleJob, TypeOK

\* allocateGeneration, by a completion or by a retry, keeps tables and alarm well typed.
LEMMA AllocateTyped ==
  ASSUME TypeOK, NEW iv \in Interview, NEW g \in Generation, AllocateGeneration(iv, g)
  PROVE  /\ job' \in [JobId -> JobRow]
         /\ analysis' \in [Interview -> AnalysisRow]
         /\ alarm' \in Ticks
<1>1. <<iv, g>> \in JobId
  BY DEF JobId
<1>2. [NoRow EXCEPT !.state = "pending", !.due = 0, !.dispatch = "unsent", !.epoch = activated]
        \in JobRow
  BY NoRowTyped DEF TypeOK, JobRow, Ticks, Nonterminal
<1>3. job' \in [JobId -> JobRow]
  BY <1>1, <1>2 DEF AllocateGeneration, TypeOK
<1>4. analysis' \in [Interview -> AnalysisRow]
  <2>1. [analysis[iv] EXCEPT !.status = "pending", !.gen = g, !.recovery = FALSE] \in AnalysisRow
    BY AllocatedTyped DEF TypeOK
  <2>2. Projected(iv, g) = [analysis EXCEPT ![iv] =
                              [analysis[iv] EXCEPT !.status = "pending", !.gen = g, !.recovery = FALSE]]
    BY DEF TypeOK, Projected
  <2> QED BY <2>1, <2>2 DEF AllocateGeneration, TypeOK
<1>5. alarm' \in Ticks
  BY ArmTyped DEF AllocateGeneration, TypeOK, Ticks
<1> QED BY <1>3, <1>4, <1>5

\* restoreLostWakeUp arms the alarm for a time some row waits for.
LEMMA RestoreTyped ==
  ASSUME TypeOK, RestoreLostWakeUp
  PROVE  alarm' \in Ticks
BY DEF RestoreLostWakeUp, TypeOK, Waiting, JobRow

\* claimAnalysisJob keeps the tables and the alarm well typed.
LEMMA ClaimTyped ==
  ASSUME TypeOK, NEW i \in Invocation, NEW m \in Message, NEW reply,
         ClaimAnalysisJob(i, m, reply)
  PROVE  /\ job' \in [JobId -> JobRow]
         /\ analysis' \in [Interview -> AnalysisRow]
         /\ alarm' \in Ticks
         /\ contact' \in SUBSET JobId
<1> DEFINE k == m.job
<1>1. k \in JobId /\ k[1] \in Interview
  BY DEF Message, JobId
<1>2. contact' \in SUBSET JobId
  BY DEF ClaimAnalysisJob, RecordConsumerContact, TypeOK
<1>3. CASE UNCHANGED <<job, analysis, alarm>>
  BY <1>2, <1>3 DEF TypeOK
<1>4. CASE SettleJob(k, "failed", None) /\ UNCHANGED alarm
  BY <1>1, <1>2, <1>4, SettleJobTyped DEF TypeOK, Terminal
<1>5. CASE /\ job' = [job EXCEPT ![k].state = "claimed", ![k].nonce = i,
                                  ![k].lease = Lease, ![k].due = Lease]
           /\ analysis' = [analysis EXCEPT ![k[1]].status = "running"]
           /\ alarm' = ArmNoLaterThan(Lease)
  <2>1. job' \in [JobId -> JobRow]
    <3>1. [job[k] EXCEPT !.state = "claimed", !.nonce = i, !.lease = Lease, !.due = Lease] \in JobRow
      BY <1>1, ClaimedTyped, ConstantsAssumption DEF TypeOK
    <3>2. job' = [job EXCEPT ![k] =
                    [job[k] EXCEPT !.state = "claimed", !.nonce = i, !.lease = Lease, !.due = Lease]]
      BY <1>1, <1>5 DEF TypeOK
    <3> QED BY <3>1, <3>2 DEF TypeOK
  <2>2. analysis' \in [Interview -> AnalysisRow]
    <3>1. [analysis[k[1]] EXCEPT !.status = "running"] \in AnalysisRow
      BY <1>1, StatusTyped DEF TypeOK
    <3> QED BY <1>1, <1>5, <3>1 DEF TypeOK
  <2>3. alarm' \in Ticks
    BY <1>5, ArmTyped, ConstantsAssumption DEF TypeOK, Ticks
  <2> QED BY <1>2, <2>1, <2>2, <2>3
<1> QED BY <1>3, <1>4, <1>5 DEF ClaimAnalysisJob

\* markAnalysisStarted keeps the tables, the alarm and the markers well typed.
LEMMA MarkTyped ==
  ASSUME TypeOK, NEW i \in Invocation, NEW m \in Message, NEW reply,
         MarkAnalysisStarted(i, m, reply)
  PROVE  /\ job' \in [JobId -> JobRow]
         /\ analysis' \in [Interview -> AnalysisRow]
         /\ alarm' \in Ticks
         /\ contact' \in SUBSET JobId
         /\ starter' \in [JobId -> Invocation \cup {None}]
<1> DEFINE k == m.job
<1>1. k \in JobId
  BY DEF Message
<1>2. contact' \in SUBSET JobId
  BY DEF MarkAnalysisStarted, RecordConsumerContact, TypeOK
<1>3. CASE UNCHANGED <<job, analysis, alarm, starter>>
  BY <1>2, <1>3 DEF TypeOK
<1>4. CASE SettleJob(k, "failed", None) /\ UNCHANGED <<alarm, starter>>
  BY <1>1, <1>2, <1>4, SettleJobTyped DEF TypeOK, Terminal
<1>5. CASE /\ HeldBy(job[k], i) /\ Covers(job[k])
           /\ job' = [job EXCEPT ![k].state = "started"]
           /\ starter' = [starter EXCEPT ![k] = i]
           /\ alarm' = ArmNoLaterThan(job[k].lease)
           /\ UNCHANGED analysis
  <2>1. job[k].lease \in Nat
    BY <1>1, <1>5 DEF HeldBy, TypeOK, JobRow, Ticks
  <2>2. [job[k] EXCEPT !.state = "started"] \in JobRow
    BY <1>1, StartedTyped DEF TypeOK
  <2>3. alarm' \in Ticks
    BY <1>5, <2>1, ArmTyped DEF TypeOK, Ticks
  <2> QED BY <1>1, <1>2, <1>5, <2>2, <2>3 DEF TypeOK
<1> QED BY <1>3, <1>4, <1>5 DEF MarkAnalysisStarted

\* finishAnalysisJob keeps the tables well typed.
LEMMA FinishTyped ==
  ASSUME TypeOK, NEW i \in Invocation, NEW m \in Message, NEW outcome,
         FinishAnalysisJob(i, m, outcome)
  PROVE  /\ job' \in [JobId -> JobRow]
         /\ analysis' \in [Interview -> AnalysisRow]
         /\ contact' \in SUBSET JobId
<1> DEFINE k == m.job
<1>1. k \in JobId /\ k[1] \in Interview /\ k[2] \in Generation
  BY DEF Message, JobId
<1>2. contact' \in SUBSET JobId
  BY DEF FinishAnalysisJob, RecordConsumerContact, TypeOK
<1>3. CASE UNCHANGED <<job, analysis>>
  BY <1>2, <1>3 DEF TypeOK
<1>4. CASE SettleJob(k, "recovery-required", i) \/ SettleJob(k, "failed", i)
  BY <1>1, <1>2, <1>4, SettleJobTyped DEF Terminal
<1>5. CASE /\ job' = [job EXCEPT ![k] = Settled(job[k], "complete", i)]
           /\ analysis' = [analysis EXCEPT ![k[1]].status = "complete",
                                           ![k[1]].recovery = FALSE,
                                           ![k[1]].result = <<k[2], i>>]
  <2>1. job' \in [JobId -> JobRow]
    BY <1>1, <1>5, SettledTyped DEF TypeOK, Terminal
  <2>2. analysis' \in [Interview -> AnalysisRow]
    <3>1. [analysis[k[1]] EXCEPT !.status = "complete", !.recovery = FALSE, !.result = <<k[2], i>>]
            \in AnalysisRow
      BY <1>1, CompletedTyped DEF TypeOK
    <3>2. analysis' = [analysis EXCEPT ![k[1]] =
            [analysis[k[1]] EXCEPT !.status = "complete", !.recovery = FALSE, !.result = <<k[2], i>>]]
      BY <1>1, <1>5 DEF TypeOK
    <3> QED BY <1>1, <3>1, <3>2 DEF TypeOK
  <2> QED BY <1>2, <2>1, <2>2
<1> QED BY <1>3, <1>4, <1>5 DEF FinishAnalysisJob

\* A pass that goes on to its next row is well typed.
LEMMA DispatchDoneTyped ==
  ASSUME NEW p \in Pass
  PROVE  /\ [p EXCEPT !.pc = "settle", !.msg = None, !.attempt = 0] \in Pass
         /\ [p EXCEPT !.pc = "settle", !.msg = None, !.attempt = 0].pc = "settle"
<1>1. 0 \in 0..MaxDispatch
  BY ConstantsAssumption
<1> QED BY <1>1 DEF Pass

\* An invocation that ends forgets its envelope.
LEMMA DisposeTyped ==
  ASSUME TypeOK, NEW i \in Invocation, Dispose(i)
  PROVE  /\ inv' \in [Invocation -> Consumer]
         /\ \A j \in Invocation : inv'[j].pc # "idle" => inv'[j].msg \in Message
         /\ queue' \in SUBSET Message
<1>1. Idle \in Consumer /\ Idle.pc = "idle"
  BY DEF Idle, Consumer
<1>2. inv' \in [Invocation -> Consumer]
  BY <1>1 DEF Dispose, TypeOK
<1>3. ASSUME NEW j \in Invocation, inv'[j].pc # "idle"
      PROVE  inv'[j].msg \in Message
  BY <1>1, <1>3 DEF Dispose, TypeOK, Carrying
<1>4. queue' \in SUBSET Message
  BY DEF Dispose, TypeOK
<1> QED BY <1>2, <1>3, <1>4

\* An invocation that goes on keeps its envelope.
LEMMA AdvanceTyped ==
  ASSUME TypeOK, NEW i \in Invocation, inv[i].msg \in Message, NEW c \in Consumer,
         c.msg = inv[i].msg, inv' = [inv EXCEPT ![i] = c]
  PROVE  /\ inv' \in [Invocation -> Consumer]
         /\ \A j \in Invocation : inv'[j].pc # "idle" => inv'[j].msg \in Message
BY DEF TypeOK, Carrying

\* What an evicted object is left with is well typed.
LEMMA ForgetTyped ==
  ASSUME TypeOK, Forget
  PROVE  /\ sched' \in Pass
         /\ sched'.pc = "idle"
         /\ quarantine' \in [JobId -> Nat]
         /\ alarm' \in Ticks
<1>1. Asleep \in Pass /\ Asleep.pc = "idle"
  BY ConstantsAssumption DEF Asleep, Pass
<1> QED BY <1>1 DEF Forget, TypeOK, Ticks

\* The steps of a pass.
LEMMA SettleDueTyped ==
  ASSUME TypeOK, NEW k \in JobId, SettleDueJob(k)
  PROVE  TypeOK'
<1>1. /\ sched' \in Pass
      /\ sched'.pc = "settle"
      /\ quarantine' \in [JobId -> Nat]
  BY DEF SettleDueJob, Handled, TypeOK, Pass
<1>2. contact' \in SUBSET JobId
  BY DEF SettleDueJob, TypeOK
<1>3. job[k] \in JobRow
  BY DEF TypeOK
<1>4. /\ job' \in [JobId -> JobRow]
      /\ analysis' \in [Interview -> AnalysisRow]
      /\ alarm' \in Ticks
  <2>1. CASE /\ job' = (IF job[k].state \in Terminal THEN [job EXCEPT ![k].due = None] ELSE job)
             /\ UNCHANGED <<analysis, alarm>>
    <3>1. [job[k] EXCEPT !.due = None] \in JobRow
      BY <1>3 DEF JobRow, Ticks
    <3> QED BY <2>1, <3>1 DEF TypeOK
  <2>2. CASE /\ Verdict(k) \in {"cancelled", "recovery-required", "failed"}
             /\ SettleJob(k, Verdict(k), None)
             /\ UNCHANGED alarm
    <3>1. Verdict(k) \in Terminal
      BY <2>2 DEF Terminal
    <3> QED BY <2>2, <3>1, SettleJobTyped DEF TypeOK
  <2>3. CASE /\ Verdict(k) \in {"extend", "defer"}
             /\ LET due == IF Verdict(k) = "extend" THEN job[k].lease ELSE Watchdog IN
                  /\ job' = [job EXCEPT ![k].due = due]
                  /\ alarm' = ArmNoLaterThan(due)
             /\ UNCHANGED analysis
    <3> DEFINE due == IF Verdict(k) = "extend" THEN job[k].lease ELSE Watchdog
    <3>1. due \in Nat
      <4>1. CASE Verdict(k) = "extend"
        <5>1. job[k].lease # None
          BY <4>1 DEF Verdict
        <5> QED BY <4>1, <5>1, <1>3 DEF JobRow, Ticks
      <4>2. CASE Verdict(k) # "extend"
        BY <4>2, ConstantsAssumption
      <4> QED BY <4>1, <4>2
    <3> HIDE DEF due
    <3>2. [job[k] EXCEPT !.due = due] \in JobRow
      BY <1>3, <3>1 DEF JobRow, Ticks
    <3>3. job' = [job EXCEPT ![k].due = due] /\ alarm' = ArmNoLaterThan(due)
      BY <2>3 DEF due
    <3> QED BY <2>3, <3>1, <3>2, <3>3, ArmTyped DEF TypeOK, Ticks
  <2> QED BY <2>1, <2>2, <2>3 DEF SettleDueJob
<1> QED BY <1>1, <1>2, <1>4
        DEF SettleDueJob, TypeOK, Carrying, storeVars, consumerVars, operatorVars

\* reserveDispatch spends one unit of a budget that is not used up, so the count stays in bounds.
LEMMA ReserveTyped ==
  ASSUME TypeOK, NEW k \in JobId, ReserveDispatch(k)
  PROVE  TypeOK'
<1> DEFINE attempt == job[k].attempts + 1
           row == [job[k] EXCEPT !.state = "pending", !.nonce = None, !.lease = None,
                                 !.dispatch = "reserved", !.attempts = attempt,
                                 !.due = Backoff[attempt]]
           msg == [job |-> k, epoch |-> job[k].epoch]
<1>1. job[k] \in JobRow
  BY DEF TypeOK
<1>2. attempt \in 1..MaxDispatch
  <2>1. job[k].attempts \in 0..MaxDispatch
    BY <1>1 DEF JobRow
  <2>2. ~(job[k].attempts >= MaxDispatch)
    BY DEF ReserveDispatch, Verdict
  <2>3. MaxDispatch \in Nat
    BY ConstantsAssumption
  <2> QED BY <2>1, <2>2, <2>3
<1>3. Backoff[attempt] \in Nat
  BY <1>2, ConstantsAssumption
<1>4. msg \in Message
  BY <1>1 DEF Message, JobRow
<1>5. attempt \in 0..MaxDispatch
  BY <1>2, ConstantsAssumption
<1>6. row \in JobRow
  <2> HIDE DEF attempt
  <2> QED BY <1>1, <1>3, <1>5 DEF JobRow, Nonterminal, Ticks
<1>7. job' = [job EXCEPT ![k] = row]
  BY DEF ReserveDispatch, TypeOK
<1>8. analysis' \in [Interview -> AnalysisRow]
  <2>1. k[1] \in Interview
    BY DEF JobId
  <2>2. [analysis[k[1]] EXCEPT !.status = "pending"] \in AnalysisRow
    BY <2>1, StatusTyped DEF TypeOK
  <2> QED BY <2>1, <2>2 DEF ReserveDispatch, TypeOK
<1>9. alarm' \in Ticks
  BY <1>3, ArmTyped DEF ReserveDispatch, TypeOK, Ticks
<1>10. sched' \in Pass /\ sched'.msg = msg
  <2>1. sched' = [sched EXCEPT !.pc = "send", !.todo = @ \ {k}, !.attempt = attempt, !.msg = msg]
    BY DEF ReserveDispatch
  <2> HIDE DEF attempt, msg
  <2> QED BY <1>4, <1>5, <2>1 DEF TypeOK, Pass
<1> HIDE DEF attempt, row, msg
<1>11. contact' \in SUBSET JobId /\ quarantine' \in [JobId -> Nat]
  BY DEF ReserveDispatch, TypeOK
<1>12. UNCHANGED <<starter, storeVars, consumerVars, operatorVars>>
  BY DEF ReserveDispatch
<1> QED BY <1>4, <1>6, <1>7, <1>8, <1>9, <1>10, <1>11, <1>12
        DEF TypeOK, Carrying, storeVars, consumerVars, operatorVars

\* Acknowledging a sent reservation keeps the row well typed.
LEMMA RecordTyped ==
  ASSUME TypeOK, RecordSent
  PROVE  TypeOK'
<1> DEFINE k == sched.msg.job
<1>1. k \in JobId
  BY DEF RecordSent, TypeOK, Carrying, Message
<1>2. [job[k] EXCEPT !.dispatch = "sent", !.due = Watchdog] \in JobRow
  <2>1. job[k] \in JobRow
    BY <1>1 DEF TypeOK
  <2> QED BY <2>1, ConstantsAssumption DEF JobRow, Ticks
<1>3. job' \in [JobId -> JobRow]
  BY <1>1, <1>2 DEF RecordSent, TypeOK
<1>4. alarm' \in Ticks
  BY ArmTyped, ConstantsAssumption DEF RecordSent, TypeOK, Ticks
<1>5. sched' \in Pass /\ sched'.pc = "settle"
  BY DispatchDoneTyped DEF RecordSent, TypeOK
<1>6. contact' \in SUBSET JobId
  BY DEF RecordSent, TypeOK
<1> QED BY <1>3, <1>4, <1>5, <1>6
        DEF RecordSent, TypeOK, Carrying, storeVars, consumerVars, operatorVars

\* cleanup and rearm keep the tables and the alarm well typed.
LEMMA FinishPassTyped ==
  ASSUME TypeOK, FinishPass
  PROVE  TypeOK'
<1>1. job' \in [JobId -> JobRow]
  BY NoRowTyped DEF FinishPass, TypeOK
<1>2. alarm' \in Ticks
  <2> DEFINE wakes == (IF sched.more THEN {0} ELSE JobWakes(job')) \cup CleanupWakes(job')
  <2>1. JobWakes(job') \subseteq Nat
    BY <1>1 DEF JobWakes, TypeOK, JobRow, Ticks, Larger
  <2>2. CleanupWakes(job') \subseteq Nat
    BY ConstantsAssumption DEF CleanupWakes
  <2>3. wakes \subseteq Nat
    BY <2>1, <2>2
  <2>4. alarm' = alarm \/ \E w \in wakes : alarm' = ArmNoLaterThan(w)
    BY DEF FinishPass
  <2> HIDE DEF wakes
  <2> QED BY <2>3, <2>4, ArmTyped DEF TypeOK, Ticks
<1>3. sched' \in Pass /\ sched'.pc = "idle"
  BY ConstantsAssumption DEF FinishPass, Asleep, Pass
<1> QED BY <1>1, <1>2, <1>3
        DEF FinishPass, TypeOK, Carrying, storeVars, consumerVars, operatorVars

\* The operator's steps.
LEMMA ClassifyTyped ==
  ASSUME TypeOK, ClassifyInFlight
  PROVE  job' \in [JobId -> JobRow] /\ analysis' \in [Interview -> AnalysisRow]
<1>1. ASSUME NEW row \in JobRow
      PROVE  /\ Abandoned(row) \in JobRow
             /\ [row EXCEPT !.state = "pending", !.nonce = None, !.lease = None,
                            !.dispatch = "unsent", !.due = 0] \in JobRow
  <2>1. Settled(row, "recovery-required", None) \in JobRow
    BY SettledTyped DEF Terminal
  <2>2. Abandoned(row) \in JobRow
    BY <2>1 DEF Abandoned, JobRow
  <2> QED BY <2>2 DEF JobRow, Nonterminal, Ticks
<1>2. job' \in [JobId -> JobRow]
  BY <1>1 DEF ClassifyInFlight, TypeOK
<1>3. \A iv \in Interview : [analysis[iv] EXCEPT !.status = "pending"] \in AnalysisRow
  BY StatusTyped DEF TypeOK
<1>4. analysis' \in [Interview -> AnalysisRow]
  <2> DEFINE failed == ProjectFailed(Uncertain, "recovery-required")
             returned(iv) == [analysis[iv] EXCEPT !.status = "pending"]
  <2>1. failed \in [Interview -> AnalysisRow]
    BY ProjectFailedTyped DEF TypeOK
  <2>2. \A iv \in Interview : returned(iv) \in AnalysisRow
    BY <1>3
  <2>3. analysis' = [iv \in Interview |->
           IF Current(iv) \in InFlight \ Uncertain THEN returned(iv) ELSE failed[iv]]
    BY DEF ClassifyInFlight
  <2> HIDE DEF failed, returned
  <2> QED BY <2>1, <2>2, <2>3
<1> QED BY <1>2, <1>4

\* transitionMaintenance keeps the tables, the alarm and the state well typed.
LEMMA TransitionTyped ==
  ASSUME TypeOK, NEW to \in {"open", "draining", "frozen", "recovery"}, NEW classify,
         TransitionMaintenance(to, classify)
  PROVE  TypeOK'
<1>1. job' \in [JobId -> JobRow] /\ analysis' \in [Interview -> AnalysisRow]
  BY ClassifyTyped DEF TransitionMaintenance, TypeOK
<1>2. alarm' \in Ticks
  BY ArmTyped DEF TransitionMaintenance, TypeOK, Ticks
<1>3. maintenance' = to
  BY DEF TransitionMaintenance
<1>4. UNCHANGED <<contact, starter, storeVars, schedVars, consumerVars,
                  activated, superseded, env>>
  BY DEF TransitionMaintenance
<1> QED BY <1>1, <1>2, <1>3, <1>4 DEF TypeOK, Carrying, storeVars, schedVars, consumerVars

\* activateRecoveryEpoch keeps the tables and the epochs well typed.
LEMMA ActivateTyped ==
  ASSUME TypeOK, ActivateRecoveryEpoch
  PROVE  TypeOK'
<1>1. ASSUME NEW k \in JobId
      PROVE  Abandoned(job[k]) \in JobRow
  <2>1. Settled(job[k], "recovery-required", None) \in JobRow
    BY SettledTyped DEF Terminal, TypeOK
  <2> QED BY <2>1 DEF Abandoned, JobRow
<1>2. job' \in [JobId -> JobRow]
  BY <1>1 DEF ActivateRecoveryEpoch, TypeOK
<1>3. analysis' \in [Interview -> AnalysisRow]
  BY ProjectFailedTyped DEF ActivateRecoveryEpoch, TypeOK
<1>4. activated' \in Epoch /\ superseded' \in SUBSET Epoch /\ contact' \in SUBSET JobId
  BY DEF ActivateRecoveryEpoch, TypeOK
<1>5. UNCHANGED <<starter, storeVars, alarm, schedVars, consumerVars, maintenance, env>>
  BY DEF ActivateRecoveryEpoch
<1> QED BY <1>2, <1>3, <1>4, <1>5 DEF TypeOK, Carrying, storeVars, schedVars, consumerVars

\* Time passing keeps every countdown well typed.
LEMMA TickTyped ==
  ASSUME TypeOK, Tick
  PROVE  TypeOK'
<1>1. ASSUME NEW k \in JobId
      PROVE  [job[k] EXCEPT !.lease = Down(@), !.due = Down(@)] \in JobRow
  <2>1. job[k] \in JobRow
    BY DEF TypeOK
  <2>2. Down(job[k].lease) \in Ticks /\ Down(job[k].due) \in Ticks
    BY <2>1, DownTyped DEF JobRow
  <2> QED BY <2>1, <2>2 DEF JobRow
<1>2. job' \in [JobId -> JobRow]
  BY <1>1 DEF Tick
<1>3. ASSUME NEW i \in Invocation
      PROVE  /\ [inv[i] EXCEPT !.left = Down(@)] \in Consumer
             /\ inv'[i].pc = inv[i].pc
             /\ inv'[i].msg = inv[i].msg
  <2>1. inv[i] \in Consumer
    BY DEF TypeOK
  <2>2. Down(inv[i].left) \in Nat
    BY <2>1, DownTyped, ConstantsAssumption DEF Consumer, Ticks
  <2>3. inv'[i] = [inv[i] EXCEPT !.left = Down(@)]
    BY DEF Tick
  <2> QED BY <2>1, <2>2, <2>3 DEF Consumer
<1>4. inv' \in [Invocation -> Consumer]
  BY <1>3 DEF Tick
<1>5. quarantine' \in [JobId -> Nat]
  <2>1. \A k \in JobId : quarantine[k] \in Nat
    BY DEF TypeOK
  <2>2. \A k \in JobId : Down(quarantine[k]) \in Nat
    BY <2>1, DownTyped, ConstantsAssumption DEF Ticks
  <2> QED BY <2>2 DEF Tick
<1>6. alarm' \in Ticks
  BY DownTyped DEF Tick, TypeOK
<1>7. UNCHANGED <<analysis, contact, starter, storeVars, sched, queue, late, calls, operatorVars>>
  BY DEF Tick
<1> QED BY <1>2, <1>3, <1>4, <1>5, <1>6, <1>7 DEF TypeOK, Carrying, storeVars, operatorVars

\* Every step keeps the types.
LEMMA StepTyped ==
  ASSUME TypeOK, [Next]_vars
  PROVE  TypeOK'
<1> USE DEF Carrying
<1>1. ASSUME NEW iv \in Interview, PersistCompletedInterview(iv)
      PROVE  TypeOK'
  <2>1. 1 \in Generation
    BY ConstantsAssumption DEF Generation
  <2>2. interview' \in [Interview -> {"absent", "live", "deleted"}]
    BY <1>1 DEF PersistCompletedInterview, TypeOK
  <2> QED BY <1>1, <2>1, <2>2, AllocateTyped
          DEF PersistCompletedInterview, TypeOK, schedVars, consumerVars, operatorVars
<1>2. ASSUME NEW iv \in Interview, ReadAnalysisStatus(iv)
      PROVE  TypeOK'
  BY <1>2, RestoreTyped
     DEF ReadAnalysisStatus, TypeOK, jobVars, storeVars, schedVars, consumerVars, operatorVars
<1>3. ASSUME NEW iv \in Interview, DeleteInterview(iv)
      PROVE  TypeOK'
  <2>1. job' \in [JobId -> JobRow]
    BY <1>3, NoRowTyped DEF DeleteInterview, TypeOK
  <2>2. NoAnalysis \in AnalysisRow
    BY ConstantsAssumption DEF NoAnalysis, AnalysisRow
  <2>3. analysis' \in [Interview -> AnalysisRow]
    BY <1>3, <2>2 DEF DeleteInterview, TypeOK
  <2>4. receipts' \in [Interview \X Key -> Receipt \cup {None}]
    BY <1>3 DEF DeleteInterview, TypeOK
  <2>5. alarm' \in Ticks
    BY <1>3, ArmTyped, ConstantsAssumption DEF DeleteInterview, TypeOK, Ticks
  <2> QED BY <1>3, <2>1, <2>3, <2>4, <2>5
          DEF DeleteInterview, TypeOK, schedVars, consumerVars, operatorVars
<1>4. ASSUME NEW iv \in Interview, NEW key \in Key, NEW expected \in 0..MaxGeneration,
             AcceptAnalysisRetry(iv, key, expected)
      PROVE  TypeOK'
  <2>1. <<iv, key>> \in Interview \X Key
    OBVIOUS
  <2>2. CASE /\ Active(iv)
             /\ receipts' = [receipts EXCEPT ![<<iv, key>>] =
                               [expected |-> expected, gen |-> analysis[iv].gen]]
             /\ RestoreLostWakeUp
             /\ UNCHANGED <<job, analysis>>
    <3>1. [expected |-> expected, gen |-> analysis[iv].gen] \in Receipt
      BY DEF TypeOK, AnalysisRow, Receipt
    <3>2. receipts' \in [Interview \X Key -> Receipt \cup {None}]
      BY <2>1, <2>2, <3>1 DEF TypeOK
    <3> QED BY <1>4, <2>2, <3>2, RestoreTyped
            DEF AcceptAnalysisRetry, TypeOK, schedVars, consumerVars, operatorVars
  <2>3. CASE /\ ~Active(iv)
             /\ expected < MaxGeneration
             /\ AllocateGeneration(iv, expected + 1)
             /\ receipts' = [receipts EXCEPT ![<<iv, key>>] =
                               [expected |-> expected, gen |-> expected + 1]]
    <3>1. expected + 1 \in Generation
      BY <2>3, ConstantsAssumption DEF Generation
    <3>2. [expected |-> expected, gen |-> expected + 1] \in Receipt
      BY <3>1, ConstantsAssumption DEF Receipt, Generation
    <3>3. receipts' \in [Interview \X Key -> Receipt \cup {None}]
      BY <2>1, <2>3, <3>2 DEF TypeOK
    <3> QED BY <1>4, <2>3, <3>1, <3>3, AllocateTyped
            DEF AcceptAnalysisRetry, TypeOK, schedVars, consumerVars, operatorVars
  <2> QED BY <1>4, <2>2, <2>3 DEF AcceptAnalysisRetry
<1>5. ASSUME NEW iv \in Interview, NEW key \in Key, RetryReceiptExpires(iv, key)
      PROVE  TypeOK'
  <2>1. receipts' \in [Interview \X Key -> Receipt \cup {None}]
    BY <1>5 DEF RetryReceiptExpires, TypeOK
  <2> QED BY <1>5, <2>1 DEF RetryReceiptExpires, TypeOK, jobVars, schedVars, consumerVars, operatorVars
<1>6. ASSUME NEW i \in Invocation, NEW m \in queue, DeliverMessage(i, m)
      PROVE  TypeOK'
  <2>1. m \in Message
    BY DEF TypeOK
  <2>2. [Idle EXCEPT !.pc = "claim", !.msg = m] \in Consumer
    BY <2>1 DEF Idle, Consumer
  <2>3. [Idle EXCEPT !.pc = "claim", !.msg = m].msg = m
    BY DEF Idle
  <2> QED BY <1>6, <2>1, <2>2, <2>3
          DEF DeliverMessage, TypeOK, jobVars, storeVars, schedVars, operatorVars
<1>7. ASSUME NEW m \in queue, RefuseMessage(m)
      PROVE  TypeOK'
  BY <1>7 DEF RefuseMessage, TypeOK, jobVars, storeVars, schedVars, operatorVars
<1>8. ASSUME NEW i \in Invocation, ClaimReplied(i)
      PROVE  TypeOK'
  <2>1. inv[i].msg \in Message /\ inv[i] \in Consumer
    BY <1>8 DEF ClaimReplied, TypeOK
  <2>2. /\ job' \in [JobId -> JobRow]
        /\ analysis' \in [Interview -> AnalysisRow]
        /\ alarm' \in Ticks
        /\ contact' \in SUBSET JobId
    BY <1>8, <2>1, ClaimTyped DEF ClaimReplied
  <2>3. CASE inv' = [inv EXCEPT ![i].pc = "start", ![i].replay = FALSE] /\ UNCHANGED queue
    <3>1. [inv[i] EXCEPT !.pc = "start", !.replay = FALSE] \in Consumer
      BY <2>1 DEF Consumer
    <3>2. [inv[i] EXCEPT !.pc = "start", !.replay = FALSE].msg = inv[i].msg
      BY <2>1 DEF Consumer
    <3>3. inv' = [inv EXCEPT ![i] = [inv[i] EXCEPT !.pc = "start", !.replay = FALSE]]
      BY <2>3 DEF TypeOK
    <3> QED BY <1>8, <2>1, <2>2, <2>3, <3>1, <3>2, <3>3, AdvanceTyped
            DEF ClaimReplied, TypeOK, storeVars, schedVars, operatorVars
  <2>4. CASE Dispose(i)
    BY <1>8, <2>2, <2>4, DisposeTyped
       DEF ClaimReplied, TypeOK, storeVars, schedVars, operatorVars
  <2> QED BY <1>8, <2>3, <2>4 DEF ClaimReplied
<1>9. ASSUME NEW i \in Invocation, RouteRefused(i)
      PROVE  TypeOK'
  <2>1. inv[i].msg \in Message /\ inv[i] \in Consumer
    BY <1>9 DEF RouteRefused, TypeOK
  <2>2. [inv[i] EXCEPT !.pc = "finish", !.outcome = "failed"] \in Consumer
    BY <2>1 DEF Consumer, Outcome
  <2>3. [inv[i] EXCEPT !.pc = "finish", !.outcome = "failed"].msg = inv[i].msg
    BY <2>1 DEF Consumer
  <2>4. inv' = [inv EXCEPT ![i] = [inv[i] EXCEPT !.pc = "finish", !.outcome = "failed"]]
    BY <1>9 DEF RouteRefused, TypeOK
  <2> QED BY <1>9, <2>1, <2>2, <2>3, <2>4, AdvanceTyped
          DEF RouteRefused, TypeOK, jobVars, storeVars, schedVars, operatorVars
<1>10. ASSUME NEW i \in Invocation, StartReplied(i)
       PROVE  TypeOK'
  <2>1. inv[i].msg \in Message /\ inv[i] \in Consumer
    BY <1>10 DEF StartReplied, TypeOK
  <2>2. /\ job' \in [JobId -> JobRow]
        /\ analysis' \in [Interview -> AnalysisRow]
        /\ alarm' \in Ticks
        /\ contact' \in SUBSET JobId
        /\ starter' \in [JobId -> Invocation \cup {None}]
    BY <1>10, <2>1, MarkTyped DEF StartReplied
  <2>3. CASE /\ inv' = [inv EXCEPT ![i].pc = "send", ![i].replay = FALSE,
                                   ![i].left = Deadline + Margin]
             /\ UNCHANGED queue
    <3> DEFINE room == Deadline + Margin
               c == [inv[i] EXCEPT !.pc = "send", !.replay = FALSE, !.left = room]
    <3>1. room \in Nat
      BY ConstantsAssumption
    <3>2. inv' = [inv EXCEPT ![i] = c]
      BY <2>3 DEF TypeOK
    <3>3. c \in Consumer /\ c.msg = inv[i].msg
      <4> HIDE DEF room
      <4> QED BY <2>1, <3>1 DEF Consumer
    <3> HIDE DEF c
    <3> QED BY <1>10, <2>1, <2>2, <2>3, <3>2, <3>3, AdvanceTyped
            DEF StartReplied, TypeOK, storeVars, schedVars, operatorVars
  <2>4. CASE Dispose(i)
    BY <1>10, <2>2, <2>4, DisposeTyped
       DEF StartReplied, TypeOK, storeVars, schedVars, operatorVars
  <2> QED BY <1>10, <2>3, <2>4 DEF StartReplied
<1>11. ASSUME NEW i \in Invocation, SendProviderRequest(i)
       PROVE  TypeOK'
  <2>1. inv[i].msg \in Message /\ inv[i] \in Consumer
    BY <1>11 DEF SendProviderRequest, TypeOK
  <2>2. [inv[i] EXCEPT !.pc = "calling"] \in Consumer
    BY <2>1 DEF Consumer
  <2>3. [inv[i] EXCEPT !.pc = "calling"].msg = inv[i].msg
    BY <2>1 DEF Consumer
  <2>4. calls' \in [JobId -> SUBSET Invocation]
    BY <1>11, <2>1 DEF SendProviderRequest, TypeOK, Message
  <2> QED BY <1>11, <2>1, <2>2, <2>3, <2>4, AdvanceTyped
          DEF SendProviderRequest, TypeOK, jobVars, storeVars, schedVars, operatorVars
<1>12. ASSUME NEW i \in Invocation, NEW outcome \in Outcome, ProviderReturns(i, outcome)
       PROVE  TypeOK'
  <2>1. inv[i].msg \in Message /\ inv[i] \in Consumer
    BY <1>12 DEF ProviderReturns, TypeOK
  <2>2. [inv[i] EXCEPT !.pc = "finish", !.outcome = outcome] \in Consumer
    BY <2>1 DEF Consumer
  <2>3. [inv[i] EXCEPT !.pc = "finish", !.outcome = outcome].msg = inv[i].msg
    BY <2>1 DEF Consumer
  <2>4. inv' = [inv EXCEPT ![i] = [inv[i] EXCEPT !.pc = "finish", !.outcome = outcome]]
    BY <1>12 DEF ProviderReturns, TypeOK
  <2> QED BY <1>12, <2>1, <2>2, <2>3, <2>4, AdvanceTyped
          DEF ProviderReturns, TypeOK, jobVars, storeVars, schedVars, operatorVars
<1>13. ASSUME NEW i \in Invocation, FinishReplied(i)
       PROVE  TypeOK'
  <2>1. inv[i].msg \in Message
    BY <1>13 DEF FinishReplied, TypeOK
  <2>2. /\ job' \in [JobId -> JobRow]
        /\ analysis' \in [Interview -> AnalysisRow]
        /\ contact' \in SUBSET JobId
    BY <1>13, <2>1, FinishTyped DEF FinishReplied
  <2> QED BY <1>13, <2>2, DisposeTyped
          DEF FinishReplied, TypeOK, storeVars, schedVars, operatorVars
<1>14. ASSUME NEW i \in Invocation, RpcLost(i)
       PROVE  TypeOK'
  <2>1. inv[i].msg \in Message /\ inv[i] \in Consumer
    BY <1>14 DEF RpcLost, TypeOK
  <2>2. late' \in SUBSET Request
    <3>1. [op |-> inv[i].pc, inv |-> i, msg |-> inv[i].msg, outcome |-> inv[i].outcome] \in Request
      BY <1>14, <2>1 DEF RpcLost, Consumer, Request
    <3> QED BY <1>14, <3>1 DEF RpcLost, TypeOK
  <2>3. CASE inv' = [inv EXCEPT ![i].replay = TRUE] /\ UNCHANGED queue
    <3>1. [inv[i] EXCEPT !.replay = TRUE] \in Consumer
      BY <2>1 DEF Consumer
    <3>2. [inv[i] EXCEPT !.replay = TRUE].msg = inv[i].msg
      BY <2>1 DEF Consumer
    <3> QED BY <1>14, <2>1, <2>2, <2>3, <3>1, <3>2, AdvanceTyped
            DEF RpcLost, TypeOK, jobVars, storeVars, schedVars, operatorVars
  <2>4. CASE Dispose(i)
    BY <1>14, <2>2, <2>4, DisposeTyped
       DEF RpcLost, TypeOK, jobVars, storeVars, schedVars, operatorVars
  <2> QED BY <1>14, <2>3, <2>4 DEF RpcLost
<1>15. ASSUME NEW i \in Invocation, InvocationFails(i)
       PROVE  TypeOK'
  BY <1>15, DisposeTyped
     DEF InvocationFails, TypeOK, jobVars, storeVars, schedVars, operatorVars
<1>16. ASSUME NEW r \in late, ExecuteLate(r)
       PROVE  TypeOK'
  <2>1. r.inv \in Invocation /\ r.msg \in Message
    BY DEF TypeOK, Request
  <2>2. /\ job' \in [JobId -> JobRow]
        /\ analysis' \in [Interview -> AnalysisRow]
        /\ alarm' \in Ticks
        /\ contact' \in SUBSET JobId
        /\ starter' \in [JobId -> Invocation \cup {None}]
    <3>1. CASE \E reply \in {"granted", "refused"} : ClaimAnalysisJob(r.inv, r.msg, reply)
                 /\ UNCHANGED starter
      BY <2>1, <3>1, ClaimTyped DEF TypeOK
    <3>2. CASE \E reply \in {"granted", "refused"} : MarkAnalysisStarted(r.inv, r.msg, reply)
      BY <2>1, <3>2, MarkTyped DEF TypeOK
    <3>3. CASE FinishAnalysisJob(r.inv, r.msg, r.outcome) /\ UNCHANGED <<starter, alarm>>
      BY <2>1, <3>3, FinishTyped DEF TypeOK
    <3> QED BY <1>16, <3>1, <3>2, <3>3 DEF ExecuteLate
  <2>3. UNCHANGED <<storeVars, schedVars, queue, inv, calls, operatorVars>> /\ late' \subseteq late
    BY <1>16 DEF ExecuteLate
  <2> QED BY <2>2, <2>3 DEF TypeOK, storeVars, schedVars, operatorVars
<1>17. ASSUME AlarmFires
       PROVE  TypeOK'
  <2>1. alarm' \in Ticks
    BY <1>17, ConstantsAssumption DEF AlarmFires, Ticks
  <2>2. sched' \in Pass /\ sched'.pc \in {"idle", "settle"}
    <3>1. Asleep \in Pass /\ Asleep.pc = "idle"
      BY ConstantsAssumption DEF Asleep, Pass
    <3>2. CASE UNCHANGED sched
      BY <1>17, <3>1, <3>2 DEF AlarmFires
    <3>3. CASE \E batch \in SUBSET (DueJobs \ Skipped) :
                 sched' = [Asleep EXCEPT !.pc = "settle", !.todo = batch,
                                         !.more = batch # DueJobs \ Skipped]
      <4>1. PICK batch \in SUBSET (DueJobs \ Skipped) :
              sched' = [Asleep EXCEPT !.pc = "settle", !.todo = batch,
                                      !.more = batch # DueJobs \ Skipped]
        BY <3>3
      <4>2. batch \in SUBSET JobId
        BY DEF DueJobs
      <4> QED BY <3>1, <4>1, <4>2 DEF Pass
    <3> QED BY <1>17, <3>2, <3>3 DEF AlarmFires
  <2> QED BY <1>17, <2>1, <2>2
          DEF AlarmFires, TypeOK, jobVars, storeVars, consumerVars, operatorVars
<1>18. ASSUME NEW k \in JobId, QuarantineRow(k)
       PROVE  TypeOK'
  <2>1. sched' \in Pass /\ sched'.pc = "settle"
    BY <1>18 DEF QuarantineRow, TypeOK, Pass
  <2>2. quarantine' \in [JobId -> Nat]
    BY <1>18, ConstantsAssumption DEF QuarantineRow, TypeOK
  <2> QED BY <1>18, <2>1, <2>2
          DEF QuarantineRow, TypeOK, jobVars, storeVars, consumerVars, operatorVars
<1>19. ASSUME PassHeld \/ PassThrows
       PROVE  TypeOK'
  <2>1. Asleep \in Pass /\ Asleep.pc = "idle"
    BY ConstantsAssumption DEF Asleep, Pass
  <2>2. alarm' \in Ticks
    BY <1>19, ConstantsAssumption DEF PassHeld, PassThrows, TypeOK, Ticks
  <2> QED BY <1>19, <2>1, <2>2
          DEF PassHeld, PassThrows, TypeOK, jobVars, storeVars, consumerVars, operatorVars
<1>20. ASSUME QueueSend
       PROVE  TypeOK'
  <2>1. sched.msg \in Message /\ sched \in Pass
    BY <1>20 DEF QueueSend, TypeOK
  <2>2. queue' \in SUBSET Message
    BY <1>20, <2>1 DEF QueueSend, TypeOK
  <2>3. sched' \in Pass /\ (sched'.pc \in {"send", "record"} => sched'.msg \in Message)
    <3>1. CASE sched' = [sched EXCEPT !.pc = "record"]
      BY <2>1, <3>1 DEF Pass
    <3>2. CASE sched' = [sched EXCEPT !.pc = "settle", !.msg = None, !.attempt = 0]
      BY <2>1, <3>2, DispatchDoneTyped
    <3> QED BY <1>20, <3>1, <3>2 DEF QueueSend
  <2> QED BY <1>20, <2>2, <2>3 DEF QueueSend, TypeOK, jobVars, storeVars, operatorVars
<1>21. ASSUME ObjectRestarts
       PROVE  TypeOK'
  BY <1>21, ForgetTyped DEF ObjectRestarts, TypeOK, jobVars, storeVars, consumerVars, operatorVars
<1>22. ASSUME NEW epoch \in Epoch, NEW bound \in BOOLEAN, Redeploy(epoch, bound)
       PROVE  TypeOK'
  BY <1>22, ForgetTyped DEF Redeploy, TypeOK, jobVars, storeVars, consumerVars
<1>23. ASSUME NEW k \in JobId, PrestartCapPasses(k)
       PROVE  TypeOK'
  <2>1. [job[k] EXCEPT !.aged = TRUE] \in JobRow
    <3>1. job[k] \in JobRow
      BY DEF TypeOK
    <3> QED BY <3>1 DEF JobRow
  <2> QED BY <1>23, <2>1
          DEF PrestartCapPasses, TypeOK, storeVars, schedVars, consumerVars, operatorVars
<1>24. CASE UNCHANGED vars
  BY <1>24 DEF vars, TypeOK, jobVars, storeVars, schedVars, consumerVars, operatorVars
<1> HIDE DEF Carrying
<1> QED BY <1>1, <1>2, <1>3, <1>4, <1>5, <1>6, <1>7, <1>8, <1>9, <1>10, <1>11, <1>12, <1>13,
           <1>14, <1>15, <1>16, <1>17, <1>18, <1>19, <1>20, <1>21, <1>22, <1>23, <1>24,
           SettleDueTyped, ReserveTyped, RecordTyped, FinishPassTyped,
           TransitionTyped, ActivateTyped, TickTyped
        DEF Next

\* An empty workspace is well typed.
LEMMA InitTyped == Init => TypeOK
<1> SUFFICES ASSUME Init PROVE TypeOK
  OBVIOUS
<1>1. NoRow \in JobRow
  BY NoRowTyped
<1>2. NoAnalysis \in AnalysisRow
  BY ConstantsAssumption DEF NoAnalysis, AnalysisRow
<1>3. Asleep \in Pass /\ Asleep.pc = "idle"
  BY ConstantsAssumption DEF Asleep, Pass
<1>4. Idle \in Consumer /\ Idle.pc = "idle"
  BY DEF Idle, Consumer
<1>5. 1 \in Epoch
  BY ConstantsAssumption DEF Epoch
<1> QED BY <1>1, <1>2, <1>3, <1>4, <1>5 DEF Init, TypeOK, Carrying, Ticks

\* Every reachable state is well typed, whatever the number of interviews,
\* invocations, generations and epochs, and no job is dispatched more often
\* than its budget allows.
THEOREM TypeCorrect == Spec => []TypeOK
<1>1. Init => TypeOK
  BY InitTyped
<1>2. TypeOK /\ [Next]_vars => TypeOK'
  BY StepTyped
<1> QED BY <1>1, <1>2, PTL DEF Spec

-----------------------------------------------------------------------------
(* The inductive invariant.  At most one caller ever pays for a job because *)
(* the start marker is set at most once, and that is because a job that     *)
(* lost its unstarted state never gets it back: a row is only allocated for *)
(* a generation never reached before, and only current rows are active.     *)

\* Rows exist for reached generations of live interviews.
RowsReached ==
  \A k \in JobId : job[k].state # "absent" =>
    interview[k[1]] = "live" /\ k[2] <= analysis[k[1]].gen

\* A start marker was set for a generation that was reached.
StartersReached ==
  \A k \in JobId : starter[k] # None =>
    \/ interview[k[1]] = "deleted"
    \/ interview[k[1]] = "live" /\ k[2] <= analysis[k[1]].gen

\* A job that may still be started never was.
UnstartedIsFree ==
  \A k \in JobId : job[k].state \in {"pending", "claimed"} => starter[k] = None

\* The holder of a started job is the invocation that started it.
StartedByHolder ==
  \A k \in JobId : job[k].state = "started" =>
    starter[k] = job[k].nonce /\ job[k].nonce \in Invocation

\* Only the starter has sent a request, or is about to.
PaidByStarter ==
  /\ \A k \in JobId : \A i \in calls[k] : starter[k] = i
  /\ \A i \in Invocation : inv[i].pc \in {"send", "calling"} => starter[inv[i].msg.job] = i

\* A job that may still run carries the activated epoch.
ActiveEpoch ==
  \A k \in JobId : job[k].state \in Nonterminal => job[k].epoch = activated

Inv ==
  /\ TypeOK
  /\ RowsReached
  /\ OnlyCurrentIsActive
  /\ StartersReached
  /\ UnstartedIsFree
  /\ StartedByHolder
  /\ PaidByStarter
  /\ ActiveEpoch

-----------------------------------------------------------------------------
(* What a step may do to a row.  Most actions are quiet: no interview,      *)
(* generation, start marker or call changes.                                *)

Same(k) == /\ job'[k].state = job[k].state
           /\ job'[k].nonce = job[k].nonce
           /\ job'[k].epoch = job[k].epoch

RowMove(k) ==
  \/ Same(k)
  \/ job[k].state \in Nonterminal /\ job'[k].state \in Terminal
  \/ /\ {job[k].state, job'[k].state} \subseteq {"pending", "claimed"}
     /\ job'[k].epoch = job[k].epoch
  \/ /\ job[k].state \in Terminal /\ job'[k].state = "absent"
     /\ analysis[k[1]].gen # k[2]

RowsMove ==
  /\ \A iv \in Interview : analysis'[iv].gen = analysis[iv].gen
  /\ \A k \in JobId : RowMove(k)

\* Whoever is about to send, or is calling, did so before or started its job.
SendersStarted ==
  \A i \in Invocation : inv'[i].pc \in {"send", "calling"} =>
    /\ inv'[i].msg = inv[i].msg
    /\ inv[i].pc \in {"send", "calling"} \/ starter'[inv[i].msg.job] = i

Quiet ==
  /\ UNCHANGED <<interview, starter, calls>>
  /\ RowsMove
  /\ SendersStarted
  /\ activated' # activated => \A k \in JobId : job'[k].state \notin Nonterminal

\* The other steps: allocation, deletion, the start marker and the request.
Allocates(iv, g) ==
  /\ interview[iv] = "live" => analysis[iv].gen < g
  /\ interview'[iv] = "live" /\ \A v \in Interview \ {iv} : interview'[v] = interview[v]
  /\ interview[iv] # "deleted"
  /\ analysis'[iv].gen = g /\ \A v \in Interview \ {iv} : analysis'[v].gen = analysis[v].gen
  /\ ~Active(iv)
  /\ job'[<<iv, g>>].state = "pending" /\ job'[<<iv, g>>].epoch = activated
  /\ \A k \in JobId \ {<<iv, g>>} : job'[k] = job[k]
  /\ UNCHANGED <<starter, calls, inv, activated>>

Deletes(iv) ==
  /\ interview'[iv] = "deleted" /\ \A v \in Interview \ {iv} : interview'[v] = interview[v]
  /\ \A v \in Interview \ {iv} : analysis'[v].gen = analysis[v].gen
  /\ \A k \in JobId : IF k[1] = iv THEN job'[k].state = "absent" ELSE job'[k] = job[k]
  /\ UNCHANGED <<starter, calls, inv, activated>>

\* The start marker itself, apart from what the caller makes of the reply.
SetsMarker(k, i) ==
  /\ job[k].state = "claimed" /\ job[k].nonce = i
  /\ job[k].epoch = activated /\ env.epoch = activated
  /\ job'[k].state = "started" /\ job'[k].nonce = i /\ job'[k].epoch = job[k].epoch
  /\ \A x \in JobId \ {k} : job'[x] = job[x]
  /\ starter' = [starter EXCEPT ![k] = i]
  /\ \A iv \in Interview : analysis'[iv].gen = analysis[iv].gen

Starts(k, i) ==
  /\ SetsMarker(k, i)
  /\ SendersStarted
  /\ UNCHANGED <<interview, calls, activated>>

Pays(k, i) ==
  /\ starter[k] = i
  /\ calls' = [calls EXCEPT ![k] = @ \cup {i}]
  /\ SendersStarted
  /\ UNCHANGED <<job, analysis, interview, starter, activated>>

\* A quiet step keeps the invariant: no marker, call or epoch that it relates to rows changes.
LEMMA QuietInv == ASSUME Inv, TypeOK', Quiet PROVE Inv'
<1> USE DEF Inv
<1>1. RowsReached' /\ StartersReached'
  BY DEF Quiet, RowsMove, RowMove, Same, RowsReached, StartersReached, JobId, Nonterminal
<1>2. OnlyCurrentIsActive'
  BY DEF Quiet, RowsMove, RowMove, Same, OnlyCurrentIsActive, IsCurrent, JobId, Nonterminal, Terminal
<1>3. UnstartedIsFree' /\ StartedByHolder'
  BY DEF Quiet, RowsMove, RowMove, Same, UnstartedIsFree, StartedByHolder, Terminal
<1>4. PaidByStarter'
  BY DEF Quiet, SendersStarted, PaidByStarter
<1>5. ActiveEpoch'
  BY DEF Quiet, RowsMove, RowMove, Same, ActiveEpoch, Nonterminal, Terminal
<1> QED BY <1>1, <1>2, <1>3, <1>4, <1>5

\* Allocating the next generation of an interview without an active one keeps the invariant.
LEMMA AllocatesInv ==
  ASSUME Inv, TypeOK', NEW iv \in Interview, NEW g \in Generation, Allocates(iv, g)
  PROVE  Inv'
<1> USE DEF Inv
<1>1. /\ <<iv, g>> \in JobId
      /\ \A k \in JobId : k[1] \in Interview /\ k[2] \in Nat
      /\ \A k \in JobId : k[1] = iv /\ k[2] = g => k = <<iv, g>>
      /\ \A v \in Interview : analysis[v].gen \in Nat
  <2>1. /\ <<iv, g>> \in JobId
        /\ \A k \in JobId : k[1] \in Interview /\ k[2] \in Generation /\ k = <<k[1], k[2]>>
    BY DEF JobId
  <2>2. Generation \subseteq Nat /\ 0..MaxGeneration \subseteq Nat
    BY SMTT(60), ConstantsAssumption DEF Generation
  <2>3. \A v \in Interview : analysis[v].gen \in 0..MaxGeneration
    BY DEF TypeOK, AnalysisRow
  <2> QED BY <2>1, <2>2, <2>3
<1>2. RowsReached' /\ StartersReached'
  BY <1>1 DEF Allocates, RowsReached, StartersReached
<1>3. starter[<<iv, g>>] = None
  BY <1>1 DEF Allocates, StartersReached
<1>4. OnlyCurrentIsActive'
  BY <1>1 DEF Allocates, OnlyCurrentIsActive, IsCurrent, Active, JobId
<1>5. UnstartedIsFree' /\ StartedByHolder'
  BY <1>1, <1>3 DEF Allocates, UnstartedIsFree, StartedByHolder
<1>6. PaidByStarter'
  BY DEF Allocates, PaidByStarter
<1>7. ActiveEpoch'
  BY <1>1 DEF Allocates, ActiveEpoch
<1> QED BY <1>2, <1>4, <1>5, <1>6, <1>7

\* deleteStudy takes an interview's rows with its fence, so no orphan stays active.
LEMMA DeletesInv ==
  ASSUME Inv, TypeOK', NEW iv \in Interview, Deletes(iv)
  PROVE  Inv'
<1> USE DEF Inv
<1>1. \A k \in JobId : k[1] \in Interview
  BY DEF JobId
<1>2. RowsReached' /\ StartersReached'
  BY <1>1 DEF Deletes, RowsReached, StartersReached
<1>3. OnlyCurrentIsActive'
  BY <1>1 DEF Deletes, OnlyCurrentIsActive, IsCurrent, Nonterminal
<1>4. UnstartedIsFree' /\ StartedByHolder' /\ PaidByStarter' /\ ActiveEpoch'
  BY DEF Deletes, UnstartedIsFree, StartedByHolder, PaidByStarter, ActiveEpoch, Nonterminal
<1> QED BY <1>2, <1>3, <1>4

\* A start marker set on a claimed row of the activated epoch keeps the invariant.
LEMMA StartsInv ==
  ASSUME Inv, TypeOK', NEW k \in JobId, NEW i \in Invocation, Starts(k, i)
  PROVE  Inv'
<1> USE DEF Inv
<1>1. \A x \in JobId : x[1] \in Interview
  BY DEF JobId
<1>2. starter[k] = None
  BY DEF Starts, SetsMarker, UnstartedIsFree
<1>3. RowsReached' /\ StartersReached'
  BY <1>1 DEF Starts, SetsMarker, RowsReached, StartersReached, TypeOK
<1>4. OnlyCurrentIsActive'
  BY <1>1 DEF Starts, SetsMarker, OnlyCurrentIsActive, IsCurrent, Nonterminal
<1>5. UnstartedIsFree' /\ StartedByHolder'
  BY DEF Starts, SetsMarker, UnstartedIsFree, StartedByHolder, TypeOK
<1>6. PaidByStarter'
  <2>1. \A x \in JobId : \A j \in calls'[x] : starter'[x] = j
    BY <1>2, ConstantsAssumption DEF Starts, SetsMarker, PaidByStarter, TypeOK
  <2>2. ASSUME NEW j \in Invocation, inv'[j].pc \in {"send", "calling"}
        PROVE  starter'[inv'[j].msg.job] = j
    <3>1. CASE inv[j].pc \in {"send", "calling"}
      <4>1. starter[inv[j].msg.job] = j /\ inv'[j].msg = inv[j].msg
        BY <2>2, <3>1 DEF PaidByStarter, Starts, SetsMarker, SendersStarted
      <4>2. inv[j].msg.job # k
        BY <4>1, <1>2, ConstantsAssumption
      <4>3. inv[j].msg.job \in JobId
        BY <3>1 DEF TypeOK, Carrying, Message
      <4> QED BY <4>1, <4>2, <4>3 DEF Starts, SetsMarker, TypeOK
    <3> QED BY <2>2, <3>1 DEF Starts, SetsMarker, SendersStarted
  <2> QED BY <2>1, <2>2 DEF PaidByStarter
<1>7. ActiveEpoch'
  BY DEF Starts, SetsMarker, ActiveEpoch
<1> QED BY <1>3, <1>4, <1>5, <1>6, <1>7

\* A request sent by the one invocation a marker names is the job's only one.
LEMMA PaysInv ==
  ASSUME Inv, TypeOK', NEW k \in JobId, NEW i \in Invocation, Pays(k, i)
  PROVE  Inv'
<1> USE DEF Inv
<1>1. RowsReached' /\ StartersReached' /\ OnlyCurrentIsActive' /\ UnstartedIsFree'
      /\ StartedByHolder' /\ ActiveEpoch'
  BY DEF Pays, RowsReached, StartersReached, OnlyCurrentIsActive, IsCurrent, UnstartedIsFree,
         StartedByHolder, ActiveEpoch
<1>2. PaidByStarter'
  BY DEF Pays, SendersStarted, PaidByStarter, TypeOK
<1> QED BY <1>1, <1>2

-----------------------------------------------------------------------------
(* Every step is of one of these kinds.                                     *)

\* A failed projection keeps the generation.
LEMMA ProjectFailedKeeps ==
  ASSUME TypeOK, NEW S, NEW to, NEW iv \in Interview
  PROVE  ProjectFailed(S, to)[iv].gen = analysis[iv].gen
<1>1. analysis[iv] \in AnalysisRow
  BY DEF TypeOK
<1>2. [analysis[iv] EXCEPT !.status = "failed", !.recovery = (to = "recovery-required")].gen
        = analysis[iv].gen
  BY <1>1 DEF AnalysisRow
<1>3. ProjectFailed(S, to)[iv] =
        IF Current(iv) \in S
        THEN [analysis[iv] EXCEPT !.status = "failed", !.recovery = (to = "recovery-required")]
        ELSE analysis[iv]
  BY DEF ProjectFailed
<1> QED BY <1>2, <1>3

\* Settling an active job only makes it terminal.
LEMMA SettleJobMoves ==
  ASSUME TypeOK, NEW k \in JobId, NEW to \in Terminal, NEW receipt,
         job[k].state \in Nonterminal, SettleJob(k, to, receipt)
  PROVE  RowsMove
<1>1. job' = [job EXCEPT ![k] = Settled(job[k], to, receipt)]
  BY DEF SettleJob
<1>2. Settled(job[k], to, receipt).state = to
  BY DEF Settled, TypeOK, JobRow
<1>3. \A x \in JobId : RowMove(x)
  BY <1>1, <1>2 DEF RowMove, Same, TypeOK
<1>4. \A iv \in Interview : analysis'[iv].gen = analysis[iv].gen
  BY ZenonT(60) DEF SettleJob, ProjectFailed, TypeOK, AnalysisRow
<1> QED BY <1>3, <1>4 DEF RowsMove

\* A step that leaves both tables alone moves no row.
LEMMA StillMoves == ASSUME UNCHANGED <<job, analysis>> PROVE RowsMove
BY DEF RowsMove, RowMove, Same

\* claimAnalysisJob claims a pending row or settles an aged one; every other row stays.
LEMMA ClaimMoves ==
  ASSUME TypeOK, NEW i \in Invocation, NEW m \in Message, NEW reply,
         ClaimAnalysisJob(i, m, reply)
  PROVE  RowsMove
<1> DEFINE k == m.job
<1>1. k \in JobId /\ k[1] \in Interview
  BY DEF Message, JobId
<1>2. CASE UNCHANGED <<job, analysis>>
  BY <1>2, StillMoves
<1>3. CASE job[k].state = "pending" /\ SettleJob(k, "failed", None)
  BY <1>1, <1>3, SettleJobMoves DEF Nonterminal, Terminal
<1>4. CASE /\ job[k].state = "pending"
           /\ job' = [job EXCEPT ![k].state = "claimed", ![k].nonce = i,
                                 ![k].lease = Lease, ![k].due = Lease]
           /\ analysis' = [analysis EXCEPT ![k[1]].status = "running"]
  <2>1. job'[k].state = "claimed" /\ job'[k].epoch = job[k].epoch
    BY <1>1, <1>4 DEF TypeOK, JobRow
  <2>2. \A x \in JobId \ {k} : job'[x] = job[x]
    BY <1>1, <1>4 DEF TypeOK
  <2>3. \A x \in JobId : RowMove(x)
    BY <1>1, <1>4, <2>1, <2>2 DEF RowMove, Same
  <2>4. \A iv \in Interview : analysis'[iv].gen = analysis[iv].gen
    BY <1>1, <1>4 DEF TypeOK, AnalysisRow
  <2> QED BY <2>3, <2>4 DEF RowsMove
<1> QED BY <1>2, <1>3, <1>4 DEF ClaimAnalysisJob

\* finishAnalysisJob only settles an active row.
LEMMA FinishMoves ==
  ASSUME TypeOK, NEW i \in Invocation, NEW m \in Message, NEW outcome,
         FinishAnalysisJob(i, m, outcome)
  PROVE  RowsMove
<1> DEFINE k == m.job
<1>1. k \in JobId /\ k[1] \in Interview
  BY DEF Message, JobId
<1>2. CASE UNCHANGED <<job, analysis>>
  BY <1>2, StillMoves
<1>3. CASE /\ Finishable(job[k], i, outcome)
           /\ SettleJob(k, "recovery-required", i) \/ SettleJob(k, "failed", i)
  BY <1>1, <1>3, SettleJobMoves DEF Finishable, Nonterminal, Terminal
<1>4. CASE /\ Finishable(job[k], i, outcome)
           /\ job' = [job EXCEPT ![k] = Settled(job[k], "complete", i)]
           /\ analysis' = [analysis EXCEPT ![k[1]].status = "complete",
                                           ![k[1]].recovery = FALSE,
                                           ![k[1]].result = <<k[2], i>>]
  <2>1. Settled(job[k], "complete", i).state = "complete"
    BY <1>1 DEF Settled, TypeOK, JobRow
  <2>2. \A x \in JobId : RowMove(x)
    BY <1>1, <1>4, <2>1 DEF RowMove, Same, Finishable, Nonterminal, Terminal, TypeOK
  <2>3. \A iv \in Interview : analysis'[iv].gen = analysis[iv].gen
    <3>1. [analysis[k[1]] EXCEPT !.status = "complete", !.recovery = FALSE,
                                 !.result = <<k[2], i>>].gen = analysis[k[1]].gen
      BY <1>1 DEF TypeOK, AnalysisRow
    <3>2. analysis' = [analysis EXCEPT ![k[1]] =
            [analysis[k[1]] EXCEPT !.status = "complete", !.recovery = FALSE,
                                   !.result = <<k[2], i>>]]
      BY <1>1, <1>4 DEF TypeOK
    <3> QED BY <1>1, <3>1, <3>2 DEF TypeOK
  <2> QED BY <2>2, <2>3 DEF RowsMove
<1> QED BY <1>2, <1>3, <1>4 DEF FinishAnalysisJob

\* markAnalysisStarted either sets a marker that was never set, in the activated
\* epoch, or leaves every marker alone; it grants only to the one who set it.
LEMMA MarkMoves ==
  ASSUME Inv, NEW i \in Invocation, NEW m \in Message, NEW reply,
         MarkAnalysisStarted(i, m, reply)
  PROVE  /\ SetsMarker(m.job, i) \/ (RowsMove /\ starter' = starter)
         /\ reply = "granted" => starter'[m.job] = i
<1> DEFINE k == m.job
<1>1. k \in JobId /\ TypeOK
  BY DEF Message, Inv
<1>2. CASE UNCHANGED <<job, analysis, starter>> /\ reply = "refused"
  BY <1>2, StillMoves
<1>3. CASE /\ UNCHANGED <<job, analysis, starter>>
           /\ job[k].state = "started" /\ HeldBy(job[k], i)
  BY <1>1, <1>3, StillMoves DEF HeldBy, Inv, StartedByHolder
<1>4. CASE /\ job[k].state = "claimed" /\ SettleJob(k, "failed", None)
           /\ starter' = starter /\ reply = "refused"
  BY <1>1, <1>4, SettleJobMoves DEF Nonterminal, Terminal
<1>5. CASE /\ SettlementGate(m)
           /\ job[k].state = "claimed" /\ HeldBy(job[k], i)
           /\ job' = [job EXCEPT ![k].state = "started"]
           /\ starter' = [starter EXCEPT ![k] = i]
           /\ UNCHANGED analysis
  <2>1. env.epoch = activated
    BY <1>5 DEF SettlementGate, Gate
  <2>2. job[k].epoch = activated
    BY <1>1, <1>5 DEF Inv, ActiveEpoch, Nonterminal
  <2>3. /\ job'[k].state = "started" /\ job'[k].nonce = job[k].nonce
        /\ job'[k].epoch = job[k].epoch
    BY <1>1, <1>5 DEF TypeOK, JobRow
  <2>4. \A x \in JobId \ {k} : job'[x] = job[x]
    BY <1>1, <1>5 DEF TypeOK
  <2>5. starter'[k] = i
    BY <1>1, <1>5 DEF TypeOK
  <2> QED BY <1>5, <2>1, <2>2, <2>3, <2>4, <2>5 DEF SetsMarker, HeldBy
<1> QED BY <1>2, <1>3, <1>4, <1>5 DEF MarkAnalysisStarted

\* Settling a due row, reserving its dispatch and cleaning up move rows quietly.
LEMMA SettleDueMoves ==
  ASSUME Inv, NEW k \in JobId, SettleDueJob(k)
  PROVE  RowsMove
<1>1. TypeOK
  BY DEF Inv
<1>2. CASE /\ job' = (IF job[k].state \in Terminal THEN [job EXCEPT ![k].due = None] ELSE job)
           /\ UNCHANGED analysis
  <2>1. \A x \in JobId : Same(x)
    BY <1>1, <1>2 DEF Same, TypeOK, JobRow
  <2> QED BY <1>2, <2>1 DEF RowsMove, RowMove
<1>3. CASE /\ Verdict(k) \in {"cancelled", "recovery-required", "failed"}
           /\ SettleJob(k, Verdict(k), None)
  <2>1. job[k].state \in Nonterminal
    <3>1. job[k].state \notin Nonterminal => Verdict(k) = "skip"
      BY DEF Verdict
    <3> QED BY <1>3, <3>1
  <2>2. Verdict(k) \in Terminal
    BY <1>3 DEF Terminal
  <2> HIDE DEF SettleJob
  <2> QED BY <1>1, <1>3, <2>1, <2>2, SettleJobMoves
<1>4. CASE /\ LET due == IF Verdict(k) = "extend" THEN job[k].lease ELSE Watchdog IN
                job' = [job EXCEPT ![k].due = due]
           /\ UNCHANGED analysis
  <2>1. \A x \in JobId : Same(x)
    BY <1>1, <1>4 DEF Same, TypeOK, JobRow
  <2> QED BY <1>4, <2>1 DEF RowsMove, RowMove
<1> QED BY <1>2, <1>3, <1>4 DEF SettleDueJob

\* reserveDispatch returns an unstarted row to pending and touches no other.
LEMMA ReserveMoves ==
  ASSUME Inv, NEW k \in JobId, ReserveDispatch(k)
  PROVE  RowsMove
<1>1. TypeOK /\ k[1] \in Interview
  BY DEF Inv, JobId
<1>2. job[k].state \in {"pending", "claimed"}
  BY DEF ReserveDispatch, Verdict, Nonterminal
<1>3. job'[k].state = "pending" /\ job'[k].epoch = job[k].epoch
  BY <1>1 DEF ReserveDispatch, TypeOK, JobRow
<1>4. \A x \in JobId \ {k} : job'[x] = job[x]
  BY <1>1 DEF ReserveDispatch, TypeOK
<1>5. \A iv \in Interview : analysis'[iv].gen = analysis[iv].gen
  BY <1>1 DEF ReserveDispatch, TypeOK, AnalysisRow
<1> QED BY <1>2, <1>3, <1>4, <1>5 DEF RowsMove, RowMove, Same

\* Acknowledging a send changes no state, nonce or epoch.
LEMMA RecordMoves ==
  ASSUME Inv, RecordSent
  PROVE  RowsMove
<1>1. TypeOK
  BY DEF Inv
<1>2. \A x \in JobId : Same(x)
  BY <1>1 DEF RecordSent, Same, TypeOK, JobRow
<1> QED BY <1>2 DEF RecordSent, RowsMove, RowMove

\* Cleanup removes terminal rows of superseded generations only.
LEMMA FinishPassMoves ==
  ASSUME Inv, FinishPass
  PROVE  RowsMove
<1>1. PICK gone \in SUBSET Removable : job' = [k \in JobId |-> IF k \in gone THEN NoRow ELSE job[k]]
  BY DEF FinishPass
<1>2. \A k \in JobId : RowMove(k)
  BY <1>1 DEF Removable, RowMove, Same, NoRow
<1> QED BY <1>2 DEF FinishPass, RowsMove

\* A freeze settles what was started as uncertain and takes back what was claimed.
LEMMA TransitionMoves ==
  ASSUME Inv, NEW to, NEW classify, TransitionMaintenance(to, classify)
  PROVE  RowsMove
<1>1. TypeOK
  BY DEF Inv
<1>2. CASE UNCHANGED <<job, analysis>>
  BY <1>2, StillMoves
<1>3. CASE ClassifyInFlight
  <2>1. ASSUME NEW k \in JobId, k \in Uncertain
        PROVE  RowMove(k)
    <3>1. Abandoned(job[k]).state = "recovery-required"
      BY <1>1 DEF Abandoned, Settled, TypeOK, JobRow
    <3>2. job'[k] = Abandoned(job[k])
      BY <1>3, <2>1 DEF ClassifyInFlight
    <3> QED BY <2>1, <3>1, <3>2 DEF Uncertain, RowMove, Nonterminal, Terminal
  <2>2. ASSUME NEW k \in JobId, k \in InFlight \ Uncertain
        PROVE  RowMove(k)
    <3>1. job'[k] = [job[k] EXCEPT !.state = "pending", !.nonce = None, !.lease = None,
                                   !.dispatch = "unsent", !.due = 0]
      BY <1>3, <2>2 DEF ClassifyInFlight
    <3>2. job'[k].state = "pending" /\ job'[k].epoch = job[k].epoch
      BY <1>1, <3>1 DEF TypeOK, JobRow
    <3>3. job[k].state = "claimed"
      BY <2>2 DEF InFlight, Uncertain
    <3> QED BY <3>2, <3>3 DEF RowMove
  <2>3. ASSUME NEW k \in JobId, k \notin InFlight
        PROVE  RowMove(k)
    <3>1. job'[k] = job[k]
      BY <1>3, <2>3 DEF ClassifyInFlight, Uncertain
    <3> QED BY <3>1 DEF RowMove, Same
  <2>4. \A iv \in Interview : analysis'[iv].gen = analysis[iv].gen
    <3> TAKE iv \in Interview
    <3>1. [analysis[iv] EXCEPT !.status = "pending"].gen = analysis[iv].gen
      BY <1>1 DEF TypeOK, AnalysisRow
    <3>2. ProjectFailed(Uncertain, "recovery-required")[iv].gen = analysis[iv].gen
      BY <1>1, ProjectFailedKeeps
    <3>3. analysis'[iv] = IF Current(iv) \in InFlight \ Uncertain
                          THEN [analysis[iv] EXCEPT !.status = "pending"]
                          ELSE ProjectFailed(Uncertain, "recovery-required")[iv]
      BY <1>3 DEF ClassifyInFlight
    <3> QED BY <3>1, <3>2, <3>3
  <2> QED BY <2>1, <2>2, <2>3, <2>4 DEF RowsMove
<1> QED BY <1>2, <1>3 DEF TransitionMaintenance

\* Activation leaves no active row behind.
LEMMA ActivateMoves ==
  ASSUME Inv, ActivateRecoveryEpoch
  PROVE  RowsMove /\ \A k \in JobId : job'[k].state \notin Nonterminal
<1> DEFINE restored == {k \in JobId : job[k].state \in Nonterminal}
<1>1. TypeOK
  BY DEF Inv
<1>2. /\ job' = [k \in JobId |-> IF k \in restored THEN Abandoned(job[k]) ELSE job[k]]
      /\ analysis' = ProjectFailed(restored, "recovery-required")
  BY DEF ActivateRecoveryEpoch
<1>3. \A k \in JobId : Abandoned(job[k]).state = "recovery-required"
  BY <1>1 DEF Abandoned, Settled, TypeOK, JobRow
<1>4. \A k \in JobId : RowMove(k) /\ job'[k].state \notin Nonterminal
  <2> TAKE k \in JobId
  <2>1. job'[k] = IF job[k].state \in Nonterminal THEN Abandoned(job[k]) ELSE job[k]
    BY <1>2
  <2> QED BY <2>1, <1>3 DEF RowMove, Same, Nonterminal, Terminal
<1>5. \A iv \in Interview : analysis'[iv].gen = analysis[iv].gen
  <2> HIDE DEF restored
  <2> QED BY <1>1, <1>2, ProjectFailedKeeps
<1> QED BY <1>4, <1>5 DEF RowsMove

\* Time and the pre-start cap change no state, nonce or epoch.
LEMMA TimeMoves ==
  ASSUME Inv, Tick \/ \E k \in JobId : PrestartCapPasses(k)
  PROVE  RowsMove
<1>1. TypeOK
  BY DEF Inv
<1>2. ASSUME NEW x \in JobId, Tick
      PROVE  Same(x)
  <2>1. job[x] \in JobRow /\ job'[x] = [job[x] EXCEPT !.lease = Down(@), !.due = Down(@)]
    BY <1>1, <1>2 DEF Tick, TypeOK
  <2> QED BY <2>1 DEF Same, JobRow
<1>3. ASSUME NEW x \in JobId, NEW k \in JobId, PrestartCapPasses(k)
      PROVE  Same(x)
  BY <1>1, <1>3 DEF PrestartCapPasses, Same, TypeOK, JobRow
<1> QED BY <1>2, <1>3 DEF Tick, PrestartCapPasses, RowsMove, RowMove

\* What an invocation that ends, and one that only moves on, do to the senders.
LEMMA DisposeSenders ==
  ASSUME TypeOK, NEW i \in Invocation, Dispose(i)
  PROVE  SendersStarted
BY DEF Dispose, SendersStarted, Idle, TypeOK

\* A step that touches no invocation lets nobody send.
LEMMA StillSenders == ASSUME UNCHANGED inv PROVE SendersStarted
BY DEF SendersStarted

\* A step that touches neither tables, fences, markers, calls nor the activated
\* epoch is quiet if it lets nobody send.
LEMMA StillQuiet ==
  ASSUME UNCHANGED <<job, analysis, interview, starter, calls, activated>>, SendersStarted
  PROVE  Quiet
BY StillMoves DEF Quiet

\* A step of the scheduler or an RPC that only moves rows is quiet.
LEMMA MovesQuiet ==
  ASSUME RowsMove, SendersStarted, UNCHANGED <<interview, starter, calls, activated>>
  PROVE  Quiet
BY DEF Quiet

\* The steps of consumers and of the queue.
LEMMA ConsumerClasses ==
  ASSUME Inv, NEW i \in Invocation,
         \/ \E m \in queue : DeliverMessage(i, m)
         \/ ClaimReplied(i) \/ RouteRefused(i)
         \/ (\E outcome \in Outcome : ProviderReturns(i, outcome))
         \/ FinishReplied(i) \/ RpcLost(i) \/ InvocationFails(i)
  PROVE  Quiet
<1>1. TypeOK
  BY DEF Inv
<1>2. inv[i].pc # "idle" => inv[i].msg \in Message
  BY <1>1 DEF TypeOK, Carrying
<1>3. ASSUME NEW m \in queue, DeliverMessage(i, m)
      PROVE  Quiet
  <2>1. SendersStarted
    BY <1>1, <1>3 DEF DeliverMessage, SendersStarted, Idle, TypeOK
  <2> QED BY <1>3, <2>1, StillQuiet DEF DeliverMessage, jobVars, storeVars, operatorVars
<1>4. CASE ClaimReplied(i)
  <2>1. \E reply : ClaimAnalysisJob(i, inv[i].msg, reply)
    BY <1>4 DEF ClaimReplied
  <2>2. RowsMove
    BY <1>1, <1>2, <1>4, <2>1, ClaimMoves DEF ClaimReplied
  <2>3. SendersStarted
    <3>1. CASE Dispose(i)
      BY <1>1, <3>1, DisposeSenders
    <3>2. CASE inv' = [inv EXCEPT ![i].pc = "start", ![i].replay = FALSE]
      BY <1>1, <3>2 DEF SendersStarted, TypeOK, Consumer
    <3> QED BY <1>4, <3>1, <3>2 DEF ClaimReplied
  <2> QED BY <1>4, <2>2, <2>3, MovesQuiet DEF ClaimReplied, storeVars, operatorVars
<1>5. CASE RouteRefused(i)
  <2>1. SendersStarted
    BY <1>1, <1>5 DEF RouteRefused, SendersStarted, TypeOK, Consumer
  <2> QED BY <1>5, <2>1, StillQuiet DEF RouteRefused, jobVars, storeVars, operatorVars
<1>6. ASSUME NEW outcome \in Outcome, ProviderReturns(i, outcome)
      PROVE  Quiet
  <2>1. SendersStarted
    BY <1>1, <1>6 DEF ProviderReturns, SendersStarted, TypeOK, Consumer
  <2> QED BY <1>6, <2>1, StillQuiet DEF ProviderReturns, jobVars, storeVars, operatorVars
<1>7. CASE FinishReplied(i)
  <2>1. RowsMove
    BY <1>1, <1>2, <1>7, FinishMoves DEF FinishReplied
  <2>2. SendersStarted
    BY <1>1, <1>7, DisposeSenders DEF FinishReplied
  <2> QED BY <1>7, <2>1, <2>2, MovesQuiet DEF FinishReplied, storeVars, operatorVars
<1>8. CASE RpcLost(i)
  <2>1. SendersStarted
    <3>1. CASE Dispose(i)
      BY <1>1, <3>1, DisposeSenders
    <3>2. CASE inv' = [inv EXCEPT ![i].replay = TRUE]
      BY <1>1, <3>2 DEF SendersStarted, TypeOK, Consumer
    <3> QED BY <1>8, <3>1, <3>2 DEF RpcLost
  <2> QED BY <1>8, <2>1, StillQuiet DEF RpcLost, jobVars, storeVars, operatorVars
<1>9. CASE InvocationFails(i)
  <2>1. SendersStarted
    BY <1>1, <1>9, DisposeSenders DEF InvocationFails
  <2> QED BY <1>9, <2>1, StillQuiet DEF InvocationFails, jobVars, storeVars, operatorVars
<1> QED BY <1>3, <1>4, <1>5, <1>6, <1>7, <1>8, <1>9

\* A granted start makes its caller a sender: of the job whose marker it set now,
\* or, when a lost reply is replayed, set before.
LEMMA StartClasses ==
  ASSUME Inv, NEW i \in Invocation, StartReplied(i)
  PROVE  Quiet \/ \E k \in JobId : Starts(k, i)
<1>1. TypeOK /\ inv[i].msg \in Message /\ inv[i].msg.job \in JobId
  BY DEF Inv, TypeOK, Carrying, StartReplied, Message
<1>2. PICK reply : /\ MarkAnalysisStarted(i, inv[i].msg, reply)
                   /\ \/ /\ reply = "granted"
                         /\ inv' = [inv EXCEPT ![i].pc = "send", ![i].replay = FALSE,
                                               ![i].left = Deadline + Margin]
                      \/ Dispose(i)
  BY DEF StartReplied
<1>3. /\ SetsMarker(inv[i].msg.job, i) \/ (RowsMove /\ starter' = starter)
      /\ reply = "granted" => starter'[inv[i].msg.job] = i
  BY <1>1, <1>2, MarkMoves
<1>4. SendersStarted
  <2>1. CASE Dispose(i)
    BY <1>1, <2>1, DisposeSenders
  <2>2. CASE /\ reply = "granted"
             /\ inv' = [inv EXCEPT ![i].pc = "send", ![i].replay = FALSE,
                                   ![i].left = Deadline + Margin]
    BY <1>1, <1>3, <2>2 DEF SendersStarted, TypeOK, Consumer
  <2> QED BY <1>2, <2>1, <2>2
<1>5. UNCHANGED <<interview, calls, activated>>
  BY DEF StartReplied, storeVars, operatorVars
<1> QED BY <1>1, <1>3, <1>4, <1>5, MovesQuiet DEF Starts

\* Sending the provider request is a payment by the invocation whose start was granted.
LEMMA SendClasses ==
  ASSUME Inv, NEW i \in Invocation, SendProviderRequest(i)
  PROVE  \E k \in JobId : Pays(k, i)
<1>1. TypeOK /\ inv[i].msg.job \in JobId
  BY DEF Inv, TypeOK, Carrying, SendProviderRequest, Message
<1>2. starter[inv[i].msg.job] = i
  BY DEF Inv, PaidByStarter, SendProviderRequest
<1>3. SendersStarted
  BY <1>1 DEF SendProviderRequest, SendersStarted, TypeOK, Consumer
<1> QED BY <1>1, <1>2, <1>3
        DEF SendProviderRequest, Pays, jobVars, storeVars, operatorVars

\* A request executed late does what it would have done in time, for nobody.
LEMMA LateClasses ==
  ASSUME Inv, NEW r \in late, ExecuteLate(r)
  PROVE  Quiet \/ \E k \in JobId, i \in Invocation : Starts(k, i)
<1>1. TypeOK /\ r.inv \in Invocation /\ r.msg \in Message /\ r.msg.job \in JobId
  BY DEF Inv, TypeOK, Request, Message
<1>2. SendersStarted /\ UNCHANGED <<interview, calls, activated>>
  BY StillSenders DEF ExecuteLate, storeVars, operatorVars
<1>3. CASE /\ \E reply : ClaimAnalysisJob(r.inv, r.msg, reply)
           /\ UNCHANGED starter
  BY <1>1, <1>2, <1>3, ClaimMoves, MovesQuiet
<1>4. CASE \E reply : MarkAnalysisStarted(r.inv, r.msg, reply)
  <2>1. SetsMarker(r.msg.job, r.inv) \/ (RowsMove /\ starter' = starter)
    BY <1>1, <1>4, MarkMoves
  <2> QED BY <1>1, <1>2, <2>1, MovesQuiet DEF Starts
<1>5. CASE FinishAnalysisJob(r.inv, r.msg, r.outcome) /\ UNCHANGED starter
  BY <1>1, <1>2, <1>5, FinishMoves, MovesQuiet
<1> QED BY <1>3, <1>4, <1>5 DEF ExecuteLate

\* Completion and a retry allocate, deletion deletes, the rest of the store is quiet.
LEMMA AllocateRows ==
  ASSUME TypeOK, NEW iv \in Interview, NEW g \in Generation, AllocateGeneration(iv, g)
  PROVE  /\ job'[<<iv, g>>].state = "pending" /\ job'[<<iv, g>>].epoch = activated
         /\ \A k \in JobId \ {<<iv, g>>} : job'[k] = job[k]
         /\ analysis'[iv].gen = g
         /\ \A v \in Interview \ {iv} : analysis'[v].gen = analysis[v].gen
<1> DEFINE k == <<iv, g>>
           row == [NoRow EXCEPT !.state = "pending", !.due = 0, !.dispatch = "unsent",
                                !.epoch = activated]
<1>1. k \in JobId
  BY DEF JobId
<1>2. row.state = "pending" /\ row.epoch = activated
  BY DEF NoRow
<1>3. job' = [job EXCEPT ![k] = row]
  BY DEF AllocateGeneration
<1> HIDE DEF k, row
<1>4. /\ job'[k].state = "pending" /\ job'[k].epoch = activated
      /\ \A x \in JobId \ {k} : job'[x] = job[x]
  BY <1>1, <1>2, <1>3 DEF TypeOK
<1>5. /\ analysis'[iv].gen = g
      /\ \A v \in Interview \ {iv} : analysis'[v].gen = analysis[v].gen
  BY DEF AllocateGeneration, Projected, TypeOK, AnalysisRow
<1> QED BY <1>4, <1>5 DEF k

\* persistCompletedInterview allocates the first generation of a new interview.
LEMMA PersistClasses ==
  ASSUME Inv, NEW iv \in Interview, PersistCompletedInterview(iv)
  PROVE  \E g \in Generation : Allocates(iv, g)
<1>1. TypeOK /\ 1 \in Generation
  BY ConstantsAssumption DEF Inv, Generation
<1>2. AllocateGeneration(iv, 1)
  BY DEF PersistCompletedInterview
<1>3. /\ job'[<<iv, 1>>].state = "pending" /\ job'[<<iv, 1>>].epoch = activated
      /\ \A k \in JobId \ {<<iv, 1>>} : job'[k] = job[k]
      /\ analysis'[iv].gen = 1
      /\ \A v \in Interview \ {iv} : analysis'[v].gen = analysis[v].gen
  BY <1>1, <1>2, AllocateRows
<1>4. interview[iv] = "absent"
  BY DEF PersistCompletedInterview
<1>5. ~Active(iv)
  <2>1. \A g \in Generation : <<iv, g>> \in JobId /\ <<iv, g>>[1] = iv
    BY DEF JobId
  <2>2. \A g \in Generation : job[<<iv, g>>].state = "absent"
    BY <1>4, <2>1 DEF Inv, RowsReached
  <2> QED BY <2>2 DEF Active, Nonterminal
<1>6. interview'[iv] = "live" /\ \A v \in Interview \ {iv} : interview'[v] = interview[v]
  BY <1>1 DEF PersistCompletedInterview, TypeOK
<1>7. UNCHANGED <<starter, calls, inv, activated>>
  BY DEF PersistCompletedInterview, consumerVars, operatorVars
<1> QED BY <1>1, <1>3, <1>4, <1>5, <1>6, <1>7 DEF Allocates

\* acceptAnalysisRetry allocates the next generation, or only hands out a receipt.
LEMMA RetryClasses ==
  ASSUME Inv, NEW iv \in Interview, NEW key \in Key, NEW expected \in 0..MaxGeneration,
         AcceptAnalysisRetry(iv, key, expected)
  PROVE  Quiet \/ \E g \in Generation : Allocates(iv, g)
<1>1. TypeOK
  BY DEF Inv
<1>2. UNCHANGED <<starter, interview, calls, inv, activated>>
  BY DEF AcceptAnalysisRetry, consumerVars, operatorVars
<1>3. CASE UNCHANGED <<job, analysis>>
  BY <1>2, <1>3, StillSenders, StillQuiet
<1>4. CASE /\ ~Active(iv)
           /\ expected = analysis[iv].gen
           /\ expected < MaxGeneration
           /\ AllocateGeneration(iv, expected + 1)
  <2> DEFINE g == expected + 1
  <2>1. g \in Generation /\ expected < g
    <3>1. MaxGeneration \in Nat
      BY ConstantsAssumption
    <3> QED BY <1>4, <3>1 DEF Generation
  <2>2. AllocateGeneration(iv, g)
    BY <1>4
  <2> HIDE DEF g
  <2>3. /\ job'[<<iv, g>>].state = "pending" /\ job'[<<iv, g>>].epoch = activated
        /\ \A k \in JobId \ {<<iv, g>>} : job'[k] = job[k]
        /\ analysis'[iv].gen = g
        /\ \A v \in Interview \ {iv} : analysis'[v].gen = analysis[v].gen
    BY <1>1, <2>1, <2>2, AllocateRows
  <2>4. interview[iv] = "live"
    BY DEF AcceptAnalysisRetry
  <2> QED BY <1>2, <1>4, <2>1, <2>3, <2>4 DEF Allocates
<1> QED BY <1>3, <1>4 DEF AcceptAnalysisRetry

\* deleteStudy and clearSampleWorkspace delete.
LEMMA DeleteClasses ==
  ASSUME Inv, NEW iv \in Interview, DeleteInterview(iv)
  PROVE  Deletes(iv)
<1>1. TypeOK
  BY DEF Inv
<1>2. \A k \in JobId : IF k[1] = iv THEN job'[k].state = "absent" ELSE job'[k] = job[k]
  BY DEF DeleteInterview, NoRow
<1>3. /\ interview'[iv] = "deleted" /\ \A v \in Interview \ {iv} : interview'[v] = interview[v]
      /\ \A v \in Interview \ {iv} : analysis'[v].gen = analysis[v].gen
  BY <1>1 DEF DeleteInterview, TypeOK
<1> QED BY <1>2, <1>3 DEF Deletes, DeleteInterview, consumerVars, operatorVars

\* What is left of the store, the scheduler, the operator and time is quiet.
LEMMA ObjectClasses ==
  ASSUME Inv,
         \/ \E iv \in Interview : ReadAnalysisStatus(iv)
         \/ \E iv \in Interview, key \in Key : RetryReceiptExpires(iv, key)
         \/ \E m \in queue : RefuseMessage(m)
         \/ AlarmFires
         \/ (\E k \in JobId : SettleDueJob(k) \/ ReserveDispatch(k) \/ QuarantineRow(k))
         \/ PassHeld \/ QueueSend \/ RecordSent \/ FinishPass \/ PassThrows \/ ObjectRestarts
         \/ (\E to \in {"open", "draining", "frozen", "recovery"}, classify \in BOOLEAN :
               TransitionMaintenance(to, classify))
         \/ (\E epoch \in Epoch, bound \in BOOLEAN : Redeploy(epoch, bound))
         \/ Tick \/ (\E k \in JobId : PrestartCapPasses(k))
  PROVE  Quiet
<1>1. TypeOK
  BY DEF Inv
<1>2. CASE \/ \E iv \in Interview : ReadAnalysisStatus(iv)
           \/ \E iv \in Interview, key \in Key : RetryReceiptExpires(iv, key)
           \/ \E m \in queue : RefuseMessage(m)
           \/ AlarmFires \/ (\E k \in JobId : QuarantineRow(k))
           \/ PassHeld \/ QueueSend \/ PassThrows \/ ObjectRestarts
           \/ \E epoch \in Epoch, bound \in BOOLEAN : Redeploy(epoch, bound)
  <2>1. UNCHANGED <<job, analysis, interview, starter, calls, activated, inv>>
    BY <1>2 DEF ReadAnalysisStatus, RetryReceiptExpires, RefuseMessage, AlarmFires, QuarantineRow,
         PassHeld, QueueSend, PassThrows, ObjectRestarts, Redeploy, jobVars, storeVars,
         consumerVars, operatorVars
  <2> QED BY <2>1, StillSenders, StillQuiet
<1>3. CASE (\E k \in JobId : SettleDueJob(k) \/ ReserveDispatch(k)) \/ RecordSent \/ FinishPass
  <2>1. RowsMove
    BY <1>3, SettleDueMoves, ReserveMoves, RecordMoves, FinishPassMoves
  <2>2. UNCHANGED <<interview, starter, calls, activated, inv>>
    BY <1>3 DEF SettleDueJob, ReserveDispatch, RecordSent, FinishPass, storeVars, consumerVars,
         operatorVars
  <2> QED BY <2>1, <2>2, StillSenders, MovesQuiet
<1>4. ASSUME NEW to, NEW classify, TransitionMaintenance(to, classify)
      PROVE  Quiet
  <2>1. UNCHANGED <<interview, starter, calls, activated, inv>>
    BY <1>4 DEF TransitionMaintenance, storeVars, consumerVars
  <2> QED BY <1>4, <2>1, TransitionMoves, StillSenders, MovesQuiet
<1>5. CASE Tick \/ \E k \in JobId : PrestartCapPasses(k)
  <2>1. UNCHANGED <<interview, starter, calls, activated>>
    BY <1>5 DEF Tick, PrestartCapPasses, storeVars, consumerVars, operatorVars
  <2>2. CASE Tick
    <3>1. \A i \in Invocation : inv'[i].pc = inv[i].pc /\ inv'[i].msg = inv[i].msg
      BY <1>1, <2>2 DEF Tick, TypeOK, Consumer
    <3>2. SendersStarted
      BY <3>1 DEF SendersStarted
    <3> QED BY <1>5, <2>1, <3>2, TimeMoves, MovesQuiet
  <2>3. CASE \E k \in JobId : PrestartCapPasses(k)
    <3>1. SendersStarted
      BY <2>3, StillSenders DEF PrestartCapPasses, consumerVars
    <3> QED BY <1>5, <2>1, <3>1, TimeMoves, MovesQuiet
  <2> QED BY <1>5, <2>2, <2>3
<1> QED BY <1>2, <1>3, <1>4, <1>5

\* activateRecoveryEpoch is quiet: it settles every active row in the step that changes the epoch.
LEMMA ActivateClasses == ASSUME Inv, ActivateRecoveryEpoch PROVE Quiet
<1>1. UNCHANGED <<interview, starter, calls, inv>>
  BY DEF ActivateRecoveryEpoch, storeVars, consumerVars
<1> QED BY <1>1, ActivateMoves, StillSenders DEF Quiet

\* Every step is quiet, allocates, deletes, starts a job or pays for one.
LEMMA StepClasses ==
  ASSUME Inv, [Next]_vars
  PROVE  \/ Quiet
         \/ \E iv \in Interview : (\E g \in Generation : Allocates(iv, g)) \/ Deletes(iv)
         \/ \E k \in JobId, i \in Invocation : Starts(k, i) \/ Pays(k, i)
<1>1. CASE UNCHANGED vars
  <2>1. UNCHANGED <<job, analysis, interview, starter, calls, activated, inv>>
    BY <1>1 DEF vars, jobVars, storeVars, consumerVars, operatorVars
  <2> QED BY <2>1, StillSenders, StillQuiet
<1>2. CASE Next
  BY <1>2, PersistClasses, RetryClasses, DeleteClasses, ConsumerClasses, StartClasses,
     SendClasses, LateClasses, ObjectClasses, ActivateClasses DEF Next
<1> QED BY <1>1, <1>2

-----------------------------------------------------------------------------
(* The theorems.                                                            *)

\* An empty workspace satisfies the invariant.
LEMMA InitInv == Init => Inv
<1> SUFFICES ASSUME Init PROVE Inv
  OBVIOUS
<1>1. TypeOK
  BY InitTyped
<1>2. \A k \in JobId : job[k].state = "absent" /\ starter[k] = None /\ calls[k] = {}
  BY DEF Init, NoRow
<1>3. \A i \in Invocation : inv[i].pc = "idle"
  BY DEF Init, Idle
<1> QED BY <1>1, <1>2, <1>3
        DEF Inv, RowsReached, OnlyCurrentIsActive, StartersReached, UnstartedIsFree,
            StartedByHolder, PaidByStarter, ActiveEpoch, Nonterminal

\* The invariant is inductive: every class of step keeps it.
LEMMA StepInv == ASSUME Inv, [Next]_vars PROVE Inv'
<1>1. TypeOK'
  BY StepTyped DEF Inv
<1> QED BY <1>1, StepClasses, QuietInv, AllocatesInv, DeletesInv, StartsInv, PaysInv

\* The inductive invariant holds of every reachable state.
THEOREM Invariance == Spec => []Inv
<1>1. Init => Inv
  BY InitInv
<1>2. Inv /\ [Next]_vars => Inv'
  BY StepInv
<1> QED BY <1>1, <1>2, PTL DEF Spec

\* A generation's provider is paid at most once: whatever the queue redelivers,
\* consumers replay, execute late or lose, the object forgets in a restart and the
\* operator returns to pending, at most one invocation ever sends its request.
THEOREM PaidAtMostOnce == Spec => []AtMostOnePaidCall
<1>1. Inv => AtMostOnePaidCall
  BY DEF Inv, PaidByStarter, AtMostOnePaidCall
<1> QED BY <1>1, Invariance, PTL

\* The scheduler's `cancelled' and `corrupt' verdicts are never reached: a
\* nonterminal row belongs to the current generation of a live interview.
THEOREM ActiveIsCurrent == Spec => []OnlyCurrentIsActive
<1>1. Inv => OnlyCurrentIsActive
  BY DEF Inv
<1> QED BY <1>1, Invariance, PTL

\* A job that still carries a superseded epoch cannot be started, although its
\* message may be delivered at any time after the rotation: the gate refuses a
\* deployment that lags, and activation leaves no active row of the old epoch.
THEOREM StaleEpochNever == Spec => StaleEpochNeverStarts
<1> DEFINE A == \A k \in JobId : starter'[k] # starter[k] =>
                  job[k].epoch = activated /\ env.epoch = activated
<1>1. ASSUME Inv, [Next]_vars
      PROVE  [A]_vars
  <2>1. CASE Quiet
    BY <2>1 DEF Quiet
  <2>2. CASE \E iv \in Interview : (\E g \in Generation : Allocates(iv, g)) \/ Deletes(iv)
    BY <2>2 DEF Allocates, Deletes
  <2>3. CASE \E k \in JobId, i \in Invocation : Starts(k, i) \/ Pays(k, i)
    BY <1>1, <2>3 DEF Starts, SetsMarker, Pays, Inv, TypeOK
  <2> QED BY <1>1, <2>1, <2>2, <2>3, StepClasses
<1> QED BY <1>1, Invariance, PTL DEF Spec, StaleEpochNeverStarts

\* A terminal job stays as it was settled, whichever late watchdog, replayed
\* finish or classification comes after it, until it is deleted or pruned.
THEOREM TerminalStays == Spec => TerminalIsFinal
<1> DEFINE A == \A k \in JobId : job[k].state \in Terminal /\ job'[k].state # job[k].state =>
                  /\ job'[k].state = "absent"
                  /\ interview'[k[1]] = "deleted" \/ analysis[k[1]].gen # k[2]
<1>1. ASSUME Inv, [Next]_vars
      PROVE  [A]_vars
  <2>1. CASE Quiet
    BY <2>1 DEF Quiet, RowsMove, RowMove, Same, Nonterminal, Terminal
  <2>2. ASSUME NEW iv \in Interview, NEW g \in Generation, Allocates(iv, g)
        PROVE  A
    <3>1. <<iv, g>> \in JobId /\ <<iv, g>>[1] = iv /\ <<iv, g>>[2] = g
      BY DEF JobId
    <3>2. analysis[iv].gen \in Nat /\ g \in Nat
      BY <1>1, ConstantsAssumption DEF Inv, TypeOK, AnalysisRow, Generation
    <3>3. job[<<iv, g>>].state \notin Terminal
      BY <1>1, <2>2, <3>1, <3>2 DEF Inv, RowsReached, Allocates, Terminal
    <3> QED BY <2>2, <3>3 DEF Allocates
  <2>3. ASSUME NEW iv \in Interview, Deletes(iv)
        PROVE  A
    BY <2>3 DEF Deletes
  <2>4. CASE \E k \in JobId, i \in Invocation : Starts(k, i) \/ Pays(k, i)
    BY <2>4 DEF Starts, SetsMarker, Pays, Terminal
  <2> QED BY <1>1, <2>1, <2>2, <2>3, <2>4, StepClasses
<1> QED BY <1>1, Invariance, PTL DEF Spec, TerminalIsFinal

=============================================================================
