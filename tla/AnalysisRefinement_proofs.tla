--------------------- MODULE AnalysisRefinement_proofs ----------------------
(***************************************************************************)
(* What a researcher sees of the durable analysis jobs, and the promise    *)
(* they keep: theorems about AnalysisJobs, for every value of its          *)
(* constants, that rest on the invariant of AnalysisJobs_proofs.           *)
(***************************************************************************)
EXTENDS AnalysisJobs_proofs

-----------------------------------------------------------------------------
(* The conjuncts the refinement needs besides Inv.                         *)

\* The projection `view' of an interview says what its current row says.
Agreement(row, view) ==
  /\ view.status = CASE row.state = "pending"               -> "pending"
                     [] row.state \in {"claimed", "started"} -> "running"
                     [] row.state = "complete"              -> "complete"
                     [] OTHER                               -> "failed"
  /\ view.recovery = (row.state = "recovery-required")
  /\ view.result = IF row.state = "complete" THEN <<view.gen, row.receipt>> ELSE None
  /\ row.state # "absent"

\* A live interview has a current row and agrees with it; no other has a projection.
ViewsAgree ==
  \A iv \in Interview :
    IF interview[iv] = "live"
    THEN Current(iv) \in JobId /\ Agreement(job[Current(iv)], analysis[iv])
    ELSE analysis[iv] = NoAnalysis

\* A started job is only reported as failed or complete once its request was sent.
SettledWasPaid ==
  \A k \in JobId : job[k].state \in {"failed", "complete"} /\ starter[k] # None => calls[k] # {}

\* No job was started by i and no request still to execute could start one.
NeverStarts(i) ==
  /\ \A k \in JobId : starter[k] # i
  /\ \A r \in late : r.inv = i => r.op # "start"

\* An invocation that sent a request never sends another.
CallersMovedOn == \A k \in JobId : \A i \in calls[k] : inv[i].pc \in {"calling", "finish", "idle"}

\* An invocation that waits for the provider sent the request of its own job.
CallingIsPaid == \A i \in Invocation : inv[i].pc = "calling" => i \in calls[inv[i].msg.job]

\* Nothing was started for an invocation whose start call was never made.
NewcomersUnstarted ==
  \A i \in Invocation :
    inv[i].pc = "claim" \/ (inv[i].pc = "start" /\ ~inv[i].replay) => NeverStarts(i)

\* Who reports an outcome either sent the request, or knows that it never will.
FinishersAnswer ==
  \A i \in Invocation : inv[i].pc = "finish" =>
    i \in calls[inv[i].msg.job] \/ (inv[i].outcome = "failed" /\ NeverStarts(i))

\* The same of a report that is executed late.
LateAnswers ==
  \A r \in late : r.op = "finish" =>
    \/ r.inv \in calls[r.msg.job]
    \/ r.outcome = "failed" /\ NeverStarts(r.inv) /\ inv[r.inv].pc \in {"idle", "finish"}

Answers == CallersMovedOn /\ CallingIsPaid /\ NewcomersUnstarted /\ FinishersAnswer /\ LateAnswers

\* The scheduler finds no row whose interview is gone, so it cancels none.
NoneCancelled == \A k \in JobId : job[k].state # "cancelled"

ViewInv == Inv /\ ViewsAgree /\ SettledWasPaid /\ NoneCancelled /\ Answers

-----------------------------------------------------------------------------
(* What a step does to the rows and to what is shown of them.              *)

Kept(k)     == job'[k].state = job[k].state /\ job'[k].receipt = job[k].receipt
Returned(k) == {job[k].state, job'[k].state} \subseteq {"pending", "claimed"}
GivenUp(k)  == /\ job[k].state \in Nonterminal
               /\ job'[k].state \in {"failed", "recovery-required"}
               /\ starter[k] # None /\ calls[k] = {} => job'[k].state = "recovery-required"
Pruned(k)   == /\ job[k].state \in Terminal /\ job'[k].state = "absent"
               /\ analysis[k[1]].gen # k[2]

\* The projections keep their generation and follow their rows.
ViewsFollow ==
  \A iv \in Interview :
    /\ analysis'[iv].gen = analysis[iv].gen
    /\ interview[iv] # "live" => analysis'[iv] = analysis[iv]
    /\ interview[iv] = "live" /\ Current(iv) \in JobId /\ Agreement(job[Current(iv)], analysis[iv])
         => Agreement(job'[Current(iv)], analysis'[iv])

GivesUp == ViewsFollow /\ \A k \in JobId : Kept(k) \/ Returned(k) \/ GivenUp(k)
Prunes  == analysis' = analysis /\ \A k \in JobId : Kept(k) \/ Pruned(k)

Completes(k, i) ==
  /\ job[k].state = "started" /\ job[k].nonce = i
  /\ job'[k].state = "complete" /\ job'[k].receipt = i
  /\ \A x \in JobId \ {k} : Kept(x)
  /\ ViewsFollow

Marks(k, i) ==
  /\ job[k].state = "claimed" /\ job'[k].state = "started"
  /\ \A x \in JobId \ {k} : Kept(x)
  /\ ViewsFollow
  /\ starter' = [starter EXCEPT ![k] = i]

-----------------------------------------------------------------------------
(* Lemmas about jobs and their views.                                      *)

\* A job is the pair of its interview and its generation.
LEMMA JobIds ==
  /\ \A k \in JobId : k[1] \in Interview /\ k[2] \in Generation /\ k = <<k[1], k[2]>>
  /\ \A iv \in Interview, g \in Generation :
       <<iv, g>> \in JobId /\ <<iv, g>>[1] = iv /\ <<iv, g>>[2] = g
BY DEF JobId

\* Current(iv) names the interview and its generation.
LEMMA CurrentIs ==
  /\ \A iv \in Interview : Current(iv)[1] = iv /\ Current(iv)[2] = analysis[iv].gen
  /\ \A k \in JobId : analysis[k[1]].gen = k[2] => Current(k[1]) = k
BY JobIds DEF Current

\* An active row is the one its interview shows.
LEMMA ActiveIsShown ==
  ASSUME Inv, NEW k \in JobId, job[k].state \in Nonterminal
  PROVE  interview[k[1]] = "live" /\ analysis[k[1]].gen = k[2] /\ Current(k[1]) = k
BY CurrentIs DEF Inv, OnlyCurrentIsActive, IsCurrent

\* When one row and its view change together, every other view still agrees.
LEMMA OneFollows ==
  ASSUME Inv, NEW k \in JobId, job[k].state \in Nonterminal,
         \A x \in JobId \ {k} : Kept(x),
         \A v \in Interview \ {k[1]} : analysis'[v] = analysis[v],
         analysis'[k[1]].gen = analysis[k[1]].gen,
         Agreement(job[k], analysis[k[1]]) => Agreement(job'[k], analysis'[k[1]])
  PROVE  ViewsFollow
<1>1. interview[k[1]] = "live" /\ Current(k[1]) = k /\ k[1] \in Interview
  BY ActiveIsShown, JobIds
<1>2. ASSUME NEW iv \in Interview, iv # k[1]
      PROVE  Current(iv) # k
  BY <1>2, CurrentIs
<1> QED BY <1>1, <1>2 DEF ViewsFollow, Agreement, Kept

\* A step that changes no row's state or receipt and no view follows trivially.
LEMMA StillFollows ==
  ASSUME \A k \in JobId : Kept(k), analysis' = analysis
  PROVE  GivesUp
BY DEF GivesUp, ViewsFollow, Agreement, Kept

\* settleJob without a result gives the job up, and its view shows that.
LEMMA SettleGivesUp ==
  ASSUME Inv, NEW k \in JobId, NEW to \in {"failed", "recovery-required"}, NEW receipt,
         job[k].state \in Nonterminal, SettleJob(k, to, receipt),
         starter[k] # None /\ calls[k] = {} => to = "recovery-required"
  PROVE  GivesUp
<1>1. TypeOK
  BY DEF Inv
<1>2. job'[k].state = to /\ \A x \in JobId \ {k} : job'[x] = job[x]
  BY <1>1 DEF SettleJob, Settled, TypeOK, JobRow
<1>3. Current(k[1]) = k /\ k[1] \in Interview
  BY ActiveIsShown, JobIds
<1>4. ASSUME NEW v \in Interview \ {k[1]}
      PROVE  Current(v) # k
  BY CurrentIs
<1>5. /\ \A v \in Interview \ {k[1]} : analysis'[v] = analysis[v]
      /\ analysis'[k[1]] = [analysis[k[1]] EXCEPT !.status = "failed",
                                                  !.recovery = (to = "recovery-required")]
  BY <1>3, <1>4 DEF SettleJob, ProjectFailed
<1>6. /\ analysis'[k[1]].gen = analysis[k[1]].gen
      /\ analysis'[k[1]].result = analysis[k[1]].result
      /\ analysis'[k[1]].status = "failed"
      /\ analysis'[k[1]].recovery = (to = "recovery-required")
  BY <1>1, <1>3, <1>5 DEF TypeOK, AnalysisRow
<1>7. Agreement(job[k], analysis[k[1]]) => Agreement(job'[k], analysis'[k[1]])
  BY <1>2, <1>6 DEF Agreement, Nonterminal
<1>8. ViewsFollow
  BY <1>2, <1>5, <1>6, <1>7, OneFollows DEF Kept
<1> QED BY <1>2, <1>8 DEF GivesUp, GivenUp, Kept

-----------------------------------------------------------------------------
(* What each handler does to the rows and the views.                       *)

\* claimAnalysisJob claims a pending row, or fails one past its pre-start cap.
LEMMA ClaimGivesUp ==
  ASSUME Inv, NEW i \in Invocation, NEW m \in Message, NEW reply,
         ClaimAnalysisJob(i, m, reply)
  PROVE  GivesUp
<1> DEFINE k == m.job
<1>1. k \in JobId /\ k[1] \in Interview /\ TypeOK
  BY JobIds DEF Message, Inv
<1>2. CASE UNCHANGED <<job, analysis>>
  BY <1>2, StillFollows DEF Kept
<1>3. CASE job[k].state = "pending" /\ SettleJob(k, "failed", None)
  BY <1>1, <1>3, SettleGivesUp DEF Nonterminal, Inv, UnstartedIsFree
<1>4. CASE /\ job[k].state = "pending"
           /\ job' = [job EXCEPT ![k].state = "claimed", ![k].nonce = i,
                                 ![k].lease = Lease, ![k].due = Lease]
           /\ analysis' = [analysis EXCEPT ![k[1]].status = "running"]
  <2>1. job'[k].state = "claimed" /\ \A x \in JobId \ {k} : job'[x] = job[x]
    BY <1>1, <1>4 DEF TypeOK, JobRow
  <2>2. /\ analysis'[k[1]].status = "running"
        /\ analysis'[k[1]].gen = analysis[k[1]].gen
        /\ analysis'[k[1]].recovery = analysis[k[1]].recovery
        /\ analysis'[k[1]].result = analysis[k[1]].result
        /\ \A v \in Interview \ {k[1]} : analysis'[v] = analysis[v]
    BY <1>1, <1>4 DEF TypeOK, AnalysisRow
  <2>3. Agreement(job[k], analysis[k[1]]) => Agreement(job'[k], analysis'[k[1]])
    BY <1>4, <2>1, <2>2 DEF Agreement
  <2>4. ViewsFollow
    BY <1>1, <1>4, <2>1, <2>2, <2>3, OneFollows DEF Kept, Nonterminal
  <2> QED BY <1>4, <2>1, <2>4 DEF GivesUp, Kept, Returned
<1> QED BY <1>2, <1>3, <1>4 DEF ClaimAnalysisJob

\* markAnalysisStarted sets the marker of a claimed row, or sets none.
LEMMA MarkMarks ==
  ASSUME Inv, NEW i \in Invocation, NEW m \in Message, NEW reply,
         MarkAnalysisStarted(i, m, reply)
  PROVE  Marks(m.job, i) \/ (GivesUp /\ starter' = starter)
<1> DEFINE k == m.job
<1>1. k \in JobId /\ TypeOK
  BY DEF Message, Inv
<1>2. CASE UNCHANGED <<job, analysis, starter>>
  BY <1>2, StillFollows DEF Kept
<1>3. CASE job[k].state = "claimed" /\ SettleJob(k, "failed", None) /\ starter' = starter
  BY <1>1, <1>3, SettleGivesUp DEF Nonterminal, Inv, UnstartedIsFree
<1>4. CASE /\ job[k].state = "claimed"
           /\ job' = [job EXCEPT ![k].state = "started"]
           /\ starter' = [starter EXCEPT ![k] = i]
           /\ UNCHANGED analysis
  <2>1. job'[k].state = "started" /\ \A x \in JobId \ {k} : job'[x] = job[x]
    BY <1>1, <1>4 DEF TypeOK, JobRow
  <2>2. Agreement(job[k], analysis[k[1]]) => Agreement(job'[k], analysis'[k[1]])
    BY <1>4, <2>1 DEF Agreement
  <2>3. ViewsFollow
    BY <1>1, <1>4, <2>1, <2>2, OneFollows DEF Kept, Nonterminal
  <2> QED BY <1>4, <2>1, <2>3 DEF Marks, Kept
<1> QED BY <1>2, <1>3, <1>4 DEF MarkAnalysisStarted

\* finishAnalysisJob completes a job for an answer that was paid for, or gives it
\* up; it fails a started job only for a caller that sent its request.
LEMMA FinishEnds ==
  ASSUME Inv, NEW i \in Invocation, NEW m \in Message, NEW outcome,
         i \in calls[m.job] \/ (outcome = "failed" /\ starter[m.job] # i),
         FinishAnalysisJob(i, m, outcome)
  PROVE  GivesUp \/ (Completes(m.job, i) /\ i \in calls[m.job])
<1> DEFINE k == m.job
<1>1. k \in JobId /\ k[1] \in Interview /\ TypeOK
  BY JobIds DEF Message, Inv
<1>2. CASE UNCHANGED <<job, analysis>>
  BY <1>2, StillFollows DEF Kept
<1>3. Finishable(job[k], i, outcome) => /\ job[k].state \in Nonterminal /\ job[k].nonce = i
                                        /\ job[k].state = "started" => starter[k] = i
                                        /\ job[k].state = "claimed" => starter[k] = None
                                        /\ job[k].state \in {"claimed", "started"}
  BY <1>1 DEF Finishable, Nonterminal, Inv, StartedByHolder, UnstartedIsFree
<1>4. CASE Finishable(job[k], i, outcome) /\ SettleJob(k, "recovery-required", i)
  BY <1>1, <1>3, <1>4, SettleGivesUp
<1>5. CASE /\ Finishable(job[k], i, outcome) /\ outcome \in {"failed", "complete"}
           /\ SettleJob(k, "failed", i)
  <2>1. starter[k] # None => calls[k] # {}
    BY <1>3, <1>5
  <2> QED BY <1>1, <1>3, <1>5, <2>1, SettleGivesUp
<1>6. CASE /\ Finishable(job[k], i, outcome) /\ outcome = "complete"
           /\ CurrentJob(m)
           /\ job' = [job EXCEPT ![k] = Settled(job[k], "complete", i)]
           /\ analysis' = [analysis EXCEPT ![k[1]].status = "complete",
                                           ![k[1]].recovery = FALSE,
                                           ![k[1]].result = <<k[2], i>>]
  <2>1. job[k].state = "started" /\ i \in calls[k]
    BY <1>3, <1>6 DEF Finishable
  <2>2. /\ job'[k].state = "complete" /\ job'[k].receipt = i
        /\ \A x \in JobId \ {k} : job'[x] = job[x]
    BY <1>1, <1>6 DEF Settled, TypeOK, JobRow
  <2>3. analysis[k[1]].gen = k[2]
    BY <1>6 DEF CurrentJob, IsCurrent
  <2>4. /\ \A v \in Interview \ {k[1]} : analysis'[v] = analysis[v]
        /\ analysis'[k[1]].gen = analysis[k[1]].gen
        /\ analysis'[k[1]].status = "complete"
        /\ analysis'[k[1]].recovery = FALSE
        /\ analysis'[k[1]].result = <<k[2], i>>
    <3> DEFINE result == <<k[2], i>>
    <3>1. analysis' = [analysis EXCEPT ![k[1]].status = "complete",
                                       ![k[1]].recovery = FALSE,
                                       ![k[1]].result = result]
      BY <1>6
    <3>2. result = <<k[2], i>>
      OBVIOUS
    <3> HIDE DEF result
    <3>3. analysis'[k[1]] = [analysis[k[1]] EXCEPT !.status = "complete", !.recovery = FALSE,
                                                   !.result = result]
          /\ \A v \in Interview \ {k[1]} : analysis'[v] = analysis[v]
      BY <1>1, <3>1 DEF TypeOK
    <3> QED BY <1>1, <3>2, <3>3 DEF TypeOK, AnalysisRow
  <2>5. Agreement(job'[k], analysis'[k[1]])
    BY <2>2, <2>3, <2>4 DEF Agreement
  <2>6. ViewsFollow
    BY <1>1, <2>1, <2>2, <2>4, <2>5, OneFollows DEF Kept, Nonterminal
  <2> QED BY <1>3, <1>6, <2>1, <2>2, <2>6 DEF Completes, Kept
<1> QED BY <1>2, <1>4, <1>5, <1>6 DEF FinishAnalysisJob

\* settleDueJob moves timers, or gives a job up: as uncertain if it was started.
LEMMA SettleDueGivesUp ==
  ASSUME Inv, NEW k \in JobId, SettleDueJob(k)
  PROVE  GivesUp
<1>1. TypeOK
  BY DEF Inv
<1>2. CASE /\ job' = (IF job[k].state \in Terminal THEN [job EXCEPT ![k].due = None] ELSE job)
           /\ UNCHANGED analysis
  <2>1. \A x \in JobId : Kept(x)
    BY <1>1, <1>2 DEF Kept, TypeOK, JobRow
  <2> QED BY <1>2, <2>1, StillFollows
<1>3. CASE /\ Verdict(k) \in {"cancelled", "recovery-required", "failed"}
           /\ SettleJob(k, Verdict(k), None)
  <2>1. job[k].state \in Nonterminal
    <3>1. job[k].state \notin Nonterminal => Verdict(k) = "skip"
      BY DEF Verdict
    <3> QED BY <1>3, <3>1
  <2>2. interview[k[1]] = "live"
    BY <2>1, ActiveIsShown
  <2>3. Verdict(k) # "cancelled"
    BY <2>1, <2>2 DEF Verdict
  <2>4. starter[k] # None => Verdict(k) # "failed"
    <3>1. starter[k] # None => job[k].state = "started"
      BY <2>1 DEF Inv, UnstartedIsFree, Nonterminal
    <3>2. job[k].state = "started" => Verdict(k) # "failed"
      BY DEF Verdict
    <3> QED BY <3>1, <3>2
  <2> DEFINE to == Verdict(k)
  <2>5. to \in {"failed", "recovery-required"} /\ SettleJob(k, to, None)
    BY <1>3, <2>3
  <2>6. starter[k] # None => to = "recovery-required"
    BY <2>4, <2>5
  <2> HIDE DEF to
  <2> QED BY <2>1, <2>5, <2>6, SettleGivesUp
<1>4. CASE /\ LET due == IF Verdict(k) = "extend" THEN job[k].lease ELSE Watchdog IN
                job' = [job EXCEPT ![k].due = due]
           /\ UNCHANGED analysis
  <2>1. \A x \in JobId : Kept(x)
    BY <1>1, <1>4 DEF Kept, TypeOK, JobRow
  <2> QED BY <1>4, <2>1, StillFollows
<1> QED BY <1>2, <1>3, <1>4 DEF SettleDueJob

\* reserveDispatch returns an unstarted row to pending.
LEMMA ReserveGivesUp ==
  ASSUME Inv, NEW k \in JobId, ReserveDispatch(k)
  PROVE  GivesUp
<1>1. TypeOK /\ k[1] \in Interview
  BY JobIds DEF Inv
<1>2. job[k].state \in {"pending", "claimed"}
  BY DEF ReserveDispatch, Verdict, Nonterminal
<1>3. job'[k].state = "pending" /\ \A x \in JobId \ {k} : job'[x] = job[x]
  BY <1>1 DEF ReserveDispatch, TypeOK, JobRow
<1>4. /\ \A v \in Interview \ {k[1]} : analysis'[v] = analysis[v]
      /\ analysis'[k[1]].gen = analysis[k[1]].gen
      /\ analysis'[k[1]].recovery = analysis[k[1]].recovery
      /\ analysis'[k[1]].result = analysis[k[1]].result
      /\ analysis'[k[1]].status = IF job[k].state = "claimed" THEN "pending"
                                  ELSE analysis[k[1]].status
  BY <1>1 DEF ReserveDispatch, TypeOK, AnalysisRow
<1>5. Agreement(job[k], analysis[k[1]]) => Agreement(job'[k], analysis'[k[1]])
  BY <1>2, <1>3, <1>4 DEF Agreement
<1>6. ViewsFollow
  BY <1>1, <1>2, <1>3, <1>4, <1>5, OneFollows DEF Kept, Nonterminal
<1> QED BY <1>2, <1>3, <1>6 DEF GivesUp, Kept, Returned

\* Cleanup prunes terminal rows of superseded generations only.
LEMMA FinishPassPrunes ==
  ASSUME Inv, FinishPass
  PROVE  Prunes
<1>1. PICK gone \in SUBSET Removable : job' = [k \in JobId |-> IF k \in gone THEN NoRow ELSE job[k]]
  BY DEF FinishPass
<1>2. \A k \in JobId : Kept(k) \/ Pruned(k)
  BY <1>1 DEF Removable, Kept, Pruned, NoRow
<1> QED BY <1>2 DEF FinishPass, Prunes

\* A freeze gives up what was started as uncertain and returns what was claimed.
LEMMA TransitionGivesUp ==
  ASSUME Inv, NEW to, NEW classify, TransitionMaintenance(to, classify)
  PROVE  GivesUp
<1>1. TypeOK
  BY DEF Inv
<1>2. CASE UNCHANGED <<job, analysis>>
  BY <1>2, StillFollows DEF Kept
<1>3. CASE ClassifyInFlight
  <2>1. ASSUME NEW k \in JobId, k \in Uncertain
        PROVE  GivenUp(k) /\ job[k].state = "started" /\ job'[k].state = "recovery-required"
    <3>1. Abandoned(job[k]).state = "recovery-required"
      BY <1>1 DEF Abandoned, Settled, TypeOK, JobRow
    <3>2. job'[k] = Abandoned(job[k])
      BY <1>3, <2>1 DEF ClassifyInFlight
    <3> QED BY <2>1, <3>1, <3>2 DEF Uncertain, GivenUp, Nonterminal
  <2>2. ASSUME NEW k \in JobId, k \in InFlight \ Uncertain
        PROVE  job[k].state = "claimed" /\ job'[k].state = "pending"
    <3>1. job'[k] = [job[k] EXCEPT !.state = "pending", !.nonce = None, !.lease = None,
                                   !.dispatch = "unsent", !.due = 0]
      BY <1>3, <2>2 DEF ClassifyInFlight
    <3>2. job'[k].state = "pending"
      BY <1>1, <3>1 DEF TypeOK, JobRow
    <3> QED BY <2>2, <3>2 DEF InFlight, Uncertain
  <2>3. ASSUME NEW k \in JobId, k \notin InFlight
        PROVE  job'[k] = job[k]
    BY <1>3, <2>3 DEF ClassifyInFlight, Uncertain
  <2>4. ASSUME NEW iv \in Interview
        PROVE  IF Current(iv) \in InFlight \ Uncertain
               THEN /\ analysis'[iv].status = "pending"
                    /\ analysis'[iv].gen = analysis[iv].gen
                    /\ analysis'[iv].recovery = analysis[iv].recovery
                    /\ analysis'[iv].result = analysis[iv].result
               ELSE IF Current(iv) \in Uncertain
               THEN /\ analysis'[iv].status = "failed"
                    /\ analysis'[iv].gen = analysis[iv].gen
                    /\ analysis'[iv].recovery = TRUE
                    /\ analysis'[iv].result = analysis[iv].result
               ELSE analysis'[iv] = analysis[iv]
    <3>1. analysis'[iv] = IF Current(iv) \in InFlight \ Uncertain
                          THEN [analysis[iv] EXCEPT !.status = "pending"]
                          ELSE ProjectFailed(Uncertain, "recovery-required")[iv]
      BY <1>3 DEF ClassifyInFlight
    <3>2. ProjectFailed(Uncertain, "recovery-required")[iv] =
            IF Current(iv) \in Uncertain
            THEN [analysis[iv] EXCEPT !.status = "failed", !.recovery = TRUE]
            ELSE analysis[iv]
      BY DEF ProjectFailed
    <3>3. analysis[iv] \in AnalysisRow
      BY <1>1 DEF TypeOK
    <3>4. CASE Current(iv) \in InFlight \ Uncertain
      BY <3>1, <3>3, <3>4 DEF AnalysisRow
    <3>5. CASE Current(iv) \notin InFlight \ Uncertain /\ Current(iv) \in Uncertain
      <4>1. analysis'[iv] = [analysis[iv] EXCEPT !.status = "failed", !.recovery = TRUE]
        BY <3>1, <3>2, <3>5
      <4>2. /\ analysis'[iv].status = "failed"
            /\ analysis'[iv].gen = analysis[iv].gen
            /\ analysis'[iv].recovery = TRUE
            /\ analysis'[iv].result = analysis[iv].result
        BY <3>3, <4>1 DEF AnalysisRow
      <4> QED BY <3>5, <4>2
    <3>6. CASE Current(iv) \notin InFlight \ Uncertain /\ Current(iv) \notin Uncertain
      BY <3>1, <3>2, <3>6
    <3> QED BY <3>4, <3>5, <3>6
  <2>5. ViewsFollow
    <3> SUFFICES ASSUME NEW iv \in Interview
                 PROVE  /\ analysis'[iv].gen = analysis[iv].gen
                        /\ interview[iv] # "live" => analysis'[iv] = analysis[iv]
                        /\ /\ interview[iv] = "live" /\ Current(iv) \in JobId
                           /\ Agreement(job[Current(iv)], analysis[iv])
                           => Agreement(job'[Current(iv)], analysis'[iv])
      BY DEF ViewsFollow
    <3> DEFINE k == Current(iv)
    <3>1. k \in InFlight \cup Uncertain => interview[iv] = "live"
      <4>1. ASSUME k \in InFlight \cup Uncertain
            PROVE  k \in JobId /\ job[k].state \in Nonterminal
        BY <4>1 DEF InFlight, Uncertain, Nonterminal
      <4> QED BY <4>1, ActiveIsShown, CurrentIs
    <3>2. CASE k \in InFlight \ Uncertain
      <4>1. k \in JobId
        BY <3>2 DEF InFlight
      <4> QED BY <2>2, <2>4, <3>1, <3>2, <4>1 DEF Agreement
    <3>3. CASE k \in Uncertain
      <4>1. k \in JobId /\ k \notin InFlight \ Uncertain
        BY <3>3 DEF InFlight, Uncertain
      <4> QED BY <2>1, <2>4, <3>1, <3>3, <4>1 DEF Agreement
    <3>4. CASE k \notin InFlight \cup Uncertain
      BY <2>3, <2>4, <3>4 DEF Agreement
    <3> QED BY <3>2, <3>3, <3>4
  <2>6. \A k \in JobId : Kept(k) \/ Returned(k) \/ GivenUp(k)
    BY <2>1, <2>2, <2>3 DEF Kept, Returned
  <2> QED BY <2>5, <2>6 DEF GivesUp
<1> QED BY <1>2, <1>3 DEF TransitionMaintenance

\* Activation gives up every active job as uncertain.
LEMMA ActivateGivesUp ==
  ASSUME Inv, ActivateRecoveryEpoch
  PROVE  GivesUp
<1> DEFINE restored == {k \in JobId : job[k].state \in Nonterminal}
<1>1. TypeOK
  BY DEF Inv
<1>2. /\ job' = [k \in JobId |-> IF k \in restored THEN Abandoned(job[k]) ELSE job[k]]
      /\ analysis' = ProjectFailed(restored, "recovery-required")
  BY DEF ActivateRecoveryEpoch
<1>3. \A k \in JobId : Abandoned(job[k]).state = "recovery-required"
  BY <1>1 DEF Abandoned, Settled, TypeOK, JobRow
<1>4. ASSUME NEW k \in JobId
      PROVE  IF k \in restored
             THEN job[k].state \in Nonterminal /\ job'[k].state = "recovery-required"
             ELSE job'[k] = job[k]
  BY <1>2, <1>3
<1>5. ASSUME NEW iv \in Interview
      PROVE  IF Current(iv) \in restored
             THEN /\ analysis'[iv].status = "failed"
                  /\ analysis'[iv].gen = analysis[iv].gen
                  /\ analysis'[iv].recovery = TRUE
                  /\ analysis'[iv].result = analysis[iv].result
             ELSE analysis'[iv] = analysis[iv]
  <2>1. analysis'[iv] = IF Current(iv) \in restored
                        THEN [analysis[iv] EXCEPT !.status = "failed", !.recovery = TRUE]
                        ELSE analysis[iv]
    BY <1>2 DEF ProjectFailed
  <2>2. analysis[iv] \in AnalysisRow
    BY <1>1 DEF TypeOK
  <2> HIDE DEF restored
  <2> QED BY <2>1, <2>2 DEF AnalysisRow
<1>6. ASSUME NEW iv \in Interview, Current(iv) \in restored
      PROVE  interview[iv] = "live"
  BY <1>6, ActiveIsShown, CurrentIs
<1>7. \A k \in restored : job[k].state \in Nonterminal
  OBVIOUS
<1> HIDE DEF restored
<1>8. ViewsFollow
  BY <1>4, <1>5, <1>6 DEF ViewsFollow, Agreement, Nonterminal
<1>9. \A k \in JobId : Kept(k) \/ GivenUp(k)
  BY <1>4 DEF Kept, GivenUp
<1> QED BY <1>8, <1>9 DEF GivesUp

\* Time, the pre-start cap and the acknowledgement of a send move timers only.
LEMMA TimersGiveUp ==
  ASSUME Inv, Tick \/ RecordSent \/ \E k \in JobId : PrestartCapPasses(k)
  PROVE  GivesUp
<1>1. TypeOK
  BY DEF Inv
<1>2. ASSUME NEW x \in JobId, Tick
      PROVE  Kept(x)
  <2>1. job'[x] = [job[x] EXCEPT !.lease = Down(@), !.due = Down(@)]
    BY <1>2 DEF Tick
  <2> QED BY <1>1, <2>1 DEF Kept, TypeOK, JobRow
<1>3. ASSUME NEW x \in JobId, NEW k \in JobId, PrestartCapPasses(k)
      PROVE  Kept(x)
  BY <1>1, <1>3 DEF PrestartCapPasses, Kept, TypeOK, JobRow
<1>4. ASSUME NEW x \in JobId, RecordSent
      PROVE  Kept(x)
  BY <1>1, <1>4 DEF RecordSent, Kept, TypeOK, JobRow
<1>5. analysis' = analysis
  BY DEF Tick, RecordSent, PrestartCapPasses
<1> QED BY <1>2, <1>3, <1>4, <1>5, StillFollows

-----------------------------------------------------------------------------
(* Every step is of one of these kinds.                                    *)

Settles == (GivesUp \/ Prunes) /\ UNCHANGED <<interview, starter, calls>>

\* The next generation of an interview, or the first of a new one.
Opens(iv, g) ==
  /\ \/ interview[iv] = "absent" /\ g = 1
     \/ /\ interview[iv] = "live" /\ g = analysis[iv].gen + 1
        /\ ~Active(iv) /\ analysis[iv].status # "complete"
  /\ interview'[iv] = "live" /\ \A v \in Interview \ {iv} : interview'[v] = interview[v]
  /\ job'[<<iv, g>>].state = "pending"
  /\ \A k \in JobId \ {<<iv, g>>} : job'[k] = job[k]
  /\ analysis'[iv].status = "pending" /\ analysis'[iv].gen = g
  /\ analysis'[iv].recovery = FALSE /\ analysis'[iv].result = analysis[iv].result
  /\ \A v \in Interview \ {iv} : analysis'[v] = analysis[v]
  /\ UNCHANGED <<starter, calls>>

Removes(iv) ==
  /\ interview[iv] = "live"
  /\ interview'[iv] = "deleted" /\ \A v \in Interview \ {iv} : interview'[v] = interview[v]
  /\ \A k \in JobId : IF k[1] = iv THEN job'[k].state = "absent" ELSE job'[k] = job[k]
  /\ analysis'[iv] = NoAnalysis /\ \A v \in Interview \ {iv} : analysis'[v] = analysis[v]
  /\ UNCHANGED <<starter, calls>>

Sends(k, i) ==
  /\ starter[k] = i /\ i \notin calls[k]
  /\ calls' = [calls EXCEPT ![k] = @ \cup {i}]
  /\ UNCHANGED <<job, analysis, interview, starter>>

\* What allocateGeneration writes.
LEMMA AllocateOpens ==
  ASSUME TypeOK, NEW iv \in Interview, NEW g \in Generation, AllocateGeneration(iv, g)
  PROVE  /\ job'[<<iv, g>>].state = "pending"
         /\ \A k \in JobId \ {<<iv, g>>} : job'[k] = job[k]
         /\ analysis'[iv].status = "pending" /\ analysis'[iv].gen = g
         /\ analysis'[iv].recovery = FALSE /\ analysis'[iv].result = analysis[iv].result
         /\ \A v \in Interview \ {iv} : analysis'[v] = analysis[v]
<1>1. /\ job'[<<iv, g>>].state = "pending"
      /\ \A k \in JobId \ {<<iv, g>>} : job'[k] = job[k]
  BY AllocateRows
<1>2. /\ analysis'[iv].status = "pending" /\ analysis'[iv].gen = g
      /\ analysis'[iv].recovery = FALSE /\ analysis'[iv].result = analysis[iv].result
      /\ \A v \in Interview \ {iv} : analysis'[v] = analysis[v]
  BY DEF AllocateGeneration, Projected, TypeOK, AnalysisRow
<1> QED BY <1>1, <1>2

\* A completed interview opens its first generation, a retry the next one, or none.
LEMMA StoreKinds ==
  ASSUME Inv, NEW iv \in Interview,
         \/ PersistCompletedInterview(iv)
         \/ \E key \in Key, expected \in 0..MaxGeneration : AcceptAnalysisRetry(iv, key, expected)
         \/ DeleteInterview(iv)
  PROVE  Settles \/ (\E g \in Generation : Opens(iv, g)) \/ Removes(iv)
<1>1. TypeOK /\ 1 \in Generation
  BY ConstantsAssumption DEF Inv, Generation
<1>2. CASE PersistCompletedInterview(iv)
  <2>1. Opens(iv, 1)
    <3>1. AllocateGeneration(iv, 1) /\ interview[iv] = "absent"
      BY <1>2 DEF PersistCompletedInterview
    <3>2. interview'[iv] = "live" /\ \A v \in Interview \ {iv} : interview'[v] = interview[v]
      BY <1>1, <1>2 DEF PersistCompletedInterview, TypeOK
    <3>3. UNCHANGED <<starter, calls>>
      BY <1>2 DEF PersistCompletedInterview, consumerVars
    <3> QED BY <1>1, <3>1, <3>2, <3>3, AllocateOpens DEF Opens
  <2> QED BY <1>1, <2>1
<1>3. ASSUME NEW key \in Key, NEW expected \in 0..MaxGeneration,
             AcceptAnalysisRetry(iv, key, expected)
      PROVE  Settles \/ \E g \in Generation : Opens(iv, g)
  <2>1. UNCHANGED <<starter, interview, calls>>
    BY <1>3 DEF AcceptAnalysisRetry, consumerVars
  <2>2. CASE UNCHANGED <<job, analysis>>
    BY <2>1, <2>2, StillFollows DEF Settles, Kept
  <2>3. CASE /\ ~Active(iv)
             /\ expected = analysis[iv].gen
             /\ expected < MaxGeneration
             /\ AllocateGeneration(iv, expected + 1)
    <3> DEFINE g == expected + 1
    <3>1. g \in Generation /\ g = analysis[iv].gen + 1
      <4>1. MaxGeneration \in Nat
        BY ConstantsAssumption
      <4> QED BY <2>3, <4>1 DEF Generation
    <3>2. AllocateGeneration(iv, g)
      BY <2>3
    <3> HIDE DEF g
    <3>3. interview[iv] = "live" /\ analysis[iv].status # "complete"
      BY <1>3 DEF AcceptAnalysisRetry
    <3> QED BY ZenonT(60), <1>1, <2>1, <2>3, <3>1, <3>2, <3>3, AllocateOpens DEF Opens
  <2> QED BY <1>3, <2>2, <2>3 DEF AcceptAnalysisRetry
<1>4. CASE DeleteInterview(iv)
  <2>1. Removes(iv)
    BY <1>1, <1>4 DEF DeleteInterview, Removes, TypeOK, NoRow, consumerVars
  <2> QED BY <2>1
<1> QED BY <1>2, <1>3, <1>4

\* A consumer's RPC, in time or late, settles, completes or starts one job; the
\* provider request is sent once.
LEMMA ConsumerKinds ==
  ASSUME ViewInv, NEW i \in Invocation,
         \/ ClaimReplied(i) \/ StartReplied(i) \/ SendProviderRequest(i) \/ FinishReplied(i)
         \/ \E r \in late : r.inv = i /\ ExecuteLate(r)
  PROVE  \/ Settles
         \/ \E k \in JobId : \/ Completes(k, i) /\ i \in calls[k] /\ UNCHANGED <<interview, starter, calls>>
                             \/ Marks(k, i) /\ UNCHANGED <<interview, calls>>
                             \/ Sends(k, i)
<1>1. Inv /\ TypeOK /\ Answers
  BY DEF ViewInv, Inv
<1>2. inv[i].pc # "idle" => inv[i].msg \in Message /\ inv[i].msg.job \in JobId
  BY <1>1 DEF TypeOK, Carrying, Message
<1>3. CASE ClaimReplied(i)
  BY <1>1, <1>2, <1>3, ClaimGivesUp DEF ClaimReplied, Settles, storeVars
<1>4. CASE StartReplied(i)
  <2>1. PICK reply : MarkAnalysisStarted(i, inv[i].msg, reply)
    BY <1>4 DEF StartReplied
  <2>2. UNCHANGED <<interview, calls>> /\ inv[i].pc # "idle"
    BY <1>4 DEF StartReplied, storeVars
  <2> QED BY <1>1, <1>2, <2>1, <2>2, MarkMarks DEF Settles
<1>5. CASE SendProviderRequest(i)
  <2> DEFINE k == inv[i].msg.job
  <2>1. starter[k] = i /\ k \in JobId
    BY <1>1, <1>2, <1>5 DEF SendProviderRequest, Inv, PaidByStarter
  <2>2. i \notin calls[k]
    BY <1>1, <1>5, <2>1 DEF SendProviderRequest, Answers, CallersMovedOn
  <2>3. Sends(k, i)
    BY <1>5, <2>1, <2>2 DEF SendProviderRequest, Sends, jobVars, storeVars
  <2> QED BY <2>1, <2>3
<1>6. CASE FinishReplied(i)
  <2>1. inv[i].msg \in Message /\ inv[i].msg.job \in JobId
    BY <1>2, <1>6 DEF FinishReplied
  <2>2. i \in calls[inv[i].msg.job] \/ (inv[i].outcome = "failed" /\ starter[inv[i].msg.job] # i)
    BY <1>1, <1>6, <2>1 DEF FinishReplied, Answers, FinishersAnswer, NeverStarts
  <2>3. FinishAnalysisJob(i, inv[i].msg, inv[i].outcome)
    BY <1>6 DEF FinishReplied
  <2>4. GivesUp \/ (Completes(inv[i].msg.job, i) /\ i \in calls[inv[i].msg.job])
    BY <1>1, <2>1, <2>2, <2>3, FinishEnds
  <2>5. UNCHANGED <<interview, starter, calls>>
    BY <1>6 DEF FinishReplied, storeVars
  <2> QED BY <2>1, <2>4, <2>5 DEF Settles
<1>7. ASSUME NEW r \in late, r.inv = i, ExecuteLate(r)
      PROVE  \/ Settles
             \/ \E k \in JobId : \/ Completes(k, i) /\ i \in calls[k] /\ UNCHANGED <<interview, starter, calls>>
                                 \/ Marks(k, i) /\ UNCHANGED <<interview, calls>>
  <2>1. r.msg \in Message /\ r.msg.job \in JobId
    BY <1>1 DEF TypeOK, Request, Message
  <2>2. UNCHANGED <<interview, calls>>
    BY <1>7 DEF ExecuteLate, storeVars
  <2>3. CASE (\E reply : ClaimAnalysisJob(r.inv, r.msg, reply)) /\ UNCHANGED starter
    BY <1>1, <1>7, <2>1, <2>2, <2>3, ClaimGivesUp DEF Settles
  <2>4. CASE \E reply : MarkAnalysisStarted(r.inv, r.msg, reply)
    BY <1>1, <1>7, <2>1, <2>2, <2>4, MarkMarks DEF Settles
  <2>5. CASE r.op = "finish" /\ FinishAnalysisJob(r.inv, r.msg, r.outcome) /\ UNCHANGED starter
    <3>1. i \in calls[r.msg.job] \/ (r.outcome = "failed" /\ starter[r.msg.job] # i)
      BY <1>1, <1>7, <2>1, <2>5 DEF Answers, LateAnswers, NeverStarts
    <3>2. GivesUp \/ (Completes(r.msg.job, i) /\ i \in calls[r.msg.job])
      BY <1>1, <1>7, <2>1, <2>5, <3>1, FinishEnds
    <3> QED BY <2>1, <2>2, <2>5, <3>2 DEF Settles
  <2> QED BY <1>7, <2>3, <2>4, <2>5 DEF ExecuteLate
<1> QED BY <1>3, <1>4, <1>5, <1>6, <1>7

\* The scheduler, the operator, time and the rest of the store settle.
LEMMA ObjectKinds ==
  ASSUME Inv,
         \/ UNCHANGED vars
         \/ \E iv \in Interview : ReadAnalysisStatus(iv)
         \/ \E iv \in Interview, key \in Key : RetryReceiptExpires(iv, key)
         \/ (\E i \in Invocation, m \in queue : DeliverMessage(i, m))
         \/ \E m \in queue : RefuseMessage(m)
         \/ (\E i \in Invocation : RouteRefused(i) \/ RpcLost(i) \/ InvocationFails(i))
         \/ (\E i \in Invocation, outcome \in Outcome : ProviderReturns(i, outcome))
         \/ AlarmFires
         \/ (\E k \in JobId : SettleDueJob(k) \/ ReserveDispatch(k) \/ QuarantineRow(k))
         \/ PassHeld \/ QueueSend \/ RecordSent \/ FinishPass \/ PassThrows \/ ObjectRestarts
         \/ (\E to \in {"open", "draining", "frozen", "recovery"}, classify \in BOOLEAN :
               TransitionMaintenance(to, classify))
         \/ ActivateRecoveryEpoch
         \/ (\E epoch \in Epoch, bound \in BOOLEAN : Redeploy(epoch, bound))
         \/ Tick \/ (\E k \in JobId : PrestartCapPasses(k))
  PROVE  Settles
<1>1. CASE \/ UNCHANGED vars
           \/ \E iv \in Interview : ReadAnalysisStatus(iv)
           \/ \E iv \in Interview, key \in Key : RetryReceiptExpires(iv, key)
           \/ \E m \in queue : RefuseMessage(m)
           \/ AlarmFires \/ (\E k \in JobId : QuarantineRow(k))
           \/ PassHeld \/ QueueSend \/ PassThrows \/ ObjectRestarts
           \/ \E epoch \in Epoch, bound \in BOOLEAN : Redeploy(epoch, bound)
  <2>1. UNCHANGED <<job, analysis, interview, starter, calls>>
    BY <1>1 DEF vars, ReadAnalysisStatus, RetryReceiptExpires, RefuseMessage, AlarmFires,
         QuarantineRow, PassHeld, QueueSend, PassThrows, ObjectRestarts, Redeploy, jobVars,
         storeVars, consumerVars
  <2> QED BY <2>1, StillFollows DEF Settles, Kept
<1>2. CASE \/ \E i \in Invocation, m \in queue : DeliverMessage(i, m)
           \/ \E i \in Invocation : RouteRefused(i) \/ RpcLost(i) \/ InvocationFails(i)
           \/ \E i \in Invocation, outcome \in Outcome : ProviderReturns(i, outcome)
  <2>1. UNCHANGED <<job, analysis, interview, starter, calls>>
    BY <1>2 DEF DeliverMessage, RouteRefused, RpcLost, InvocationFails, ProviderReturns, jobVars,
         storeVars
  <2> QED BY <2>1, StillFollows DEF Settles, Kept
<1>3. CASE (\E k \in JobId : SettleDueJob(k) \/ ReserveDispatch(k)) \/ FinishPass
           \/ Tick \/ RecordSent \/ \E k \in JobId : PrestartCapPasses(k)
  <2>1. UNCHANGED <<interview, starter, calls>>
    BY <1>3 DEF SettleDueJob, ReserveDispatch, FinishPass, Tick, RecordSent, PrestartCapPasses,
         storeVars, consumerVars
  <2> QED BY <1>3, <2>1, SettleDueGivesUp, ReserveGivesUp, FinishPassPrunes, TimersGiveUp
          DEF Settles
<1>4. CASE \/ \E to \in {"open", "draining", "frozen", "recovery"}, classify \in BOOLEAN :
                TransitionMaintenance(to, classify)
           \/ ActivateRecoveryEpoch
  <2>1. UNCHANGED <<interview, starter, calls>>
    BY <1>4 DEF TransitionMaintenance, ActivateRecoveryEpoch, storeVars, consumerVars
  <2> QED BY <1>4, <2>1, TransitionGivesUp, ActivateGivesUp DEF Settles
<1> QED BY <1>1, <1>2, <1>3, <1>4

\* Every step settles, completes, starts, pays for, opens or removes.
LEMMA StepKinds ==
  ASSUME ViewInv, [Next]_vars
  PROVE  \/ Settles
         \/ \E iv \in Interview : (\E g \in Generation : Opens(iv, g)) \/ Removes(iv)
         \/ \E k \in JobId, i \in Invocation :
              \/ Completes(k, i) /\ i \in calls[k] /\ UNCHANGED <<interview, starter, calls>>
              \/ Marks(k, i) /\ UNCHANGED <<interview, calls>>
              \/ Sends(k, i)
<1>1. Inv
  BY DEF ViewInv
<1>2. CASE UNCHANGED vars
  BY <1>1, <1>2, ObjectKinds
<1>3. ASSUME NEW r \in late, ExecuteLate(r)
      PROVE  r.inv \in Invocation
  BY <1>1 DEF Inv, TypeOK, Request
<1>4. CASE Next
  BY <1>1, <1>3, <1>4, StoreKinds, ConsumerKinds, ObjectKinds DEF Next
<1> QED BY <1>2, <1>4

-----------------------------------------------------------------------------
(* The view invariant is inductive.                                        *)

\* Every kind of step keeps the projections in agreement with the rows.
LEMMA KindsAgree ==
  ASSUME ViewInv, [Next]_vars
  PROVE  ViewsAgree'
<1>1. Inv /\ ViewsAgree /\ TypeOK
  BY DEF ViewInv, Inv
<1>2. \A iv \in Interview : Current(iv)' = <<iv, analysis'[iv].gen>>
  BY DEF Current
<1>3. ASSUME ViewsFollow, UNCHANGED interview
      PROVE  ViewsAgree'
  <2> SUFFICES ASSUME NEW iv \in Interview
               PROVE  IF interview'[iv] = "live"
                      THEN Current(iv)' \in JobId /\ Agreement(job'[Current(iv)'], analysis'[iv])
                      ELSE analysis'[iv] = NoAnalysis
    BY DEF ViewsAgree
  <2>1. Current(iv)' = Current(iv)
    BY <1>3 DEF ViewsFollow, Current
  <2> QED BY <1>1, <1>3, <2>1 DEF ViewsFollow, ViewsAgree
<1>4. CASE Settles
  <2>1. CASE GivesUp
    BY <1>3, <1>4, <2>1 DEF Settles, GivesUp
  <2>2. CASE Prunes
    <3>1. ASSUME NEW iv \in Interview, Current(iv) \in JobId
          PROVE  Kept(Current(iv))
      BY <2>2, <3>1, CurrentIs DEF Prunes, Pruned
    <3>2. ViewsFollow
      BY <2>2, <3>1 DEF ViewsFollow, Prunes, Agreement, Kept
    <3> QED BY <1>3, <1>4, <3>2 DEF Settles
  <2> QED BY <1>4, <2>1, <2>2 DEF Settles
<1>5. ASSUME NEW iv \in Interview, NEW g \in Generation, Opens(iv, g)
      PROVE  ViewsAgree'
  <2> SUFFICES ASSUME NEW v \in Interview
               PROVE  IF interview'[v] = "live"
                      THEN Current(v)' \in JobId /\ Agreement(job'[Current(v)'], analysis'[v])
                      ELSE analysis'[v] = NoAnalysis
    BY DEF ViewsAgree
  <2>1. CASE v = iv
    <3>1. Current(v)' = <<iv, g>> /\ <<iv, g>> \in JobId
      BY <1>5, <2>1, JobIds DEF Current, Opens
    <3>2. analysis[iv].result = None
      <4>1. CASE interview[iv] = "absent"
        BY <1>1, <4>1 DEF ViewsAgree, NoAnalysis
      <4>2. CASE interview[iv] = "live" /\ analysis[iv].status # "complete"
        <5>1. Agreement(job[Current(iv)], analysis[iv])
          BY <1>1, <4>2 DEF ViewsAgree
        <5> QED BY <4>2, <5>1 DEF Agreement
      <4> QED BY <1>5, <4>1, <4>2 DEF Opens
    <3>3. Agreement(job'[<<iv, g>>], analysis'[iv])
      BY <1>5, <3>2 DEF Opens, Agreement
    <3> QED BY <1>5, <2>1, <3>1, <3>3 DEF Opens
  <2>2. CASE v # iv
    <3>1. Current(v)' = Current(v) /\ Current(v) # <<iv, g>> /\ analysis'[v] = analysis[v]
          /\ interview'[v] = interview[v]
      BY <1>5, <2>2, CurrentIs, JobIds DEF Current, Opens
    <3>2. Current(v) \in JobId => job'[Current(v)] = job[Current(v)]
      BY <1>5, <3>1 DEF Opens
    <3> QED BY <1>1, <3>1, <3>2 DEF ViewsAgree
  <2> QED BY <2>1, <2>2
<1>6. ASSUME NEW iv \in Interview, Removes(iv)
      PROVE  ViewsAgree'
  <2> SUFFICES ASSUME NEW v \in Interview
               PROVE  IF interview'[v] = "live"
                      THEN Current(v)' \in JobId /\ Agreement(job'[Current(v)'], analysis'[v])
                      ELSE analysis'[v] = NoAnalysis
    BY DEF ViewsAgree
  <2>1. CASE v = iv
    BY <1>6, <2>1 DEF Removes
  <2>2. CASE v # iv
    <3>1. Current(v)' = Current(v) /\ Current(v)[1] # iv /\ analysis'[v] = analysis[v]
          /\ interview'[v] = interview[v]
      BY <1>6, <2>2, CurrentIs DEF Current, Removes
    <3>2. Current(v) \in JobId => job'[Current(v)] = job[Current(v)]
      BY <1>6, <3>1 DEF Removes
    <3> QED BY <1>1, <3>1, <3>2 DEF ViewsAgree
  <2> QED BY <2>1, <2>2
<1>7. ASSUME NEW k \in JobId, NEW i \in Invocation,
             \/ Completes(k, i) /\ UNCHANGED interview
             \/ Marks(k, i) /\ UNCHANGED interview
      PROVE  ViewsAgree'
  BY <1>3, <1>7 DEF Completes, Marks
<1>8. ASSUME NEW k \in JobId, NEW i \in Invocation, Sends(k, i)
      PROVE  ViewsAgree'
  BY <1>1, <1>8 DEF Sends, ViewsAgree, Current
<1> QED BY <1>4, <1>5, <1>6, <1>7, <1>8, StepKinds

\* A job that was started fails or completes only after its request went out.
LEMMA KindsPaid ==
  ASSUME ViewInv, [Next]_vars
  PROVE  SettledWasPaid'
<1>1. Inv /\ SettledWasPaid /\ TypeOK
  BY DEF ViewInv, Inv
<1>2. CASE Settles
  BY <1>1, <1>2 DEF Settles, GivesUp, Prunes, Kept, Returned, GivenUp, Pruned, SettledWasPaid
<1>3. ASSUME NEW iv \in Interview, NEW g \in Generation, Opens(iv, g)
      PROVE  SettledWasPaid'
  BY <1>1, <1>3 DEF Opens, SettledWasPaid
<1>4. ASSUME NEW iv \in Interview, Removes(iv)
      PROVE  SettledWasPaid'
  BY <1>1, <1>4 DEF Removes, SettledWasPaid
<1>5. ASSUME NEW k \in JobId, NEW i \in Invocation, Completes(k, i), i \in calls[k],
             UNCHANGED <<interview, starter, calls>>
      PROVE  SettledWasPaid'
  BY <1>1, <1>5 DEF Completes, Kept, SettledWasPaid
<1>6. ASSUME NEW k \in JobId, NEW i \in Invocation, Marks(k, i), UNCHANGED calls
      PROVE  SettledWasPaid'
  BY <1>1, <1>6 DEF Marks, Kept, SettledWasPaid, TypeOK
<1>7. ASSUME NEW k \in JobId, NEW i \in Invocation, Sends(k, i)
      PROVE  SettledWasPaid'
  BY <1>1, <1>7 DEF Sends, SettledWasPaid, TypeOK
<1> QED BY <1>2, <1>3, <1>4, <1>5, <1>6, <1>7, StepKinds

\* No step cancels a job.
LEMMA KindsCancelNone ==
  ASSUME ViewInv, [Next]_vars
  PROVE  NoneCancelled'
<1>1. NoneCancelled
  BY DEF ViewInv
<1>2. CASE Settles
  BY <1>1, <1>2 DEF Settles, GivesUp, Prunes, Kept, Returned, GivenUp, Pruned, NoneCancelled
<1>3. ASSUME NEW iv \in Interview, (\E g \in Generation : Opens(iv, g)) \/ Removes(iv)
      PROVE  NoneCancelled'
  BY <1>1, <1>3 DEF Opens, Removes, NoneCancelled
<1>4. ASSUME NEW k \in JobId, NEW i \in Invocation, Completes(k, i) \/ Marks(k, i) \/ Sends(k, i)
      PROVE  NoneCancelled'
  BY <1>1, <1>4 DEF Completes, Marks, Sends, Kept, NoneCancelled
<1> QED BY <1>2, <1>3, <1>4, StepKinds

-----------------------------------------------------------------------------
(* Who reports an outcome: the conjuncts about invocations are inductive.  *)

Steady(j) == /\ inv'[j].pc = inv[j].pc /\ inv'[j].msg = inv[j].msg
             /\ inv'[j].replay = inv[j].replay /\ inv'[j].outcome = inv[j].outcome

\* What the step of one invocation must establish about itself.
LEMMA OneAnswers ==
  ASSUME Answers, TypeOK, TypeOK', NEW i \in Invocation,
         \A j \in Invocation \ {i} : Steady(j) /\ (NeverStarts(j) => NeverStarts(j)'),
         \A k \in JobId : calls[k] \subseteq calls'[k] /\ calls'[k] \subseteq calls[k] \cup {i},
         \A r \in late' : r \in late \/ r.inv = i,
         \A k \in JobId : i \in calls'[k] => inv'[i].pc \in {"calling", "finish", "idle"},
         inv'[i].pc = "calling" => i \in calls'[inv'[i].msg.job],
         inv'[i].pc = "claim" \/ (inv'[i].pc = "start" /\ ~inv'[i].replay) => NeverStarts(i)',
         inv'[i].pc = "finish" =>
           i \in calls'[inv'[i].msg.job] \/ (inv'[i].outcome = "failed" /\ NeverStarts(i)'),
         \A r \in late' : r.inv = i /\ r.op = "finish" =>
           \/ i \in calls'[r.msg.job]
           \/ r.outcome = "failed" /\ NeverStarts(i)' /\ inv'[i].pc \in {"idle", "finish"}
  PROVE  Answers'
<1>1. ASSUME NEW j \in Invocation
      PROVE  inv[j].pc # "idle" => inv[j].msg.job \in JobId
  BY DEF TypeOK, Carrying, Message
<1>2. ASSUME NEW r \in late
      PROVE  r.inv \in Invocation /\ r.msg.job \in JobId
  BY DEF TypeOK, Request, Message
<1>3. CallersMovedOn'
  <2> SUFFICES ASSUME NEW k \in JobId, NEW j \in calls'[k]
               PROVE  inv'[j].pc \in {"calling", "finish", "idle"}
    BY DEF CallersMovedOn
  <2>1. CASE j = i
    BY <2>1
  <2>2. CASE j # i
    <3>1. j \in calls[k] /\ j \in Invocation
      BY <2>2 DEF TypeOK
    <3> QED BY <2>2, <3>1 DEF Answers, CallersMovedOn, Steady
  <2> QED BY <2>1, <2>2
<1>4. CallingIsPaid'
  <2> SUFFICES ASSUME NEW j \in Invocation, inv'[j].pc = "calling"
               PROVE  j \in calls'[inv'[j].msg.job]
    BY DEF CallingIsPaid
  <2> QED BY <1>1 DEF Answers, CallingIsPaid, Steady
<1>5. NewcomersUnstarted'
  <2> SUFFICES ASSUME NEW j \in Invocation,
                      inv'[j].pc = "claim" \/ (inv'[j].pc = "start" /\ ~inv'[j].replay)
               PROVE  NeverStarts(j)'
    BY DEF NewcomersUnstarted
  <2> QED BY DEF Answers, NewcomersUnstarted, Steady
<1>6. FinishersAnswer'
  <2> SUFFICES ASSUME NEW j \in Invocation, inv'[j].pc = "finish"
               PROVE  j \in calls'[inv'[j].msg.job]
                      \/ (inv'[j].outcome = "failed" /\ NeverStarts(j)')
    BY DEF FinishersAnswer
  <2> QED BY <1>1 DEF Answers, FinishersAnswer, Steady
<1>7. LateAnswers'
  <2> SUFFICES ASSUME NEW r \in late', r.op = "finish"
               PROVE  \/ r.inv \in calls'[r.msg.job]
                      \/ /\ r.outcome = "failed" /\ NeverStarts(r.inv)'
                         /\ inv'[r.inv].pc \in {"idle", "finish"}
    BY DEF LateAnswers
  <2>1. CASE r.inv = i
    BY <2>1
  <2>2. CASE r.inv # i
    BY <1>2, <2>2 DEF Answers, LateAnswers, Steady
  <2> QED BY <2>1, <2>2
<1> QED BY <1>3, <1>4, <1>5, <1>6, <1>7 DEF Answers

\* Markers and requests of others do not start a job for j.
LEMMA NeverStartsKept ==
  ASSUME TypeOK, NEW j \in Invocation, NeverStarts(j),
         \/ starter' = starter
         \/ \E k \in JobId, i \in Invocation \ {j} : starter' = [starter EXCEPT ![k] = i],
         \A r \in late' : r \in late \/ r.inv # j \/ r.op # "start"
  PROVE  NeverStarts(j)'
BY DEF NeverStarts, TypeOK

\* A step that leaves invocations, requests, markers and calls alone.
LEMMA StillAnswers ==
  ASSUME Answers, TypeOK, \A j \in Invocation : Steady(j), UNCHANGED <<late, calls, starter>>
  PROVE  Answers'
<1>1. \A j : NeverStarts(j)' = NeverStarts(j)
  BY DEF NeverStarts
<1>2. CallersMovedOn' /\ CallingIsPaid'
  BY DEF Answers, CallersMovedOn, CallingIsPaid, Steady, TypeOK
<1>3. NewcomersUnstarted' /\ FinishersAnswer'
  BY <1>1 DEF Answers, NewcomersUnstarted, FinishersAnswer, Steady
<1>4. \A r \in late : r.inv \in Invocation
  BY DEF TypeOK, Request
<1>5. LateAnswers'
  BY <1>1, <1>4 DEF Answers, LateAnswers, Steady
<1> QED BY <1>2, <1>3, <1>5 DEF Answers

\* An invocation that ends leaves behind what it already answered for.
LEMMA DisposeAnswers ==
  ASSUME Answers, TypeOK, TypeOK', NEW i \in Invocation, Dispose(i), UNCHANGED <<late, calls>>,
         \/ starter' = starter
         \/ inv[i].pc = "start" /\ \E k \in JobId : starter' = [starter EXCEPT ![k] = i]
  PROVE  Answers'
<1>1. inv'[i].pc = "idle" /\ \A j \in Invocation \ {i} : Steady(j)
  BY DEF Dispose, Idle, Steady, TypeOK
<1>2. \A j \in Invocation \ {i} : NeverStarts(j) => NeverStarts(j)'
  BY NeverStartsKept
<1>3. ASSUME NEW r \in late, r.inv = i, r.op = "finish"
      PROVE  i \in calls[r.msg.job] \/ (r.outcome = "failed" /\ NeverStarts(i)')
  <2>1. CASE starter' = starter
    BY <1>3, <2>1, NeverStartsKept DEF Answers, LateAnswers
  <2>2. CASE inv[i].pc = "start"
    BY <1>3, <2>2 DEF Answers, LateAnswers
  <2> QED BY <2>1, <2>2
<1> QED BY <1>1, <1>2, <1>3, OneAnswers

\* The start call of an invocation sets at most its own marker.
LEMMA MarkSetsOwn ==
  ASSUME Inv, NEW i \in Invocation, NEW m \in Message, NEW reply,
         MarkAnalysisStarted(i, m, reply)
  PROVE  starter' = starter \/ \E k \in JobId : starter' = [starter EXCEPT ![k] = i]
<1>1. m.job \in JobId
  BY DEF Message
<1> QED BY <1>1, MarkMarks DEF Marks

\* Every step keeps the conjuncts about invocations.
LEMMA StepAnswers ==
  ASSUME ViewInv, TypeOK', [Next]_vars
  PROVE  Answers'
<1>1. Inv /\ TypeOK /\ Answers
  BY DEF ViewInv, Inv
<1>2. ASSUME NEW i \in Invocation, NEW m \in queue, DeliverMessage(i, m)
      PROVE  Answers'
  <2>1. UNCHANGED <<late, calls, starter>>
    BY <1>2 DEF DeliverMessage, jobVars
  <2>2. inv'[i].pc = "claim" /\ \A j \in Invocation \ {i} : Steady(j)
    BY <1>1, <1>2 DEF DeliverMessage, Idle, Steady, TypeOK
  <2>3. /\ \A k \in JobId : starter[k] # i /\ i \notin calls[k]
        /\ \A r \in late : r.inv # i
    BY <1>2 DEF DeliverMessage, Fresh
  <2>4. NeverStarts(i)' /\ \A j : NeverStarts(j) => NeverStarts(j)'
    BY <2>1, <2>3 DEF NeverStarts
  <2> QED BY <1>1, <2>1, <2>2, <2>3, <2>4, OneAnswers
<1>3. ASSUME NEW i \in Invocation, ClaimReplied(i)
      PROVE  Answers'
  <2>1. UNCHANGED <<late, calls, starter>>
    BY <1>3 DEF ClaimReplied
  <2>2. CASE inv' = [inv EXCEPT ![i].pc = "start", ![i].replay = FALSE]
    <3>1. inv'[i].pc = "start" /\ \A j \in Invocation \ {i} : Steady(j)
      BY <1>1, <2>2 DEF Steady, TypeOK, Consumer
    <3>2. \A j : NeverStarts(j) => NeverStarts(j)'
      BY <2>1 DEF NeverStarts
    <3>3. NeverStarts(i) /\ \A k \in JobId : i \notin calls[k]
      BY <1>1, <1>3 DEF ClaimReplied, Answers, NewcomersUnstarted, CallersMovedOn
    <3>4. \A r \in late : r.inv = i => r.op # "finish"
      BY <1>1, <1>3, <3>3 DEF ClaimReplied, Answers, LateAnswers, TypeOK, Request, Message
    <3> QED BY <1>1, <2>1, <3>1, <3>2, <3>3, <3>4, OneAnswers
  <2> QED BY <1>1, <1>3, <2>1, <2>2, DisposeAnswers DEF ClaimReplied
<1>4. ASSUME NEW i \in Invocation, RouteRefused(i)
      PROVE  Answers'
  <2>1. UNCHANGED <<late, calls, starter>>
    BY <1>4 DEF RouteRefused, jobVars
  <2>2. /\ inv'[i].pc = "finish" /\ inv'[i].outcome = "failed"
        /\ \A j \in Invocation \ {i} : Steady(j)
    BY <1>1, <1>4 DEF RouteRefused, Steady, TypeOK, Consumer
  <2>3. NeverStarts(i) /\ \A j : NeverStarts(j) => NeverStarts(j)'
    BY <1>1, <1>4, <2>1 DEF RouteRefused, Answers, NewcomersUnstarted, NeverStarts
  <2>4. ASSUME NEW r \in late, r.inv = i, r.op = "finish"
        PROVE  i \in calls[r.msg.job]
    BY <1>1, <1>4, <2>4 DEF RouteRefused, Answers, LateAnswers
  <2> QED BY <1>1, <2>1, <2>2, <2>3, <2>4, OneAnswers
<1>5. ASSUME NEW i \in Invocation, StartReplied(i)
      PROVE  Answers'
  <2>1. UNCHANGED <<late, calls>> /\ inv[i].pc = "start"
    BY <1>5 DEF StartReplied
  <2>2. starter' = starter \/ \E k \in JobId : starter' = [starter EXCEPT ![k] = i]
    <3>1. PICK reply : MarkAnalysisStarted(i, inv[i].msg, reply)
      BY <1>5 DEF StartReplied
    <3>2. inv[i].msg \in Message
      BY <1>1, <2>1 DEF TypeOK, Carrying
    <3> QED BY <1>1, <3>1, <3>2, MarkSetsOwn
  <2>3. CASE inv' = [inv EXCEPT ![i].pc = "send", ![i].replay = FALSE,
                                ![i].left = Deadline + Margin]
    <3>1. inv'[i].pc = "send" /\ \A j \in Invocation \ {i} : Steady(j)
      BY <1>1, <2>3 DEF Steady, TypeOK, Consumer
    <3>2. \A j \in Invocation \ {i} : NeverStarts(j) => NeverStarts(j)'
      BY <1>1, <2>1, <2>2, NeverStartsKept
    <3>3. \A k \in JobId : i \notin calls[k]
      BY <1>1, <2>1 DEF Answers, CallersMovedOn
    <3>4. \A r \in late : r.inv = i => r.op # "finish"
      BY <1>1, <2>1, <3>3 DEF Answers, LateAnswers, TypeOK, Request, Message
    <3> QED BY <1>1, <2>1, <3>1, <3>2, <3>3, <3>4, OneAnswers
  <2> QED BY <1>1, <1>5, <2>1, <2>2, <2>3, DisposeAnswers DEF StartReplied
<1>6. ASSUME NEW i \in Invocation, SendProviderRequest(i)
      PROVE  Answers'
  <2> DEFINE k == inv[i].msg.job
  <2>1. k \in JobId
    BY <1>1, <1>6 DEF SendProviderRequest, TypeOK, Carrying, Message
  <2>2. UNCHANGED <<late, starter>> /\ calls' = [calls EXCEPT ![k] = @ \cup {i}]
    BY <1>6 DEF SendProviderRequest, jobVars
  <2>3. /\ inv'[i].pc = "calling" /\ inv'[i].msg = inv[i].msg
        /\ \A j \in Invocation \ {i} : Steady(j)
    BY <1>1, <1>6 DEF SendProviderRequest, Steady, TypeOK, Consumer
  <2>4. i \in calls'[k]
        /\ \A x \in JobId : calls[x] \subseteq calls'[x] /\ calls'[x] \subseteq calls[x] \cup {i}
    BY <1>1, <2>1, <2>2 DEF TypeOK
  <2>5. \A j : NeverStarts(j) => NeverStarts(j)'
    BY <2>2 DEF NeverStarts
  <2>6. \A x \in JobId : i \notin calls[x]
    BY <1>1, <1>6 DEF SendProviderRequest, Answers, CallersMovedOn
  <2>7. \A r \in late : r.inv = i => r.op # "finish"
    BY <1>1, <1>6, <2>6 DEF SendProviderRequest, Answers, LateAnswers, TypeOK, Request, Message
  <2> QED BY <1>1, <2>2, <2>3, <2>4, <2>5, <2>7, OneAnswers
<1>7. ASSUME NEW i \in Invocation, NEW outcome \in Outcome, ProviderReturns(i, outcome)
      PROVE  Answers'
  <2>1. UNCHANGED <<late, calls, starter>>
    BY <1>7 DEF ProviderReturns, jobVars
  <2>2. /\ inv'[i].pc = "finish" /\ inv'[i].msg = inv[i].msg
        /\ \A j \in Invocation \ {i} : Steady(j)
    BY <1>1, <1>7 DEF ProviderReturns, Steady, TypeOK, Consumer
  <2>3. i \in calls[inv[i].msg.job]
    BY <1>1, <1>7 DEF ProviderReturns, Answers, CallingIsPaid
  <2>4. \A j : NeverStarts(j) => NeverStarts(j)'
    BY <2>1 DEF NeverStarts
  <2>5. ASSUME NEW r \in late, r.inv = i, r.op = "finish"
        PROVE  i \in calls[r.msg.job]
    BY <1>1, <1>7, <2>5 DEF ProviderReturns, Answers, LateAnswers
  <2> QED BY <1>1, <2>1, <2>2, <2>3, <2>4, <2>5, OneAnswers
<1>8. ASSUME NEW i \in Invocation, FinishReplied(i) \/ InvocationFails(i)
      PROVE  Answers'
  BY <1>1, <1>8, DisposeAnswers DEF FinishReplied, InvocationFails, jobVars
<1>9. ASSUME NEW i \in Invocation, RpcLost(i)
      PROVE  Answers'
  <2> DEFINE q == [op |-> inv[i].pc, inv |-> i, msg |-> inv[i].msg, outcome |-> inv[i].outcome]
  <2>1. UNCHANGED <<calls, starter>> /\ (late' = late \/ late' = late \cup {q})
    BY <1>9 DEF RpcLost, jobVars
  <2>2. q.op = inv[i].pc /\ q.inv = i /\ q.msg = inv[i].msg /\ q.outcome = inv[i].outcome
    OBVIOUS
  <2>3. inv[i].pc \in {"claim", "start", "finish"} /\ inv[i].msg.job \in JobId
    BY <1>1, <1>9 DEF RpcLost, TypeOK, Carrying, Message
  <2> HIDE DEF q
  <2>4. /\ \A j \in Invocation \ {i} : Steady(j)
        /\ inv'[i].pc = "idle"
           \/ (Steady(i) \/ (/\ inv'[i].pc = inv[i].pc /\ inv'[i].msg = inv[i].msg
                             /\ inv'[i].replay = TRUE /\ inv'[i].outcome = inv[i].outcome))
    <3>1. CASE Dispose(i)
      BY <1>1, <3>1 DEF Dispose, Idle, Steady, TypeOK
    <3>2. CASE inv' = [inv EXCEPT ![i].replay = TRUE]
      BY <1>1, <3>2 DEF Steady, TypeOK, Consumer
    <3> QED BY <1>9, <3>1, <3>2 DEF RpcLost
  <2>5. \A r \in late' : r \in late \/ r = q
    BY <2>1
  <2>6. \A j \in Invocation \ {i} : NeverStarts(j) => NeverStarts(j)'
    BY <1>1, <2>1, <2>2, <2>5, NeverStartsKept
  <2>7. inv[i].pc # "start" /\ NeverStarts(i) => NeverStarts(i)'
    BY <1>1, <2>1, <2>2, <2>5, NeverStartsKept
  <2>8. inv'[i].pc = "claim" \/ (inv'[i].pc = "start" /\ ~inv'[i].replay) => NeverStarts(i)'
    <3>1. CASE inv[i].pc = "start"
      BY <1>9, <2>4, <3>1, DisposeTyped DEF RpcLost, Dispose, Idle, TypeOK, Consumer
    <3>2. CASE inv[i].pc # "start"
      BY <1>1, <2>4, <2>7, <3>2 DEF Answers, NewcomersUnstarted, Steady
    <3> QED BY <3>1, <3>2
  <2>9. inv'[i].pc = "finish" =>
          i \in calls'[inv'[i].msg.job] \/ (inv'[i].outcome = "failed" /\ NeverStarts(i)')
    BY <1>1, <2>1, <2>4, <2>7 DEF Answers, FinishersAnswer, Steady
  <2>10. \A r \in late' : r.inv = i /\ r.op = "finish" =>
           \/ i \in calls'[r.msg.job]
           \/ r.outcome = "failed" /\ NeverStarts(i)' /\ inv'[i].pc \in {"idle", "finish"}
    BY <1>1, <2>1, <2>2, <2>3, <2>4, <2>5, <2>7
       DEF Answers, FinishersAnswer, LateAnswers, Steady
  <2>11. \A k \in JobId : i \in calls'[k] => inv'[i].pc \in {"calling", "finish", "idle"}
    BY <1>1, <2>1, <2>4 DEF Answers, CallersMovedOn, Steady
  <2>12. inv'[i].pc # "calling"
    BY <2>3, <2>4 DEF Steady
  <2> QED BY <1>1, <2>1, <2>2, <2>4, <2>5, <2>6, <2>8, <2>9, <2>10, <2>11, <2>12, OneAnswers
<1>10. ASSUME NEW r \in late, ExecuteLate(r)
       PROVE  Answers'
  <2> DEFINE i == r.inv
  <2>1. i \in Invocation /\ r.msg \in Message
    BY <1>1 DEF TypeOK, Request
  <2>2. late' \subseteq late /\ UNCHANGED <<inv, calls>>
    BY <1>10 DEF ExecuteLate
  <2>3. \/ starter' = starter
        \/ r.op = "start" /\ \E k \in JobId : starter' = [starter EXCEPT ![k] = i]
    BY <1>1, <1>10, <2>1, MarkSetsOwn DEF ExecuteLate
  <2>4. ASSUME NEW j \in Invocation, NeverStarts(j)
        PROVE  NeverStarts(j)'
    <3>1. r.op = "start" => i # j
      BY <2>4 DEF NeverStarts
    <3> QED BY <1>1, <2>1, <2>2, <2>3, <2>4, <3>1, NeverStartsKept
  <2>5. \A j \in Invocation : Steady(j)
    BY <2>2 DEF Steady
  <2> HIDE DEF i
  <2>6. /\ \A k \in JobId : i \in calls[k] => inv[i].pc \in {"calling", "finish", "idle"}
        /\ inv[i].pc = "calling" => i \in calls[inv[i].msg.job]
        /\ inv[i].pc = "claim" \/ (inv[i].pc = "start" /\ ~inv[i].replay) => NeverStarts(i)
        /\ inv[i].pc = "finish" =>
             i \in calls[inv[i].msg.job] \/ (inv[i].outcome = "failed" /\ NeverStarts(i))
    BY <1>1, <2>1 DEF Answers, CallersMovedOn, CallingIsPaid, NewcomersUnstarted, FinishersAnswer
  <2>7. \A q \in late : q.inv = i /\ q.op = "finish" =>
           \/ i \in calls[q.msg.job]
           \/ q.outcome = "failed" /\ NeverStarts(i) /\ inv[i].pc \in {"idle", "finish"}
    BY <1>1, <2>1 DEF Answers, LateAnswers
  <2> QED BY <1>1, <2>1, <2>2, <2>4, <2>5, <2>6, <2>7, OneAnswers
<1>11. CASE Tick
  <2>1. \A j \in Invocation : Steady(j)
    <3> SUFFICES ASSUME NEW j \in Invocation PROVE Steady(j)
      OBVIOUS
    <3>1. inv'[j] = [inv[j] EXCEPT !.left = Down(@)]
      BY <1>11 DEF Tick
    <3> QED BY <1>1, <3>1 DEF Steady, TypeOK, Consumer
  <2> QED BY <1>1, <1>11, <2>1, StillAnswers DEF Tick
<1>12. ASSUME UNCHANGED <<inv, late, calls, starter>>
       PROVE  Answers'
  BY <1>1, <1>12, StillAnswers DEF Steady
<1>13. CASE \/ UNCHANGED vars
            \/ \E iv \in Interview : PersistCompletedInterview(iv) \/ ReadAnalysisStatus(iv)
                                     \/ DeleteInterview(iv)
            \/ \E iv \in Interview, key \in Key, expected \in 0..MaxGeneration :
                 AcceptAnalysisRetry(iv, key, expected)
            \/ \E iv \in Interview, key \in Key : RetryReceiptExpires(iv, key)
            \/ \E m \in queue : RefuseMessage(m)
            \/ \E k \in JobId : PrestartCapPasses(k)
  BY <1>12, <1>13 DEF vars, PersistCompletedInterview, ReadAnalysisStatus, DeleteInterview,
     AcceptAnalysisRetry, RetryReceiptExpires, RefuseMessage, PrestartCapPasses, jobVars, storeVars,
     consumerVars
<1>14. CASE \/ AlarmFires \/ PassHeld \/ QueueSend \/ RecordSent \/ FinishPass \/ PassThrows
            \/ \E k \in JobId : SettleDueJob(k) \/ ReserveDispatch(k) \/ QuarantineRow(k)
  BY ZenonT(60), <1>12, <1>14 DEF AlarmFires, PassHeld, QueueSend, RecordSent, FinishPass, PassThrows,
     SettleDueJob, ReserveDispatch, QuarantineRow, jobVars, consumerVars
<1>15. CASE \/ ObjectRestarts \/ ActivateRecoveryEpoch
            \/ \E to \in {"open", "draining", "frozen", "recovery"}, classify \in BOOLEAN :
                 TransitionMaintenance(to, classify)
            \/ \E epoch \in Epoch, bound \in BOOLEAN : Redeploy(epoch, bound)
  BY <1>12, <1>15 DEF ObjectRestarts, ActivateRecoveryEpoch, TransitionMaintenance, Redeploy,
     jobVars, consumerVars
<1> QED BY <1>2, <1>3, <1>4, <1>5, <1>6, <1>7, <1>8, <1>9, <1>10, <1>11, <1>13, <1>14, <1>15
        DEF Next

-----------------------------------------------------------------------------
(* The theorems about what is shown.                                       *)

\* An empty workspace satisfies the view invariant.
LEMMA InitView == Init => ViewInv
<1> SUFFICES ASSUME Init PROVE ViewInv
  OBVIOUS
<1>1. ViewsAgree
  BY DEF Init, ViewsAgree
<1>2. SettledWasPaid /\ NoneCancelled
  BY DEF Init, NoRow, SettledWasPaid, NoneCancelled
<1>3. Answers
  BY DEF Init, Idle, Answers, CallersMovedOn, CallingIsPaid, NewcomersUnstarted, FinishersAnswer,
         LateAnswers
<1> QED BY <1>1, <1>2, <1>3, InitInv DEF ViewInv

\* Every step keeps it.
LEMMA StepView == ASSUME ViewInv, [Next]_vars PROVE ViewInv'
<1>1. Inv' /\ TypeOK'
  BY StepInv DEF ViewInv, Inv
<1> QED BY <1>1, KindsAgree, KindsPaid, KindsCancelNone, StepAnswers DEF ViewInv

\* The invariant the promise rests on holds of every reachable state.
THEOREM ViewInvariance == Spec => []ViewInv
<1>1. Init => ViewInv
  BY InitView
<1>2. ViewInv /\ [Next]_vars => ViewInv'
  BY StepView
<1> QED BY <1>1, <1>2, PTL DEF Spec

\* The status, the recovery flag and the result a researcher polls are those of the
\* current row of the interview in every reachable state, whichever handler, alarm,
\* classification or activation wrote the row last.
THEOREM ProjectionsAgree == Spec => []ProjectionAgrees
<1>1. ViewInv => ProjectionAgrees
  BY DEF ViewInv, ViewsAgree, Agreement, ProjectionAgrees
<1> QED BY <1>1, ViewInvariance, PTL

\* A generation opens only right after the one before it, and only when that one
\* failed or became uncertain: no key, no expected generation a client sends and no
\* concurrent retry opens a second one or skips one.
THEOREM SerialGenerations == Spec => GenerationsAreSerial
<1> DEFINE A == \A iv \in Interview : analysis'[iv].gen # analysis[iv].gen =>
                  \/ interview'[iv] = "deleted"
                  \/ interview[iv] = "absent" /\ analysis'[iv].gen = 1
                  \/ /\ analysis'[iv].gen = analysis[iv].gen + 1
                     /\ job[Current(iv)].state \in {"failed", "recovery-required"}
<1>1. ASSUME ViewInv, [Next]_vars
      PROVE  [A]_vars
  <2>1. CASE Settles
    BY <2>1 DEF Settles, GivesUp, ViewsFollow, Prunes
  <2>2. ASSUME NEW v \in Interview, NEW g \in Generation, Opens(v, g)
        PROVE  A
    <3>1. CASE interview[v] = "live"
      <4> DEFINE k == Current(v)
      <4>1. k \in JobId /\ Agreement(job[k], analysis[v])
        BY <1>1, <3>1 DEF ViewInv, ViewsAgree
      <4>2. k = <<v, analysis[v].gen>>
        BY DEF Current
      <4>3. analysis[v].gen \in Generation
        BY <4>1, <4>2, JobIds, CurrentIs
      <4>4. job[k].state \notin Nonterminal
        BY <2>2, <3>1, <4>2, <4>3 DEF Opens, Active
      <4>5. job[k].state \notin {"complete", "absent"}
        BY <2>2, <3>1, <4>1 DEF Opens, Agreement
      <4>6. job[k].state \in {"failed", "recovery-required", "cancelled"}
        BY <1>1, <4>1, <4>4, <4>5 DEF ViewInv, Inv, TypeOK, JobRow, Terminal
      <4>7. job[k].state # "cancelled"
        BY <1>1, <4>1 DEF ViewInv, NoneCancelled
      <4> QED BY <2>2, <3>1, <4>6, <4>7 DEF Opens
    <3>2. CASE interview[v] # "live"
      BY <2>2, <3>2 DEF Opens
    <3> QED BY <3>1, <3>2
  <2>3. ASSUME NEW v \in Interview, Removes(v)
        PROVE  A
    BY <2>3 DEF Removes
  <2>4. ASSUME NEW k \in JobId, NEW i \in Invocation,
               Completes(k, i) \/ Marks(k, i) \/ Sends(k, i)
        PROVE  A
    BY <2>4 DEF Completes, Marks, Sends, ViewsFollow
  <2> QED BY <1>1, <2>1, <2>2, <2>3, <2>4, StepKinds
<1> QED BY <1>1, ViewInvariance, PTL DEF Spec, GenerationsAreSerial

-----------------------------------------------------------------------------
(* The refinement: each kind of step is a step of AnalysisPromise.         *)

\* The phase of a job, by the state of its row; an absent row was removed or
\* never allocated.
LEMMA PhaseIs ==
  ASSUME NEW k \in JobId
  PROVE  /\ job[k].state \in {"pending", "claimed"} => Phase(k) = "open"
         /\ job[k].state = "started" => Phase(k) = "started"
         /\ job[k].state = "recovery-required" => Phase(k) = "uncertain"
         /\ job[k].state = "failed" => Phase(k) = "failed"
         /\ job[k].state = "complete" => Phase(k) = "complete"
         /\ job[k].state = "absent" =>
              Phase(k) = IF interview[k[1]] = "deleted" \/ analysis[k[1]].gen >= k[2]
                         THEN "gone" ELSE "none"
BY DEF Phase

\* The same after a step.
LEMMA PhaseBecomes ==
  ASSUME NEW k \in JobId
  PROVE  /\ job'[k].state \in {"pending", "claimed"} => Phase(k)' = "open"
         /\ job'[k].state = "started" => Phase(k)' = "started"
         /\ job'[k].state = "recovery-required" => Phase(k)' = "uncertain"
         /\ job'[k].state = "failed" => Phase(k)' = "failed"
         /\ job'[k].state = "complete" => Phase(k)' = "complete"
         /\ job'[k].state = "absent" =>
              Phase(k)' = IF interview'[k[1]] = "deleted" \/ analysis'[k[1]].gen >= k[2]
                          THEN "gone" ELSE "none"
BY DEF Phase

\* A row whose state, interview and generation stay keeps its phase.
LEMMA PhaseKept ==
  ASSUME NEW k \in JobId, job'[k].state = job[k].state,
         interview'[k[1]] = interview[k[1]], analysis'[k[1]].gen = analysis[k[1]].gen
  PROVE  Phase(k)' = Phase(k)
BY DEF Phase

Attached(k) == IF job[k].state = "complete" THEN job[k].receipt ELSE None

\* Giving jobs up, and returning unstarted ones, is one GiveUp.
LEMMA GivesUpPromise ==
  ASSUME ViewInv, GivesUp, UNCHANGED <<interview, starter, calls>>
  PROVE  \E S \in SUBSET JobId : Promise!GiveUp(S)
<1> DEFINE S == {k \in JobId : GivenUp(k)}
           verdict == [k \in S |-> IF job'[k].state = "failed" THEN "failed" ELSE "uncertain"]
<1>1. \A k \in JobId : interview'[k[1]] = interview[k[1]] /\ analysis'[k[1]].gen = analysis[k[1]].gen
  BY JobIds DEF GivesUp, ViewsFollow
<1>2. ASSUME NEW k \in S
      PROVE  /\ k \in JobId
             /\ Phase(k) \in {"open", "started"}
             /\ Phase(k) = "started" /\ calls[k] = {} => job'[k].state = "recovery-required"
             /\ Phase(k)' = verdict[k]
             /\ Attached(k)' = Attached(k)
  <2>1. k \in JobId /\ GivenUp(k)
    OBVIOUS
  <2>2. Phase(k) \in {"open", "started"}
    BY <2>1, PhaseIs DEF GivenUp, Nonterminal
  <2>3. Phase(k) = "started" => starter[k] # None
    <3>1. Phase(k) = "started" => job[k].state = "started"
      BY <2>1, PhaseIs DEF GivenUp, Nonterminal
    <3> QED BY <2>1, <3>1, ConstantsAssumption DEF ViewInv, Inv, StartedByHolder
  <2>4. Phase(k)' = verdict[k]
    BY <2>1, PhaseBecomes DEF GivenUp
  <2> QED BY <2>1, <2>2, <2>3, <2>4 DEF GivenUp, Nonterminal, Attached
<1>3. ASSUME NEW k \in JobId, k \notin S
      PROVE  Phase(k)' = Phase(k) /\ Attached(k)' = Attached(k)
  <2>1. CASE Kept(k)
    BY <1>1, <2>1, PhaseKept DEF Kept, Attached
  <2>2. CASE Returned(k)
    BY <2>2, PhaseIs, PhaseBecomes DEF Returned, Attached
  <2> QED BY <1>3, <2>1, <2>2 DEF GivesUp
<1>4. Promise!GiveUp(S)
  <2>1. verdict \in [S -> {"failed", "uncertain"}]
    OBVIOUS
  <2>2. \A k \in S : Phase(k) = "started" /\ calls[k] = {} => verdict[k] = "uncertain"
    BY <1>2
  <2>3. [k \in JobId |-> Phase(k)]' = [k \in JobId |-> IF k \in S THEN verdict[k] ELSE Phase(k)]
    BY <1>2, <1>3
  <2>4. [k \in JobId |-> Attached(k)]' = [k \in JobId |-> Attached(k)]
    BY <1>2, <1>3
  <2> HIDE DEF S, verdict
  <2> QED BY ZenonT(60), <1>2, <2>1, <2>2, <2>3, <2>4 DEF Promise!GiveUp, Attached
<1> QED BY <1>4

\* Cleanup withdraws what it prunes.
LEMMA PrunesPromise ==
  ASSUME ViewInv, Prunes, UNCHANGED <<interview, starter, calls>>
  PROVE  \E S \in SUBSET JobId : Promise!Withdraw(S)
<1>0. PICK S \in SUBSET JobId : \A k \in JobId : k \in S <=> Pruned(k)
  <2> WITNESS {k \in JobId : Pruned(k)} \in SUBSET JobId
  <2> QED OBVIOUS
<1>1. ASSUME NEW k \in S
      PROVE  Phase(k)' = "gone" /\ Attached(k)' = None
  <2>1. k \in JobId /\ Pruned(k)
    BY <1>0
  <2>2. k[2] <= analysis[k[1]].gen
    BY <2>1 DEF ViewInv, Inv, RowsReached, Pruned, Terminal
  <2>3. analysis'[k[1]].gen >= k[2]
    BY <2>1, <2>2, JobIds, ConstantsAssumption DEF Prunes, ViewInv, Inv, TypeOK, AnalysisRow, Generation
  <2> QED BY <2>1, <2>3, PhaseBecomes DEF Pruned, Attached
<1>2. ASSUME NEW k \in JobId, k \notin S
      PROVE  Phase(k)' = Phase(k) /\ Attached(k)' = Attached(k)
  <2>1. Kept(k)
    BY <1>0, <1>2 DEF Prunes
  <2> QED BY <2>1, PhaseKept, JobIds DEF Prunes, Kept, Attached
<1>3. [k \in JobId |-> Phase(k)]' = [k \in JobId |-> IF k \in S THEN "gone" ELSE Phase(k)]
  BY <1>1, <1>2
<1>4. [k \in JobId |-> Attached(k)]' = [k \in JobId |-> IF k \in S THEN None ELSE Attached(k)]
  BY <1>1, <1>2
<1>5. Promise!Withdraw(S)
  BY <1>3, <1>4 DEF Promise!Withdraw, Attached
<1> QED BY <1>5

\* Deletion withdraws every job of the interview.
LEMMA RemovesPromise ==
  ASSUME ViewInv, NEW iv \in Interview, Removes(iv)
  PROVE  \E S \in SUBSET JobId : Promise!Withdraw(S)
<1> DEFINE S == {k \in JobId : k[1] = iv}
<1>1. ASSUME NEW k \in S
      PROVE  Phase(k)' = "gone" /\ Attached(k)' = None
  BY PhaseBecomes DEF Removes, Attached
<1>2. ASSUME NEW k \in JobId, k \notin S
      PROVE  Phase(k)' = Phase(k) /\ Attached(k)' = Attached(k)
  BY <1>2, PhaseKept, JobIds DEF Removes, Attached
<1>3. [k \in JobId |-> Phase(k)]' = [k \in JobId |-> IF k \in S THEN "gone" ELSE Phase(k)]
  BY <1>1, <1>2
<1>4. [k \in JobId |-> Attached(k)]' = [k \in JobId |-> IF k \in S THEN None ELSE Attached(k)]
  BY <1>1, <1>2
<1>5. S \in SUBSET JobId /\ UNCHANGED <<starter, calls>>
  BY DEF Removes
<1>6. Promise!Withdraw(S)
  <2> HIDE DEF S
  <2> QED BY <1>3, <1>4, <1>5 DEF Promise!Withdraw, Attached
<1> QED BY <1>5, <1>6

\* Opening a generation offers a job never offered before.
LEMMA OpensPromise ==
  ASSUME ViewInv, NEW iv \in Interview, NEW g \in Generation, Opens(iv, g)
  PROVE  \E k \in JobId : Promise!Offer(k)
<1> DEFINE o == <<iv, g>>
<1>1. o \in JobId /\ o[1] = iv /\ o[2] = g
  BY JobIds
<1>2. /\ \A x \in JobId : x[2] \in Nat
      /\ \A v \in Interview : analysis[v].gen \in Nat
      /\ g \in Nat
  BY SMTT(60), JobIds, ConstantsAssumption DEF Generation, ViewInv, Inv, TypeOK, AnalysisRow
<1>3. \* the generations of iv are those up to the one before g
      interview[iv] # "deleted" /\ g = analysis[iv].gen + 1
  BY DEF Opens, ViewInv, ViewsAgree, NoAnalysis
<1>4. job[o].state = "absent"
  BY <1>1, <1>2, <1>3 DEF ViewInv, Inv, RowsReached
<1> HIDE DEF o
<1>5. Phase(o) = "none" /\ Attached(o) = None
  BY <1>1, <1>2, <1>3, <1>4, PhaseIs DEF Attached
<1>6. Phase(o)' = "open" /\ Attached(o)' = None
  <2>1. job'[o].state = "pending"
    BY DEF Opens, o
  <2> QED BY <1>1, <2>1, PhaseBecomes DEF Attached
<1>7. ASSUME NEW x \in JobId \ {o}
      PROVE  Phase(x)' = Phase(x) /\ Attached(x)' = Attached(x)
  <2>1. job'[x] = job[x]
    BY DEF Opens, o
  <2>2. CASE x[1] # iv
    BY <2>1, <2>2, PhaseKept, JobIds DEF Opens, Attached
  <2>3. CASE x[1] = iv
    <3>1. x[2] # g
      BY <2>3, JobIds DEF o
    <3>2. interview'[iv] = "live" /\ analysis'[iv].gen = g
      BY DEF Opens
    <3>3. analysis[iv].gen >= x[2] <=> analysis'[iv].gen >= x[2]
      BY <1>2, <1>3, <3>1, <3>2
    <3>4. CASE job[x].state = "absent"
      BY <1>3, <2>1, <2>3, <3>2, <3>3, <3>4, PhaseIs, PhaseBecomes DEF Attached
    <3>5. CASE job[x].state # "absent"
      <4>1. job[x].state \in {"pending", "claimed", "started", "complete", "failed", "recovery-required"}
        BY <3>5 DEF ViewInv, Inv, TypeOK, JobRow, Nonterminal, Terminal, NoneCancelled
      <4> QED BY <2>1, <4>1, PhaseIs, PhaseBecomes DEF Attached
    <3> QED BY <3>4, <3>5
  <2> QED BY <2>2, <2>3
<1>8. [k \in JobId |-> Phase(k)]' = [[k \in JobId |-> Phase(k)] EXCEPT ![o] = "open"]
  BY <1>1, <1>6, <1>7
<1>9. [k \in JobId |-> Attached(k)]' = [k \in JobId |-> Attached(k)]
  BY <1>5, <1>6, <1>7
<1>10. UNCHANGED <<starter, calls>>
  BY DEF Opens
<1>11. Promise!Offer(o)
  BY <1>1, <1>5, <1>8, <1>9, <1>10 DEF Promise!Offer, Attached
<1> QED BY <1>1, <1>11

\* A start marker, a provider request and a paid answer are Start, Pay and Complete.
LEMMA ConsumerPromise ==
  ASSUME ViewInv, NEW k \in JobId, NEW i \in Invocation
  PROVE  /\ Marks(k, i) /\ UNCHANGED <<interview, calls>> => Promise!Start(k, i)
         /\ Completes(k, i) /\ i \in calls[k] /\ UNCHANGED <<interview, starter, calls>>
              => Promise!Complete(k)
         /\ Sends(k, i) => Promise!Pay(k)
<1>1. Inv /\ TypeOK /\ SettledWasPaid
  BY DEF ViewInv, Inv
<1>2. ASSUME ViewsFollow, UNCHANGED interview, NEW x \in JobId, Kept(x)
      PROVE  Phase(x)' = Phase(x) /\ Attached(x)' = Attached(x)
  BY <1>2, PhaseKept, JobIds DEF ViewsFollow, Kept, Attached
<1>3. ASSUME Marks(k, i), UNCHANGED <<interview, calls>>
      PROVE  Promise!Start(k, i)
  <2>1. Phase(k) = "open" /\ starter[k] = None
    BY <1>1, <1>3, PhaseIs DEF Marks, Inv, UnstartedIsFree
  <2>2. Phase(k)' = "started" /\ Attached(k)' = Attached(k)
    BY <1>3, PhaseBecomes DEF Marks, Attached
  <2>3. \A x \in JobId \ {k} : Phase(x)' = Phase(x) /\ Attached(x)' = Attached(x)
    BY <1>2, <1>3 DEF Marks
  <2>4. [x \in JobId |-> Phase(x)]' = [[x \in JobId |-> Phase(x)] EXCEPT ![k] = "started"]
    BY <2>2, <2>3
  <2>5. [x \in JobId |-> Attached(x)]' = [x \in JobId |-> Attached(x)]
    BY <2>2, <2>3
  <2> QED BY <1>3, <2>1, <2>4, <2>5 DEF Promise!Start, Marks, Attached
<1>4. ASSUME Completes(k, i), i \in calls[k], UNCHANGED <<interview, starter, calls>>
      PROVE  Promise!Complete(k)
  <2>1. Phase(k) = "started" /\ starter[k] = i
    BY <1>1, <1>4, PhaseIs DEF Completes, Inv, StartedByHolder
  <2>2. calls[k] = {starter[k]}
    BY <1>1, <1>4, <2>1 DEF Inv, PaidByStarter
  <2>3. Phase(k)' = "complete" /\ Attached(k)' = i
    BY <1>4, PhaseBecomes DEF Completes, Attached
  <2>4. \A x \in JobId \ {k} : Phase(x)' = Phase(x) /\ Attached(x)' = Attached(x)
    BY <1>2, <1>4 DEF Completes
  <2>5. [x \in JobId |-> Phase(x)]' = [[x \in JobId |-> Phase(x)] EXCEPT ![k] = "complete"]
    BY <2>3, <2>4
  <2>6. [x \in JobId |-> Attached(x)]' = [[x \in JobId |-> Attached(x)] EXCEPT ![k] = starter[k]]
    BY <2>1, <2>3, <2>4
  <2> QED BY <1>4, <2>1, <2>2, <2>5, <2>6 DEF Promise!Complete, Attached
<1>5. ASSUME Sends(k, i)
      PROVE  Promise!Pay(k)
  <2>1. starter[k] = i /\ starter[k] # None
    BY <1>5, ConstantsAssumption DEF Sends
  <2>2. calls[k] = {}
    BY <1>1, <1>5, <2>1 DEF Sends, Inv, PaidByStarter
  <2>3. Phase(k) \in {"started", "uncertain", "gone"}
    <3>1. job[k].state \in {"started", "recovery-required", "absent"}
      BY <1>1, <2>1, <2>2
         DEF ViewInv, Inv, UnstartedIsFree, SettledWasPaid, NoneCancelled, TypeOK, JobRow,
             Nonterminal, Terminal
    <3>2. CASE job[k].state = "absent"
      <4>1. interview[k[1]] = "deleted" \/ k[2] <= analysis[k[1]].gen
        BY <1>1, <2>1 DEF Inv, StartersReached
      <4>2. k[2] \in Nat /\ analysis[k[1]].gen \in Nat
        BY SMTT(60), <1>1, JobIds, ConstantsAssumption DEF Generation, TypeOK, AnalysisRow
      <4> QED BY <3>2, <4>1, <4>2, PhaseIs
    <3> QED BY <3>1, <3>2, PhaseIs
  <2>4. calls' = [calls EXCEPT ![k] = {starter[k]}]
    BY <1>1, <1>5, <2>1, <2>2 DEF Sends, TypeOK
  <2>5. [x \in JobId |-> Phase(x)]' = [x \in JobId |-> Phase(x)]
    BY <1>5 DEF Sends, Phase
  <2>6. [x \in JobId |-> Attached(x)]' = [x \in JobId |-> Attached(x)]
    BY <1>5 DEF Sends, Attached
  <2>7. starter' = starter
    BY <1>5 DEF Sends
  <2> QED BY <2>1, <2>2, <2>3, <2>4, <2>5, <2>6, <2>7 DEF Promise!Pay, Attached
<1> QED BY <1>3, <1>4, <1>5

\* Every behaviour of leases, alarms, queue, consumers and operators is one the
\* promise of AnalysisPromise allows: a job is offered once, started by one caller,
\* paid for once and by that caller, completed only with an answer paid for, and
\* never reported as failed while its started work may still be paid for.
THEOREM PromiseIsKept == Spec => KeepsPromise
<1>1. Init => Promise!Init
  <2> SUFFICES ASSUME Init PROVE Promise!Init
    OBVIOUS
  <2>1. ASSUME NEW k \in JobId
        PROVE  Phase(k) = "none" /\ Attached(k) = None
    <3>1. job[k].state = "absent"
      BY DEF Init, NoRow
    <3>2. interview[k[1]] = "absent" /\ analysis[k[1]].gen = 0
      BY JobIds DEF Init, NoAnalysis
    <3>3. k[2] \in Nat \ {0}
      BY JobIds, ConstantsAssumption DEF Generation
    <3>4. ~(analysis[k[1]].gen >= k[2])
      BY <3>2, <3>3
    <3> QED BY <3>1, <3>2, <3>4, PhaseIs DEF Attached
  <2>2. starter = [k \in JobId |-> None] /\ calls = [k \in JobId |-> {}]
    BY DEF Init
  <2> QED BY <2>1, <2>2 DEF Promise!Init, Attached
<1>2. ViewInv /\ [Next]_vars => [Promise!Next]_(Promise!vars)
  <2> SUFFICES ASSUME ViewInv, [Next]_vars
               PROVE  Promise!Next
    OBVIOUS
  <2>1. CASE Settles
    BY <2>1, GivesUpPromise, PrunesPromise DEF Settles, Promise!Next
  <2>2. CASE \E iv \in Interview : (\E g \in Generation : Opens(iv, g)) \/ Removes(iv)
    BY <2>2, OpensPromise, RemovesPromise DEF Promise!Next
  <2>3. CASE \E k \in JobId, i \in Invocation :
               \/ Completes(k, i) /\ i \in calls[k] /\ UNCHANGED <<interview, starter, calls>>
               \/ Marks(k, i) /\ UNCHANGED <<interview, calls>>
               \/ Sends(k, i)
    BY <2>3, ConsumerPromise DEF Promise!Next
  <2> QED BY <2>1, <2>2, <2>3, StepKinds
<1> QED BY <1>1, <1>2, ViewInvariance, PTL DEF Spec, KeepsPromise, Promise!Spec

-----------------------------------------------------------------------------
(* A held workspace is inert.                                              *)

\* Every gate that admits a write of a job row admits settlement too.
LEMMA HeldGates ==
  ASSUME ~Gate("job-settlement")
  PROVE  /\ ~Gate("participant-session") /\ ~Gate("researcher-mutation")
         /\ \A m : ~SettlementGate(m)
BY DEF Gate, ALLOWED, SettlementGate

\* What a held workspace keeps of a row.
Inert(k) == /\ job'[k].state = job[k].state
            /\ job'[k].dispatch = job[k].dispatch
            /\ job'[k].attempts = job[k].attempts

\* Claims, starts and outcomes that reach a held workspace are refused before any write.
LEMMA HeldHandlers ==
  ASSUME ~Gate("job-settlement"), NEW i, NEW m
  PROVE  /\ \A reply : ClaimAnalysisJob(i, m, reply) => job' = job
         /\ \A reply : MarkAnalysisStarted(i, m, reply) => UNCHANGED <<job, starter>>
         /\ \A outcome : FinishAnalysisJob(i, m, outcome) => job' = job
BY HeldGates DEF ClaimAnalysisJob, MarkAnalysisStarted, FinishAnalysisJob

\* Time only runs the timers of a row.
LEMMA TimeIsInert ==
  ASSUME TypeOK, Tick \/ \E k \in JobId : PrestartCapPasses(k)
  PROVE  \A k \in JobId : Inert(k)
<1>1. ASSUME NEW x \in JobId, Tick
      PROVE  Inert(x)
  <2>1. job[x] \in JobRow /\ job'[x] = [job[x] EXCEPT !.lease = Down(@), !.due = Down(@)]
    BY <1>1 DEF Tick, TypeOK
  <2> QED BY <2>1 DEF Inert, JobRow
<1>2. ASSUME NEW x \in JobId, NEW k \in JobId, PrestartCapPasses(k)
      PROVE  Inert(x)
  BY <1>2 DEF PrestartCapPasses, Inert, TypeOK, JobRow
<1> QED BY <1>1, <1>2

\* While settlement is held no step but an operator's changes a row's state,
\* its dispatch budget or a start marker: late requests, the scheduler in the
\* middle of a pass, a retry and a deletion are all refused, whatever the
\* interleaving (JOB-05, OPS-01).
THEOREM HeldWorkspaceIsInert == Spec => HeldIsInert
<1> DEFINE A == ~Gate("job-settlement") /\ maintenance' = maintenance /\ activated' = activated =>
                  /\ starter' = starter
                  /\ \A k \in JobId : /\ job'[k].state = job[k].state
                                      /\ job'[k].dispatch = job[k].dispatch
                                      /\ job'[k].attempts = job[k].attempts
<1>1. ASSUME TypeOK, [Next]_vars
      PROVE  [A]_vars
  <2> SUFFICES ASSUME ~Gate("job-settlement"), maintenance' = maintenance, activated' = activated
               PROVE  starter' = starter /\ \A k \in JobId : Inert(k)
    BY DEF Inert
  <2>1. ASSUME UNCHANGED <<job, starter>>
        PROVE  starter' = starter /\ \A k \in JobId : Inert(k)
    BY <2>1 DEF Inert
  <2>2. CASE UNCHANGED vars
    BY <2>1, <2>2 DEF vars, jobVars
  <2>3. CASE \E iv \in Interview :
               \/ PersistCompletedInterview(iv) \/ ReadAnalysisStatus(iv) \/ DeleteInterview(iv)
               \/ \E key \in Key, expected \in 0..MaxGeneration :
                    AcceptAnalysisRetry(iv, key, expected)
               \/ \E key \in Key : RetryReceiptExpires(iv, key)
    BY <2>1, <2>3, HeldGates
       DEF PersistCompletedInterview, ReadAnalysisStatus, DeleteInterview, AcceptAnalysisRetry,
           RetryReceiptExpires, jobVars
  <2>4. CASE \/ \E i \in Invocation, m \in queue : DeliverMessage(i, m)
             \/ \E m \in queue : RefuseMessage(m)
             \/ \E i \in Invocation :
                  \/ RouteRefused(i) \/ SendProviderRequest(i) \/ RpcLost(i) \/ InvocationFails(i)
                  \/ \E outcome \in Outcome : ProviderReturns(i, outcome)
    BY <2>1, <2>4
       DEF DeliverMessage, RefuseMessage, RouteRefused, SendProviderRequest, ProviderReturns,
           RpcLost, InvocationFails, jobVars
  <2>5. CASE \/ \E i \in Invocation : ClaimReplied(i) \/ StartReplied(i) \/ FinishReplied(i)
             \/ \E r \in late : ExecuteLate(r)
    BY <2>1, <2>5, HeldHandlers DEF ClaimReplied, StartReplied, FinishReplied, ExecuteLate
  <2>6. CASE \/ AlarmFires \/ PassHeld \/ QueueSend \/ RecordSent \/ FinishPass
             \/ PassThrows \/ ObjectRestarts
             \/ \E k \in JobId : SettleDueJob(k) \/ ReserveDispatch(k) \/ QuarantineRow(k)
             \/ \E epoch \in Epoch, bound \in BOOLEAN : Redeploy(epoch, bound)
    BY ZenonT(60), <2>1, <2>6
       DEF AlarmFires, PassHeld, QueueSend, RecordSent, FinishPass, PassThrows, ObjectRestarts,
           SettleDueJob, ReserveDispatch, QuarantineRow, Redeploy, jobVars
  <2>7. CASE \/ ActivateRecoveryEpoch
             \/ \E to \in {"open", "draining", "frozen", "recovery"}, classify \in BOOLEAN :
                  TransitionMaintenance(to, classify)
    BY <2>7 DEF TransitionMaintenance, transitionAllowed, ActivateRecoveryEpoch
  <2>8. CASE Tick \/ \E k \in JobId : PrestartCapPasses(k)
    BY <1>1, <2>8, TimeIsInert DEF Tick, PrestartCapPasses
  <2> QED BY <1>1, <2>2, <2>3, <2>4, <2>5, <2>6, <2>7, <2>8 DEF Next
<1> QED BY <1>1, TypeCorrect, PTL DEF Spec, HeldIsInert

-----------------------------------------------------------------------------
(* The wake-up.  A workspace that is not redeployed keeps the epoch it was  *)
(* created with, so it is held only by its maintenance state.              *)

\* The longest wait a fault may put in front of a due row.
FaultWait == IF "storage" \in Environment THEN Larger(FailureRetry, QuarantineMax) ELSE 0

\* The alarm is set for every wait, or for the fault in front of it.
Armed ==
  \A k \in JobId : job[k].due # None =>
    alarm # None /\ alarm <= Larger(job[k].due, FaultWait)

\* The deployment is the one the workspace was created by.
OneDeployment == env = [epoch |-> 1, bound |-> TRUE] /\ activated = 1

\* No quarantine outlasts the longest fault.
QuarantineEnds == \A k \in JobId : quarantine[k] <= FaultWait

WakeInv ==
  /\ Inv
  /\ OneDeployment
  /\ QuarantineEnds
  /\ maintenance \in {"open", "draining"} /\ sched = Asleep => Armed

\* How a transaction may treat the alarm and the waits.
Earlier == alarm' = alarm \/ (alarm' # None /\ (alarm # None => alarm' <= alarm))
WaitKept(k) == \/ job'[k].due = None
               \/ job'[k].due = job[k].due
               \/ alarm' # None /\ alarm' <= job'[k].due
WaitsKept == Earlier /\ \A k \in JobId : WaitKept(k)

\* Times are numbers when they are set.
LEMMA Times ==
  ASSUME TypeOK
  PROVE  /\ alarm # None => alarm \in Nat
         /\ \A k \in JobId : /\ job[k].due # None => job[k].due \in Nat
                             /\ job[k].lease # None => job[k].lease \in Nat
                             /\ quarantine[k] \in Nat
BY DEF TypeOK, Ticks, JobRow

\* Larger picks one of two times and bounds both.
LEMMA LargerIs ==
  \A a, b \in Nat : /\ Larger(a, b) \in Nat /\ a <= Larger(a, b) /\ b <= Larger(a, b)
                    /\ Larger(a, b) \in {a, b}
BY DEF Larger

\* Counting down keeps times ordered.
LEMMA DownIs ==
  /\ \A t \in Nat : Down(t) \in Nat /\ Down(t) <= t
  /\ \A s, t \in Nat : s <= t => Down(s) <= Down(t)
<1>1. \A t \in Nat : Down(t) = IF t = 0 THEN 0 ELSE t - 1
  BY ConstantsAssumption DEF Down
<1> QED BY <1>1

\* The longest wait is a time.
LEMMA FaultWaitTyped == FaultWait \in Nat
BY ConstantsAssumption DEF FaultWait, Larger

\* A transaction that only brings the alarm forward keeps every wait armed.
LEMMA KeptStaysArmed ==
  ASSUME TypeOK, TypeOK', Armed, WaitsKept
  PROVE  Armed'
<1> SUFFICES ASSUME NEW k \in JobId, job'[k].due # None
             PROVE  alarm' # None /\ alarm' <= Larger(job'[k].due, FaultWait)
  BY DEF Armed, FaultWait
<1>1. job'[k].due \in Nat /\ (alarm' # None => alarm' \in Nat)
  BY Times DEF TypeOK, Ticks, JobRow
<1>2. FaultWait \in Nat
  BY FaultWaitTyped
<1>3. CASE job'[k].due = job[k].due
  <2>1. alarm \in Nat /\ alarm <= Larger(job'[k].due, FaultWait)
    BY <1>3, Times DEF Armed
  <2>2. alarm' \in Nat /\ alarm' <= alarm
    BY SMTT(60), <1>1, <2>1, ConstantsAssumption DEF WaitsKept, Earlier
  <2>3. Larger(job'[k].due, FaultWait) \in Nat
    BY <1>1, <1>2 DEF Larger
  <2> HIDE DEF Larger
  <2> QED BY SMTT(60), <2>1, <2>2, <2>3, ConstantsAssumption
<1>4. CASE alarm' # None /\ alarm' <= job'[k].due
  BY SMTT(60), <1>1, <1>2, <1>4, ConstantsAssumption DEF Larger
<1> QED BY <1>3, <1>4 DEF WaitsKept, WaitKept

\* armAlarmNoLaterThan never delays the alarm.
LEMMA ArmEarlier ==
  ASSUME TypeOK, NEW at \in Nat, alarm' = ArmNoLaterThan(at)
  PROVE  Earlier /\ alarm' # None /\ alarm' <= at
BY Times, ConstantsAssumption DEF ArmNoLaterThan, Smaller, Earlier

\* Settled rows wait for nothing.
LEMMA SettleKeepsWaits ==
  ASSUME TypeOK, NEW k \in JobId, NEW to, NEW receipt, SettleJob(k, to, receipt), UNCHANGED alarm
  PROVE  WaitsKept
<1>1. \A x \in JobId \ {k} : job'[x] = job[x]
  BY DEF SettleJob, TypeOK
<1>2. job'[k].due = None
  <2>1. job[k] \in JobRow /\ job'[k] = Settled(job[k], to, receipt)
    BY DEF SettleJob, TypeOK
  <2> QED BY <2>1 DEF Settled, JobRow
<1> QED BY <1>1, <1>2 DEF WaitsKept, Earlier, WaitKept

\* A step that leaves rows and alarm alone keeps the waits.
LEMMA StillWaits == ASSUME UNCHANGED <<job, alarm>> PROVE WaitsKept
BY DEF WaitsKept, Earlier, WaitKept

\* A new generation is due at once, and so is the alarm.
LEMMA AllocateKeepsWaits ==
  ASSUME TypeOK, NEW iv \in Interview, NEW g \in Generation, AllocateGeneration(iv, g)
  PROVE  WaitsKept
<1>1. <<iv, g>> \in JobId
  BY JobIds
<1>2. \A x \in JobId \ {<<iv, g>>} : job'[x] = job[x]
  BY DEF AllocateGeneration, TypeOK
<1>3. job'[<<iv, g>>].due = 0
  BY <1>1 DEF AllocateGeneration, TypeOK, NoRow
<1>4. Earlier /\ alarm' # None /\ alarm' <= 0
  BY ArmEarlier DEF AllocateGeneration
<1> QED BY <1>2, <1>3, <1>4 DEF WaitsKept, WaitKept

\* restoreLostWakeUp arms an alarm only where there is none.
LEMMA RestoreKeepsWaits ==
  ASSUME TypeOK, RestoreLostWakeUp, UNCHANGED job
  PROVE  WaitsKept
<1>1. CASE UNCHANGED alarm
  BY <1>1, StillWaits
<1>2. CASE alarm = None /\ \E k \in Waiting : alarm' = job[k].due
  BY <1>2, Times DEF Waiting, WaitsKept, WaitKept, Earlier
<1> QED BY <1>1, <1>2 DEF RestoreLostWakeUp

\* A claim waits for its lease and arms for it; a job it settles waits no longer.
LEMMA ClaimKeepsWaits ==
  ASSUME TypeOK, NEW i \in Invocation, NEW m \in Message, NEW reply,
         ClaimAnalysisJob(i, m, reply)
  PROVE  WaitsKept
<1> DEFINE k == m.job
<1>1. k \in JobId
  BY DEF Message
<1>2. CASE UNCHANGED <<job, alarm>>
  BY <1>2, StillWaits
<1>3. CASE SettleJob(k, "failed", None) /\ UNCHANGED alarm
  BY <1>1, <1>3, SettleKeepsWaits
<1>4. CASE /\ job' = [job EXCEPT ![k].state = "claimed", ![k].nonce = i,
                                 ![k].lease = Lease, ![k].due = Lease]
           /\ alarm' = ArmNoLaterThan(Lease)
  <2>1. \A x \in JobId \ {k} : job'[x] = job[x]
    BY <1>4 DEF TypeOK
  <2>2. job'[k].due = Lease
    BY <1>1, <1>4 DEF TypeOK, JobRow
  <2>3. Earlier /\ alarm' # None /\ alarm' <= Lease
    BY <1>4, ArmEarlier, ConstantsAssumption
  <2> QED BY <2>1, <2>2, <2>3 DEF WaitsKept, WaitKept
<1> QED BY <1>2, <1>3, <1>4 DEF ClaimAnalysisJob

\* The start marker keeps the wait of the claim.
LEMMA MarkKeepsWaits ==
  ASSUME TypeOK, NEW i \in Invocation, NEW m \in Message, NEW reply,
         MarkAnalysisStarted(i, m, reply)
  PROVE  WaitsKept
<1> DEFINE k == m.job
<1>1. k \in JobId
  BY DEF Message
<1>2. CASE UNCHANGED <<job, alarm>>
  BY <1>2, StillWaits
<1>3. CASE SettleJob(k, "failed", None) /\ UNCHANGED alarm
  BY <1>1, <1>3, SettleKeepsWaits
<1>4. CASE /\ HeldBy(job[k], i)
           /\ job' = [job EXCEPT ![k].state = "started"]
           /\ alarm' = ArmNoLaterThan(job[k].lease)
  <2>1. \A x \in JobId : job'[x].due = job[x].due
    BY <1>4 DEF TypeOK, JobRow
  <2>2. Earlier
    BY <1>1, <1>4, ArmEarlier, Times DEF HeldBy
  <2> QED BY <2>1, <2>2 DEF WaitsKept, WaitKept
<1> QED BY <1>2, <1>3, <1>4 DEF MarkAnalysisStarted

\* An outcome, once written, waits for nothing.
LEMMA FinishKeepsWaits ==
  ASSUME TypeOK, NEW i \in Invocation, NEW m \in Message, NEW outcome,
         FinishAnalysisJob(i, m, outcome), UNCHANGED alarm
  PROVE  WaitsKept
<1> DEFINE k == m.job
<1>1. k \in JobId
  BY DEF Message
<1>2. CASE job' = job
  BY <1>2, StillWaits
<1>3. CASE SettleJob(k, "recovery-required", i) \/ SettleJob(k, "failed", i)
  BY <1>1, <1>3, SettleKeepsWaits
<1>4. CASE job' = [job EXCEPT ![k] = Settled(job[k], "complete", i)]
  <2>1. \A x \in JobId \ {k} : job'[x] = job[x]
    BY <1>4 DEF TypeOK
  <2>2. job'[k].due = None
    BY <1>1, <1>4 DEF TypeOK, JobRow, Settled
  <2> QED BY <2>1, <2>2 DEF WaitsKept, WaitKept, Earlier
<1> QED BY <1>2, <1>3, <1>4 DEF FinishAnalysisJob

\* A deletion leaves no wait of its interview, and cleanup only brings the alarm forward.
LEMMA DeleteKeepsWaits ==
  ASSUME TypeOK, NEW iv \in Interview, DeleteInterview(iv)
  PROVE  WaitsKept
<1>1. \A k \in JobId : job'[k].due = None \/ job'[k].due = job[k].due
  BY DEF DeleteInterview, NoRow
<1>2. Earlier
  BY ArmEarlier, ConstantsAssumption DEF DeleteInterview
<1> QED BY <1>1, <1>2 DEF WaitsKept, WaitKept

\* What a step must establish of the wake-up.
WakeKept ==
  /\ UNCHANGED <<env, activated>>
  /\ QuarantineEnds'
  /\ maintenance' \in {"open", "draining"} /\ sched' = Asleep => Armed'

\* A transaction that leaves the scheduler and the operator's state alone.
LEMMA WaitsKeepWake ==
  ASSUME WakeInv, TypeOK', WaitsKept, UNCHANGED <<env, activated, quarantine, sched, maintenance>>
  PROVE  WakeKept
<1>1. QuarantineEnds'
  BY DEF WakeInv, QuarantineEnds, FaultWait
<1>2. maintenance' \in {"open", "draining"} /\ sched' = Asleep => Armed'
  BY KeptStaysArmed DEF WakeInv, Inv
<1> QED BY <1>1, <1>2 DEF WakeKept

\* A scheduler step during a pass promises nothing until the pass ends.
LEMMA PassKeepsWake ==
  ASSUME WakeInv, sched'.pc # "idle", UNCHANGED <<env, activated>>,
         \A k \in JobId : quarantine'[k] = quarantine[k] \/ quarantine'[k] <= FaultWait
  PROVE  WakeKept
<1>1. QuarantineEnds'
  BY DEF WakeInv, QuarantineEnds, FaultWait
<1>2. sched' # Asleep
  BY DEF Asleep
<1> QED BY <1>1, <1>2 DEF WakeKept

\* rearm at the end of a pass covers every wait and every quarantine.
LEMMA FinishPassArms ==
  ASSUME WakeInv, TypeOK', FinishPass
  PROVE  WakeKept
<1>1. TypeOK
  BY DEF WakeInv, Inv
<1>2. QuarantineEnds' /\ UNCHANGED <<env, activated>>
  BY DEF FinishPass, WakeInv, QuarantineEnds, FaultWait, operatorVars
<1>3. ASSUME NEW k \in JobId, job'[k].due # None
      PROVE  alarm' # None /\ alarm' <= Larger(job'[k].due, FaultWait)
  <2> DEFINE wakes == (IF sched.more THEN {0} ELSE JobWakes(job')) \cup CleanupWakes(job')
             wait  == Larger(job'[k].due, quarantine[k])
  <2>1. /\ job'[k].due \in Nat /\ quarantine[k] \in Nat /\ FaultWait \in Nat
        /\ quarantine[k] <= FaultWait
    BY <1>1, <1>3, Times, FaultWaitTyped DEF TypeOK, Ticks, JobRow, WakeInv, QuarantineEnds
  <2>2. wait \in Nat /\ wait <= Larger(job'[k].due, FaultWait)
    BY <2>1 DEF Larger
  <2>3. IF sched.more THEN 0 \in wakes ELSE wait \in wakes
    BY <1>3 DEF JobWakes
  <2>4. \A w \in wakes : w \in Nat
    <3>1. \A x \in JobId : job'[x].due # None => Larger(job'[x].due, quarantine[x]) \in Nat
      BY <1>1, Times DEF TypeOK, Ticks, JobRow, Larger
    <3> QED BY <3>1, ConstantsAssumption DEF JobWakes, CleanupWakes
  <2>5. PICK w \in wakes : (\A other \in wakes : w <= other) /\ alarm' = ArmNoLaterThan(w)
    BY <2>3 DEF FinishPass
  <2>6. alarm' # None /\ alarm' \in Nat /\ alarm' <= w
    BY <1>1, <2>4, <2>5, ArmEarlier DEF TypeOK, Ticks
  <2>7. Larger(job'[k].due, FaultWait) \in Nat
    BY <2>1 DEF Larger
  <2> HIDE DEF wakes, wait, Larger
  <2>8. w <= wait
    <3>1. 0 \in wakes => w <= wait
      BY <2>2, <2>4, <2>5
    <3>2. wait \in wakes => w <= wait
      BY <2>5
    <3> QED BY <2>3, <3>1, <3>2
  <2> QED BY <2>2, <2>4, <2>6, <2>7, <2>8
<1> QED BY <1>2, <1>3 DEF WakeKept, Armed, FaultWait

\* Time brings the alarm and the waits nearer together.
LEMMA TickKeepsWake ==
  ASSUME WakeInv, TypeOK', Tick
  PROVE  WakeKept
<1>1. TypeOK
  BY DEF WakeInv, Inv
<1>2. UNCHANGED <<env, activated, maintenance, sched>>
  BY DEF Tick, operatorVars
<1>3. QuarantineEnds'
  <2> SUFFICES ASSUME NEW k \in JobId
               PROVE  quarantine'[k] <= FaultWait
    BY DEF QuarantineEnds, FaultWait
  <2>1. quarantine[k] \in Nat /\ quarantine[k] <= FaultWait /\ FaultWait \in Nat
    BY <1>1, Times, FaultWaitTyped DEF WakeInv, QuarantineEnds
  <2>2. quarantine'[k] = Down(quarantine[k])
    BY DEF Tick
  <2> QED BY <2>1, <2>2, ConstantsAssumption DEF Down
<1>4. ASSUME Armed PROVE Armed'
  <2> SUFFICES ASSUME NEW k \in JobId, job'[k].due # None
               PROVE  alarm' # None /\ alarm' <= Larger(job'[k].due, FaultWait)
    BY DEF Armed, FaultWait
  <2>1. job'[k].due = Down(job[k].due) /\ alarm' = Down(alarm)
    <3>1. job[k] \in JobRow /\ job'[k] = [job[k] EXCEPT !.lease = Down(@), !.due = Down(@)]
      BY <1>1 DEF Tick, TypeOK
    <3> QED BY <3>1 DEF JobRow, Tick
  <2>2. job[k].due # None
    BY <2>1 DEF Down
  <2>3. /\ alarm \in Nat /\ job[k].due \in Nat /\ FaultWait \in Nat
        /\ alarm <= Larger(job[k].due, FaultWait)
    BY <1>1, <1>4, <2>2, Times, FaultWaitTyped DEF Armed
  <2>4. /\ alarm' \in Nat /\ alarm' <= alarm
        /\ job'[k].due \in Nat
        /\ alarm <= job[k].due => alarm' <= job'[k].due
    BY <2>1, <2>3, DownIs
  <2>5. alarm' <= job'[k].due \/ alarm' <= FaultWait
    <3>1. alarm <= job[k].due \/ alarm <= FaultWait
      BY <2>3, LargerIs
    <3> QED BY <2>3, <2>4, <3>1
  <2>6. /\ Larger(job'[k].due, FaultWait) \in Nat
        /\ job'[k].due <= Larger(job'[k].due, FaultWait)
        /\ FaultWait <= Larger(job'[k].due, FaultWait)
    BY <2>3, <2>4, LargerIs
  <2> QED BY SMTT(60), <2>3, <2>4, <2>5, <2>6, ConstantsAssumption
<1> QED BY <1>2, <1>3, <1>4 DEF WakeKept, WakeInv

\* An operator's transition out of a hold arms the alarm for now; the others
\* between open and draining change no row.
LEMMA TransitionKeepsWake ==
  ASSUME WakeInv, TypeOK', NEW to, NEW classify, TransitionMaintenance(to, classify)
  PROVE  WakeKept
<1>1. TypeOK
  BY DEF WakeInv, Inv
<1>2. UNCHANGED <<env, activated, quarantine, sched>> /\ maintenance' = to
  BY DEF TransitionMaintenance, schedVars
<1>3. QuarantineEnds'
  BY <1>2 DEF WakeInv, QuarantineEnds, FaultWait
<1>4. ASSUME to \in {"open", "draining"}, sched = Asleep
      PROVE  Armed'
  <2>1. job' = job
    BY <1>4 DEF TransitionMaintenance
  <2>2. CASE maintenance \in {"open", "draining"}
    <3>1. alarm' = alarm
      BY <2>2 DEF TransitionMaintenance
    <3> QED BY <1>4, <2>1, <2>2, <3>1 DEF WakeInv, Armed, FaultWait
  <2>3. CASE maintenance \in {"frozen", "recovery"}
    <3>1. alarm' = 0
      <4>1. alarm' = ArmNoLaterThan(0)
        BY <1>4, <2>3 DEF TransitionMaintenance
      <4> QED BY <1>1, <4>1, Times DEF ArmNoLaterThan, Smaller
    <3>2. \A k \in JobId : job[k].due # None => 0 <= Larger(job[k].due, FaultWait)
      BY <1>1, Times, FaultWaitTyped DEF Larger
    <3> QED BY <2>1, <3>1, <3>2, ConstantsAssumption DEF Armed, FaultWait
  <2> QED BY <1>1, <2>2, <2>3 DEF TypeOK
<1> QED BY <1>2, <1>3, <1>4 DEF WakeKept

\* The scheduler's steps: during a pass nothing is promised, its end re-arms, a
\* failure leaves a retry alarm, and a restart runs an interrupted pass again.
LEMMA ObjectKeepsWake ==
  ASSUME WakeInv, TypeOK',
         \/ AlarmFires \/ PassHeld \/ QueueSend \/ RecordSent \/ FinishPass
         \/ PassThrows \/ ObjectRestarts
         \/ \E k \in JobId : SettleDueJob(k) \/ ReserveDispatch(k) \/ QuarantineRow(k)
  PROVE  WakeKept
<1>1. TypeOK /\ sched \in Pass
  BY DEF WakeInv, Inv, TypeOK
<1>2. Gate("job-settlement") <=> maintenance \in {"open", "draining"}
  BY DEF WakeInv, OneDeployment, Gate, ALLOWED
<1>3. QuarantineEnds /\ 0 <= FaultWait
  BY FaultWaitTyped DEF WakeInv
<1>4. CASE AlarmFires
  <2>1. UNCHANGED <<env, activated, quarantine, maintenance>>
    BY <1>4 DEF AlarmFires, operatorVars
  <2>2. CASE ~Gate("job-settlement")
    BY <1>2, <1>3, <2>1, <2>2 DEF WakeKept, QuarantineEnds, FaultWait
  <2>3. CASE Gate("job-settlement")
    <3>1. sched'.pc = "settle"
      BY <1>4, <2>3 DEF AlarmFires, Asleep
    <3> QED BY <2>1, <3>1, PassKeepsWake
  <2> QED BY <2>2, <2>3
<1>5. CASE PassHeld
  BY <1>2, <1>3, <1>5 DEF PassHeld, WakeKept, QuarantineEnds, FaultWait, operatorVars
<1>6. CASE QueueSend
  <2>1. sched'.pc \in {"settle", "record"}
    BY <1>1, <1>6 DEF QueueSend, Pass
  <2>2. UNCHANGED <<env, activated, quarantine>>
    BY <1>6 DEF QueueSend, operatorVars
  <2> QED BY <2>1, <2>2, PassKeepsWake
<1>7. CASE RecordSent
  <2>1. sched'.pc = "settle"
    BY <1>1, <1>7 DEF RecordSent, Pass
  <2>2. UNCHANGED <<env, activated, quarantine>>
    BY <1>7 DEF RecordSent, operatorVars
  <2> QED BY <2>1, <2>2, PassKeepsWake
<1>8. CASE PassThrows
  <2>1. alarm' = FailureRetry /\ FailureRetry <= FaultWait /\ FailureRetry \in Nat
    BY <1>8, ConstantsAssumption, LargerIs DEF PassThrows, FaultWait
  <2>2. ASSUME NEW k \in JobId, job'[k].due # None
        PROVE  alarm' <= Larger(job'[k].due, FaultWait)
    <3>1. job'[k].due \in Nat
      BY <2>2 DEF TypeOK, Ticks, JobRow
    <3>2. /\ FaultWait <= Larger(job'[k].due, FaultWait) /\ FaultWait \in Nat
          /\ Larger(job'[k].due, FaultWait) \in Nat
      BY <3>1, FaultWaitTyped, LargerIs
    <3> QED BY <2>1, <3>2
  <2>3. Armed'
    BY <2>1, <2>2, ConstantsAssumption DEF Armed, FaultWait
  <2> QED BY <1>3, <1>8, <2>3 DEF PassThrows, WakeKept, QuarantineEnds, FaultWait, operatorVars
<1>9. CASE ObjectRestarts
  <2>1. /\ UNCHANGED <<job, env, activated, maintenance>>
        /\ QuarantineEnds'
    BY <1>3, <1>9 DEF ObjectRestarts, Forget, QuarantineEnds, FaultWait, jobVars, operatorVars
  <2>2. CASE sched = Asleep
    <3>1. alarm' = alarm
      BY <1>9, <2>2 DEF ObjectRestarts, Forget
    <3>2. Armed => Armed'
      BY <2>1, <3>1 DEF Armed, FaultWait
    <3> QED BY <2>1, <2>2, <3>2 DEF WakeInv, WakeKept
  <2>3. CASE sched # Asleep
    <3>1. alarm' = 0
      BY <1>9, <2>3 DEF ObjectRestarts, Forget
    <3>2. ASSUME NEW k \in JobId, job'[k].due # None
          PROVE  0 <= Larger(job'[k].due, FaultWait)
      <4>1. job'[k].due \in Nat
        BY <3>2 DEF TypeOK, Ticks, JobRow
      <4> QED BY SMTT(60), <4>1, FaultWaitTyped, LargerIs
    <3>3. Armed'
      BY <3>1, <3>2, ConstantsAssumption DEF Armed, FaultWait
    <3> QED BY <2>1, <3>3 DEF WakeKept
  <2> QED BY <2>2, <2>3
<1>10. ASSUME NEW k \in JobId, SettleDueJob(k) \/ ReserveDispatch(k) \/ QuarantineRow(k)
       PROVE  WakeKept
  <2>1. sched'.pc \in {"settle", "send"} /\ UNCHANGED <<env, activated>>
    BY <1>1, <1>10 DEF SettleDueJob, ReserveDispatch, QuarantineRow, Handled, Pass, operatorVars
  <2>2. CASE quarantine' = [quarantine EXCEPT ![k] = 0]
    BY <1>1, <1>3, <2>1, <2>2, PassKeepsWake DEF TypeOK
  <2>3. CASE QuarantineRow(k)
    <3>1. Verdict(k) # "corrupt"
      BY DEF WakeInv, Inv, OnlyCurrentIsActive, IsCurrent, Verdict
    <3>2. {FailureRetry, QuarantineMax} \subseteq Nat
      BY ConstantsAssumption
    <3>3. \A wait \in {FailureRetry, QuarantineMax} : wait <= FaultWait
      BY <2>3, <3>1, <3>2, LargerIs DEF QuarantineRow, FaultWait
    <3>4. PICK wait \in {FailureRetry, QuarantineMax} : quarantine' = [quarantine EXCEPT ![k] = wait]
      BY <2>3 DEF QuarantineRow
    <3> QED BY <1>1, <2>1, <3>3, <3>4, PassKeepsWake DEF TypeOK
  <2> QED BY <1>10, <2>2, <2>3 DEF SettleDueJob, ReserveDispatch, Handled
<1> QED BY <1>4, <1>5, <1>6, <1>7, <1>8, <1>9, <1>10, FinishPassArms

\* Every step keeps the wake-up, as long as nothing is redeployed.
LEMMA StepWake ==
  ASSUME "deploy" \notin Environment, WakeInv, [Next]_vars
  PROVE  WakeInv'
<1>1. Inv' /\ TypeOK' /\ TypeOK
  BY StepInv DEF WakeInv, Inv
<1>2. ASSUME WakeKept PROVE WakeInv'
  BY <1>1, <1>2 DEF WakeInv, WakeKept, OneDeployment
<1>3. ASSUME WaitsKept, UNCHANGED <<env, activated, quarantine, sched, maintenance>>
      PROVE  WakeInv'
  BY <1>1, <1>2, <1>3, WaitsKeepWake
<1>4. ASSUME UNCHANGED <<job, alarm, env, activated, quarantine, sched, maintenance>>
      PROVE  WakeInv'
  BY <1>3, <1>4, StillWaits
<1>5. CASE UNCHANGED vars
  BY <1>4, <1>5 DEF vars, jobVars, schedVars, operatorVars
<1>6. ASSUME NEW iv \in Interview,
             \/ PersistCompletedInterview(iv) \/ ReadAnalysisStatus(iv) \/ DeleteInterview(iv)
             \/ \E key \in Key, expected \in 0..MaxGeneration :
                  AcceptAnalysisRetry(iv, key, expected)
             \/ \E key \in Key : RetryReceiptExpires(iv, key)
      PROVE  WakeInv'
  <2>1. CASE PersistCompletedInterview(iv)
    <3>1. 1 \in Generation
      BY ConstantsAssumption DEF Generation
    <3>2. WaitsKept
      BY <1>1, <2>1, <3>1, AllocateKeepsWaits DEF PersistCompletedInterview
    <3> QED BY <1>3, <2>1, <3>2 DEF PersistCompletedInterview, schedVars, operatorVars
  <2>2. CASE ReadAnalysisStatus(iv)
    <3>1. WaitsKept
      BY <1>1, <2>2, RestoreKeepsWaits DEF ReadAnalysisStatus, jobVars
    <3> QED BY <1>3, <2>2, <3>1 DEF ReadAnalysisStatus, schedVars, operatorVars
  <2>3. CASE DeleteInterview(iv)
    <3>1. WaitsKept
      BY <1>1, <2>3, DeleteKeepsWaits
    <3> QED BY <1>3, <2>3, <3>1 DEF DeleteInterview, schedVars, operatorVars
  <2>4. ASSUME NEW key \in Key, NEW expected \in 0..MaxGeneration,
               AcceptAnalysisRetry(iv, key, expected)
        PROVE  WakeInv'
    <3>1. CASE RestoreLostWakeUp /\ UNCHANGED job
      <4>1. WaitsKept
        BY <1>1, <3>1, RestoreKeepsWaits
      <4> QED BY <1>3, <2>4, <4>1 DEF AcceptAnalysisRetry, schedVars, operatorVars
    <3>2. CASE expected < MaxGeneration /\ AllocateGeneration(iv, expected + 1)
      <4>1. expected + 1 \in Generation
        BY <3>2, ConstantsAssumption DEF Generation
      <4>2. WaitsKept
        BY <1>1, <3>2, <4>1, AllocateKeepsWaits
      <4> QED BY <1>3, <2>4, <4>2 DEF AcceptAnalysisRetry, schedVars, operatorVars
    <3> QED BY <2>4, <3>1, <3>2 DEF AcceptAnalysisRetry
  <2>5. CASE \E key \in Key : RetryReceiptExpires(iv, key)
    BY <1>4, <2>5 DEF RetryReceiptExpires, jobVars, schedVars, operatorVars
  <2> QED BY <1>6, <2>1, <2>2, <2>3, <2>4, <2>5
<1>7. CASE \/ \E i \in Invocation, m \in queue : DeliverMessage(i, m)
           \/ \E m \in queue : RefuseMessage(m)
           \/ \E i \in Invocation :
                \/ RouteRefused(i) \/ SendProviderRequest(i) \/ RpcLost(i) \/ InvocationFails(i)
                \/ \E outcome \in Outcome : ProviderReturns(i, outcome)
  BY <1>4, <1>7
     DEF DeliverMessage, RefuseMessage, RouteRefused, SendProviderRequest, ProviderReturns,
         RpcLost, InvocationFails, jobVars, schedVars, operatorVars
<1>8. ASSUME NEW i \in Invocation, ClaimReplied(i) \/ StartReplied(i) \/ FinishReplied(i)
      PROVE  WakeInv'
  <2>1. inv[i].msg \in Message
    BY <1>1, <1>8 DEF TypeOK, Carrying, ClaimReplied, StartReplied, FinishReplied
  <2>2. WaitsKept
    BY <1>1, <1>8, <2>1, ClaimKeepsWaits, MarkKeepsWaits, FinishKeepsWaits
       DEF ClaimReplied, StartReplied, FinishReplied
  <2> QED BY <1>3, <1>8, <2>2 DEF ClaimReplied, StartReplied, FinishReplied, schedVars, operatorVars
<1>9. ASSUME NEW r \in late, ExecuteLate(r)
      PROVE  WakeInv'
  <2>1. r.inv \in Invocation /\ r.msg \in Message
    BY <1>1 DEF TypeOK, Request
  <2>2. WaitsKept
    BY <1>1, <1>9, <2>1, ClaimKeepsWaits, MarkKeepsWaits, FinishKeepsWaits DEF ExecuteLate
  <2> QED BY <1>3, <1>9, <2>2 DEF ExecuteLate, schedVars, operatorVars
<1>10. CASE \/ AlarmFires \/ PassHeld \/ QueueSend \/ RecordSent \/ FinishPass
            \/ PassThrows \/ ObjectRestarts
            \/ \E k \in JobId : SettleDueJob(k) \/ ReserveDispatch(k) \/ QuarantineRow(k)
  BY <1>1, <1>2, <1>10, ObjectKeepsWake
<1>11. ASSUME NEW to, NEW classify, TransitionMaintenance(to, classify)
       PROVE  WakeInv'
  BY <1>1, <1>2, <1>11, TransitionKeepsWake
<1>12. \* no epoch to activate and no deployment to make
       /\ ~ActivateRecoveryEpoch
       /\ \A epoch, bound : ~Redeploy(epoch, bound)
  BY DEF ActivateRecoveryEpoch, Redeploy, WakeInv, OneDeployment
<1>13. CASE Tick
  BY <1>1, <1>2, <1>13, TickKeepsWake
<1>14. ASSUME NEW k \in JobId, PrestartCapPasses(k)
       PROVE  WakeInv'
  <2>1. \A x \in JobId : job'[x].due = job[x].due
    BY <1>1, <1>14 DEF PrestartCapPasses, TypeOK, JobRow
  <2>2. WaitsKept
    BY <1>14, <2>1 DEF PrestartCapPasses, WaitsKept, Earlier, WaitKept
  <2> QED BY <1>3, <1>14, <2>2 DEF PrestartCapPasses, schedVars, operatorVars
<1> QED BY <1>5, <1>6, <1>7, <1>8, <1>9, <1>10, <1>11, <1>12, <1>13, <1>14 DEF Next

\* An empty workspace waits for nothing.
LEMMA InitWake == Init => WakeInv
<1> SUFFICES ASSUME Init PROVE WakeInv
  OBVIOUS
<1>1. \A k \in JobId : job[k].due = None /\ quarantine[k] = 0
  BY DEF Init, NoRow
<1>2. OneDeployment /\ Inv
  BY InitInv DEF Init, OneDeployment
<1> QED BY <1>1, <1>2, FaultWaitTyped DEF WakeInv, QuarantineEnds, Armed

\* A workspace that is not redeployed never loses the alarm of a waiting job: no
\* interleaving of claims, replies, retries, deletions, passes cut short by a
\* fault, restarts and maintenance commits a wait without its wake-up (JOB-05,
\* JOB-06).  A deployment that misses the object may consume the alarm unheard;
\* that wait is healed by the next status read, which is TLC's ResumedJobsSettle.
THEOREM WakeUpStaysArmed == "deploy" \notin Environment => (Spec => []WakeUpArmed)
<1> SUFFICES ASSUME "deploy" \notin Environment PROVE Spec => []WakeUpArmed
  OBVIOUS
<1>1. Init => WakeInv
  BY InitWake
<1>2. WakeInv /\ [Next]_vars => WakeInv'
  BY StepWake
<1>3. WakeInv => WakeUpArmed
  <2> SUFFICES ASSUME WakeInv, Gate("job-settlement"), sched = Asleep
               PROVE  Armed
    BY DEF WakeUpArmed, Armed, FaultWait
  <2> QED BY DEF WakeInv, Gate, ALLOWED
<1> QED BY <1>1, <1>2, <1>3, PTL DEF Spec

-----------------------------------------------------------------------------
(* The granted time.  The property is not inductive: that the row of a      *)
(* caller with time left cannot be taken rests on the caller being the      *)
(* job's starter (no unstarted row is its), on an invocation having time    *)
(* only once it started, and on receipts belonging to settled rows.         *)

Granted(i, row, left) ==
  \/ row.state = "started" /\ row.nonce = i /\ row.lease # None /\ row.lease >= left
  \/ row.receipt = i
  \/ row.state = "recovery-required" /\ row.nonce = None
  \/ row.state = "absent"

HasTime(i) == inv[i].pc \in {"send", "calling", "finish"} /\ inv[i].left > 0

\* Whoever has time left started the job, and the job is still its own.
TimeIsGranted ==
  \A i \in Invocation : HasTime(i) =>
    starter[inv[i].msg.job] = i /\ Granted(i, job[inv[i].msg.job], inv[i].left)

\* Before its start marker an invocation has no time.
UnstartedHasNone ==
  \A i \in Invocation : inv[i].pc \in {"idle", "claim", "start"} => inv[i].left = 0

\* Only a settled job has a receipt.
ReceiptIsOfSettled == \A k \in JobId : job[k].state \notin Terminal => job[k].receipt = None

TimeInv == Inv /\ TimeIsGranted /\ UnstartedHasNone /\ ReceiptIsOfSettled

\* What a step may do to a row without taking it from a caller with time left.
Spares(k) ==
  \/ /\ job'[k].state = job[k].state /\ job'[k].nonce = job[k].nonce
     /\ job'[k].receipt = job[k].receipt /\ job'[k].lease = job[k].lease
  \/ job[k].state \in {"pending", "claimed"}
  \/ job[k].state = "absent" /\ starter[k] = None
  \/ job'[k].state = "absent"
  \/ job[k].state = "started" /\ \/ job'[k].state = "recovery-required" /\ job'[k].nonce = None
                                 \/ job'[k].receipt = job[k].nonce
                                 \/ job[k].lease \in {None, 0}

RowsSpare == \A k \in JobId : Spares(k)

\* An invocation keeps its job and its time, or has none.
TimesKept ==
  \A i \in Invocation : HasTime(i)' =>
    HasTime(i) /\ inv'[i].msg = inv[i].msg /\ inv'[i].left = inv[i].left

MarkersKept == \A k \in JobId : starter[k] # None => starter'[k] = starter[k]

\* A row that a step spares stays granted.
LEMMA SparedStaysGranted ==
  ASSUME TimeInv, TypeOK', MarkersKept, NEW i \in Invocation, HasTime(i),
         Spares(inv[i].msg.job)
  PROVE  /\ starter'[inv[i].msg.job] = i
         /\ Granted(i, job'[inv[i].msg.job], inv[i].left)
<1> DEFINE k == inv[i].msg.job
<1>1. k \in JobId /\ inv[i].left \in Nat
  BY DEF TimeInv, Inv, TypeOK, Carrying, HasTime, Message, Consumer
<1>2. starter[k] = i /\ Granted(i, job[k], inv[i].left) /\ i # None
  BY ConstantsAssumption DEF TimeInv, TimeIsGranted
<1>3. starter'[k] = i
  BY <1>1, <1>2 DEF MarkersKept
<1>4. job[k].state \notin {"pending", "claimed"}
  BY <1>1, <1>2 DEF TimeInv, Inv, UnstartedIsFree
<1>5. CASE job[k].state = "started"
  <2>1. /\ job[k].nonce = i /\ job[k].receipt # i
        /\ job[k].lease # None /\ job[k].lease >= inv[i].left
    BY <1>1, <1>2, <1>5 DEF TimeInv, ReceiptIsOfSettled, Terminal, Granted
  <2>2. job[k].lease # 0
    BY <1>1, <2>1 DEF HasTime
  <2> HIDE DEF k
  <2> QED BY <1>2, <1>3, <1>5, <2>1, <2>2 DEF Spares, Granted, k
<1>6. CASE job[k].state # "started"
  BY <1>2, <1>3, <1>4, <1>6 DEF Spares, Granted
<1> QED BY <1>5, <1>6

\* A step that spares the rows, and gives no invocation time it was not granted,
\* keeps the invariant.
LEMMA SparingKeepsTime ==
  ASSUME TimeInv, Inv', RowsSpare, MarkersKept, UnstartedHasNone', ReceiptIsOfSettled',
         \A i \in Invocation : HasTime(i)' =>
           \/ HasTime(i) /\ inv'[i].msg = inv[i].msg /\ inv'[i].left = inv[i].left
           \/ /\ starter'[inv'[i].msg.job] = i
              /\ Granted(i, job'[inv'[i].msg.job], inv'[i].left)
  PROVE  TimeInv'
<1>1. ASSUME NEW i \in Invocation, HasTime(i)'
      PROVE  /\ starter'[inv'[i].msg.job] = i
             /\ Granted(i, job'[inv'[i].msg.job], inv'[i].left)
  <2>1. CASE HasTime(i) /\ inv'[i].msg = inv[i].msg /\ inv'[i].left = inv[i].left
    <3>1. inv[i].msg.job \in JobId
      BY <2>1 DEF TimeInv, Inv, TypeOK, Carrying, HasTime, Message
    <3> QED BY <2>1, <3>1, SparedStaysGranted DEF RowsSpare, Inv
  <2> QED BY <1>1, <2>1
<1>2. TimeIsGranted'
  BY <1>1 DEF TimeIsGranted, Granted
<1> QED BY <1>2 DEF TimeInv

\* When one row changes, the others are spared.
LEMMA OneSpared ==
  ASSUME TimeInv, NEW k \in JobId, \A x \in JobId \ {k} : job'[x] = job[x], Spares(k),
         job'[k].state \notin Terminal => job'[k].receipt = None
  PROVE  RowsSpare /\ ReceiptIsOfSettled'
BY DEF RowsSpare, Spares, TimeInv, ReceiptIsOfSettled

\* A step that leaves the rows alone spares them.
LEMMA StillSpared ==
  ASSUME TimeInv, UNCHANGED job
  PROVE  RowsSpare /\ ReceiptIsOfSettled'
BY DEF RowsSpare, Spares, TimeInv, ReceiptIsOfSettled

\* Settling spares a row nobody started, one whose holder settles it, and one
\* whose lease is over.
LEMMA SettleSpares ==
  ASSUME TimeInv, NEW k \in JobId, NEW to \in Terminal, NEW receipt, SettleJob(k, to, receipt),
         \/ job[k].state \in {"pending", "claimed"}
         \/ job[k].state = "started" /\ (receipt = job[k].nonce \/ job[k].lease \in {None, 0})
  PROVE  RowsSpare /\ ReceiptIsOfSettled'
<1>1. \A x \in JobId \ {k} : job'[x] = job[x]
  BY DEF SettleJob, TimeInv, Inv, TypeOK
<1>2. job'[k].state = to /\ job'[k].receipt = receipt
  <2>1. job[k] \in JobRow /\ job'[k] = Settled(job[k], to, receipt)
    BY DEF SettleJob, TimeInv, Inv, TypeOK
  <2> QED BY <2>1 DEF Settled, JobRow
<1> QED BY <1>1, <1>2, OneSpared DEF Spares

\* claimAnalysisJob touches only an unstarted row.
LEMMA ClaimSpares ==
  ASSUME TimeInv, NEW i \in Invocation, NEW m \in Message, NEW reply,
         ClaimAnalysisJob(i, m, reply)
  PROVE  RowsSpare /\ ReceiptIsOfSettled'
<1> DEFINE k == m.job
<1>1. k \in JobId /\ TypeOK
  BY DEF Message, TimeInv, Inv
<1>2. CASE UNCHANGED job
  BY <1>2, StillSpared
<1>3. CASE job[k].state = "pending" /\ SettleJob(k, "failed", None)
  BY <1>1, <1>3, SettleSpares DEF Terminal
<1>4. CASE /\ job[k].state = "pending"
           /\ job' = [job EXCEPT ![k].state = "claimed", ![k].nonce = i,
                                 ![k].lease = Lease, ![k].due = Lease]
  <2>1. \A x \in JobId \ {k} : job'[x] = job[x]
    BY <1>1, <1>4 DEF TypeOK
  <2>2. job'[k].receipt = job[k].receipt
    BY <1>1, <1>4 DEF TypeOK, JobRow
  <2>3. job[k].receipt = None
    BY <1>1, <1>4 DEF TimeInv, ReceiptIsOfSettled, Terminal
  <2> QED BY <1>1, <1>4, <2>1, <2>2, <2>3, OneSpared DEF Spares
<1> QED BY <1>2, <1>3, <1>4 DEF ClaimAnalysisJob

\* markAnalysisStarted touches only a claimed row; whoever it grants the start
\* holds the job for the whole call and its attachment.
LEMMA MarkSpares ==
  ASSUME TimeInv, NEW i \in Invocation, NEW m \in Message, NEW reply,
         MarkAnalysisStarted(i, m, reply)
  PROVE  /\ RowsSpare /\ ReceiptIsOfSettled'
         /\ reply = "granted" => Granted(i, job'[m.job], Deadline + Margin)
<1> DEFINE k == m.job
<1>1. k \in JobId /\ TypeOK
  BY DEF Message, TimeInv, Inv
<1>2. CASE UNCHANGED job /\ reply = "refused"
  BY <1>2, StillSpared
<1>3. CASE UNCHANGED job /\ HeldBy(job[k], i) /\ Covers(job[k]) /\ job[k].state = "started"
  BY <1>1, <1>3, StillSpared DEF HeldBy, Covers, Granted
<1>4. CASE job[k].state = "claimed" /\ SettleJob(k, "failed", None) /\ reply = "refused"
  BY <1>1, <1>4, SettleSpares DEF Terminal
<1>5. CASE /\ job[k].state = "claimed" /\ HeldBy(job[k], i) /\ Covers(job[k])
           /\ job' = [job EXCEPT ![k].state = "started"]
  <2>1. \A x \in JobId \ {k} : job'[x] = job[x]
    BY <1>1, <1>5 DEF TypeOK
  <2>2. /\ job'[k].state = "started" /\ job'[k].receipt = job[k].receipt
        /\ job'[k].nonce = job[k].nonce /\ job'[k].lease = job[k].lease
    BY <1>1, <1>5 DEF TypeOK, JobRow
  <2>3. job[k].receipt = None
    BY <1>1, <1>5 DEF TimeInv, ReceiptIsOfSettled, Terminal
  <2>4. RowsSpare /\ ReceiptIsOfSettled'
    BY <1>1, <1>5, <2>1, <2>2, <2>3, OneSpared DEF Spares
  <2> QED BY <1>5, <2>2, <2>4 DEF HeldBy, Covers, Granted
<1> QED BY <1>2, <1>3, <1>4, <1>5 DEF MarkAnalysisStarted

\* finishAnalysisJob settles a job only for its holder, with the holder's receipt.
LEMMA FinishSpares ==
  ASSUME TimeInv, NEW i \in Invocation, NEW m \in Message, NEW outcome,
         FinishAnalysisJob(i, m, outcome)
  PROVE  RowsSpare /\ ReceiptIsOfSettled'
<1> DEFINE k == m.job
<1>1. k \in JobId /\ TypeOK
  BY DEF Message, TimeInv, Inv
<1>2. CASE UNCHANGED job
  BY <1>2, StillSpared
<1>3. CASE /\ Finishable(job[k], i, outcome)
           /\ SettleJob(k, "recovery-required", i) \/ SettleJob(k, "failed", i)
  BY <1>1, <1>3, SettleSpares DEF Finishable, Terminal
<1>4. CASE /\ Finishable(job[k], i, outcome)
           /\ job' = [job EXCEPT ![k] = Settled(job[k], "complete", i)]
  <2>1. \A x \in JobId \ {k} : job'[x] = job[x]
    BY <1>1, <1>4 DEF TypeOK
  <2>2. job'[k].state = "complete" /\ job'[k].receipt = i
    BY <1>1, <1>4 DEF TypeOK, JobRow, Settled
  <2>3. Spares(k)
    BY <1>4, <2>2 DEF Spares, Finishable
  <2> QED BY <1>1, <2>1, <2>2, <2>3, OneSpared DEF Terminal
<1> QED BY <1>2, <1>3, <1>4 DEF FinishAnalysisJob

\* A step that keeps state, nonce, receipt and lease of every row spares them.
LEMMA SameSpared ==
  ASSUME TimeInv,
         \A k \in JobId : /\ job'[k].state = job[k].state /\ job'[k].nonce = job[k].nonce
                          /\ job'[k].receipt = job[k].receipt /\ job'[k].lease = job[k].lease
  PROVE  RowsSpare /\ ReceiptIsOfSettled'
BY DEF RowsSpare, Spares, TimeInv, ReceiptIsOfSettled

\* The scheduler settles what was not started, or was started and outlived its lease.
LEMMA SettleDueSpares ==
  ASSUME TimeInv, NEW k \in JobId, SettleDueJob(k)
  PROVE  RowsSpare /\ ReceiptIsOfSettled'
<1>1. TypeOK
  BY DEF TimeInv, Inv
<1>2. CASE job' = IF job[k].state \in Terminal THEN [job EXCEPT ![k].due = None] ELSE job
  BY <1>1, <1>2, SameSpared DEF TypeOK, JobRow
<1>3. CASE /\ Verdict(k) \in {"cancelled", "recovery-required", "failed"}
           /\ SettleJob(k, Verdict(k), None)
  <2>1. job[k].state \in Nonterminal
    <3>1. job[k].state \notin Nonterminal => Verdict(k) = "skip"
      BY DEF Verdict
    <3> QED BY <1>3, <3>1
  <2>2. interview[k[1]] = "live" /\ analysis[k[1]].gen = k[2] /\ job[k].epoch = activated
    BY <2>1 DEF TimeInv, Inv, OnlyCurrentIsActive, IsCurrent, ActiveEpoch
  <2>3. job[k].state = "started" => job[k].lease \in {None, 0}
    BY <1>3, <2>1, <2>2 DEF Verdict
  <2>4. Verdict(k) \in Terminal
    BY <1>3 DEF Terminal
  <2> HIDE DEF SettleJob
  <2> QED BY <1>3, <2>1, <2>3, <2>4, SettleSpares DEF Nonterminal
<1>4. CASE LET due == IF Verdict(k) = "extend" THEN job[k].lease ELSE Watchdog IN
             job' = [job EXCEPT ![k].due = due]
  BY <1>1, <1>4, SameSpared DEF TypeOK, JobRow
<1> QED BY <1>2, <1>3, <1>4 DEF SettleDueJob

\* reserveDispatch takes back only what was not started.
LEMMA ReserveSpares ==
  ASSUME TimeInv, NEW k \in JobId, ReserveDispatch(k)
  PROVE  RowsSpare /\ ReceiptIsOfSettled'
<1>1. TypeOK
  BY DEF TimeInv, Inv
<1>2. job[k].state \in {"pending", "claimed"}
  BY DEF ReserveDispatch, Verdict, Nonterminal
<1>3. job'[k].receipt = job[k].receipt /\ job[k].receipt = None
  BY <1>1, <1>2 DEF ReserveDispatch, TypeOK, JobRow, TimeInv, ReceiptIsOfSettled, Terminal
<1>4. \A x \in JobId \ {k} : job'[x] = job[x]
  BY <1>1 DEF ReserveDispatch, TypeOK
<1> QED BY <1>2, <1>3, <1>4, OneSpared DEF Spares

\* What cleanup, a deletion or nobody does to a row: it goes or stays.
LEMMA GoneOrSpared ==
  ASSUME TimeInv, \A k \in JobId : job'[k] = job[k] \/ job'[k] = NoRow
  PROVE  RowsSpare /\ ReceiptIsOfSettled'
<1>1. NoRow.state = "absent" /\ NoRow.receipt = None
  BY DEF NoRow
<1> QED BY <1>1 DEF RowsSpare, Spares, TimeInv, ReceiptIsOfSettled

\* A new generation takes a row nobody ever started.
LEMMA AllocateSpares ==
  ASSUME TimeInv, NEW iv \in Interview, NEW g \in Generation, AllocateGeneration(iv, g),
         interview[iv] = "absent" \/ (interview[iv] = "live" /\ analysis[iv].gen < g)
  PROVE  RowsSpare /\ ReceiptIsOfSettled'
<1> DEFINE k == <<iv, g>>
<1>1. k \in JobId /\ k[1] = iv /\ k[2] = g
  BY JobIds
<1>2. analysis[iv].gen \in Nat /\ g \in Nat
  BY ConstantsAssumption DEF TimeInv, Inv, TypeOK, AnalysisRow, Generation
<1>3. job[k].state = "absent" /\ starter[k] = None
  BY <1>1, <1>2 DEF TimeInv, Inv, RowsReached, StartersReached
<1>4. \A x \in JobId \ {k} : job'[x] = job[x]
  BY DEF AllocateGeneration, TimeInv, Inv, TypeOK
<1>5. job'[k].receipt = None
  BY <1>1 DEF AllocateGeneration, NoRow, TimeInv, Inv, TypeOK
<1> QED BY <1>1, <1>3, <1>4, <1>5, OneSpared DEF Spares

\* A job given up by the operator has no holder any more.
LEMMA AbandonedIs ==
  ASSUME NEW row \in JobRow
  PROVE  /\ Abandoned(row).state = "recovery-required" /\ Abandoned(row).nonce = None
         /\ Abandoned(row).receipt = None
BY DEF Abandoned, Settled, JobRow

\* A freeze and an activation take started work from its holder, and say so.
LEMMA OperatorSpares ==
  ASSUME TimeInv,
         ActivateRecoveryEpoch \/ \E to, classify : TransitionMaintenance(to, classify)
  PROVE  RowsSpare /\ ReceiptIsOfSettled'
<1>1. \A k \in JobId : job[k] \in JobRow
  BY DEF TimeInv, Inv, TypeOK
<1>2. ASSUME NEW k \in JobId, job[k].state \in Nonterminal, job'[k] = Abandoned(job[k])
      PROVE  Spares(k) /\ (job'[k].state \notin Terminal => job'[k].receipt = None)
  BY <1>1, <1>2, AbandonedIs DEF Spares, Nonterminal
<1>3. ASSUME NEW k \in JobId, job'[k] = job[k]
      PROVE  Spares(k) /\ (job'[k].state \notin Terminal => job'[k].receipt = None)
  BY <1>3 DEF Spares, TimeInv, ReceiptIsOfSettled
<1>4. ASSUME NEW k \in JobId, job[k].state = "claimed",
             job'[k] = [job[k] EXCEPT !.state = "pending", !.nonce = None, !.lease = None,
                                      !.dispatch = "unsent", !.due = 0]
      PROVE  Spares(k) /\ (job'[k].state \notin Terminal => job'[k].receipt = None)
  <2>1. job'[k].receipt = job[k].receipt
    BY <1>1, <1>4 DEF JobRow
  <2>2. job[k].receipt = None
    BY <1>4 DEF TimeInv, ReceiptIsOfSettled, Terminal
  <2> QED BY <1>4, <2>1, <2>2 DEF Spares
<1>5. CASE ActivateRecoveryEpoch
  <2>1. \A k \in JobId : job'[k] = IF job[k].state \in Nonterminal THEN Abandoned(job[k]) ELSE job[k]
    BY <1>5 DEF ActivateRecoveryEpoch
  <2> QED BY <1>2, <1>3, <2>1 DEF RowsSpare, ReceiptIsOfSettled
<1>6. ASSUME NEW to, NEW classify, TransitionMaintenance(to, classify)
      PROVE  RowsSpare /\ ReceiptIsOfSettled'
  <2>1. CASE UNCHANGED job
    BY <2>1, StillSpared
  <2>2. CASE ClassifyInFlight
    <3>1. \A k \in JobId : job'[k] =
            IF k \in Uncertain THEN Abandoned(job[k])
            ELSE IF k \in InFlight
                 THEN [job[k] EXCEPT !.state = "pending", !.nonce = None, !.lease = None,
                                     !.dispatch = "unsent", !.due = 0]
                 ELSE job[k]
      BY <2>2 DEF ClassifyInFlight
    <3>2. ASSUME NEW k \in JobId
          PROVE  /\ k \in Uncertain => job[k].state \in Nonterminal
                 /\ k \in InFlight /\ k \notin Uncertain => job[k].state = "claimed"
      BY DEF Uncertain, InFlight, Nonterminal
    <3> QED BY <1>2, <1>3, <1>4, <3>1, <3>2 DEF RowsSpare, ReceiptIsOfSettled
  <2> QED BY <1>6, <2>1, <2>2 DEF TransitionMaintenance
<1> QED BY <1>5, <1>6

\* Time runs out for a caller no later than for its lease.
LEMMA TickKeepsTime ==
  ASSUME TimeInv, Inv', Tick
  PROVE  TimeInv'
<1>1. TypeOK
  BY DEF TimeInv, Inv
<1>2. ASSUME NEW k \in JobId
      PROVE  /\ job'[k].state = job[k].state /\ job'[k].nonce = job[k].nonce
             /\ job'[k].receipt = job[k].receipt /\ job'[k].lease = Down(job[k].lease)
  <2>1. job[k] \in JobRow /\ job'[k] = [job[k] EXCEPT !.lease = Down(@), !.due = Down(@)]
    BY <1>1, <1>2 DEF Tick, TypeOK
  <2> QED BY <2>1 DEF JobRow
<1>3. ASSUME NEW i \in Invocation
      PROVE  /\ inv'[i].pc = inv[i].pc /\ inv'[i].msg = inv[i].msg
             /\ inv'[i].left = Down(inv[i].left) /\ inv[i].left \in Nat
  <2>1. inv[i] \in Consumer /\ inv'[i] = [inv[i] EXCEPT !.left = Down(@)]
    BY <1>1, <1>3 DEF Tick, TypeOK
  <2> QED BY <2>1 DEF Consumer
<1>4. UnstartedHasNone' /\ ReceiptIsOfSettled'
  BY <1>2, <1>3 DEF TimeInv, UnstartedHasNone, ReceiptIsOfSettled, Down
<1>5. ASSUME NEW i \in Invocation, HasTime(i)'
      PROVE  /\ starter'[inv'[i].msg.job] = i
             /\ Granted(i, job'[inv'[i].msg.job], inv'[i].left)
  <2> DEFINE k == inv[i].msg.job
  <2>1. inv'[i].pc = inv[i].pc /\ inv'[i].left = Down(inv[i].left) /\ inv[i].left \in Nat
    BY <1>3
  <2>2. HasTime(i)
    BY <1>5, <2>1, DownIs DEF HasTime
  <2>3. k \in JobId /\ inv'[i].msg.job = k
    BY <1>1, <1>3, <2>2 DEF TypeOK, Carrying, HasTime, Message
  <2>4. starter[k] = i /\ Granted(i, job[k], inv[i].left)
    BY <2>2 DEF TimeInv, TimeIsGranted
  <2>5. starter' = starter
    BY DEF Tick
  <2>6. job[k].lease # None /\ job[k].lease >= inv[i].left =>
          job'[k].lease # None /\ job'[k].lease >= inv'[i].left
    <3>1. job[k].lease # None => job[k].lease \in Nat
      BY <1>1, <2>3, Times
    <3> QED BY <1>2, <2>1, <2>3, <3>1, DownIs, ConstantsAssumption
  <2> QED BY <1>2, <2>3, <2>4, <2>5, <2>6 DEF Granted
<1>6. TimeIsGranted'
  BY <1>5 DEF TimeIsGranted, Granted
<1> QED BY <1>4, <1>6 DEF TimeInv

\* An invocation that ends has no time.
LEMMA DisposeKeepsTimes ==
  ASSUME TimeInv, NEW i \in Invocation, Dispose(i)
  PROVE  UnstartedHasNone' /\ TimesKept
<1>1. inv'[i] = Idle /\ \A j \in Invocation \ {i} : inv'[j] = inv[j]
  BY DEF Dispose, TimeInv, Inv, TypeOK
<1> QED BY <1>1 DEF Idle, TimeInv, UnstartedHasNone, TimesKept, HasTime

\* An invocation that moves on within its call, or had no time, keeps what it has.
LEMMA MoveKeepsTimes ==
  ASSUME TimeInv, NEW i \in Invocation, \A j \in Invocation \ {i} : inv'[j] = inv[j],
         inv'[i].left = inv[i].left, inv'[i].msg = inv[i].msg,
         \/ inv[i].pc \in {"idle", "claim", "start"}
         \/ /\ inv[i].pc \in {"send", "calling", "finish"}
            /\ inv'[i].pc \in {"send", "calling", "finish"}
  PROVE  UnstartedHasNone' /\ TimesKept
BY DEF TimeInv, UnstartedHasNone, TimesKept, HasTime

\* The messages and requests of invocations, apart from the granted start.
LEMMA ConsumersKeepTimes ==
  ASSUME TimeInv, NEW i \in Invocation,
         \/ \E m \in queue : DeliverMessage(i, m)
         \/ ClaimReplied(i) \/ RouteRefused(i) \/ SendProviderRequest(i)
         \/ (\E outcome \in Outcome : ProviderReturns(i, outcome))
         \/ FinishReplied(i) \/ RpcLost(i) \/ InvocationFails(i)
  PROVE  UnstartedHasNone' /\ TimesKept
<1>1. inv \in [Invocation -> Consumer] /\ inv[i] \in Consumer
  BY DEF TimeInv, Inv, TypeOK
<1>2. CASE Dispose(i)
  BY <1>2, DisposeKeepsTimes
<1>3. ASSUME NEW m \in queue, DeliverMessage(i, m)
      PROVE  UnstartedHasNone' /\ TimesKept
  <2>1. inv'[i].pc = "claim" /\ inv'[i].left = 0 /\ \A j \in Invocation \ {i} : inv'[j] = inv[j]
    BY <1>1, <1>3 DEF DeliverMessage, Idle
  <2> QED BY <2>1 DEF TimeInv, UnstartedHasNone, TimesKept, HasTime
<1>4. CASE /\ inv[i].pc = "claim"
           /\ inv' = [inv EXCEPT ![i].pc = "start", ![i].replay = FALSE]
  <2>1. inv'[i].pc = "start" /\ inv'[i].left = inv[i].left /\ inv'[i].msg = inv[i].msg
    BY <1>1, <1>4 DEF Consumer
  <2> QED BY <1>1, <1>4, <2>1, MoveKeepsTimes
<1>5. CASE RouteRefused(i)
  <2>1. inv'[i].left = inv[i].left /\ inv'[i].msg = inv[i].msg /\ inv[i].pc = "start"
    BY <1>1, <1>5 DEF Consumer, RouteRefused
  <2> QED BY <1>1, <1>5, <2>1, MoveKeepsTimes DEF RouteRefused
<1>6. CASE SendProviderRequest(i)
  <2>1. /\ inv'[i].left = inv[i].left /\ inv'[i].msg = inv[i].msg
        /\ inv[i].pc = "send" /\ inv'[i].pc = "calling"
    BY <1>1, <1>6 DEF Consumer, SendProviderRequest
  <2> QED BY <1>1, <1>6, <2>1, MoveKeepsTimes DEF SendProviderRequest
<1>7. ASSUME NEW outcome \in Outcome, ProviderReturns(i, outcome)
      PROVE  UnstartedHasNone' /\ TimesKept
  <2>1. /\ inv'[i].left = inv[i].left /\ inv'[i].msg = inv[i].msg
        /\ inv[i].pc = "calling" /\ inv'[i].pc = "finish"
    BY <1>1, <1>7 DEF Consumer, ProviderReturns
  <2> QED BY <1>1, <1>7, <2>1, MoveKeepsTimes DEF ProviderReturns
<1>8. CASE inv[i].pc \in {"claim", "start", "finish"} /\ inv' = [inv EXCEPT ![i].replay = TRUE]
  <2>1. inv'[i].left = inv[i].left /\ inv'[i].msg = inv[i].msg /\ inv'[i].pc = inv[i].pc
    BY <1>1, <1>8 DEF Consumer
  <2> QED BY <1>1, <1>8, <2>1, MoveKeepsTimes
<1> QED BY <1>2, <1>3, <1>4, <1>5, <1>6, <1>7, <1>8
        DEF ClaimReplied, FinishReplied, RpcLost, InvocationFails

\* No step replaces a start marker.
LEMMA StepMarkers == ASSUME Inv, [Next]_vars PROVE MarkersKept
<1>1. CASE Quiet
  BY <1>1 DEF Quiet, MarkersKept
<1>2. CASE \E iv \in Interview : (\E g \in Generation : Allocates(iv, g)) \/ Deletes(iv)
  BY <1>2 DEF Allocates, Deletes, MarkersKept
<1>3. CASE \E k \in JobId, i \in Invocation : Starts(k, i) \/ Pays(k, i)
  BY <1>3 DEF Starts, SetsMarker, Pays, MarkersKept, Inv, TypeOK, UnstartedIsFree
<1> QED BY <1>1, <1>2, <1>3, StepClasses

\* A granted start gives its caller the time its lease covers.
LEMMA StartKeepsTime ==
  ASSUME TimeInv, Inv', MarkersKept, NEW i \in Invocation, StartReplied(i)
  PROVE  TimeInv'
<1>1. TypeOK /\ inv[i] \in Consumer /\ inv[i].msg \in Message /\ inv[i].msg.job \in JobId
  BY DEF TimeInv, Inv, TypeOK, Carrying, StartReplied, Message
<1>2. CASE Dispose(i)
  <2>1. RowsSpare /\ ReceiptIsOfSettled'
    BY <1>1, MarkSpares DEF StartReplied
  <2> QED BY <1>2, <2>1, DisposeKeepsTimes, SparingKeepsTime DEF TimesKept
<1>3. CASE /\ MarkAnalysisStarted(i, inv[i].msg, "granted")
           /\ inv' = [inv EXCEPT ![i].pc = "send", ![i].replay = FALSE,
                                 ![i].left = Deadline + Margin]
  <2>1. /\ RowsSpare /\ ReceiptIsOfSettled'
        /\ Granted(i, job'[inv[i].msg.job], Deadline + Margin)
    BY <1>1, <1>3, MarkSpares
  <2>2. /\ inv'[i].pc = "send" /\ inv'[i].msg = inv[i].msg
        /\ inv'[i].left = Deadline + Margin
        /\ \A j \in Invocation \ {i} : inv'[j] = inv[j]
    BY <1>1, <1>3 DEF Consumer, TypeOK
  <2>3. starter'[inv[i].msg.job] = i
    BY <1>1, <1>3, MarkMoves DEF TimeInv
  <2>4. UnstartedHasNone'
    BY <2>2 DEF TimeInv, UnstartedHasNone
  <2> QED BY <2>1, <2>2, <2>3, <2>4, SparingKeepsTime DEF HasTime
<1> QED BY <1>2, <1>3 DEF StartReplied

\* Every step keeps the granted time.
LEMMA StepTime == ASSUME TimeInv, [Next]_vars PROVE TimeInv'
<1>1. Inv' /\ MarkersKept /\ TypeOK
  BY StepInv, StepMarkers DEF TimeInv, Inv
<1>2. ASSUME RowsSpare, ReceiptIsOfSettled', UnstartedHasNone', TimesKept
      PROVE  TimeInv'
  BY <1>1, <1>2, SparingKeepsTime DEF TimesKept
<1>3. ASSUME RowsSpare, ReceiptIsOfSettled', UNCHANGED inv
      PROVE  TimeInv'
  BY <1>2, <1>3 DEF TimeInv, UnstartedHasNone, TimesKept, HasTime
<1>4. ASSUME UNCHANGED <<job, inv>>
      PROVE  TimeInv'
  BY <1>3, <1>4, StillSpared
<1>5. CASE UNCHANGED vars
  BY <1>4, <1>5 DEF vars, jobVars, consumerVars
<1>6. ASSUME NEW iv \in Interview, PersistCompletedInterview(iv)
      PROVE  TimeInv'
  <2>1. 1 \in Generation
    BY ConstantsAssumption DEF Generation
  <2>2. RowsSpare /\ ReceiptIsOfSettled'
    BY <1>6, <2>1, AllocateSpares DEF PersistCompletedInterview
  <2> QED BY <1>3, <1>6, <2>2 DEF PersistCompletedInterview, consumerVars
<1>7. ASSUME NEW iv \in Interview,
             \/ ReadAnalysisStatus(iv)
             \/ \E key \in Key : RetryReceiptExpires(iv, key)
      PROVE  TimeInv'
  BY <1>4, <1>7 DEF ReadAnalysisStatus, RetryReceiptExpires, jobVars, consumerVars
<1>8. ASSUME NEW iv \in Interview, DeleteInterview(iv)
      PROVE  TimeInv'
  <2>1. RowsSpare /\ ReceiptIsOfSettled'
    BY <1>8, GoneOrSpared DEF DeleteInterview, TimeInv
  <2> QED BY <1>3, <1>8, <2>1 DEF DeleteInterview, consumerVars
<1>9. ASSUME NEW iv \in Interview, NEW key \in Key, NEW expected \in 0..MaxGeneration,
             AcceptAnalysisRetry(iv, key, expected)
      PROVE  TimeInv'
  <2>1. CASE UNCHANGED job
    BY <1>4, <1>9, <2>1 DEF AcceptAnalysisRetry, consumerVars
  <2>2. CASE /\ expected = analysis[iv].gen /\ expected < MaxGeneration
             /\ AllocateGeneration(iv, expected + 1)
    <3>0. expected \in Nat /\ expected + 1 \in Generation
      BY SMTT(60), <2>2, ConstantsAssumption DEF Generation
    <3>1. analysis[iv].gen < expected + 1
      BY <2>2, <3>0
    <3>2. RowsSpare /\ ReceiptIsOfSettled'
      BY <1>9, <2>2, <3>0, <3>1, AllocateSpares DEF AcceptAnalysisRetry
    <3> QED BY <1>3, <1>9, <3>2 DEF AcceptAnalysisRetry, consumerVars
  <2> QED BY <1>9, <2>1, <2>2 DEF AcceptAnalysisRetry
<1>10. ASSUME NEW i \in Invocation,
              \/ \E m \in queue : DeliverMessage(i, m)
              \/ RouteRefused(i) \/ SendProviderRequest(i)
              \/ (\E outcome \in Outcome : ProviderReturns(i, outcome))
              \/ RpcLost(i) \/ InvocationFails(i)
       PROVE  TimeInv'
  <2>1. UNCHANGED job
    BY <1>10 DEF DeliverMessage, RouteRefused, SendProviderRequest, ProviderReturns, RpcLost,
                 InvocationFails, jobVars
  <2>2. UnstartedHasNone' /\ TimesKept
    BY <1>1, <1>10, ConsumersKeepTimes
  <2> QED BY <1>1, <1>2, <2>1, <2>2, StillSpared
<1>11. ASSUME NEW i \in Invocation, ClaimReplied(i) \/ FinishReplied(i)
       PROVE  TimeInv'
  <2>1. inv[i].msg \in Message
    BY <1>1, <1>11 DEF TypeOK, Carrying, ClaimReplied, FinishReplied
  <2>2. RowsSpare /\ ReceiptIsOfSettled'
    BY <1>11, <2>1, ClaimSpares, FinishSpares DEF ClaimReplied, FinishReplied
  <2>3. UnstartedHasNone' /\ TimesKept
    BY <1>11, ConsumersKeepTimes
  <2> QED BY <1>2, <2>2, <2>3
<1>12. ASSUME NEW r \in late, ExecuteLate(r)
       PROVE  TimeInv'
  <2>1. r.inv \in Invocation /\ r.msg \in Message
    BY <1>1 DEF TypeOK, Request
  <2>2. RowsSpare /\ ReceiptIsOfSettled'
    BY <1>12, <2>1, ClaimSpares, MarkSpares, FinishSpares DEF ExecuteLate
  <2> QED BY <1>3, <1>12, <2>2 DEF ExecuteLate
<1>13. CASE \/ \E m \in queue : RefuseMessage(m)
            \/ AlarmFires \/ PassHeld \/ QueueSend \/ PassThrows \/ ObjectRestarts
            \/ \E k \in JobId : QuarantineRow(k)
            \/ \E epoch \in Epoch, bound \in BOOLEAN : Redeploy(epoch, bound)
  BY <1>4, <1>13
     DEF RefuseMessage, AlarmFires, PassHeld, QueueSend, PassThrows, ObjectRestarts,
         QuarantineRow, Redeploy, jobVars, consumerVars
<1>14. ASSUME NEW k \in JobId, SettleDueJob(k) \/ ReserveDispatch(k)
       PROVE  TimeInv'
  <2>1. RowsSpare /\ ReceiptIsOfSettled'
    BY <1>14, SettleDueSpares, ReserveSpares
  <2> QED BY <1>3, <1>14, <2>1 DEF SettleDueJob, ReserveDispatch, consumerVars
<1>15. CASE RecordSent
  <2>1. RowsSpare /\ ReceiptIsOfSettled'
    BY <1>1, <1>15, SameSpared DEF RecordSent, TypeOK, JobRow
  <2> QED BY <1>3, <1>15, <2>1 DEF RecordSent, consumerVars
<1>16. CASE FinishPass
  <2>1. \A k \in JobId : job'[k] = job[k] \/ job'[k] = NoRow
    BY <1>16 DEF FinishPass
  <2>2. RowsSpare /\ ReceiptIsOfSettled'
    BY <2>1, GoneOrSpared
  <2> QED BY <1>3, <1>16, <2>2 DEF FinishPass, consumerVars
<1>17. CASE ActivateRecoveryEpoch \/ \E to, classify : TransitionMaintenance(to, classify)
  <2>1. RowsSpare /\ ReceiptIsOfSettled'
    BY <1>17, OperatorSpares
  <2> QED BY <1>3, <1>17, <2>1 DEF ActivateRecoveryEpoch, TransitionMaintenance, consumerVars
<1>18. ASSUME NEW k \in JobId, PrestartCapPasses(k)
       PROVE  TimeInv'
  <2>1. RowsSpare /\ ReceiptIsOfSettled'
    BY <1>1, <1>18, SameSpared DEF PrestartCapPasses, TypeOK, JobRow
  <2> QED BY <1>3, <1>18, <2>1 DEF PrestartCapPasses, consumerVars
<1> QED BY <1>1, <1>5, <1>6, <1>7, <1>8, <1>9, <1>10, <1>11, <1>12, <1>13, <1>14, <1>15,
           <1>16, <1>17, <1>18, StartKeepsTime, TickKeepsTime DEF Next

\* Nobody has time before the first message.
LEMMA InitTime == Init => TimeInv
<1> SUFFICES ASSUME Init PROVE TimeInv
  OBVIOUS
<1>1. \A i \in Invocation : inv[i].pc = "idle" /\ inv[i].left = 0
  BY DEF Init, Idle
<1>2. \A k \in JobId : job[k].receipt = None
  BY DEF Init, NoRow
<1> QED BY <1>1, <1>2, InitInv
        DEF TimeInv, TimeIsGranted, HasTime, UnstartedHasNone, ReceiptIsOfSettled

\* Whoever was granted a start keeps its job for the whole provider call and the
\* attachment of its result, whatever watchdog, redelivered message, replayed or
\* late request the other parties run meanwhile; only an operator who reports the
\* job as uncertain, or a deletion, takes it away (JOB-07, JOB-08).
THEOREM TimeIsKept == Spec => []GrantedTimeIsKept
<1>1. Init => TimeInv
  BY InitTime
<1>2. TimeInv /\ [Next]_vars => TimeInv'
  BY StepTime
<1>3. TimeInv => GrantedTimeIsKept
  BY DEF TimeInv, TimeIsGranted, HasTime, Granted, GrantedTimeIsKept
<1> QED BY <1>1, <1>2, <1>3, PTL DEF Spec

=============================================================================
