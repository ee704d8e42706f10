---------------------------- MODULE AnalysisJobs ----------------------------
(***************************************************************************)
(* Durable analysis jobs of one workspace.                                 *)
(*                                                                         *)
(* The WorkspaceStore object keeps the tables `analysis_jobs', `analysis'  *)
(* and the retry receipts, and owns ONE alarm.  Its scheduler dispatches   *)
(* due jobs to a queue; queue consumers claim a job, mark it started, pay  *)
(* for one provider call and write the outcome back, each step a separate  *)
(* RPC that may be lost, replayed or executed late.  A researcher retries  *)
(* failed generations and deletes interviews; an operator drains, freezes, *)
(* and activates a rotated recovery epoch.                                 *)
(*                                                                         *)
(* Time is kept as countdowns in ticks (leases, due times, the alarm), so  *)
(* an expired timer is 0 and nothing grows.  The object handles one        *)
(* storage transaction at a time (input gates), so every transaction of    *)
(* the code is one action here; a step that awaits I/O other than storage  *)
(* is split at the await.                                                  *)
(***************************************************************************)
EXTENDS Naturals, FiniteSets

CONSTANTS
  Interview,        \* interview ids
  Invocation,       \* consumer invocations; each one IS its fresh claimNonce
  Key,              \* raw Idempotency-Keys of the researcher's retries
  MaxGeneration,    \* bound: generations allocated per interview
  MaxEpoch,         \* bound: recovery epochs, numbered 1 .. MaxEpoch
  Lease,            \* ANALYSIS_CLAIM_LEASE_MS, in ticks
  Deadline,         \* QUEUED_SYNTHESIS_DEADLINE_MS
  Margin,           \* ANALYSIS_ATTACH_MARGIN_MS
  MaxDispatch,      \* ANALYSIS_MAX_DISPATCH_ATTEMPTS
  Backoff,          \* dispatchBackoffMs, as a function of the attempt
  Watchdog,         \* ANALYSIS_WATCHDOG_AFTER_SEND_MS
  FailureRetry,     \* ANALYSIS_ALARM_FAILURE_RETRY_MS, also the first quarantine
  QuarantineMax,    \* QUARANTINE_MAX_MS
  HeldRetry,        \* HELD_ALARM_RETRY_MS
  CleanupInterval,  \* CLEANUP_INTERVAL_MS
  Batch,            \* ANALYSIS_ALARM_BATCH
  MaxLate,          \* bound: RPC requests still to execute after their caller gave up
  Environment,      \* which environment events a configuration explores
  None              \* null

Events == {"lost", "storage", "restart", "operator", "deploy", "retry", "delete"}

ASSUME ConstantsAssumption ==
  /\ {MaxGeneration, MaxEpoch, Lease, Deadline, Margin, MaxDispatch, Watchdog,
      FailureRetry, QuarantineMax, HeldRetry, CleanupInterval, Batch} \subseteq Nat \ {0}
  /\ MaxLate \in Nat
  /\ Backoff \in [1..MaxDispatch -> Nat \ {0}]
  /\ Environment \subseteq Events
  /\ None \notin Nat /\ None \notin Invocation

ASSUME LeaseCoversCall == Deadline + Margin <= Lease

Generation == 1..MaxGeneration
Epoch      == 1..MaxEpoch
JobId      == Interview \X Generation   \* UNIQUE (interview_id, generation)
Message    == [job : JobId, epoch : Epoch]

Nonterminal == {"pending", "claimed", "started"}
Terminal    == {"complete", "failed", "recovery-required", "cancelled"}
Outcome     == {"complete", "failed", "uncertain"}   \* what a consumer reports

VARIABLES
  job,         \* analysis_jobs: one row per JobId, state "absent" when there is no row
  analysis,    \* analysis: the public projection of each interview
  interview,   \* interviews: "absent", "live" or "deleted" (fenced)
  receipts,    \* idempotency_receipts of family analysis-retry, None when absent or expired
  contact,     \* sent jobs whose row is older than the last consumer contact
  alarm,       \* the object's single alarm: ticks left, or None
  sched,       \* the alarm handler in progress (memory of the object)
  quarantine,  \* ticks a failing due row is still skipped (memory of the object)
  queue,       \* envelopes in the queue
  inv,         \* consumer invocations in progress
  late,        \* requests whose caller gave up and that the object may still execute
  maintenance, \* workspace_meta.maintenance_state
  activated,   \* workspace_meta.activated_epoch
  superseded,  \* epochs an activation replaced (operator_audit)
  env,         \* the deployment: configured epoch, and whether WORKSPACE_ID names this object
  \* history, read by no action
  starter,     \* the nonce that set a job's start marker
  calls        \* the invocations that sent a provider request for a job

jobVars      == <<job, analysis, contact, starter>>
storeVars    == <<interview, receipts>>
schedVars    == <<sched, quarantine>>
consumerVars == <<queue, inv, late, calls>>
operatorVars == <<maintenance, activated, superseded, env>>
vars == <<jobVars, storeVars, alarm, schedVars, consumerVars, operatorVars>>

-----------------------------------------------------------------------------
(* Rows and small helpers.                                                 *)

NoRow == [state |-> "absent", nonce |-> None, lease |-> None, due |-> None,
          dispatch |-> "none", attempts |-> 0, aged |-> FALSE,
          receipt |-> None, epoch |-> 1]

NoAnalysis == [status |-> "absent", gen |-> 0, recovery |-> FALSE, result |-> None]

Idle  == [pc |-> "idle", replay |-> FALSE, msg |-> None, left |-> 0, outcome |-> None]
Asleep == [pc |-> "idle", todo |-> {}, more |-> FALSE, msg |-> None, attempt |-> 0]

Smaller(a, b) == IF a <= b THEN a ELSE b
Larger(a, b)  == IF a >= b THEN a ELSE b

\* armAlarmNoLaterThan: the value of the alarm after the call.
ArmNoLaterThan(at) == IF alarm = None THEN at ELSE Smaller(at, alarm)

Down(t) == IF t = None \/ t = 0 THEN t ELSE t - 1

Current(iv)   == <<iv, analysis[iv].gen>>
ActiveInFlight(iv) ==   \* mutant: an undispatched generation does not count
  \E g \in Generation : job[<<iv, g>>].state \in {"claimed", "started"}

Active(iv)    == \E g \in Generation : job[<<iv, g>>].state \in Nonterminal
IsCurrent(k)  == /\ job[k].state # "absent"
                 /\ interview[k[1]] = "live"
                 /\ analysis[k[1]].gen = k[2]
Waiting       == {k \in JobId : job[k].due # None}
DueJobs       == {k \in JobId : job[k].due = 0}

-----------------------------------------------------------------------------
(* The gate every RPC, alarm and dispatch passes.                          *)

ALLOWED(operation) ==
  CASE operation = "read" -> {"open", "draining", "frozen", "recovery"}
    [] operation \in {"participant-entry", "researcher-mutation"} -> {"open"}
    [] operation \in {"participant-session", "researcher-ai", "job-settlement"} ->
         {"open", "draining"}

GateWithoutEpoch(operation) ==   \* mutant: the configured epoch is not compared
  env.bound /\ maintenance \in ALLOWED(operation)

Gate(operation) ==
  /\ env.bound
  /\ operation # "read" => env.epoch = activated
  /\ maintenance \in ALLOWED(operation)

MessageEpochOnly(m) == m.epoch = activated   \* mutant: maintenance is not checked

SettlementGate(m) == Gate("job-settlement") /\ m.epoch = activated

-----------------------------------------------------------------------------
(* Settling rows.  A settled job keeps its claim nonce but nothing reads   *)
(* its lease again, so the lease is dropped.                               *)

Settled(row, to, receipt) ==
  [row EXCEPT !.state = to, !.receipt = receipt, !.lease = None, !.due = None,
              !.dispatch = "none"]

ProjectFailedSilently(S, to) ==   \* mutant: uncertainty is not shown
  [iv \in Interview |->
     IF Current(iv) \in S THEN [analysis[iv] EXCEPT !.status = "failed"] ELSE analysis[iv]]

\* settleJob's projection of the jobs S onto the interviews they are current for.
ProjectFailed(S, to) ==
  [iv \in Interview |->
     IF Current(iv) \in S
     THEN [analysis[iv] EXCEPT !.status = "failed", !.recovery = (to = "recovery-required")]
     ELSE analysis[iv]]

SettleJob(k, to, receipt) ==
  /\ job' = [job EXCEPT ![k] = Settled(job[k], to, receipt)]
  /\ analysis' = ProjectFailed({k}, to)

\* recordConsumerContact: later than every row this step leaves untouched.
RecordConsumerContact ==
  contact' = {k \in JobId : job'[k].state = "pending" /\ job'[k].dispatch = "sent"}

-----------------------------------------------------------------------------
(* Allocation: completion of an interview, and the researcher's retry.     *)

ProjectedNext(iv, g) ==   \* mutant: the projection runs ahead of the row
  [analysis EXCEPT ![iv].status = "pending", ![iv].gen = g + 1, ![iv].recovery = FALSE]

Projected(iv, g) ==
  [analysis EXCEPT ![iv].status = "pending", ![iv].gen = g, ![iv].recovery = FALSE]

\* allocateGeneration, with the alarm armed for now in the same transaction.
AllocateGeneration(iv, g) ==
  /\ job' = [job EXCEPT ![<<iv, g>>] =
               [NoRow EXCEPT !.state = "pending", !.due = 0, !.dispatch = "unsent",
                             !.epoch = activated]]
  /\ analysis' = Projected(iv, g)
  /\ alarm' = ArmNoLaterThan(0)

\* persistCompletedInterview: the interview, its analysis row, generation 1
\* and the wake-up are one transaction.  A repeated save finds the row and
\* changes nothing; a deleted interview is fenced.
PersistCompletedInterview(iv) ==
  /\ Gate("participant-session")
  /\ interview[iv] = "absent"
  /\ interview' = [interview EXCEPT ![iv] = "live"]
  /\ AllocateGeneration(iv, 1)
  /\ UNCHANGED <<contact, starter, receipts, schedVars, consumerVars, operatorVars>>

NoRestore == UNCHANGED alarm   \* mutant: lost wake-ups are not looked for

\* restoreLostWakeUp, called where a nonterminal job was found.
RestoreLostWakeUp ==
  IF Gate("job-settlement") /\ alarm = None /\ Waiting # {}
  THEN \E k \in Waiting : /\ \A other \in Waiting : job[k].due <= job[other].due
                          /\ alarm' = job[k].due
  ELSE UNCHANGED alarm

\* acceptAnalysisRetry with a new Idempotency-Key and the generation `expected'
\* the researcher saw.  The replies that change nothing (receipt replay,
\* key-conflict, already-complete, state-changed, disclosure and budget
\* refusals) are stuttering steps.
AcceptAnalysisRetry(iv, key, expected) ==
  /\ "retry" \in Environment
  /\ Gate("researcher-mutation")
  /\ interview[iv] = "live"
  /\ receipts[<<iv, key>>] = None
  /\ analysis[iv].status # "complete"
  /\ \/ \* an active generation is returned as it is
        /\ Active(iv)
        /\ receipts' = [receipts EXCEPT ![<<iv, key>>] =
                          [expected |-> expected, gen |-> analysis[iv].gen]]
        /\ RestoreLostWakeUp
        /\ UNCHANGED <<job, analysis>>
     \/ \* only the generation after the expected one is allocated
        /\ ~Active(iv)
        /\ expected = analysis[iv].gen
        /\ expected < MaxGeneration
        /\ AllocateGeneration(iv, expected + 1)
        /\ receipts' = [receipts EXCEPT ![<<iv, key>>] =
                          [expected |-> expected, gen |-> expected + 1]]
  /\ UNCHANGED <<contact, starter, interview, schedVars, consumerVars, operatorVars>>

\* ANALYSIS_RETRY_RECEIPT_TTL_MS passes: the receipt is ignored from then on.
RetryReceiptExpires(iv, key) ==
  /\ "retry" \in Environment
  /\ receipts[<<iv, key>>] # None
  /\ receipts' = [receipts EXCEPT ![<<iv, key>>] = None]
  /\ UNCHANGED <<jobVars, interview, alarm, schedVars, consumerVars, operatorVars>>

\* readAnalysisStatus: a read that also heals a lost wake-up.
ReadAnalysisStatus(iv) ==
  /\ Gate("read")
  /\ interview[iv] = "live"
  /\ Active(iv)
  /\ RestoreLostWakeUp
  /\ UNCHANGED <<jobVars, storeVars, schedVars, consumerVars, operatorVars>>

\* deleteStudy / clearSampleWorkspace for one interview: rows and projection go
\* in one transaction, the fence stays, cleanup keeps an alarm.
DeleteInterview(iv) ==
  /\ "delete" \in Environment
  /\ Gate("researcher-mutation")
  /\ interview[iv] = "live"
  /\ interview' = [interview EXCEPT ![iv] = "deleted"]
  /\ job' = [k \in JobId |-> IF k[1] = iv THEN NoRow ELSE job[k]]
  /\ analysis' = [analysis EXCEPT ![iv] = NoAnalysis]
  /\ receipts' = [r \in Interview \X Key |-> IF r[1] = iv THEN None ELSE receipts[r]]
  /\ contact' = {k \in contact : k[1] # iv}
  /\ alarm' = ArmNoLaterThan(CleanupInterval)
  /\ UNCHANGED <<starter, schedVars, consumerVars, operatorVars>>

-----------------------------------------------------------------------------
(* The consumer RPCs.  `reply' is what the caller learns.                  *)

\* pastPrestartCap
PastCapUnlessSent(row) == row.aged /\ row.dispatch # "sent"   \* mutant: deferral comes first

PastPrestartCap(row) == row.aged

HeldByAnyone(row, i) ==   \* mutant: nonce ignored
  row.state \in {"claimed", "started"} /\ row.lease # None

\* currentJob: the row the fence names is the current generation of a live
\* interview and was allocated in the fence's epoch.
CurrentJob(m) == IsCurrent(m.job) /\ job[m.job].epoch = m.epoch

\* The row is claimed or started under the caller's nonce.
HeldBy(row, i) == row.state \in {"claimed", "started"} /\ row.nonce = i /\ row.lease # None

CoversCallOnly(row) == row.lease >= Deadline   \* mutant: no margin to attach

\* The lease leaves room for a whole provider call and for attaching its result.
Covers(row) == row.lease >= Deadline + Margin

\* claimAnalysisJob
ClaimAnalysisJob(i, m, reply) ==
  LET k == m.job  row == job[m.job] IN
  \/ /\ ~SettlementGate(m)
     /\ reply = "refused"
     /\ UNCHANGED <<job, analysis, contact, alarm>>
  \/ /\ SettlementGate(m)
     /\ \/ \* not-found, cancelled, stale, terminal, busy
           /\ ~CurrentJob(m) \/ row.state \in Terminal \/ row.state = "started"
                \/ (row.state = "claimed" /\ row.nonce # i)
           /\ reply = "refused"
           /\ UNCHANGED <<job, analysis, alarm>>
        \/ \* the owner of the claim recovers its lost reply
           /\ CurrentJob(m) /\ row.state = "claimed" /\ row.nonce = i
           /\ reply = "granted"
           /\ UNCHANGED <<job, analysis, alarm>>
        \/ \* a late delivery cannot bypass the pre-start cap
           /\ CurrentJob(m) /\ row.state = "pending" /\ PastPrestartCap(row)
           /\ reply = "refused"
           /\ SettleJob(k, "failed", None)
           /\ UNCHANGED alarm
        \/ /\ CurrentJob(m) /\ row.state = "pending" /\ ~PastPrestartCap(row)
           /\ reply = "granted"
           /\ job' = [job EXCEPT ![k].state = "claimed", ![k].nonce = i,
                                 ![k].lease = Lease, ![k].due = Lease]
           /\ analysis' = [analysis EXCEPT ![k[1]].status = "running"]
           /\ alarm' = ArmNoLaterThan(Lease)
     /\ RecordConsumerContact

\* markAnalysisStarted: the lease must still cover the deadline and the margin,
\* also when the reply is replayed.
MarkAnalysisStarted(i, m, reply) ==
  LET k == m.job  row == job[m.job] IN
  \/ /\ ~SettlementGate(m)
     /\ reply = "refused"
     /\ UNCHANGED <<job, analysis, contact, alarm, starter>>
  \/ /\ SettlementGate(m)
     /\ LET owned == CurrentJob(m) /\ HeldBy(row, i) /\ Covers(row) IN
        \/ \* stale, lease-insufficient
           /\ ~owned
           /\ reply = "refused"
           /\ UNCHANGED <<job, analysis, alarm, starter>>
        \/ \* the owner of the start marker recovers its lost reply
           /\ owned /\ row.state = "started"
           /\ reply = "granted"
           /\ UNCHANGED <<job, analysis, alarm, starter>>
        \/ /\ owned /\ row.state = "claimed" /\ PastPrestartCap(row)
           /\ reply = "refused"
           /\ SettleJob(k, "failed", None)
           /\ UNCHANGED <<alarm, starter>>
        \/ /\ owned /\ row.state = "claimed" /\ ~PastPrestartCap(row)
           /\ reply = "granted"
           /\ job' = [job EXCEPT ![k].state = "started"]
           /\ starter' = [starter EXCEPT ![k] = i]
           /\ alarm' = ArmNoLaterThan(row.lease)
           /\ UNCHANGED analysis
     /\ RecordConsumerContact

FinishableByAnyone(row, i, outcome) ==   \* mutant: nonce ignored
  /\ row.state \in IF outcome = "failed" THEN {"claimed", "started"} ELSE {"started"}
  /\ row.lease # None /\ row.lease > 0

\* Only a known failure may settle a claim that was never started.
Finishable(row, i, outcome) ==
  /\ row.state \in IF outcome = "failed" THEN {"claimed", "started"} ELSE {"started"}
  /\ row.nonce = i
  /\ row.lease # None /\ row.lease > 0

\* finishAnalysisJob: every reply is acknowledged, so only the writes matter.
FinishAnalysisJob(i, m, outcome) ==
  LET k == m.job  row == job[m.job]
      writes == CurrentJob(m) /\ Finishable(row, i, outcome)
  IN
  \/ /\ ~SettlementGate(m)
     /\ UNCHANGED <<job, analysis, contact>>
  \/ /\ SettlementGate(m)
     /\ \/ \* stale, lease-expired, or the replay of a committed receipt
           /\ ~writes
           /\ UNCHANGED <<job, analysis>>
        \/ /\ writes /\ outcome = "uncertain"
           /\ SettleJob(k, "recovery-required", i)
        \/ \* a known failure, or a result that prepareComplete refuses
           /\ writes /\ outcome \in {"failed", "complete"}
           /\ SettleJob(k, "failed", i)
        \/ /\ writes /\ outcome = "complete"
           /\ job' = [job EXCEPT ![k] = Settled(row, "complete", i)]
           /\ analysis' = [analysis EXCEPT ![k[1]].status = "complete",
                                           ![k[1]].recovery = FALSE,
                                           ![k[1]].result = <<k[2], i>>]
     /\ RecordConsumerContact

-----------------------------------------------------------------------------
(* Queue and consumer.  The queue is at-least-once: an acknowledged        *)
(* envelope may be delivered again, and one whose retries are used up      *)
(* leaves for the dead-letter queue, so after any disposition the envelope *)
(* may be gone or still there.                                             *)

Dispose(i) ==
  /\ inv' = [inv EXCEPT ![i] = Idle]
  /\ queue' \in {queue, queue \ {inv[i].msg}}

\* A nonce no row, receipt, request or call mentions: crypto.randomUUID().
Fresh(i) ==
  /\ \A k \in JobId : /\ job[k].nonce # i /\ job[k].receipt # i
                      /\ starter[k] # i /\ i \notin calls[k]
  /\ \A r \in late : r.inv # i

\* handleMessage: fence checks against the consumer's own configuration.
DeliverMessage(i, m) ==
  /\ m \in queue
  /\ inv[i] = Idle /\ Fresh(i)
  /\ env.bound /\ m.epoch = env.epoch
  /\ inv' = [inv EXCEPT ![i] = [Idle EXCEPT !.pc = "claim", !.msg = m]]
  /\ UNCHANGED <<jobVars, storeVars, alarm, schedVars, queue, late, calls, operatorVars>>

RefuseMessage(m) ==
  /\ m \in queue
  /\ ~env.bound \/ m.epoch # env.epoch
  /\ queue' = queue \ {m}
  /\ UNCHANGED <<jobVars, storeVars, alarm, schedVars, inv, late, calls, operatorVars>>

\* processJob: the claim RPC answered.
ClaimReplied(i) ==
  /\ inv[i].pc = "claim"
  /\ \/ /\ ClaimAnalysisJob(i, inv[i].msg, "granted")
        /\ inv' = [inv EXCEPT ![i].pc = "start", ![i].replay = FALSE]
        /\ UNCHANGED queue
     \/ /\ ClaimAnalysisJob(i, inv[i].msg, "refused")
        /\ Dispose(i)
  /\ UNCHANGED <<starter, storeVars, schedVars, late, calls, operatorVars>>

\* Route, transport, key or adapter unusable: a known failure, no provider call.
RouteRefused(i) ==
  /\ inv[i].pc = "start" /\ ~inv[i].replay
  /\ inv' = [inv EXCEPT ![i].pc = "finish", ![i].outcome = "failed"]
  /\ UNCHANGED <<jobVars, storeVars, alarm, schedVars, queue, late, calls, operatorVars>>

\* The start RPC is executed.  Its reply may take any time to arrive; `left' is
\* the time the start marker guarantees for the call and for its attachment.
StartReplied(i) ==
  /\ inv[i].pc = "start"
  /\ \/ /\ MarkAnalysisStarted(i, inv[i].msg, "granted")
        /\ inv' = [inv EXCEPT ![i].pc = "send", ![i].replay = FALSE,
                              ![i].left = Deadline + Margin]
        /\ UNCHANGED queue
     \/ /\ MarkAnalysisStarted(i, inv[i].msg, "refused")
        /\ Dispose(i)
  /\ UNCHANGED <<storeVars, schedVars, late, calls, operatorVars>>

\* The reply `started' arrived: the paid request goes out, without another check.
SendProviderRequest(i) ==
  /\ inv[i].pc = "send"
  /\ inv' = [inv EXCEPT ![i].pc = "calling"]
  /\ calls' = [calls EXCEPT ![inv[i].msg.job] = @ \cup {i}]
  /\ UNCHANGED <<jobVars, storeVars, alarm, schedVars, queue, late, operatorVars>>

\* executeQueuedSynthesis: one request, its outcome classified.
ProviderReturns(i, outcome) ==
  /\ inv[i].pc = "calling"
  /\ inv' = [inv EXCEPT ![i].pc = "finish", ![i].outcome = outcome]
  /\ UNCHANGED <<jobVars, storeVars, alarm, schedVars, queue, late, calls, operatorVars>>

FinishReplied(i) ==
  /\ inv[i].pc = "finish"
  /\ FinishAnalysisJob(i, inv[i].msg, inv[i].outcome)
  /\ Dispose(i)
  /\ UNCHANGED <<starter, storeVars, alarm, schedVars, late, calls, operatorVars>>

\* withOneReplay: the call threw.  The request was executed and its reply lost,
\* was never executed, or is executed later (it joins `late').  The first loss
\* replays with the same nonce; the second gives the message back.
RpcLost(i) ==
  /\ "lost" \in Environment
  /\ inv[i].pc \in {"claim", "start", "finish"}
  /\ \/ UNCHANGED late
     \/ /\ Cardinality(late) < MaxLate
        /\ late' = late \cup {[op |-> inv[i].pc, inv |-> i, msg |-> inv[i].msg,
                               outcome |-> inv[i].outcome]}
  /\ \/ /\ ~inv[i].replay
        /\ inv' = [inv EXCEPT ![i].replay = TRUE]
        /\ UNCHANGED queue
     \/ /\ inv[i].replay
        /\ Dispose(i)
  /\ UNCHANGED <<jobVars, storeVars, alarm, schedVars, calls, operatorVars>>

\* The handler answered `unavailable' (its transaction rolled back), or the
\* invocation was killed at any point.
InvocationFails(i) ==
  /\ "lost" \in Environment
  /\ inv[i].pc # "idle"
  /\ Dispose(i)
  /\ UNCHANGED <<jobVars, storeVars, alarm, schedVars, late, calls, operatorVars>>

\* A request whose caller stopped waiting reaches the object.
ExecuteLate(r) ==
  /\ r \in late
  /\ late' = late \ {r}
  /\ \/ /\ r.op = "claim"
        /\ \E reply \in {"granted", "refused"} : ClaimAnalysisJob(r.inv, r.msg, reply)
        /\ UNCHANGED starter
     \/ /\ r.op = "start"
        /\ \E reply \in {"granted", "refused"} : MarkAnalysisStarted(r.inv, r.msg, reply)
     \/ /\ r.op = "finish"
        /\ FinishAnalysisJob(r.inv, r.msg, r.outcome)
        /\ UNCHANGED <<starter, alarm>>
  /\ UNCHANGED <<storeVars, schedVars, queue, inv, calls, operatorVars>>

-----------------------------------------------------------------------------
(* The scheduler: alarm handler of the object.                             *)

Skipped == {k \in JobId : quarantine[k] > 0}

\* runAlarm, up to the scan.  A held workspace consumes the alarm without
\* arming another, except that an identity mismatch keeps an hourly one.  The
\* scan's order by due time is lost when several rows are overdue, so the
\* batch is any set of eligible rows of the right size.
AlarmFires ==
  /\ alarm = 0
  /\ sched = Asleep
  /\ \/ /\ ~Gate("job-settlement")
        /\ alarm' = IF env.bound THEN None ELSE HeldRetry
        /\ UNCHANGED sched
     \/ /\ Gate("job-settlement")
        /\ alarm' = None
        /\ \E batch \in SUBSET (DueJobs \ Skipped) :
             /\ Cardinality(batch) = Smaller(Batch, Cardinality(DueJobs \ Skipped))
             /\ sched' = [Asleep EXCEPT !.pc = "settle", !.todo = batch,
                                        !.more = batch # DueJobs \ Skipped]
  /\ UNCHANGED <<jobVars, storeVars, quarantine, consumerVars, operatorVars>>

\* The decisions of settleDueJob on a due row, in the order the code takes them.
Verdict(k) ==
  LET row == job[k] IN
  IF row.due # 0 \/ row.state \notin Nonterminal THEN "skip"
  ELSE IF interview[k[1]] # "live" THEN "cancelled"
  ELSE IF analysis[k[1]].gen # k[2] THEN "corrupt"
  ELSE IF row.epoch # activated THEN "recovery-required"
  ELSE IF row.state # "pending" /\ row.lease \notin {None, 0} THEN "extend"
  ELSE IF row.state = "started" THEN "recovery-required"
  ELSE IF PastPrestartCap(row) THEN "failed"
  ELSE IF row.state = "pending" /\ row.dispatch = "sent" /\ k \in contact THEN "defer"
  ELSE IF row.attempts >= MaxDispatch THEN "failed"
  ELSE "dispatch"

\* A settled row leaves the pass and its quarantine entry is forgotten.
Handled(k) ==
  /\ sched' = [sched EXCEPT !.todo = @ \ {k}]
  /\ quarantine' = [quarantine EXCEPT ![k] = 0]

\* settleDueJob, the outcomes that send nothing.
SettleDueJob(k) ==
  /\ sched.pc = "settle" /\ k \in sched.todo
  /\ Gate("job-settlement")
  /\ \/ /\ Verdict(k) = "skip"
        /\ job' = IF job[k].state \in Terminal THEN [job EXCEPT ![k].due = None] ELSE job
        /\ UNCHANGED <<analysis, contact, alarm>>
     \/ /\ Verdict(k) \in {"cancelled", "recovery-required", "failed"}
        /\ SettleJob(k, Verdict(k), None)
        /\ contact' = contact \ {k}
        /\ UNCHANGED alarm
     \/ /\ Verdict(k) \in {"extend", "defer"}
        /\ LET due == IF Verdict(k) = "extend" THEN job[k].lease ELSE Watchdog IN
             /\ job' = [job EXCEPT ![k].due = due]
             /\ alarm' = ArmNoLaterThan(due)
        /\ contact' = contact \ {k}
        /\ UNCHANGED analysis
  /\ Handled(k)
  /\ UNCHANGED <<starter, storeVars, consumerVars, operatorVars>>

\* settleDueJob with reserveDispatch: one budget unit; an expired unstarted
\* claim goes back to pending.  The send itself is the next step.
ReserveDispatch(k) ==
  /\ sched.pc = "settle" /\ k \in sched.todo
  /\ Gate("job-settlement")
  /\ Verdict(k) = "dispatch"
  /\ LET attempt == job[k].attempts + 1 IN
     /\ job' = [job EXCEPT ![k].state = "pending", ![k].nonce = None, ![k].lease = None,
                           ![k].dispatch = "reserved", ![k].attempts = attempt,
                           ![k].due = Backoff[attempt]]
     /\ analysis' = IF job[k].state = "claimed"
                    THEN [analysis EXCEPT ![k[1]].status = "pending"] ELSE analysis
     /\ alarm' = ArmNoLaterThan(Backoff[attempt])
     /\ sched' = [sched EXCEPT !.pc = "send", !.todo = @ \ {k}, !.attempt = attempt,
                                !.msg = [job |-> k, epoch |-> job[k].epoch]]
  /\ contact' = contact \ {k}
  /\ quarantine' = [quarantine EXCEPT ![k] = 0]
  /\ UNCHANGED <<starter, storeVars, consumerVars, operatorVars>>

\* settleDueJob threw or found structural corruption: the row is skipped for a
\* while.  The strikes are not counted: any wait of quarantineBackoffMs may follow.
QuarantineRow(k) ==
  /\ sched.pc = "settle" /\ k \in sched.todo
  /\ "storage" \in Environment \/ Verdict(k) = "corrupt"
  /\ sched' = [sched EXCEPT !.todo = @ \ {k}]
  /\ \E wait \in {FailureRetry, QuarantineMax} :
       quarantine' = [quarantine EXCEPT ![k] = wait]
  /\ UNCHANGED <<jobVars, storeVars, alarm, consumerVars, operatorVars>>

\* A freeze that committed during a send stops the pass without re-arming.
PassHeld ==
  /\ sched.pc \in {"settle", "record"}
  /\ ~Gate("job-settlement")
  /\ sched' = Asleep
  /\ UNCHANGED <<jobVars, storeVars, alarm, quarantine, consumerVars, operatorVars>>

\* dispatch: the await of queue.send.  A failed send may still have enqueued.
QueueSend ==
  /\ sched.pc = "send"
  /\ \/ /\ queue' = queue \cup {sched.msg}
        /\ sched' = [sched EXCEPT !.pc = "record"]
     \/ /\ "storage" \in Environment
        /\ queue' \in {queue, queue \cup {sched.msg}}
        /\ sched' = [sched EXCEPT !.pc = "settle", !.msg = None, !.attempt = 0]
  /\ UNCHANGED <<jobVars, storeVars, alarm, quarantine, inv, late, calls, operatorVars>>

\* dispatch, after the send: only the reservation that was sent is acknowledged.
RecordSent ==
  /\ sched.pc = "record"
  /\ Gate("job-settlement")
  /\ LET k == sched.msg.job IN
     IF /\ job[k].state = "pending" /\ job[k].dispatch = "reserved"
        /\ job[k].attempts = sched.attempt
     THEN /\ job' = [job EXCEPT ![k].dispatch = "sent", ![k].due = Watchdog]
          /\ contact' = contact \ {k}
          /\ alarm' = ArmNoLaterThan(Watchdog)
     ELSE UNCHANGED <<job, contact, alarm>>
  /\ sched' = [sched EXCEPT !.pc = "settle", !.msg = None, !.attempt = 0]
  /\ UNCHANGED <<analysis, starter, storeVars, quarantine, consumerVars, operatorVars>>

RemovableAny == {k \in JobId : job[k].state \in Terminal}   \* mutant: the current one too

\* Rows cleanup may delete: terminal jobs that are not the current generation.
Removable == {k \in JobId : job[k].state \in Terminal /\ analysis[k[1]].gen # k[2]}

JobWakesAwake(rows) ==   \* mutant: a quarantined row is left out of the wake-up
  {rows[k].due : k \in {x \in JobId : rows[x].due # None /\ quarantine[x] = 0}}

\* nextJobWakeAt and nextCleanupAt, on the rows as they are after cleanup.
JobWakes(rows) ==
  {Larger(rows[k].due, quarantine[k]) : k \in {x \in JobId : rows[x].due # None}}

CleanupWakes(rows) ==
  IF \/ \E r \in Interview \X Key : receipts[r] # None
     \/ \E iv \in Interview : interview[iv] = "deleted"
     \/ \E k \in JobId : rows[k].state \in Terminal /\ analysis[k[1]].gen # k[2]
  THEN {CleanupInterval} ELSE {}

\* cleanup and rearm: the end of a pass.  The retention period is long past or
\* not for any removable row; a batch cut short wakes at once.
FinishPass ==
  /\ sched.pc = "settle" /\ sched.todo = {}
  /\ Gate("job-settlement")
  /\ \E gone \in SUBSET Removable :
       /\ job' = [k \in JobId |-> IF k \in gone THEN NoRow ELSE job[k]]
       /\ LET wakes == (IF sched.more THEN {0} ELSE JobWakes(job')) \cup CleanupWakes(job') IN
            IF wakes = {} THEN UNCHANGED alarm
            ELSE \E w \in wakes : /\ \A other \in wakes : w <= other
                                 /\ alarm' = ArmNoLaterThan(w)
  /\ sched' = Asleep
  /\ UNCHANGED <<analysis, contact, starter, storeVars, quarantine, consumerVars, operatorVars>>

\* runAlarm's catch: whatever threw, a retry alarm replaces the current one.
PassThrows ==
  /\ "storage" \in Environment
  /\ sched.pc \in {"settle", "record"}
  /\ alarm' = FailureRetry
  /\ sched' = Asleep
  /\ UNCHANGED <<jobVars, storeVars, quarantine, consumerVars, operatorVars>>

\* The object is evicted or crashes: its memory is lost, and the platform runs
\* an interrupted alarm handler again.
Forget ==
  /\ sched' = Asleep
  /\ quarantine' = [k \in JobId |-> 0]
  /\ alarm' = IF sched = Asleep THEN alarm ELSE 0

ObjectRestarts ==
  /\ "restart" \in Environment
  /\ Forget
  /\ UNCHANGED <<jobVars, storeVars, consumerVars, operatorVars>>

-----------------------------------------------------------------------------
(* Operator and deployment.                                                *)

transitionAllowed(from, to) ==
  /\ from # to
  /\ to = "recovery" \/ to \in CASE from = "open"     -> {"draining"}
                                 [] from = "draining" -> {"open", "frozen"}
                                 [] from = "frozen"   -> {"open", "draining"}
                                 [] from = "recovery" -> {"frozen", "open"}

InFlight  == {k \in JobId : job[k].state \in {"claimed", "started"}}
NothingUncertain == {}   \* mutant: started work is offered again
Uncertain == {k \in InFlight : job[k].state = "started"}

\* settleRecoveryRequired: the claim is cleared so no holder can present it.
Abandoned(row) == [Settled(row, "recovery-required", None) EXCEPT !.nonce = None]

\* classifyInFlight: started work is uncertain, an unstarted claim is due again.
ClassifyInFlight ==
  /\ job' = [k \in JobId |->
               IF k \in Uncertain THEN Abandoned(job[k])
               ELSE IF k \in InFlight
                    THEN [job[k] EXCEPT !.state = "pending", !.nonce = None, !.lease = None,
                                        !.dispatch = "unsent", !.due = 0]
                    ELSE job[k]]
  /\ analysis' = [iv \in Interview |->
               IF Current(iv) \in InFlight \ Uncertain
               THEN [analysis[iv] EXCEPT !.status = "pending"]
               ELSE ProjectFailed(Uncertain, "recovery-required")[iv]]

\* transitionMaintenance, from the state and version the operator saw.
TransitionMaintenance(to, classify) ==
  /\ "operator" \in Environment
  /\ Gate("read")
  /\ transitionAllowed(maintenance, to)
  /\ to # "recovery" => env.epoch = activated
  /\ to = "frozen" => classify \/ InFlight = {}
  /\ IF to = "frozen" THEN ClassifyInFlight ELSE UNCHANGED <<job, analysis>>
  /\ maintenance' = to
  /\ alarm' = IF maintenance \in {"frozen", "recovery"} /\ to \in {"open", "draining"}
              THEN ArmNoLaterThan(0) ELSE alarm
  /\ UNCHANGED <<contact, starter, storeVars, schedVars, consumerVars,
                 activated, superseded, env>>

\* activateRecoveryEpoch: every nonterminal generation is uncertain.
ActivateRecoveryEpoch ==
  /\ Gate("read")
  /\ env.epoch # activated
  /\ maintenance = "recovery"
  /\ env.epoch \notin superseded
  /\ LET restored == {k \in JobId : job[k].state \in Nonterminal} IN
     /\ job' = [k \in JobId |-> IF k \in restored THEN Abandoned(job[k]) ELSE job[k]]
     /\ analysis' = ProjectFailed(restored, "recovery-required")
  /\ contact' = {}
  /\ activated' = env.epoch
  /\ superseded' = superseded \cup {activated}
  /\ UNCHANGED <<starter, storeVars, alarm, schedVars, consumerVars, maintenance, env>>

\* A new deployment: another epoch, or a WORKSPACE_ID that misses this object.
\* The object restarts with it.
Redeploy(epoch, bound) ==
  /\ "deploy" \in Environment
  /\ env' = [epoch |-> epoch, bound |-> bound]
  /\ env' # env
  /\ Forget
  /\ UNCHANGED <<jobVars, storeVars, consumerVars, maintenance, activated, superseded>>

-----------------------------------------------------------------------------
(* Time.  Nothing forces an alarm, a message or an RPC to be prompt.       *)

Tick ==
  /\ job' = [k \in JobId |-> [job[k] EXCEPT !.lease = Down(@), !.due = Down(@)]]
  /\ alarm' = Down(alarm)
  /\ quarantine' = [k \in JobId |-> Down(quarantine[k])]
  /\ inv' = [i \in Invocation |-> [inv[i] EXCEPT !.left = Down(@)]]
  /\ <<job', alarm', quarantine', inv'>> # <<job, alarm, quarantine, inv>>
  /\ UNCHANGED <<analysis, contact, starter, storeVars, sched, queue, late, calls, operatorVars>>

\* ANALYSIS_MAX_PRESTART_AGE_MS after allocation.  A day is far longer than any
\* other timer, so it may pass at any moment.
PrestartCapPasses(k) ==
  /\ job[k].state \in {"pending", "claimed"}
  /\ ~job[k].aged
  /\ job' = [job EXCEPT ![k].aged = TRUE]
  /\ UNCHANGED <<analysis, contact, starter, storeVars, alarm, schedVars, consumerVars, operatorVars>>

-----------------------------------------------------------------------------
Init ==
  /\ job = [k \in JobId |-> NoRow]
  /\ analysis = [iv \in Interview |-> NoAnalysis]
  /\ interview = [iv \in Interview |-> "absent"]
  /\ receipts = [r \in Interview \X Key |-> None]
  /\ contact = {}
  /\ alarm = None
  /\ sched = Asleep
  /\ quarantine = [k \in JobId |-> 0]
  /\ queue = {}
  /\ inv = [i \in Invocation |-> Idle]
  /\ late = {}
  /\ maintenance = "open"
  /\ activated = 1
  /\ superseded = {}
  /\ env = [epoch |-> 1, bound |-> TRUE]
  /\ starter = [k \in JobId |-> None]
  /\ calls = [k \in JobId |-> {}]

Next ==
  \/ \E iv \in Interview : PersistCompletedInterview(iv)
  \/ \E iv \in Interview : ReadAnalysisStatus(iv)
  \/ \E iv \in Interview : DeleteInterview(iv)
  \/ \E iv \in Interview, key \in Key, expected \in 0..MaxGeneration :
       AcceptAnalysisRetry(iv, key, expected)
  \/ \E iv \in Interview, key \in Key : RetryReceiptExpires(iv, key)
  \/ \E i \in Invocation, m \in queue : DeliverMessage(i, m)
  \/ \E m \in queue : RefuseMessage(m)
  \/ \E i \in Invocation : ClaimReplied(i)
  \/ \E i \in Invocation : RouteRefused(i)
  \/ \E i \in Invocation : StartReplied(i)
  \/ \E i \in Invocation : SendProviderRequest(i)
  \/ \E i \in Invocation, outcome \in Outcome :
       ProviderReturns(i, outcome)
  \/ \E i \in Invocation : FinishReplied(i)
  \/ \E i \in Invocation : RpcLost(i)
  \/ \E i \in Invocation : InvocationFails(i)
  \/ \E r \in late : ExecuteLate(r)
  \/ AlarmFires
  \/ \E k \in JobId : SettleDueJob(k)
  \/ \E k \in JobId : ReserveDispatch(k)
  \/ \E k \in JobId : QuarantineRow(k)
  \/ PassHeld
  \/ QueueSend
  \/ RecordSent
  \/ FinishPass
  \/ PassThrows
  \/ ObjectRestarts
  \/ \E to \in {"open", "draining", "frozen", "recovery"}, classify \in BOOLEAN :
       TransitionMaintenance(to, classify)
  \/ ActivateRecoveryEpoch
  \/ \E epoch \in Epoch, bound \in BOOLEAN : Redeploy(epoch, bound)
  \/ Tick
  \/ \E k \in JobId : PrestartCapPasses(k)

Spec == Init /\ [][Next]_vars

\* The platform runs a due alarm and lets its handler go on, and time passes.
\* Consumers, researchers and operators owe nothing.
Scheduler == AlarmFires \/ (\E k \in JobId : SettleDueJob(k) \/ ReserveDispatch(k))
             \/ PassHeld \/ QueueSend \/ RecordSent \/ FinishPass

Fairness == /\ WF_vars(Scheduler)
            /\ WF_vars(Tick)
            /\ \A k \in JobId : WF_vars(PrestartCapPasses(k))

FairSpec == Spec /\ Fairness

\* A client that polls the status of an analysis it waits for.
PolledSpec == FairSpec /\ \A iv \in Interview : WF_vars(ReadAnalysisStatus(iv))

-----------------------------------------------------------------------------
(* Types.                                                                  *)

Ticks == Nat \cup {None}

JobRow == [state    : Nonterminal \cup Terminal \cup {"absent"},
           nonce    : Invocation \cup {None},
           lease    : Ticks,
           due      : Ticks,
           dispatch : {"none", "unsent", "reserved", "sent"},
           attempts : 0..MaxDispatch,
           aged     : BOOLEAN,
           receipt  : Invocation \cup {None},
           epoch    : Epoch]

AnalysisRow == [status   : {"absent", "pending", "running", "complete", "failed"},
                gen      : 0..MaxGeneration,
                recovery : BOOLEAN,
                result   : (Generation \X Invocation) \cup {None}]

Receipt == [expected : 0..MaxGeneration, gen : 0..MaxGeneration]

Pass == [pc      : {"idle", "settle", "send", "record"},
         todo    : SUBSET JobId,
         more    : BOOLEAN,
         msg     : Message \cup {None},
         attempt : 0..MaxDispatch]

Consumer == [pc      : {"idle", "claim", "start", "send", "calling", "finish"},
             replay  : BOOLEAN,
             msg     : Message \cup {None},
             left    : Nat,
             outcome : Outcome \cup {None}]

Request == [op      : {"claim", "start", "finish"},
            inv     : Invocation,
            msg     : Message,
            outcome : Outcome \cup {None}]

\* A consumer past its delivery, and a dispatch past its reservation, hold an envelope.
Carrying ==
  /\ \A i \in Invocation : inv[i].pc # "idle" => inv[i].msg \in Message
  /\ sched.pc \in {"send", "record"} => sched.msg \in Message

\* Every table, timer and process of the model has the shape the code gives it;
\* the dispatch budget of a job is never exceeded.
TypeOK ==
  /\ job \in [JobId -> JobRow]
  /\ analysis \in [Interview -> AnalysisRow]
  /\ interview \in [Interview -> {"absent", "live", "deleted"}]
  /\ receipts \in [Interview \X Key -> Receipt \cup {None}]
  /\ contact \in SUBSET JobId
  /\ alarm \in Ticks
  /\ sched \in Pass
  /\ quarantine \in [JobId -> Nat]
  /\ queue \in SUBSET Message
  /\ inv \in [Invocation -> Consumer]
  /\ late \in SUBSET Request
  /\ maintenance \in {"open", "draining", "frozen", "recovery"}
  /\ activated \in Epoch
  /\ superseded \in SUBSET Epoch
  /\ env \in [epoch : Epoch, bound : BOOLEAN]
  /\ starter \in [JobId -> Invocation \cup {None}]
  /\ calls \in [JobId -> SUBSET Invocation]
  /\ Carrying

-----------------------------------------------------------------------------
(* Safety.                                                                 *)

\* A generation's provider is paid at most once, whatever is redelivered,
\* replayed, executed late, restarted or returned to pending (JOB-08).
AtMostOnePaidCall ==
  \A k \in JobId : \A i, j \in calls[k] : i = j

\* Only the current generation of a live interview is ever nonterminal, so the
\* scheduler never finds an orphaned or corrupt row (JOB-04).
OnlyCurrentIsActive ==
  \A k \in JobId : job[k].state \in Nonterminal => IsCurrent(k)

\* What the researcher polls agrees with the job table after every transaction:
\* status, recovery flag, and a result exactly when the current generation
\* completed, by the invocation whose receipt completed it (JOB-01, API-02).
ProjectionAgrees ==
  \A iv \in Interview :
    interview[iv] = "live" =>
      LET state == job[Current(iv)].state  row == analysis[iv] IN
      /\ row.status = CASE state = "pending"               -> "pending"
                        [] state \in {"claimed", "started"} -> "running"
                        [] state = "complete"              -> "complete"
                        [] OTHER                           -> "failed"
      /\ row.recovery = (state = "recovery-required")
      /\ row.result = IF state = "complete"
                      THEN <<row.gen, job[Current(iv)].receipt>> ELSE None
      /\ state # "absent"

\* A start marker grants time for a whole provider call and its attachment: until
\* that time is over the caller still holds an unexpired lease, or its outcome is
\* already recorded; no watchdog, redelivery or late request takes the job from
\* under it.  Only an operator's classification or a deletion may.
GrantedTimeIsKept ==
  \A i \in Invocation :
    LET row == job[inv[i].msg.job] IN
    inv[i].pc \in {"send", "calling", "finish"} /\ inv[i].left > 0 =>
      \/ row.state = "started" /\ row.nonce = i /\ row.lease >= inv[i].left
      \/ row.receipt = i
      \/ row.state = "recovery-required" /\ row.nonce = None
      \/ row.state = "absent"

\* A workspace that can settle jobs and has one waiting has an alarm no later
\* than the job is due: no transaction commits a wait without its wake-up, and
\* leaving maintenance restores what the hold consumed (JOB-05, JOB-06).  After
\* a fault the wait may be a failure retry or a quarantine, which a restart
\* forgets while its alarm stays.  A hold cleared by another deployment is
\* healed later (ResumedJobsSettle).
WakeUpArmed ==
  Gate("job-settlement") /\ sched = Asleep =>
    \A k \in JobId : job[k].due # None =>
      /\ alarm # None
      /\ alarm <= Larger(job[k].due, IF "storage" \in Environment
                                     THEN Larger(FailureRetry, QuarantineMax) ELSE 0)

\* Generations of an interview are serial: a retry opens exactly the next one,
\* only after the current one failed or became uncertain, whichever keys and
\* expected generations concurrent researchers send (JOB-04).
GenerationsAreSerial ==
  [][ \A iv \in Interview : analysis'[iv].gen # analysis[iv].gen =>
        \/ interview'[iv] = "deleted"
        \/ interview[iv] = "absent" /\ analysis'[iv].gen = 1
        \/ /\ analysis'[iv].gen = analysis[iv].gen + 1
           /\ job[Current(iv)].state \in {"failed", "recovery-required"} ]_vars

\* While the workspace is held the scheduler and every job RPC are inert: rows
\* keep state, budget and start marker, only their timers run (JOB-05, OPS-01).
HeldIsInert ==
  [][ ~Gate("job-settlement") /\ maintenance' = maintenance /\ activated' = activated =>
        /\ starter' = starter
        /\ \A k \in JobId : /\ job'[k].state = job[k].state
                            /\ job'[k].dispatch = job[k].dispatch
                            /\ job'[k].attempts = job[k].attempts ]_vars

\* A start marker, the licence to pay, is only ever set for a job allocated under
\* the epoch that is activated and configured at that moment (JOB-10).
StaleEpochNeverStarts ==
  [][ \A k \in JobId : starter'[k] # starter[k] =>
        job[k].epoch = activated /\ env.epoch = activated ]_vars

\* A terminal job never changes state again, and only a deletion or the cleanup
\* of a superseded generation removes it.
TerminalIsFinal ==
  [][ \A k \in JobId : job[k].state \in Terminal /\ job'[k].state # job[k].state =>
        /\ job'[k].state = "absent"
        /\ interview'[k[1]] = "deleted" \/ analysis[k[1]].gen # k[2] ]_vars

-----------------------------------------------------------------------------
(* Liveness.                                                               *)

\* Every generation reaches a terminal state although no consumer owes a step,
\* so that each may stop at any point: the watchdog, the dispatch budget and the
\* pre-start cap together leave no job waiting forever (JOB-06, JOB-07).
JobsSettle ==
  \A k \in JobId : job[k].state \in Nonterminal ~> job[k].state \notin Nonterminal

\* A hold that ends, however it ends, strands no job as long as a client polls:
\* what held alarms consumed, a resume or a status read restores.
ResumedJobsSettle == <>[]Gate("job-settlement") => JobsSettle

-----------------------------------------------------------------------------
(* What the detailed machinery implements: see AnalysisPromise.            *)

Phase(k) ==
  CASE job[k].state \in {"pending", "claimed"}  -> "open"
    [] job[k].state = "recovery-required"       -> "uncertain"
    [] job[k].state = "absent"                  ->
         IF interview[k[1]] = "deleted" \/ analysis[k[1]].gen >= k[2] THEN "gone" ELSE "none"
    [] OTHER                                    -> job[k].state

Promise == INSTANCE AnalysisPromise WITH
  Job    <- JobId,
  Caller <- Invocation,
  phase  <- [k \in JobId |-> Phase(k)],
  payer  <- starter,
  paid   <- calls,
  result <- [k \in JobId |-> IF job[k].state = "complete" THEN job[k].receipt ELSE None]

\* Every behaviour of the job machinery is one the promise allows.
KeepsPromise == Promise!Spec
=============================================================================
