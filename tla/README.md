# OpenInterviewer: TLA+ models and proofs

OpenInterviewer runs AI-assisted interviews. Its Cloudflare target keeps one
workspace in a SQLite Durable Object (`cloudflare/workspace`), analyses each
completed interview through a queue (`cloudflare/analysis`), and shares the
application with a Node target that keeps the same data in Redis (`src/lib`).
This directory models the parts of it where the order of steps decides whether
it is right, checks them with TLC on small instances, and proves the most
important facts with TLAPS for instances of any size.

Paths below are relative to the repository root.

## Running it

    tlc -workers 2 -config MCDelivery.cfg MCAnalysisJobs
    tlc -workers 2 -config MCSave.cfg MCInterviewCompletion
    tlc -workers 2 -config MCParts.cfg MCParts
    tlapm AnalysisJobs_proofs.tla
    tlapm AnalysisRefinement_proofs.tla
    tlapm InterviewCompletion_proofs.tla
    tlapm HostedStudies_proofs.tla
    tlapm StudyNotebook_proofs.tla
    tlapm AnalysisRequests_proofs.tla
    tlapm Deletions_proofs.tla
    tlapm Operator_proofs.tla

`PROJECT.json` lists every run with its properties, the source lines behind every
definition (`map`), the seeded faults that show each property can fail
(`mutants`, defined in the modules next to the definition they damage and marked
"mutant"), and the hazards the properties are for.

## The system

| Component | State | Operations | Interacts with |
|---|---|---|---|
| Durable analysis jobs (`workspace/analysis.ts`) | `analysis_jobs`, `analysis`, retry receipts, last consumer contact | retry, status, claim, start, finish | consumer RPCs, routes, alarm |
| Scheduler (`workspace/scheduler.ts`) | one alarm; quarantine in memory | scan, settle, dispatch, cleanup, re-arm | the queue (awaited send) |
| Queue consumer (`cloudflare/analysis`) | one invocation per delivery, a fresh nonce | claim, start, call, finish, one replay each | the object by RPC, the AI provider |
| Maintenance, epochs (`workspace/operator.ts`) | state and version, activated epoch, audit, import progress | transition, activate, back up, import, restore | every gate |
| Completion (`workspace/completion.ts`) | interviews, budgets, generation 1 | persist once, replay | links, consent, studies, jobs |
| Participants, budgets (`workspace/participants.ts`, `budget.ts`, `login.ts`) | links, consents, windows | create, revoke, consent, admit, refund | completion, sign-in |
| Studies, sample, projects (`workspace/studies.ts`, `sample.ts`, `projects.ts`) | studies, create receipts, fences | create once, edit by revision, delete, seed, clear | everything that hangs off a study |
| Exports (`workspace/exports.ts`) | snapshots by mutation sequence | begin, page, verify | every write that bumps the sequence |
| Exploration (`workspace/exploration.ts`) | answers: running, complete, recovery-required | reserve, complete, fail | operator's freeze |
| Redis backend (`src/lib/kv.ts` and the store adapters) | interviews, guards, claim leases, receipts | two-script completion, claim, attach, CAS edits | synchronous analysis routes |
| Hosted mode (`src/lib/platformDb*.ts`, `studyOperationReconciler.ts`) | operations, locks, markers on two Redis servers | begin, mutate, resolve, publish, reconcile; account deletion | researcher's own Redis |
| Client (`src/components/analysis/statusPoller.ts`, `src/store.ts`) | poll state, interview draft | poll, retry, suspend | status and retry routes |
| Installer and operator scripts (`scripts/cloudflare`) | `receipt.json` | apply, resume, update; back up, restore | Cloudflare's APIs, people who share the account |

What makes each hard, and what makes it correct:

- **Jobs, scheduler, consumer.** Delivery is at least once; each RPC can be lost,
  replayed or executed late; the handler awaits the queue between two
  transactions; the object can be evicted between them. Correct means: one paid
  call per generation, no granted time taken away, one active generation per
  interview, a projection that follows the rows, a wake-up for every wait, and
  an end for every job.
- **Operator.** Holds arrive at any moment of all that. Correct means: a held
  workspace is inert, work that may have been paid for is never offered again,
  and nothing is stranded when the hold ends.
- **Completion, participants, budgets.** A save races revocation, deletion and
  edits, and is replayed after losing its reply. Correct means: all or nothing,
  the first save wins, every window is charged or none.
- **Studies.** Create is retried under a key while the study may be deleted.
  Correct means: at most one study per key, deleted ids stay deleted.
- **Exports.** Pages are read while the workspace changes. Correct means: every
  page belongs to the one state the sequence number names.
- **Redis completion and analysis.** A crash between two scripts, a lease that ends
  while its holder waits. Correct means: totals that recovery completes, one
  attached answer.
- **Hosted operations, account deletion.** Two servers, a mutation delayed past
  its cancellation, a crash anywhere. Correct means: the platform's record and
  the researcher's data agree in the end.
- **Client.** Replies of an older generation arrive late, and a start request given up
  is carried out afterwards. Correct means: what is shown never goes back, nothing is
  run again that nobody asked for, and a page of pending work looks again or says that
  it stopped.
- **Installer.** Every remote call may lose its reply or the process, and the account
  has other inhabitants. Correct means: the receipt is true of the account, and only
  what the installation created is treated as its own.

`PROJECT.json` lists these as hazards, each at the line where it bites.

## Modules

| Module | What it is |
|---|---|
| `AnalysisJobs` | the detailed model: jobs, scheduler, queue, consumers, operator, deployment |
| `AnalysisPromise` | the abstract specification of what jobs promise a researcher |
| `MCAnalysisJobs` | values and symmetry for TLC; six configurations |
| `AnalysisJobs_proofs` | type correctness, the inductive invariant and what follows from it |
| `AnalysisRefinement_proofs` | what a researcher sees: the projection, serial generations, and that the jobs implement `AnalysisPromise`; then holds, the wake-up for every wait, and the time a consumer is granted |
| `InterviewCompletion` | the detailed model of collecting interviews: studies, links, sessions, consent, saves, admission |
| `InterviewPromise` | the abstract specification of what participants are promised |
| `InterviewCompletion_proofs` | its safety properties, and that it implements `InterviewPromise` |
| `MCInterviewCompletion` | values and symmetry for TLC; four configurations |
| `RedisStudies` | one researcher's Redis: the scripts over a study, its interviews and its aggregate, each with its fault cuts |
| `HostedStudies` | the platform's registry, the routes and the reconciler, over `RedisStudies` |
| `HostedStudies_proofs` | the invariant of the two databases, and what was recorded against what was done |
| `MCPublication` | the instance of `HostedStudies` for a finding |
| `AccountDeletion` | deleting a hosted account at a persisted cursor |
| `StudyNotebook`, `StudyNotebook_proofs` | exploration answers and exports under drains, freezes and a restore; its proofs |
| `SynchronousAnalysis` | analysis in the request under a Redis lease |
| `AttemptWindows` | sign-in and AI budget windows |
| `AnalysisPage` | the status poller, the analysis hook and one batch against the workspace |
| `PagePromise` | the abstract specification of what those pages promise |
| `AnalysisRequests_proofs` | `SynchronousAnalysis` and `AnalysisPage`: leases fence the provider, the pages implement `PagePromise` |
| `SampleWorkspace` | loading and clearing the sample on Redis, command by command |
| `Deletions_proofs` | `AccountDeletion` and `SampleWorkspace`: what is deleted is gone, what came later is spared |
| `Installer` | `setup:cloudflare`: apply, resume, update |
| `Operator_proofs` | `AttemptWindows` and `Installer`: windows count what they were charged, the receipt is true |
| `MCParts` | values for the modules from `RedisStudies` to `Installer`; one configuration |

The two detailed models meet in one transaction. `persistCompletedInterview` commits
the interview, its admission and the study's count (`CompleteInterview`) together with
generation 1 and the alarm (`AnalysisJobs`' `PersistCompletedInterview`); `deleteStudy`
removes both (`DeleteStudy`, `DeleteInterview`). Neither model reads the other's
tables, and each takes the other's part of these steps as possible at any time.

### AnalysisJobs and the code

State: `job` is `analysis_jobs` by `(interview, generation)`, the table's UNIQUE
key; `analysis` and `interview` are the tables of those names (a deleted
interview is its fence); `receipts` is the `analysis-retry` family; `alarm` is the
object's single alarm; `sched` and `quarantine` are the memory of the running
handler; `queue` holds envelopes; `inv` is each consumer invocation's program
counter, and its name is its nonce; `late` holds RPCs nobody waits for any more;
`maintenance`, `activated`, `superseded` are `workspace_meta` and the audit;
`env` is the deployed configuration. `starter` and `calls` are history.

Every storage transaction is one action. What the code awaits is split there: a
pass is `AlarmFires`, then per due row `SettleDueJob` or `ReserveDispatch`,
`QueueSend` (the await) and `RecordSent`, then `FinishPass`; a consumer is
`DeliverMessage`, `ClaimReplied`, `StartReplied`, `SendProviderRequest`,
`ProviderReturns`, `FinishReplied`. RPC handlers are operators
(`ClaimAnalysisJob`, `MarkAnalysisStarted`, `FinishAnalysisJob`) used both by the
call that waits and by `ExecuteLate`.

| Action | Code |
|---|---|
| `PersistCompletedInterview` | `completion.ts` `write`, `persistCompletedInterview` |
| `AcceptAnalysisRetry`, `ReadAnalysisStatus` | `analysis.ts`, with `restoreLostWakeUp` |
| `ClaimReplied`, `StartReplied`, `FinishReplied`, `RpcLost`, `InvocationFails` | `consumer.ts` `processJob`, `withOneReplay`, `handleMessage` |
| `AlarmFires`, `SettleDueJob`, `ReserveDispatch`, `QueueSend`, `RecordSent`, `FinishPass`, `PassHeld`, `PassThrows`, `QuarantineRow` | `scheduler.ts` |
| `TransitionMaintenance`, `ActivateRecoveryEpoch` | `operator.ts` |
| `DeleteInterview` | `studies.ts` `deleteStudy`, `sample.ts` `clearSampleWorkspace` |
| `Redeploy`, `ObjectRestarts`, `Tick`, `PrestartCapPasses`, `ExecuteLate` | the platform |

Abstractions, and why they lose nothing the properties see:

- **Time** is countdowns in ticks, so an expired timer is 0. Nothing forces an
  alarm, a message or an RPC to be prompt. The 24-hour pre-start cap is a flag
  that may be raised at any moment, since a day outlasts every other timer.
- **Contact.** The code compares the last consumer contact with a row's
  `updated_at`. The model keeps the set of sent rows older than the last contact,
  the only rows the comparison is ever made for.
- **Receipts** expire at any moment; a deleted interview's receipts are dropped
  (the code marks them; no live interview consults them again), and its fence
  never expires in the model, since interview ids are not reused.
- **Queue.** After `ack` or `retry` the envelope may be gone or still there: both a
  redelivered acknowledgement and an exhausted retry. Duplicates of one envelope
  are one element, because delivery does not remove it.
- **Batches.** Which overdue rows a short batch takes is arbitrary; the code's
  order among them is by due time and id.
- **Quarantine** strikes are not counted: any of its waits may follow a failure.
- **Refusals** that change nothing (validation, key conflict, disclosure, budget)
  are stuttering steps. So is the replay of a maintenance transition.
- A **settled row's lease** is dropped: nothing reads it again.
- `Redeploy` switches configuration in one step and restarts the object. Consumers
  of the old deployment go on with the envelopes they hold.
- Rows a pass finds orphaned or corrupt get the code's verdicts (`cancelled`,
  `corrupt`, epoch mismatch), although `ActiveIsCurrent` proves them unreachable
  without an import or a storage fault.

Not in this model: legacy generation 0 (imported interviews), restore to a
bookmark, exploration rows, budgets, and the double fault in which `runAlarm`'s
catch cannot set its retry alarm either.

### AnalysisPromise

Each job is offered once, started by at most one caller, paid by that caller once,
and ends complete, failed or uncertain. A job reported as failed was never
started, or its payer knew the call failed; a job whose payment is unknown is only
ever uncertain. `KeepsPromise` in `AnalysisJobs` is this specification under the
mapping `Phase`: claims, leases, dispatches, messages and epochs disappear, and a
claimed job is still "open", since an expired claim returns to pending.

### InterviewCompletion and the code

State: `study`, `link`, `consent`, `interview`, `fence`, `receipt` and `member` are the
tables `studies`, `participant_links`, `consents`, `interviews`, `deletion_fences`,
`idempotency_receipts` (family study-create) and `budget_members`; `session` is the
signed cookie and the page its holder was shown; `linkCall`, `consentCall`, `save` and
`edit` are requests between the RPCs their route makes; `deployed` is the transport
the installation discloses. `told` and `made` are history. An interview's id is its
session's, as `session-<participantSessionId>` is in the code.

| Action | Code |
|---|---|
| `CreateStudy`, `ReplaceStudyConfig`, `SetStudyLinksEnabled`, `DeleteStudy` | `studies.ts` `createStudy`, `mutateStudy` and its two callers, `deleteStudy` |
| `OpenEdit`, `DropEdit` | `api/studies/[id]` `PUT` before its write |
| `MintLink`, `CreateParticipantLink`, `RevokeParticipantLink` | `api/generate-link` `POST`; `participants.ts` |
| `Exchange` | `api/generate-link` `GET`, `auth.ts` `createParticipantSessionToken` |
| `Agree`, `RecordConsent`, `DropConsent` | `api/consent`; `participants.ts` `recordConsent` |
| `OpenSave`, `LoadStudy`, `VerifyConsent`, `SendSave`, `DropSave` | `api/interviews/save`, one step for each thing it awaits |
| `CompleteInterview`, `ReplayInterview` | `completion.ts` `decide`, `write` |
| `Cleanup` | `scheduler.ts` `cleanup` |
| `SetMaintenance`, `Deploy`, `Tick` | the operator, the deployment, the clock |

Abstractions:

- **Time.** Each request carries the time it captured, and the object judges links,
  consents and fences by that time, as the code does. `MaxLate` bounds how much later
  a write executes: nothing in the object enforces such a bound, the lifetime of the
  invocation does. `AdmissionHolds` is claimed for `MaxLate <= MemberGrace` only,
  which is what the code's one minute of grace is for; `AdmissionHolds` is the one
  property that depends on it.
- **Configuration.** A study's editable text is its revision; the text a participant
  agrees to is a revision and a language. `linksEnabled` is kept apart (`"unset"`,
  `"on"`, `"off"`), because pausing does not advance the revision and because
  `decide` compares the whole configuration, that member included.
- **Reads of one request.** `getParticipantRequestContext` makes three reads and
  `Exchange` two more; each is one step here. What they admit is checked again by
  every write, which is what the properties rely on.
- **Refusals** write nothing and are the `Drop` actions, or stuttering: key reuse,
  a fingerprint other than the receipt's, an equal configuration, quota, validation.
  An abandoned save that still executes is one whose request goes on while the
  participant opens another.
- **Admission.** `Scope` takes client and study; all participants share one client
  address. Link and session scopes have the study's form.
- **Cleanup** removes everything that expired: a batch is larger than the instance.
- Corrupt rows, legacy links, researcher previews (they write nothing) and the Redis
  and hosted branches of the same routes are left out.

### InterviewPromise

A finished interview is kept as first saved; it goes only when its study goes, and
then no save of that session is ever kept again; "saved" is said only of the content
that is kept. `KeepsInterviews` is this specification with `kept` mapped to the
interviews' content and `closed` to the sessions whose study is gone. Consent, links,
revisions, admission, replays and lost replies disappear.

### RedisStudies, HostedStudies and the code

Two databases. `study`, `guard`, `marker`, `index`, `persisting`, `pguard`, `body`, `rate`,
`aggregate` and `auxiliary` are the researcher's keys of those names; `op`, `owner`,
`listed`, `lock`, `receipt` and `score` are the platform's. `request` is what each operation was
asked to do, `call` and `held` its route's position, `sent` the mutations on their way,
`reconciler` the record the reconciler works on. `outcome` and `split` are history.

| Action | Code |
|---|---|
| `Begin`, `Resolve`, `Publish`, `Recover` | the Lua scripts of `platformDb.operations.ts` |
| `ReserveKey`, `CompleteKey` | `createIdempotency.ts` |
| `Route` | `api/studies/route.ts` `POST`, `api/studies/[id]/route.ts` `DELETE`, one step per call |
| `MutateCreate`, `MutateEmptyDelete`, `MutatePopulatedDelete`, `Settle` | the scripts of `kv.ts` and `redisStudyPurge.ts` |
| `Reconcile` | `studyOperationReconciler.ts` |
| `SaveInterview` | P1 and Finish of `kv.ts` |
| `Edit`, `Aggregate` | compare-and-set edits; `synthesis/aggregate/route.ts` |

A script is isolated but not atomic under faults: the repository names the points where it
may stop ("fault cuts"), and a script here has a last argument, how many of its writes were
executed. A mutation sent by a route may execute after the route gave up and after the
reconciler settled the operation (`sent`). The reconciler's own calls are not delayed, and
its markers do not expire (seven days in the code). There is one reconciler record per study:
a second reconcile request that overlaps the first is fenced by the marker, the lock's nonce
and the comparison of the frozen receipt, as a stale route is.

### AccountDeletion and the code

`slots` is every record of the account, and `planned` with `cursor` the journal
(`platformDb.accountDelete.ts`). `GatherIndexes` and `GatherRecords` are the two reads,
`Persist` the one script that freezes the plan, `Apply` one compare-and-delete and the move of
the cursor, either of which may be the last thing a request does; `Resume` goes on. A plan is a
sequence of commands in the order `buildAccountDeletePlan` gives them: `TurnsOf` is the set of
turns (phase, study, place) a snapshot gives a command, and `Plan` counts the turns before each.
A record that was not there has no turn; the storage binding is deleted with each study, and has
a turn of its own only when no study is listed. Sign-in,
credential rotation and study operations run beside it. Caps, participant links and the
eviction of in-process caches are left out.

### StudyNotebook and the code

`storage` is all of the object's storage that the module knows, one value, because a restore
rewinds all of it (`bookmark`). `asking` is a question's request between its two RPCs
(`api/studies/[id]/exploration`, `exploration.ts`), `doubting` a reader who found an old running
answer (`exploration/server.ts`), `restoring` the operator's restore, `exporting` an export's
client. `Transition`, `Activate`, `BeginRestore` and `ScheduleRestore` are `operator.ts`;
`BeginExport` to `VerifyExport` are `exports.ts`; a page compares what the snapshot captured, and
the cursor skips what it has none of (`AfterInterviews`, `AfterAggregates`). Epochs are assumed to be configured in
order. Left out: deletion of an answer's sources, parents of answers, the Redis twin, the limit
on the age of an export kept in memory, exports of one study, and the 24-hour life of a
receipt. The aggregate route's refusals are stuttering.

### SynchronousAnalysis, AttemptWindows and the code

`SynchronousAnalysis` is `interviewAnalysis.ts` over the scripts of `kv.ts`: `Claim`,
`ReadInterview`, `CallSynthesis`, `SynthesisReturns`, `AttachResult`, `ReportFailure`. `LeaseEnds` may
come at any moment; `late` is a write executed after its caller gave up; `Tombstone` and
`PurgeInterview` are a deletion between its passes. `ended` counts leases that ended under
their run. `AttemptWindows` is `login.ts` and `budget.ts`: `Admit` checks both scopes and
charges both, `Refund` gives back. `strayed` is history: refunds that came to a window their
attempt was not charged in. Here one attempt is one sign-in or one AI request; a request that
names one scope twice, a caller's clock that runs behind, and the hosted platform's
buckets on clock boundaries are left out.

### AnalysisPage, PagePromise and the code

`client` is a page's poller (`statusPoller.ts`), `loaded` and `reload` the record and its
re-reading, `statusRead` the poll in flight, `post` the start request in flight, `retained` the
action key kept until an answer (`actionKeys.ts`), `delayed` the start requests carried out
after they were given up. `job`, `outcomes` and `retryReceipts` are what the routes tell of
the workspace. Pages in `Tab` are `useInterviewAnalysis.ts`, those in `Batch` are
`analysisBatch.ts` (one interview of it). Every listed phase of the poller is kept;
delays are not counted. `PagesKeepPromise` is the refinement to `PagePromise`: work is
done again only over an outcome somebody saw and asked to have replaced (`pressed`), a
page shows states the work was in and only moves on, and a page of unfinished work looks
again, is away, or says that it stopped. `"settled"` is the one exception, see Findings.

### SampleWorkspace and the code

Loading and clearing on Redis is a list of commands (`LoadPlan`, `ClearPlan`:
`seedSampleWorkspace`, `clearSampleWorkspaceRecords`); each may fail, carried out or not, and a
request may stop anywhere. Participants join the sample study meanwhile (P1, Finish).
In the Durable Object the same two operations are one transaction each.

### Installer and the code

`receiptFile` is `receipt.json`; `cloudflare`, `serving`, `secrets` and `object` are the account;
`setup` is the run, in memory. The phases of `apply.mjs` are `Attempts`, `Creates`, `Adopts`,
`GatewayRefused`, `DeployInitial`, `Origin`, `SetSecrets` ..., `Verify`; `ResumeBegins` finds the
first phase the receipt does not have; `update.mjs` is `UpdateDeploys`, `AddKey`, `RotateToken`,
`ChangeProvider`, `ChangeTransport` and what follows them. A call is answered, or its answer is
lost, landed or not (`CreateLost`, `DeployLost`, `Uploads*`), and `Dies` may come anywhere.
`WithinAttempt` and `ShownOurs` are `ownership.mjs`; a tick of `WindowPasses` is longer than the
window of an attempt. One run at a time, as `acquireLock` sees to; two queues are one; the
configuration file on disk and its identity check, the refusal of a key operation over an
unrecorded deployment, re-bootstrap, receipt migration, the language, password and
provider-key rotations and commit annotations are left out.

### MCParts

A behaviour of `MCParts` is a behaviour of one part, chosen in the initial state; the
others stay in one state. The parts share no variables, except that account deletion is
explored twice: by itself with two requests, and by one request beside the account's
studies. `Environments`, `Scenarios`, `Troubles` and `Meddling` are sets of sets: one is in force
in each behaviour, which keeps combinations that do not interact apart. Of things that are
interchangeable (operations, contents, runs, requests over the sample), the first in an order
begins first; at most two requests touch the sample at once, and where batches stop, at
most one start request at a time is carried out late.

## Runs

On `MCAnalysisJobs`. Bounds are in the cfg files: generations
(`MaxGeneration`), epochs (`MaxEpoch`), late requests (`MaxLate`), the dispatch
budget (`MaxDispatch`, 16 in the code), the batch (`Batch`, 25 in the code) and one to
three ticks for each duration. `Environment` says which external events a
configuration explores. TLC reports a deadlock when every bounded event is used
up, which is the system at rest, so deadlock is not checked.

| Run | Instance | Properties | What it shows |
|---|---|---|---|
| `MCDelivery` | 1 interview, 2 invocations, 2 dispatches, lost and late RPCs | `TypeOK`, `AtMostOnePaidCall`, `GrantedTimeIsKept`, `KeepsPromise` | two invocations competing for one job through redelivery, replay, late execution, watchdog and re-dispatch; the refinement |
| `MCRetry` | 2 generations, 2 keys, lost RPCs, deletion | `ProjectionAgrees`, `GenerationsAreSerial`, `TerminalIsFinal` | concurrent retries, deletion and cleanup against a consumer in flight |
| `MCOperator` | 2 invocations, 2 epochs, every transition, redeployment | `ProjectionAgrees`, `HeldIsInert`, `StaleEpochNeverStarts` | drain, freeze, recovery, rotation at every point of a job's life |
| `MCBatch` | 2 interviews, batch of 1, storage faults, restarts, holds | `WakeUpArmed` | a batch cut short, quarantine and eviction never lose a wake-up |
| `MCProgress` | 2 interviews, fairness | `JobsSettle` | every generation ends |
| `MCResume` | holds that end, fairness, polling | `ResumedJobsSettle` | nothing is stranded by a hold |

Why the bounds are enough: a fault of these protocols needs two invocations
(holder and thief), two dispatches (the second one is a re-dispatch), two
generations (superseded and current), two epochs (old and new), two due rows and a
batch of one; `MCRetry` and `MCOperator` use one dispatch because re-dispatch is
`MCDelivery`'s question. Durations keep `Deadline + Margin <= Lease`
(`LeaseCoversCall`: 120 s + 20 s <= 180 s in `analysisProtocol.ts`). With
`MaxLate = 0` a lost request is one that was never executed; the executed one
whose reply is lost is in `MCDelivery`.

`WakeUpArmed` is not claimed across a change of deployment: when an epoch mismatch
consumes the alarm and the old configuration returns, the object sleeps with due
rows until a status read or a retry restores the alarm. The comment at
`scheduler.ts:145-147` says so. `ResumedJobsSettle` is the claim that then holds.

On `MCInterviewCompletion`:

| Run | Instance | Properties | What it shows |
|---|---|---|---|
| `MCSave` | 2 sessions, 2 requests, 2 contents; lost replies, pause, revocation, deletion, holds | `TypeOK`, `TablesAgree`, `ClosedCollectsNothing`, `KeepsInterviews` | saves, agreements and link creations overtaken by whatever closes access; the refinement |
| `MCExpiry` | 2 sessions, 2 scopes with different windows, 4 ticks, cleanup, redeployment | `EvidenceAgrees`, `AdmissionHolds`, `ConsentNeverRenewed` | late requests judged by an old clock around every expiry |
| `MCStudies` | 2 study ids, 1 key, 2 revisions, 2 languages, deletion, holds | `EvidenceAgrees`, `KeyMakesOneStudy` | creation repeated under a key, edits and holds against collection |
| `MCSoftLock` | 1 study, 1 session, 1 edit | `UnconfirmedEditFindsNoInterview`, violated | see Findings |

A fault here needs two requests of one session (two tabs, or a retry), two sessions for
one place in a window, two contents for a conflicting replay, two revisions and two
languages for stale evidence, two study ids for one key. Durations are one to three
ticks; `ConsentOutlivesSession` holds of them as of the code's (both four hours). The
modules' other constants are as small as they can be where a configuration's
question does not involve them. `CHECK_DEADLOCK FALSE`: sessions, links and ids are
used up in the end, which is the system at rest. No liveness is claimed: participants and
researchers owe nothing. `EvidenceAgrees` also needs `MaxLate < ConsentTTL`, which four hours
are.

On `MCParts`, one run, by part:

| Part | Instance | Properties | What they say |
|---|---|---|---|
| hosted | 1 study, 2 operations, 1 interview, 2 contents, 2 revisions, purge batch of 1, save window of 1, registry of 2; six environments of create, delete, save, edit, aggregate, lost answers, cuts, split resolution, expiry | `PendingIsResolvable`, `StudyIsRouted`, `RecordedOutcomeHolds`, `NothingOutlivesItsStudy`, `ToldSavedIsKept` | every pending record can still be resolved either way; a study that is stored and under no operation is routed and listed; a recorded cancellation or deletion stays true under late mutations; no row survives its study; a participant told "saved" finds it |
| deletions | 1 study, 2 requests that delete or resume | `DeletedRecordsAreGone`, `SuccessorIsSpared` | once the journal is gone the gathered records are; a later sign-in's rows survive |
| notebook | 2 questions under 1 key, 3 epochs, quota 2, sequence up to 4 | `OneCallPerQuestion`, `PaidAnswerIsKept`, `UncertainWorkIsMarked`, `ExportIsOneState` | one paid call for a question; a paid answer is stored or in the client's hands; a frozen workspace has nothing running, and work reserved before a restore is not taken for running after it; a verified export is one state |
| analysis | 3 runs | `OverlapNeedsAnEndedLease`, `ReportedResultStands` | a second payer only where a lease ended; what was reported attached stays |
| windows | 3 attempts, 2 owners and a shared scope, maximum 2, windows of 1 and 2 ticks, clock to 3 | `WindowsAreConserved` | counts equal what was charged, less what strayed |
| pages | 1 page, 1 batch, 2 generations | `PagesKeepPromise` | the refinement |
| sample | 1 fixture, 1 participant, 3 requests | `ClearedIsGone` | after "cleared" nothing of the sample is left |
| installation | 1 tick, 2 epochs generated; strangers, or changes by hand with updates | `ReceiptIsTrue` | the receipt is true of the account |

with `TypeOK`, the shape of the explored part. Why this is enough: a fault here needs an
operation and the one that follows it on the same study, two revisions for a stale edit,
purge batches smaller than what there is to purge, two requests for one cursor, a
question repeated under its key, three epochs for a restore below the one in force, three
runs for a takeover that is itself taken over, windows of different lengths, a generation and
its successor, a clear that meets another and a load. One study is enough where no script
reads two. `CHECK_DEADLOCK FALSE`: what is not begun again ends. No fairness: these are
safety properties, and the callers owe nothing.

`MCPublication` (1 study, 2 operations, violated) checks `PublishingIsRepairable`, see Findings.

Some properties are claimed with an exception that is part of their statement, each a
behaviour of the code described under Findings: `RecordedOutcomeHolds` and `StudyIsRouted` are not claimed after a
resolution was cut in two (`split`), `OneCallPerQuestion` and `PaidAnswerIsKept` not of what a restore took back, `ExportIsOneState` only of an export begun and verified
between the same restores (`era`), `ClearedIsGone` not of a clear that a left-over receipt
answered (`masked`) or that a load wrote under (`disturbed`), `PagesKeepPromise` not of a page
in `"settled"`.

**Fairness** (of the jobs' model; no other run has any). `Scheduler` (the platform runs a due alarm and its handler goes on),
`Tick` and the pre-start cap. Consumers owe nothing: a consumer that stops is a
crash at that point. `PolledSpec` adds a client that keeps polling an interview it
waits for, as `statusPoller.ts` does while an analysis is pending; `MCResume`
needs it, for the reason above. A pass that throws at every alarm is outside
`MCProgress` (no `"storage"` in its `Environment`).

## Proofs

`AnalysisJobs_proofs` proves, for any sets of interviews, invocations and keys and any bounds and
durations that satisfy `ConstantsAssumption`:

| Theorem | Statement |
|---|---|
| `TypeCorrect` | `Spec => []TypeOK` |
| `Invariance` | `Spec => []Inv` |
| `PaidAtMostOnce` | `Spec => []AtMostOnePaidCall` |
| `ActiveIsCurrent` | `Spec => []OnlyCurrentIsActive` |
| `StaleEpochNever` | `Spec => StaleEpochNeverStarts` |
| `TerminalStays` | `Spec => TerminalIsFinal` |

The argument. `AtMostOnePaidCall` is not inductive: it says nothing of who may send next. Only an
invocation whose start was granted sends, and it is the one the start marker names
(`PaidByStarter`). So it is enough that a marker is set at most once per generation. It is set on
claimed rows, so claimed and pending rows must be unmarked (`UnstartedIsFree`), which holds because
no step takes a started row back to them: the watchdog and the operator settle it instead. A marker
could also be set twice if a row were allocated a second time; rows are allocated only for a
generation never reached (`RowsReached`, `StartersReached`), because a retry allocates after the
current generation and only when none is active (`OnlyCurrentIsActive`), and a deleted interview
stays fenced. A granted replay needs the holder of a started row to be its starter
(`StartedByHolder`). `ActiveEpoch` carries the epoch claim: activation leaves no active row behind.

Thirty actions reduce to five classes (`StepClasses`): a step is `Quiet` (rows move along the job's
life, nothing else the invariant mentions changes), `Allocates`, `Deletes`, `Starts` or `Pays`; each
class keeps the invariant (`QuietInv` ... `PaysInv`), and the action properties follow per class.

Neither `LeaseCoversCall` nor any duration is used: one payment per generation does not depend on
timing.

`AnalysisRefinement_proofs` continues from `Inv`:

| Theorem | Statement |
|---|---|
| `ViewInvariance` | `Spec => []ViewInv` |
| `ProjectionsAgree` | `Spec => []ProjectionAgrees` |
| `SerialGenerations` | `Spec => GenerationsAreSerial` |
| `PromiseIsKept` | `Spec => KeepsPromise` |

`ViewInv` adds to `Inv` what ties the rows to what is shown. `ViewsAgree`: a live interview has a
current row and its projection agrees with it. `SettledWasPaid`: a started job is reported as failed
or complete only once its request was sent. `NoneCancelled`: the scheduler never meets a row whose
interview is gone. `Answers` is about invocations: who reports an outcome either sent the request or
knows that it never will, also when the report is executed late; without it a late report could
complete a job that nobody paid for.

The simulation goes by kinds of step (`StepKinds`). Several jobs may be settled in one transaction
(a freeze, an activation) and are given up together; pruning and deletion withdraw; an allocation
offers; a start, a payment and a completion are the abstract steps of those names. Rows that go back
and forth between pending and claimed map to a stutter: the promise knows no leases.

The same module goes on with holds and time:

| Theorem | Statement |
|---|---|
| `HeldWorkspaceIsInert` | `Spec => HeldIsInert` |
| `WakeUpStaysArmed` | `"deploy" \notin Environment => (Spec => []WakeUpArmed)` |
| `TimeIsKept` | `Spec => []GrantedTimeIsKept` |

`WakeInv` adds to "who sleeps in an open or draining workspace is armed" that no quarantine outlasts
the longest fault (`QuarantineEnds`) and that the deployment is the one the workspace was created by
(`OneDeployment`), which is the theorem's hypothesis. It is needed: a deployment that misses the
object may consume the alarm unheard. That wait is healed by the next status read, which is the
liveness property `ResumedJobsSettle`. `TimeInv` says that whoever has time left started the job,
and that the job is still its own with a lease at least as long (`TimeIsGranted`). The start is the
one place that uses `LeaseCoversCall`: the deadline and the margin fit in the lease.

With these, every invariant and action property that `MCAnalysisJobs` checks, and its refinement, is
a theorem. Its liveness properties are not: they are beyond the prover.

`AnalysisRequests_proofs`, for any finite set of runs:

| Theorem | Statement |
|---|---|
| `SynchronousTypeCorrect` | `SynchronousSpec => []SynchronousTypeOK` |
| `SynchronousInvariance` | `SynchronousSpec => []IInv` |
| `LeaseFencesProvider` | `SynchronousSpec => []OverlapNeedsAnEndedLease` |
| `ReportsAreTrue` | `SynchronousSpec => []ReportedResultStands` |

`OverlapNeedsAnEndedLease` counts runs, and a count says nothing of who may claim next. In `IInv`,
`LeasesCounted` adds that where there is one run more on the way to the provider than leases ended,
the extra one holds the claim and its lease is still running: then nobody can claim, and when that
lease ends both sides grow equal. `AttemptsCounted` and `LateIsOver` bound the attempts by the runs
and keep late writes to runs that are over, so that a straggling write never releases the claim of a
run still on its way. Cardinalities are taken with `FiniteSetTheorems`.

The same module, for any sets of pages and batches, any bounds on generations and keys, and any
troubles:

| Theorem | Statement |
|---|---|
| `PagesInvariance` | `PagesSpec => []PagesInvariant` |
| `PagesTyped` | `PagesSpec => []PagesTypeOK` |
| `PagesKeepTheirPromise` | `PagesSpec => PagesKeepPromise` |

A page decides from what it holds, and everything it holds is old. `StatesMet` says how old: each state
on a page, in an answer or in a record is one the work was in (`Met`), and stays so whatever the work
does next (`MetAfter`); two such states of one generation that have both ended are equal, which is
why `adoptAnalysisStatus`, which compares generations and outcomes only, never steps back
(`AdoptMovesOn`). `StartsAsked`: every start that may still be carried out, retained, in flight or given
up, expects the generation of a state that somebody saw ended and pressed on. When one allocates, the
work is at that generation and has ended too, so it is that state (`PressedIsCurrent`,
`AllocatesOverPressed`): without the comparison of `expectedGeneration` this lemma is false. A batch
follows its start's answer without `adoptAnalysisStatus`; that it moves on needs `KeysTell`: a key
belongs to one expected generation and is told a later one only (`NewerThanAsked`). `PollersSound`
ties the phase of a poller to its timer, its read and its flags; from it follows that nobody who shows
pending work is without any of them (`PagesAreWatched`), except in phase `"settled"`.

A step of a page or a batch is reduced to what it does to its poller (`PageStep`) and to its requests
(`RequestStep`), a step of the workspace to `WorkStep`; the invariant and the refinement are then shown
once for each. TLC checked `PagesInvariant` on one page and one batch before it was proved.

`Operator_proofs`, for any finite set of attempts, any owners, maxima and lengths, and for any clock,
number of generated epochs and set of disturbances:

| Theorem | Statement |
|---|---|
| `WindowsTypeCorrect` | `WindowsSpec => []WindowsTypeOK` |
| `WindowsConserve` | `WindowsSpec => []WindowsAreConserved` |
| `InstallerTyped` | `InstallerSpec => []InstallerTypeOK` |
| `ReceiptsAreTrue` | `InstallerSpec => []ReceiptIsTrue` |

The two properties of the windows are inductive together. `ReceiptIsTrue` is not: it speaks of the
receipt and the account between runs, and what a run will write next depends on what it holds in
memory. `IInv` has one part for each relation. `ReceiptInv` is the receipt by itself: a phase is
recorded only after what it needs, and a gateway that was seen is covered by its recorded attempts.
`RunInv` says where a run can be, given the receipt: `apply` is at the first phase that is not done
(`Applies`), an update has its own change pending and none of another kind (`Updates`), and the
configuration on its way to the Worker is what the receipt and the change say. `SecretsInv` carries the
epoch: what is bound is of the epoch recorded before the upload, so an epoch can only be replaced
while none is bound. `ServingInv` and `SettledInv` relate the version served to the secrets and the
receipt: from the deployment that clears the bootstrap on they agree, except while a change of
provider or transport is pending. `AccountInv` is about ownership: from the phase that provided it on,
what has the name is the installation's, or of the window of a recorded attempt (`Ours`), and a
deployment on its way is inside a window that is recorded. The gateway is the hard one: it may be
recorded, seen, deleted by hand and created again while the Worker runs without it, so its ownership
is claimed where it is used (`UsesGateway`), together with the probe of its token. `Least` and
`FirstIs` replace the choice of the first incomplete phase by a case for each phase; every action has
a lemma of its own.

`InterviewCompletion_proofs`, for any finite set of sessions and any studies, links, keys, maxima
and lifetimes that satisfy `CollectionAssumption`:

| Theorem | Statement |
|---|---|
| `TypeCorrect` | `Spec => []TypeOK` |
| `RowsGoTogether` | `Spec => []TablesAgree` |
| `OneStudyForAKey` | `Spec => []KeyMakesOneStudy` |
| `EvidenceHolds` | `MaxLate < ConsentTTL => (Spec => []EvidenceAgrees)` |
| `FirstConsentWins` | `Spec => ConsentNeverRenewed` |
| `ClosedIsClosed` | `Spec => ClosedCollectsNothing` |
| `AdmissionIsKept` | `Spec => []AdmissionHolds` |
| `PromiseIsKept` | `Spec => KeepsInterviews` |

`TablesAgree` is inductive given the types, with cardinalities from `FiniteSetTheorems`.
`KeyMakesOneStudy` needs that a study that exists has been made (`StudiesAreMade`), and that the
receipt of a made study stays as long as it was granted for, whatever happens to the study
(`ReceiptsBind`). `EvidenceAgrees` needs that a kept interview's
consent is still there or has expired, and that a later one of its session was given later
(`ConsentsFollow`). Its theorem has a hypothesis, that a request ends before a consent does, and is
false without it, as TLC shows: an agreement as old as the first can be stored after cleanup has
taken the first, in another language, and carries the same time. The code keeps a consent for four
hours (`src/lib/participantConsent.ts:5`), and no request lasts as long. `AdmissionHolds` rests on
the membership of a kept interview staying for its window and the grace (`MembersStay`).

`StudyNotebook_proofs`, for any requests, keys, bounds and events:

| Theorem | Statement |
|---|---|
| `NotebookTypeCorrect` | `NotebookSpec => []NotebookTypeOK` |
| `QuestionIsAskedOnce` | `NotebookSpec => []OneCallPerQuestion` |
| `OldWorkIsMarked` | `NotebookSpec => []UncertainWorkIsMarked` |
| `AnswerIsKept` | `NotebookSpec => []PaidAnswerIsKept` |
| `ExportIsWhole` | `NotebookSpec => []ExportIsOneState` |

Each property has an invariant of its own over `Types`; because a restore replaces the whole
storage, what is claimed of the storage is where needed also claimed of the bookmark that may
replace it. `CallInv`: the receipt under a key names the request that reserved the question, and
only that one calls; a receipt of the bookmark is also in the storage. `WorkInv`: frozen storage has
no running answer, and what runs is of this era or of an epoch that waits for its activation.
`PaidInv`: an answer is only failed for a request that is gone, and before any restore a reservation
has its row. `ExportInv`: as long as the sequence is the one an export began at, the text is the one
it began with (`Fenced`), and so is what it wrote to its archive; what its cursor has not come to
is still empty there (`Archived`). Proving the types
corrected one: an activation that marks running answers counts two mutations, so the sequence
reaches `MaxSequence + 1`.

`HostedStudies_proofs`, for any studies and operations and any finite set of interviews:

| Theorem | Statement |
|---|---|
| `HostedTypeCorrect` | `HostedSpec => []HostedTypeOK` |
| `PendingOperationsResolve` | `HostedSpec => []PendingIsResolvable` |
| `NothingIsOrphaned` | `HostedSpec => []NothingOutlivesItsStudy` |
| `ToldIsKept` | `HostedSpec => []ToldSavedIsKept` |
| `OutcomeHolds` | `HostedSpec => []RecordedOutcomeHolds` |
| `StudyStaysRouted` | `HostedSpec => []StudyIsRouted` |

Two invariants. `HostedInv` has one part per database: `ByosInv` of the researcher's (`ByosShape`;
`Filed`, every stored interview is indexed; `NothingOutlivesItsStudy`), and `PlatformInv` of the
registry: records, routes and repairs are of operations that were asked for; an open operation holds
the lock (`LockIsTheRecords`); a reservation was left by its route, which wrote it in order
(`ReservationsAreLeft`); and `LateActorsAreBlocked`: of an operation whose record has left the
registry at most one of its route and the reconciler still acts, and the score of the last published
receipt is the operation's own, unless the one who acts holds its receipt. This part is the heart of
it. Without it a late publication could end the record of a later operation on the same study. The
member's score never expires, and that is also what keeps a deletion from being published after its
creation (`MCPublication` below): one mechanism, both effects.

`OutcomeInv` relates the two databases. Each study is created once and a deletion is confirmed for a
revision or for no interviews (`AskedOnce`); a marker and a guard tell what became of the study
(`MarkersFit`, `GuardsFit`); a route, the reconciler and a record resolve an operation only as its
marker bears out (`RouteClaims`, `ReconcilerClaims`, `RecordClaims`, each by `Agrees`), and a
deletion that was refused would be refused again (`Refusing`), so that a mutation executed after its
route gave up changes nothing of what the reconciler found; a record left half way is one whose
resolution was cut (`ResolvingWasCut`); and `Routed` says who keeps the routing of a study that is
there or may yet be created. `OutcomeSteps` takes each class of step through these parts: loading,
recovering, beginning, resolving, the routes and the reconciler.

`Deletions_proofs`, for any number of studies and any set of requests (`AccountDeletion`), and any
finite set of sample interviews (`SampleWorkspace`):

| Theorem | Statement |
|---|---|
| `DeletionInvariant` | `DeletionSpec => []DInv` |
| `DeletionTyped` | `DeletionSpec => []DeletionTypeOK` |
| `DeletionsComplete` | `DeletionSpec => []DeletedRecordsAreGone` |
| `SuccessorsAreSpared` | `DeletionSpec => []SuccessorIsSpared` |
| `SampleTyped` | `SampleSpec => []SampleTypeOK` |
| `ClearsTruly` | `SampleSpec => []ClearedIsGone` |

First the plan: `TurnsCounted` shows that counting the turns before each one numbers them without gaps
and in order (`Before` is a strict order, `BeforeOrders`), `TurnsAre` and `PlanHas` that each
record that was found has a command, that the account's index `reverse` has the first one, and the
journal the last. `Planning` then says that the records of the first `cursor` commands no longer have the
value the plan expects. It is kept only because such a value never comes back: `Recorded` and
`Seen` say in which order the values of a record follow one another, for what is stored and for
whatever a request read, however long ago. The key is that a study begins only where the account's
index is there, which is what the plan deletes first (`Known`, `NothingBegins`): after that the
only writers are the operations that had begun. `Spared` needs in addition that every plan, also one
gathered before and persisted late, expects the first account's identities and never those of a
successor (`SeenOfAccount`).

`SInv`, of the sample: a clear goes through its plan in order, and of every command it has done the record
is still gone (`Progress`), unless a load wrote under it or a left-over receipt answered it, the two
exceptions of `ClearedIsGone`; a receipt belongs to a clear that still owes its removal
(`ReceiptOwed`); a participant's interview is in the study's index or on its way to it while the
study stands (`JoinersHeld`). The order in which a plan goes through the interviews is a choice of least
numbers, shown to reach each of them (`LeastNumber`, from the well-foundedness of `<`; `EachHasAll`).

For the proofs the models name their row sets (`StudyRows`, `OpRows`, `RequestRows` and others) and
assume that the value for "no row" is none of them (`NoneIsNoRow`, `NoneIsNoStudyRow`,
`NoneIsNoPlatformRow`, `NothingAssumption`, `BlankAssumption`), as SQL's NULL and Redis's nil are not; TLC evaluates these assumptions.
`Session` and `Interview` are assumed finite, for the counts.

**Model-checked only.** `TypeOK` of `MCParts`, which says on its instance what the parts' type
invariants say, each proved for any instance. `JobsSettle` and `ResumedJobsSettle` are
liveness under fairness, which the prover does not reach. `OnlyCurrentIsActive` is proved
(`ActiveIsCurrent`) and has no run of its own.

## Findings

`MCSoftLock`: `PUT /api/studies/[id]` is documented as a soft lock, "warns if has
interviews" (`src/app/api/studies/[id]/route.ts:2`, and again at `:224`). The route tests
the count of an earlier read; the write that follows compares only the revision, and
a save does not advance the revision. TLC's trace: an edit reads a study with no
interviews; a participant's save commits; the edit's write succeeds without a
warning, and the participant's interview is now of an earlier revision. Carrying the
count (or the study's `is_locked`) into `replaceStudyConfig` would close it.

`MCPublication`: the platform keys an operation's receipt by study and generation
(`src/lib/platformDb.operations.ts:1298`), and the generation of every operation is 1
(`src/app/api/studies/route.ts:350`, `src/app/api/studies/[id]/route.ts:338`). A study that was
created and is then deleted reaches `publishing` twice under one key. TLC's trace: while the
creation's receipt lives the deletion's publication is answered `publish-stale`; after the
receipt expired it is `publish-corrupt`, because the member's score has no expiry. The
deletion itself took place, but its record stays live for good: it counts toward
`MAX_LIVE_OPS`, and neither a route nor the reconciler can end it.

Observations met while modelling, each an assumption or an exception of a model above:

- *Reconciler, split resolution.* RESOLVE cut after its record moved and before the rest is
  continued as `<kind>-complete`, also where it was a rollback.
- *PROVISION* stores an account without the `oi:account:` prefix that fences and the credential
  compare-and-set require (`platformDb.ts`, about :469). The models begin with prefixed
  accounts, as the tests do.
- *Late refunds* (`login.ts`): "a window that has ended meanwhile has nothing to return", but a
  newer window of the same scope is decremented. `strayed` counts them.
- *Exports and restore.* A sequence number is used again after a restore, so an export that
  began before it may recapture another state under its number (`exports.ts:289-292`).
- *Sample.* A clear that stops between the delete script and the deletion of its receipt leaves
  a receipt that answers the next clear, although a load wrote since; the comment at
  `kv.ts:1105` says that it "must not mask a later clear". A load over a left tombstone
  yields a fenced study until it is cleared. The object refuses to clear over participants'
  interviews (`workspace/sample.ts:189-196`); the Redis path removes them.
- *Poller.* A poller that settled and is given a newer pending generation by a reload of the
  record neither polls nor offers "Check status" (`useInterviewAnalysis.ts:193`,
  `statusPoller.ts:46`).
- *Hosted creation.* RECOVER of a create cut after its record is ambiguous for good, and does not
  compare the nonce; one that dies between reserving its key and beginning answers 202 for
  good; PUBLISH prunes by milliseconds what is scored in seconds; P1 consults the save window
  but only Finish counts; a rolled-back deletion leaves no tombstone in the researcher's Redis.
- *Account deletion.* What is written between gathering and PERSIST, or rewritten after, survives;
  receipts and scores of studies no longer listed are never gathered.
- *Exploration.* While the workspace drains, a paid answer cannot be stored and lives in the
  client's signed receipt.
- *Installer.* The receipt is read before the lock is taken (`apply.mjs:159` and `:171`), so a run
  may write back an older receipt. `gatewayTokenRecorded` (`state.mjs:127`) takes the probe as
  evidence, so a token bound by hand while a switch is interrupted is kept, against the comment at
  `:121`; the model binds tokens by hand only between runs. Changing to a provider whose key is
  bound without a record adopts that key. A stranger's resource created within an attempt's
  window is taken for the attempt's (`IsOurs` allows it).

## Plan

Done: jobs, scheduler, consumer, maintenance and epochs; completion, consent and save admission;
Redis studies and hosted operations; account deletion; exploration answers, exports and restore;
synchronous analysis; sign-in and AI windows; pages; the sample on Redis; the installer.

Left, in order of what is at stake:

1. `WorkspaceRecovery`: backup watermark, import chunks and finalisation
   (`workspace/operator.ts:410-790`); composes with `AnalysisJobs`' epochs.
2. Hosted participant links, and `admitParticipantRequest`'s windows.
3. The participant's interview client (`store.ts`, `InterviewChat.tsx`), the Redis twin of exploration,
   and the operator scripts that inventory and migrate a Redis deployment.

## Not modelled, and why

- Schema migrations: each commits with its ledger row in one synchronous transaction.
- Reads, listings and keyset pages: no state, one snapshot each; what they are read for is in
  the modules of the writers.
- Backup byte format: conversion of data without state.
- AI providers, beyond "answers, fails or is silent".
- HTTP mapping, validation and rendering. Pages, components and prompts are most of the code no
  module covers: what they keep between two events is in `AnalysisPage`, the rest is layout,
  wording and pure functions.
- `scripts/check-setup.mjs` and the inventory scripts read and report; their writes are in 3 above.

`PROJECT.json` has the list with reasons.
