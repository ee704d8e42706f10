---------------------------- MODULE StudyNotebook ----------------------------
(***************************************************************************)
(* A study's notebook of paid answers, under the operator's hands.          *)
(*                                                                         *)
(* A question is reserved under its request key before the provider is      *)
(* called; the answer is stored by a second call, or kept by the client in  *)
(* a signed receipt when that call is not known to have succeeded.  A       *)
(* request may die at any point, and whoever looks at an old running answer *)
(* marks it uncertain.  Meanwhile the workspace's Durable Object drains,    *)
(* freezes, recovers and is restored to a bookmark, which rewinds all of    *)
(* its storage under requests that have paid since; and an export reads it  *)
(* page by page, fenced by the mutation sequence.                           *)
(*                                                                         *)
(* One study.  An answer is named after the request that minted its id; its *)
(* text is told apart by its status.                                        *)
(***************************************************************************)
EXTENDS Naturals, FiniteSets

CONSTANTS
  Request,        \* POST requests with a question
  Key,            \* request keys
  Epoch,          \* recovery epochs a deployment may configure
  Quota,          \* MAX_EXPLORATION_ANSWERS
  MaxSequence,    \* bound: mutations
  MaxVersion,     \* bound: maintenance transitions
  Scenarios       \* the sets of activities explored, one of them per behaviour

Activities == {"operate", "restore", "export", "remove"}
ASSUME NotebookAssumption ==
  /\ Quota \in Nat /\ MaxSequence \in Nat /\ MaxVersion \in Nat
  /\ Epoch \subseteq Nat /\ 0 \in Epoch /\ Scenarios \subseteq SUBSET Activities

VARIABLES
  scenario,    \* the activities of this behaviour
  storage,     \* the object's storage, all of it rewound by a restore
  configured,  \* ANALYSIS_RECOVERY_EPOCH of the deployment
  asking,      \* each request: what it does next
  doubting,    \* answers a reader saw running long after they were reserved
  restoring,   \* a restoreToBookmark call: the state and version it expects
  bookmark,    \* the storage as it was at the bookmark
  exporting,   \* an export: its next step, sequence, and the archive so far
  calls,       \* history: provider calls made under each key
  rewound,     \* history: keys whose reservation a restore took back
  era          \* history: restores done

notebook == <<scenario, storage, configured, asking, doubting, restoring, bookmark, exporting, calls, rewound, era>>

States == {"open", "draining", "frozen", "recovery"}
NoText == [analysed |-> FALSE, aggregate |-> 0, answers |-> <<>>]

\* What an export reads of the storage.
Text == [analysed |-> storage.analysed, aggregate |-> storage.aggregate,
         answers |-> [r \in DOMAIN storage.answers |-> storage.answers[r].status]]

NotebookInit ==
  /\ scenario \in Scenarios
  /\ storage = [study |-> TRUE, answers |-> <<>>, receipts |-> <<>>, analysed |-> FALSE, aggregate |-> 0,
                sequence |-> 0, snapshots |-> <<>>, state |-> "open", version |-> 0, activated |-> 0, superseded |-> {}]
  /\ configured = 0
  /\ asking = [r \in Request |-> [does |-> "idle", key |-> CHOOSE k \in Key : TRUE]] /\ doubting = {}
  /\ restoring = [does |-> "idle"] /\ bookmark = storage
  /\ exporting = [does |-> "idle"]
  /\ calls = [k \in Key |-> 0] /\ rewound = {} /\ era = 0

\* gate: writes need the configured epoch, and a state their class allows.
Gated(states) == storage.activated = configured /\ storage.state \in states
MutationAllowed == Gated({"open"})
Bumped(store) == [store EXCEPT !.sequence = @ + 1]
Bounded == storage.sequence < MaxSequence

Extend(f, x, y) == [z \in DOMAIN f \cup {x} |-> IF z = x THEN y ELSE f[z]]
Becomes(r, does) == asking' = [asking EXCEPT ![r].does = does]

-----------------------------------------------------------------------------
(* A question: POST /api/studies/[id]/exploration. *)

\* The lookup finds no attempt under the key.  (An attempt it finds is answered,
\* see DoubtRunning.)
Ask(r, k) ==
  /\ asking[r].does = "idle" /\ storage.study /\ k \notin DOMAIN storage.receipts
  /\ asking' = [asking EXCEPT ![r] = [does |-> "asks", key |-> k]]
  /\ UNCHANGED <<scenario, storage, configured, doubting, restoring, bookmark, exporting, calls, rewound, era>>

ReservesAgain(r) ==   \* mutant: the receipt is not looked at again
  /\ MutationAllowed /\ storage.study
  /\ Cardinality(DOMAIN storage.answers) < Quota

Admits(r) ==
  /\ MutationAllowed /\ storage.study
  /\ asking[r].key \notin DOMAIN storage.receipts
  /\ Cardinality(DOMAIN storage.answers) < Quota

\* reserve: the answer and a receipt that never expires, or a replay or refusal.
Reserve(r) ==
  /\ asking[r].does = "asks"
  /\ IF Admits(r)
     THEN /\ Bounded
          /\ storage' = Bumped([storage EXCEPT
               !.answers = Extend(@, r, [status |-> "running", era |-> era]),
               !.receipts = Extend(@, asking[r].key, r)])
          /\ Becomes(r, "admitted")
     ELSE UNCHANGED storage /\ Becomes(r, "gone")
  /\ UNCHANGED <<scenario, configured, doubting, restoring, bookmark, exporting, calls, rewound, era>>

FailsAnything(r, status) ==   \* mutant: whatever the answer's status is
  IF MutationAllowed /\ r \in DOMAIN storage.answers
  THEN Bounded /\ storage' = Bumped([storage EXCEPT !.answers[r].status = status])
  ELSE UNCHANGED storage

\* fail: only a running answer, which was at most marked once.
FailAnswer(r, status) ==
  IF MutationAllowed /\ r \in DOMAIN storage.answers /\ storage.answers[r].status = "running"
  THEN Bounded /\ storage' = Bumped([storage EXCEPT !.answers[r].status = status])
  ELSE UNCHANGED storage

\* The AI budget refuses; no call is made.
RefuseBudget(r) ==
  /\ asking[r].does = "admitted"
  /\ FailAnswer(r, "failed") /\ Becomes(r, "gone")
  /\ UNCHANGED <<scenario, configured, doubting, restoring, bookmark, exporting, calls, rewound, era>>

CallProvider(r) ==
  /\ asking[r].does = "admitted"
  /\ calls' = [calls EXCEPT ![asking[r].key] = @ + 1] /\ Becomes(r, "waits")
  /\ UNCHANGED <<scenario, storage, configured, doubting, restoring, bookmark, exporting, rewound, era>>

\* The provider refuses, or its outcome is uncertain (a timeout, no answer).
ProviderFails(r, status) ==
  /\ asking[r].does = "waits"
  /\ FailAnswer(r, status) /\ Becomes(r, "gone")
  /\ UNCHANGED <<scenario, configured, doubting, restoring, bookmark, exporting, calls, rewound, era>>

ProviderAnswers(r) ==
  /\ asking[r].does = "waits" /\ Becomes(r, "knows")
  /\ UNCHANGED <<scenario, storage, configured, doubting, restoring, bookmark, exporting, calls, rewound, era>>

Completable(r) ==
  /\ MutationAllowed /\ r \in DOMAIN storage.answers
  /\ storage.answers[r].status \in {"running", "recovery-required"}

\* complete, sent by the route or with the signed receipt; a completed answer is
\* saved already.  Where the reply is lost or is not "saved", the client keeps
\* the receipt and may send it again and again.
CompleteAnswer(r, heard) ==
  /\ asking[r].does \in {"knows", "holds"}
  /\ IF Completable(r)
     THEN Bounded /\ storage' = Bumped([storage EXCEPT !.answers[r].status = "complete"])
     ELSE UNCHANGED storage
  /\ Becomes(r, IF heard /\ MutationAllowed /\ r \in DOMAIN storage.answers
                   /\ storage'.answers[r].status = "complete" THEN "done" ELSE "holds")
  /\ UNCHANGED <<scenario, configured, doubting, restoring, bookmark, exporting, calls, rewound, era>>

\* recoverInterruptedAnswer: whoever lists, opens or asks for an answer reads it
\* as running, and marks it by a second call.  (How old it is is not modelled:
\* the provider may still be answering.)
DoubtRunning(r) ==
  /\ r \in DOMAIN storage.answers /\ storage.answers[r].status = "running"
  /\ doubting' = doubting \cup {r}
  /\ UNCHANGED <<scenario, storage, configured, asking, restoring, bookmark, exporting, calls, rewound, era>>

MarkInterrupted(r) ==
  /\ r \in doubting /\ doubting' = doubting \ {r}
  /\ FailAnswer(r, "recovery-required")
  /\ UNCHANGED <<scenario, configured, asking, restoring, bookmark, exporting, calls, rewound, era>>

Die(r) ==
  /\ asking[r].does \in {"asks", "admitted", "waits", "knows"} /\ Becomes(r, "gone")
  /\ UNCHANGED <<scenario, storage, configured, doubting, restoring, bookmark, exporting, calls, rewound, era>>

-----------------------------------------------------------------------------
(* Other writers, as far as an export sees them. *)

ReplaceAggregate ==
  /\ "export" \in scenario /\ MutationAllowed /\ storage.study /\ Bounded
  /\ storage' = Bumped([storage EXCEPT !.aggregate = @ + 1])
  /\ UNCHANGED <<scenario, configured, asking, doubting, restoring, bookmark, exporting, calls, rewound, era>>

FinishAnalysis ==
  /\ "export" \in scenario /\ Gated({"open", "draining"}) /\ storage.study /\ ~storage.analysed /\ Bounded
  /\ storage' = Bumped([storage EXCEPT !.analysed = TRUE])
  /\ UNCHANGED <<scenario, configured, asking, doubting, restoring, bookmark, exporting, calls, rewound, era>>

\* deleteStudy: the answers go, their receipts stay as deleted.
RemoveStudy ==
  /\ "remove" \in scenario /\ MutationAllowed /\ storage.study /\ Bounded
  /\ storage' = Bumped([storage EXCEPT !.study = FALSE, !.answers = <<>>, !.analysed = FALSE, !.aggregate = 0])
  /\ UNCHANGED <<scenario, configured, asking, doubting, restoring, bookmark, exporting, calls, rewound, era>>

-----------------------------------------------------------------------------
(* The operator: maintenance, recovery epochs and point-in-time restore. *)

Running == {r \in DOMAIN storage.answers : storage.answers[r].status = "running"}

\* classifyExplorations: whether a running answer was paid for is not known.
Classified ==
  IF Running = {} THEN storage
  ELSE Bumped([storage EXCEPT !.answers = [r \in DOMAIN storage.answers |->
         IF r \in Running THEN [storage.answers[r] EXCEPT !.status = "recovery-required"] ELSE storage.answers[r]]])

MayFollow(from) ==
  {"recovery"} \cup CASE from = "open" -> {"draining"} [] from = "draining" -> {"open", "frozen"}
                      [] from = "frozen" -> {"open", "draining"} [] OTHER -> {"frozen", "open"}

\* transitionMaintenance, from the state and version the operator saw.
Transition(next, classify) ==
  /\ "operate" \in scenario /\ storage.version < MaxVersion /\ Bounded
  /\ next # storage.state /\ next \in MayFollow(storage.state)
  /\ next # "recovery" => storage.activated = configured
  /\ next = "frozen" => classify \/ Running = {}
  /\ storage' = [(IF next = "frozen" THEN Classified ELSE storage) EXCEPT !.state = next, !.version = @ + 1]
  /\ UNCHANGED <<scenario, configured, asking, doubting, restoring, bookmark, exporting, calls, rewound, era>>

\* The deployment is given a new epoch.  Epochs are used in order: a restore
\* forgets which were activated, and the operator is told to use a new one.
RotateEpoch ==
  /\ "restore" \in scenario /\ configured + 1 \in Epoch
  /\ configured' = configured + 1
  /\ UNCHANGED <<scenario, storage, asking, doubting, restoring, bookmark, exporting, calls, rewound, era>>

\* activateRecoveryEpoch.
Activate ==
  /\ storage.state = "recovery" /\ storage.activated # configured /\ configured \notin storage.superseded /\ Bounded
  /\ storage' = Bumped([Classified EXCEPT !.activated = configured, !.superseded = @ \cup {storage.activated}])
  /\ UNCHANGED <<scenario, configured, asking, doubting, restoring, bookmark, exporting, calls, rewound, era>>

\* The bookmark a later restore will name.  Bound: one.
TakeBookmark ==
  /\ "restore" \in scenario /\ era = 0 /\ bookmark.sequence = 0 /\ bookmark # storage /\ restoring.does = "idle"
  /\ bookmark' = storage
  /\ UNCHANGED <<scenario, storage, configured, asking, doubting, restoring, exporting, calls, rewound, era>>

RestoresUnrotated ==   \* mutant: the epoch need not be a new one
  storage.state \in {"frozen", "recovery"}

\* restoreRefusal, but for the state and version expected.
MayRestore ==
  /\ storage.state \in {"frozen", "recovery"}
  /\ configured # storage.activated /\ configured \notin storage.superseded

\* restoreToBookmark checks, looks the bookmark up, and checks again.
BeginRestore ==
  /\ "restore" \in scenario /\ restoring.does = "idle" /\ era = 0 /\ MayRestore
  /\ restoring' = [does |-> "looks", state |-> storage.state, version |-> storage.version]
  /\ UNCHANGED <<scenario, storage, configured, asking, doubting, bookmark, exporting, calls, rewound, era>>

ScheduleRestore ==
  /\ restoring.does = "looks"
  /\ restoring' = IF restoring.state = storage.state /\ restoring.version = storage.version /\ MayRestore
                  THEN [does |-> "scheduled"] ELSE [does |-> "idle"]
  /\ UNCHANGED <<scenario, storage, configured, asking, doubting, bookmark, exporting, calls, rewound, era>>

\* The object's next session starts from the bookmark.  Bound: one restore.
Restart ==
  /\ restoring.does = "scheduled"
  /\ storage' = bookmark /\ era' = era + 1 /\ restoring' = [does |-> "idle"]
  /\ rewound' = rewound \cup (DOMAIN storage.receipts \ DOMAIN bookmark.receipts)
  /\ UNCHANGED <<scenario, configured, asking, doubting, bookmark, exporting, calls>>

-----------------------------------------------------------------------------
(* An export, page by page. *)

\* beginExport: the state at this sequence is captured and stored.
BeginExport ==
  /\ "export" \in scenario /\ exporting.does = "idle" /\ storage.study
  /\ storage' = [storage EXCEPT !.snapshots = Extend(@, storage.sequence, Text)]
  /\ exporting' = [does |-> "interviews", sequence |-> storage.sequence, archive |-> NoText, began |-> Text, era |-> era]
  /\ UNCHANGED <<scenario, configured, asking, doubting, restoring, bookmark, calls, rewound, era>>

\* Snapshots expire, and give way to those of other exports.
PruneSnapshots ==
  /\ storage.snapshots # <<>>
  /\ storage' = [storage EXCEPT !.snapshots = <<>>]
  /\ UNCHANGED <<scenario, configured, asking, doubting, restoring, bookmark, exporting, calls, rewound, era>>

\* loadSnapshot: stored, or captured again while the sequence is the same.
Loaded ==
  IF exporting.sequence \notin DOMAIN storage.snapshots /\ storage.sequence = exporting.sequence
  THEN Extend(storage.snapshots, exporting.sequence, Text) ELSE storage.snapshots

ReadsLiveAnswers(captured) == TRUE   \* mutant: an answer is read without comparing it

LiveAnswers(captured) ==
  \A r \in DOMAIN captured.answers : r \in DOMAIN storage.answers /\ storage.answers[r].status = captured.answers[r]
LiveInterview(captured) == storage.study /\ (captured.analysed => storage.analysed)
\* Where no aggregate was captured there is no slot to compare.
LiveAggregate(captured) == captured.aggregate # 0 => storage.aggregate = captured.aggregate

\* A page, after which the export goes on or ends as changed.  An interview is
\* written as captured, an aggregate and an answer as they are now.
Captured == Loaded[exporting.sequence]
Page(does, live, page, next) ==
  /\ exporting.does = does
  /\ IF exporting.sequence \in DOMAIN Loaded
     THEN /\ storage' = [storage EXCEPT !.snapshots = Loaded]
          /\ exporting' = IF live THEN [exporting EXCEPT !.does = next, !.archive = page] ELSE [does |-> "changed"]
     ELSE UNCHANGED storage /\ exporting' = [does |-> "changed"]
  /\ UNCHANGED <<scenario, configured, asking, doubting, restoring, bookmark, calls, rewound, era>>

\* The cursor skips what the snapshot has none of.
AfterAggregates == IF Captured.answers = NoText.answers THEN "verify" ELSE "answers"
AfterInterviews == IF Captured.aggregate # 0 THEN "aggregates" ELSE AfterAggregates

InterviewPage ==
  Page("interviews", LiveInterview(Captured), [exporting.archive EXCEPT !.analysed = Captured.analysed], AfterInterviews)
AggregatePage ==
  Page("aggregates", LiveAggregate(Captured),
       [exporting.archive EXCEPT !.aggregate = IF Captured.aggregate # 0 THEN storage.aggregate ELSE @], AfterAggregates)
AnswerPage ==
  Page("answers", LiveAnswers(Captured),
       [exporting.archive EXCEPT !.answers = [r \in DOMAIN Captured.answers |-> storage.answers[r].status]], "verify")

VerifyExport ==
  Page("verify", LiveInterview(Captured) /\ LiveAggregate(Captured) /\ LiveAnswers(Captured), exporting.archive, "done")

-----------------------------------------------------------------------------
NotebookNext ==
  \/ \E r \in Request :
       \/ \E k \in Key : Ask(r, k)
       \/ Reserve(r) \/ RefuseBudget(r) \/ CallProvider(r) \/ ProviderAnswers(r) \/ DoubtRunning(r) \/ MarkInterrupted(r) \/ Die(r)
       \/ \E status \in {"failed", "recovery-required"} : ProviderFails(r, status)
       \/ \E heard \in BOOLEAN : CompleteAnswer(r, heard)
  \/ ReplaceAggregate \/ FinishAnalysis \/ RemoveStudy
  \/ \E next \in States, classify \in BOOLEAN : Transition(next, classify)
  \/ RotateEpoch \/ Activate \/ TakeBookmark \/ BeginRestore \/ ScheduleRestore \/ Restart
  \/ BeginExport \/ PruneSnapshots \/ InterviewPage \/ AggregatePage \/ AnswerPage \/ VerifyExport

NotebookSpec == NotebookInit /\ [][NotebookNext]_notebook

-----------------------------------------------------------------------------
(* Properties. *)

Statuses == {"running", "failed", "recovery-required", "complete"}
\* (An activation that marks running answers is two mutations, past the bound.)
StorageOK(store) ==
  /\ DOMAIN store.answers \subseteq Request /\ \A r \in DOMAIN store.answers : store.answers[r].status \in Statuses
  /\ DOMAIN store.receipts \subseteq Key /\ \A k \in DOMAIN store.receipts : store.receipts[k] \in Request
  /\ store.sequence \in 0..MaxSequence + 1 /\ store.state \in States /\ store.activated \in Epoch

NotebookTypeOK ==
  /\ StorageOK(storage) /\ StorageOK(bookmark) /\ configured \in Epoch
  /\ \A r \in Request : asking[r].does \in {"idle", "asks", "admitted", "waits", "knows", "holds", "done", "gone"}

\* The provider is called once under a key, however many requests carry it and
\* whatever dies, unless a restore took the reservation back and the client
\* asked again.
OneCallPerQuestion == \A k \in Key : calls[k] > 1 => k \in rewound

\* A paid answer somebody still holds can be saved: the row it belongs to is
\* there with its receipt's request and never ends as failed, and what was said
\* to be saved is complete, unless the study was deleted or the reservation
\* taken back by a restore.
PaidAnswerIsKept ==
  \A r \in Request : storage.study /\ asking[r].does \in {"knows", "holds", "done"} =>
    \/ era > 0 /\ (r \notin DOMAIN storage.answers \/ asking[r].does = "done")
    \/ /\ r \in DOMAIN storage.answers
       /\ storage.answers[r].status # "failed"
       /\ asking[r].does = "done" => storage.answers[r].status = "complete"

\* Frozen means quiet, and work reserved before a restore is never taken for
\* running once the workspace accepts changes again.
UncertainWorkIsMarked ==
  /\ storage.state = "frozen" => Running = {}
  /\ MutationAllowed => \A r \in Running : storage.answers[r].era = era

\* An export that was verified holds the state it began with, though its pages
\* were read between other writes and its snapshot may have been captured again.
\* (A restore in the middle of an export rewinds the sequence that fences it.)
ExportIsOneState ==
  exporting.does = "done" /\ exporting.era = era => exporting.archive = exporting.began
=============================================================================
