---------------------------- MODULE HostedStudies ----------------------------
(***************************************************************************)
(* Creating and deleting hosted studies across two databases.               *)
(*                                                                         *)
(* The platform's Redis routes a study to its researcher (owner, list of    *)
(* studies) and keeps one registry record per study for an operation in     *)
(* progress: reserving, pending, resolving, publishing.  The study itself   *)
(* is in the researcher's Redis (RedisStudies).  The route begins the       *)
(* operation on the platform, sends one mutation to the researcher's Redis, *)
(* resolves the operation to complete or rollback, and publishes a receipt. *)
(* Any step may fail or lose its answer; the mutation may execute after the *)
(* route gave up.  A reconciler loads the registry and continues what it    *)
(* finds, for its own researcher's pending operations only after a grace.   *)
(***************************************************************************)
EXTENDS RedisStudies

CONSTANTS
  MaxLiveOps,     \* MAX_LIVE_OPS: registry records
  Environments    \* the sets of events explored, one of them per behaviour

Events == {"create", "delete", "edit", "save", "aggregate", "lost", "cut", "split", "expiry"}
ASSUME HostedAssumption ==
  /\ MaxLiveOps \in Nat \ {0}
  /\ Environments \subseteq SUBSET Events

VARIABLES
  environment,  \* the events of this behaviour
  mapping,      \* create-idemp: what the creation key of each study stands for
  owner,        \* study-owner:<id>
  listed,       \* researcher-studies
  op,           \* study-ops:v2, by study
  lock,         \* study-op-lock:<id>: the operation whose nonce it holds
  receipt,      \* study-op-receipt:<id>:1
  score,        \* study-op-receipts: the score of <id>:1
  request,      \* what each operation was asked to do, fixed when it began
  call,         \* the route of each operation
  held,         \* the frozen receipt its route is publishing
  sent,         \* mutations on their way to the researcher's Redis
  reconciler,   \* the record the reconciler is working on, by study
  outcome,      \* history: the resolution frozen for each operation
  split         \* history: studies whose resolution stopped half way

platform == <<mapping, owner, listed, op, lock, receipt, score, request>>
routes == <<call, held, sent>>
history == <<outcome, split, environment>>
hosted == <<platform, routes, reconciler, history>>

\* The rows of the platform, and what the reconciler holds of a record.
Phase       == {"reserving", "pending", "resolving", "publishing"}
Resolutions == {"create-complete", "create-rollback", "delete-complete", "delete-rollback"}
Frozens     == [by : Operation, at : {"request", "repair"}, resolution : Resolutions]
OpRows      == [by : Operation, phase : Phase, aged : BOOLEAN, frozen : Frozens \cup {None}]
RequestRows == [study : Study, kind : {"create", "delete"}, populated : BOOLEAN, expected : Revision \cup {None}]
SlotRows    == [by : Operation, at : {"request", "repair"}]
WorkRows    == [by : Operation, next : {"recover", "settle", "members", "delete", "resolve", "publish"},
                resolution : Resolutions \cup {None}, at : {"repair", None}, ids : SUBSET Interview,
                frozen : Frozens \cup {None}]

ASSUME NoneIsNoPlatformRow ==
  None \notin Resolutions \cup Frozens \cup OpRows \cup RequestRows \cup SlotRows \cup WorkRows

Resolution(kind, applied) ==
  CASE kind = "create" /\ applied -> "create-complete"
    [] kind = "create" /\ ~applied -> "create-rollback"
    [] kind = "delete" /\ applied -> "delete-complete"
    [] OTHER -> "delete-rollback"

\* Studies that were created before, their receipts long gone.
Existing == IF "create" \in environment THEN {} ELSE Study

\* A script may stop after any of its steps where the environment has cuts.
StepsOf(n) == IF "cut" \in environment THEN 1..n ELSE {n}

HostedInit ==
  /\ environment \in Environments
  /\ ByosInit(Existing)
  /\ mapping = [st \in Study |-> IF st \in Existing THEN "created" ELSE "none"]
  /\ owner = Existing /\ listed = Existing
  /\ op = [st \in Study |-> None] /\ lock = [st \in Study |-> None]
  /\ receipt = [st \in Study |-> None] /\ score = [st \in Study |-> None]
  /\ request = [o \in Operation |-> None]
  /\ call = [o \in Operation |-> "none"] /\ held = [o \in Operation |-> None] /\ sent = {}
  /\ reconciler = [st \in Study |-> None]
  /\ outcome = [o \in Operation |-> None] /\ split = {}

-----------------------------------------------------------------------------
(* Beginning an operation. *)

Live == {st \in Study : op[st] # None}
Record(o, phase) == [by |-> o, phase |-> phase, aged |-> FALSE, frozen |-> None]

\* beginCreateIdempotency: the key is reserved for a study minted now.
ReserveKey(st) ==
  /\ "create" \in environment /\ mapping[st] = "none"
  /\ mapping' = [mapping EXCEPT ![st] = "pending"]
  /\ UNCHANGED <<owner, listed, op, lock, receipt, score, request, routes, reconciler, history, byos>>

\* BEGIN_STUDY_OPERATION_SCRIPT of a creation, in the request that reserved the
\* key (a later one is answered 202): 1 record [R1], 2 owner [R2], 3 list [R3],
\* 4 lock [R4], 5 pending.
BeginCreate(st, o, steps) ==
  /\ mapping[st] = "pending" /\ ~\E p \in Operation : request[p] # None /\ request[p].study = st
  /\ request[o] = None /\ op[st] = None /\ Cardinality(Live) < MaxLiveOps
  /\ request' = [request EXCEPT ![o] = [study |-> st, kind |-> "create", populated |-> FALSE, expected |-> None]]
  /\ op' = [op EXCEPT ![st] = Record(o, IF steps = 5 THEN "pending" ELSE "reserving")]
  /\ owner' = IF steps >= 2 THEN owner \cup {st} ELSE owner
  /\ listed' = IF steps >= 3 THEN listed \cup {st} ELSE listed
  /\ lock' = IF steps >= 4 THEN [lock EXCEPT ![st] = o] ELSE lock
  /\ call' = [call EXCEPT ![o] = IF steps = 5 THEN "begun" ELSE "gone"]
  /\ UNCHANGED <<mapping, receipt, score, held, sent, reconciler, history, byos>>

BeginsBesideAnother(st, o, expected, steps) ==   \* mutant: a deletion begins over a live record
  /\ "delete" \in environment /\ st \in owner
  /\ request[o] = None
  /\ request' = [request EXCEPT ![o] = [study |-> st, kind |-> "delete", populated |-> expected # None, expected |-> expected]]
  /\ op' = [op EXCEPT ![st] = Record(o, IF steps = 5 THEN "pending" ELSE "reserving")]
  /\ lock' = IF steps >= 4 THEN [lock EXCEPT ![st] = o] ELSE lock
  /\ call' = [call EXCEPT ![o] = IF steps = 5 THEN "begun" ELSE "gone"]
  /\ UNCHANGED <<mapping, owner, listed, receipt, score, held, sent, reconciler, history, byos>>

\* Of a deletion, which needs the owner: 1 record, 4 lock, 5 pending.  It is
\* confirmed for a revision (the interviews go too) or for an empty study.
BeginDelete(st, o, expected, steps) ==
  /\ "delete" \in environment /\ st \in owner
  /\ request[o] = None /\ op[st] = None /\ Cardinality(Live) < MaxLiveOps
  /\ request' = [request EXCEPT ![o] = [study |-> st, kind |-> "delete", populated |-> expected # None, expected |-> expected]]
  /\ op' = [op EXCEPT ![st] = Record(o, IF steps = 5 THEN "pending" ELSE "reserving")]
  /\ lock' = IF steps >= 4 THEN [lock EXCEPT ![st] = o] ELSE lock
  /\ call' = [call EXCEPT ![o] = IF steps = 5 THEN "begun" ELSE "gone"]
  /\ UNCHANGED <<mapping, owner, listed, receipt, score, held, sent, reconciler, history, byos>>

-----------------------------------------------------------------------------
(* The mutation in the researcher's Redis. *)

\* The route sends it, and waits.
Send(o) ==
  /\ call[o] = "begun" /\ call' = [call EXCEPT ![o] = "waiting"] /\ sent' = sent \cup {o}
  /\ UNCHANGED <<platform, held, reconciler, history, byos>>

\* No credentials, a lost answer, or the process ends: the operation is left to
\* the reconciler (202, 503), while the mutation may still be on its way.
GiveUp(o) ==
  /\ "lost" \in environment
  /\ call[o] \notin {"none", "gone"} /\ call' = [call EXCEPT ![o] = "gone"]
  /\ UNCHANGED <<platform, held, sent, reconciler, history, byos>>

\* How the routes read a mutation's answer: complete, roll back or give up.
Verdict(answer) ==
  CASE answer \in {"applied", "deleted"} -> "applied"
    [] answer \in {"refused", "conflict", "cancelled"} -> "refused"
    [] OTHER -> "gone"

Deliver(o, answer, whole) ==
  /\ o \in sent /\ sent' = sent \ {o}
  /\ call' = [call EXCEPT ![o] = IF @ = "waiting" THEN (IF whole THEN Verdict(answer) ELSE "gone") ELSE @]
  /\ UNCHANGED <<platform, held, reconciler, history>>

MutateCreate(o, steps) ==
  /\ o \in sent /\ request[o].kind = "create"
  /\ Deliver(o, CreateAnswer(o, request[o].study), steps = 2)
  /\ CreateScript(o, request[o].study, steps)

MutateEmptyDelete(o, steps) ==
  LET r == request[o] IN
  /\ o \in sent /\ r.kind = "delete" /\ ~r.populated
  /\ Deliver(o, EmptyDeleteAnswer(o, r.study, r.expected), steps = 6)
  /\ EmptyDeleteScript(o, r.study, r.expected, steps)

MutatePopulatedDelete(o, ids, steps) ==
  LET r == request[o] IN
  /\ o \in sent /\ r.kind = "delete" /\ r.populated /\ ids \in Batches(r.study)
  /\ Deliver(o, PopulatedDeleteAnswer(o, r.study, r.expected, ids), steps = 3)
  /\ PopulatedDeleteScript(o, r.study, r.expected, ids, steps)

-----------------------------------------------------------------------------
(* Resolving and publishing on the platform. *)

\* at: a receipt's createdAt, the operation's own or the reconciler's clock.
Receipt(o, resolution, at) == [by |-> o, resolution |-> resolution, at |-> at]
Slot(r) == [by |-> r.by, at |-> r.at]

KeepsCompleted(resolution) == resolution \in {"create-complete", "delete-complete"}   \* mutant: what was completed is kept

Keeps(resolution) == resolution \in {"create-complete", "delete-rollback"}

\* RESOLVE_STUDY_OPERATION_SCRIPT may freeze this resolution: the record is of
\* the same kind, a pending one still holds this operation's lock, and the
\* owner is there if the resolution keeps it.
MayResolve(st, o, resolution) ==
  /\ op[st] # None /\ request[op[st].by].kind = request[o].kind
  /\ op[st].phase = "resolving" \/ (op[st].phase = "pending" /\ lock[st] = o)
  /\ Keeps(resolution) => st \in owner

\* 1 resolving [resolve], 2 the routing, a deletion's cleanup of the creation
\* key, and the frozen receipt.
Resolve(st, o, resolution, at, steps) ==
  /\ MayResolve(st, o, resolution)
  /\ IF steps = 1
     THEN /\ op' = [op EXCEPT ![st].phase = "resolving", ![st].aged = FALSE] /\ split' = split \cup {st}
          /\ UNCHANGED <<owner, listed, mapping, outcome>>
     ELSE /\ op' = [op EXCEPT ![st].phase = "publishing", ![st].aged = FALSE,
                              ![st].frozen = Receipt(op[st].by, resolution, at)]
          /\ owner' = IF Keeps(resolution) THEN owner ELSE owner \ {st}
          /\ listed' = IF Keeps(resolution) THEN listed \cup {st} ELSE listed \ {st}
          /\ mapping' = IF resolution = "delete-complete" THEN [mapping EXCEPT ![st] = "deleted"] ELSE mapping
          /\ outcome' = [outcome EXCEPT ![op[st].by] = resolution]
          /\ UNCHANGED split
  /\ UNCHANGED <<lock, receipt, score, request, environment>>

\* The receipt's slot and score are free, or hold this very receipt.
ReceiptFits(st, r) == receipt[st] \in {None, r}
ScoreFits(st, r) == score[st] \in {None, Slot(r)}
Frozen(st, r) == op[st] # None /\ op[st].phase = "publishing" /\ op[st].frozen = r

\* PUBLISH_STUDY_OPERATION_SCRIPT on a record frozen with this receipt:
\* 1 receipt [PUB1], 2 score [PUB2], 3 lock [PUB3], 4 record [PUB4].
PublishRecord(st, o, r, steps) ==
  LET whole == ReceiptFits(st, r) /\ ScoreFits(st, r) IN
  /\ receipt' = IF ReceiptFits(st, r) THEN [receipt EXCEPT ![st] = r] ELSE receipt
  /\ score' = IF steps >= 2 /\ whole THEN [score EXCEPT ![st] = Slot(r)] ELSE score
  /\ lock' = IF steps >= 3 /\ whole /\ lock[st] = o THEN [lock EXCEPT ![st] = None] ELSE lock
  /\ op' = IF steps >= 4 /\ whole THEN [op EXCEPT ![st] = None] ELSE op
  /\ UNCHANGED <<mapping, owner, listed, request>>

\* classify_absent: another call published the record.  A receipt without its
\* score gets it; a receipt that is late is pruned; else the lock is released.
PublishAbsent(st, o, r, late) ==
  LET prunes == late /\ score[st] = Slot(r) /\ receipt[st] \in {None, r} IN
  /\ receipt' = IF prunes THEN [receipt EXCEPT ![st] = None] ELSE receipt
  /\ score' = CASE prunes -> [score EXCEPT ![st] = None]
                [] receipt[st] = r /\ score[st] = None -> [score EXCEPT ![st] = Slot(r)]
                [] OTHER -> score
  /\ lock' = IF receipt[st] = r /\ score[st] = Slot(r) /\ ~late /\ lock[st] = o
             THEN [lock EXCEPT ![st] = None] ELSE lock
  /\ UNCHANGED <<mapping, owner, listed, op, request>>

\* Publishing, whatever it finds.  late: the receipt's createdAt is at least
\* RECEIPT_TTL_SECONDS milliseconds ago, the two being compared.
Publish(st, o, r, steps, late) ==
  CASE Frozen(st, r) -> PublishRecord(st, o, r, steps)
    [] op[st] = None -> PublishAbsent(st, o, r, late)
    [] OTHER -> UNCHANGED platform

\* It answers published or pruned.
Published(st, r, late) ==
  \/ op[st] = None /\ receipt[st] = r /\ ScoreFits(st, r)
  \/ op[st] = None /\ receipt[st] = None /\ score[st] = Slot(r) /\ late
  \/ Frozen(st, r) /\ ReceiptFits(st, r) /\ ScoreFits(st, r)

-----------------------------------------------------------------------------
(* The routes finish: finalizeHostedCreate, finalizeHostedDelete. *)

Finalizing(o) == IF call[o] = "applied" THEN "completing" ELSE "refusing"

\* finalizeHostedCreate returned true, and the study was stored.
Completes(o) == request[o].kind = "create" /\ call[o] \in {"applied", "completing"}

\* The route resolves with what its mutation answered.  Where the reconciler
\* froze a receipt before, the route publishes that one.
RouteResolve(o, steps) ==
  LET st == request[o].study
      resolution == Resolution(request[o].kind, call[o] = "applied") IN
  /\ call[o] \in {"applied", "refused"}
  /\ CASE op[st] # None /\ MayResolve(st, o, resolution) ->
            /\ Resolve(st, o, resolution, "request", steps)
            /\ call' = [call EXCEPT ![o] = IF steps = 1 THEN "gone" ELSE Finalizing(o)]
            /\ held' = [held EXCEPT ![o] = IF steps = 1 THEN None ELSE op'[st].frozen]
       [] op[st] # None /\ op[st].phase = "publishing" /\ request[op[st].by].kind = request[o].kind ->
            /\ call' = [call EXCEPT ![o] = Finalizing(o)] /\ held' = [held EXCEPT ![o] = op[st].frozen]
            /\ UNCHANGED <<platform, history>>
       [] op[st] = None /\ receipt[st] = Receipt(o, resolution, "request") /\ score[st] = Slot(receipt[st]) ->
            /\ call' = [call EXCEPT ![o] = IF Completes(o) THEN "published" ELSE "gone"]
            /\ UNCHANGED <<platform, history, held>>
       [] OTHER -> call' = [call EXCEPT ![o] = "gone"] /\ UNCHANGED <<platform, history, held>>
  /\ UNCHANGED <<sent, reconciler, byos>>

RoutePublish(o, steps, late) ==
  LET st == request[o].study IN
  /\ call[o] \in {"completing", "refusing"}
  /\ Publish(st, o, held[o], steps, late)
  /\ call' = [call EXCEPT ![o] = IF steps = 4 /\ Published(st, held[o], late) /\ Completes(o) THEN "published" ELSE "gone"]
  /\ held' = [held EXCEPT ![o] = None]
  /\ UNCHANGED <<sent, reconciler, history, byos>>

\* casCreateIdempotencyState: only a pending key becomes created.
CompleteKey(o) ==
  LET st == request[o].study IN
  /\ call[o] = "published" /\ call' = [call EXCEPT ![o] = "gone"]
  /\ mapping' = [mapping EXCEPT ![st] = IF @ = "pending" THEN "created" ELSE @]
  /\ UNCHANGED <<owner, listed, op, lock, receipt, score, request, held, sent, reconciler, history, byos>>

-----------------------------------------------------------------------------
(* The reconciler: reconcilePendingStudyOperations. *)

\* OP_GRACE_MS pass since the record was last written.
Age(st) ==
  /\ op[st] # None /\ op[st].phase \in {"reserving", "pending"} /\ ~op[st].aged
  /\ op' = [op EXCEPT ![st].aged = TRUE]
  /\ UNCHANGED <<mapping, owner, listed, lock, receipt, score, request, routes, reconciler, history, byos>>

\* Its next command for a record, and what it knows: the mutation's answer, the
\* interviews it still has to finish, the receipt it publishes.
Work(o, next) == [by |-> o, next |-> next, resolution |-> None, at |-> None, ids |-> {}, frozen |-> None]
Completion(o) == Resolution(request[o].kind, TRUE)

\* LOAD_REGISTRY_SCRIPT: a snapshot of the record, and how its phase is repaired.
\* A resolution that stopped half way is completed, whatever it was.
Load(st) ==
  LET r == op[st]
      w == Work(r.by, "none") IN
  /\ r # None /\ reconciler[st] = None
  /\ CASE r.phase = "reserving" -> reconciler' = [reconciler EXCEPT ![st] = [w EXCEPT !.next = "recover"]]
       [] r.phase = "pending" -> r.aged /\ reconciler' = [reconciler EXCEPT ![st] =
            [w EXCEPT !.next = IF request[r.by].kind = "create" THEN "settle" ELSE "members"]]
       [] r.phase = "resolving" -> reconciler' = [reconciler EXCEPT ![st] =
            [w EXCEPT !.next = "resolve", !.resolution = Completion(r.by), !.at = "repair"]]
       [] OTHER -> reconciler' = [reconciler EXCEPT ![st] = [w EXCEPT !.next = "publish", !.frozen = r.frozen]]
  /\ UNCHANGED <<platform, routes, history, byos>>

\* A command failed, or the request ended.
Stop(st) ==
  /\ "lost" \in environment
  /\ reconciler[st] # None /\ reconciler' = [reconciler EXCEPT ![st] = None]
  /\ UNCHANGED <<platform, routes, history, byos>>

\* RECOVER_RESERVING_STUDY_OPERATION_SCRIPT gives up a reservation whose owner
\* was never written.
Abandons(st) == lock[st] = None /\ st \notin owner /\ op[st].aged

\* It installs pending where the lock, or both the owner and the list, were
\* written; otherwise it changes nothing.
Installs(st) == lock[st] # None \/ (st \in owner /\ st \in listed)

Recover(st) ==
  LET w == reconciler[st] IN
  /\ w # None /\ w.next = "recover"
  /\ IF op[st] # None /\ op[st].phase = "reserving"
     THEN /\ op' = [op EXCEPT ![st] = CASE Abandons(st) -> None
                                        [] ~Abandons(st) /\ Installs(st) -> [@ EXCEPT !.phase = "pending", !.aged = FALSE]
                                        [] OTHER -> @]
          /\ lock' = IF lock[st] = None /\ Installs(st) THEN [lock EXCEPT ![st] = w.by] ELSE lock
     ELSE UNCHANGED <<op, lock>>
  /\ reconciler' = [reconciler EXCEPT ![st] =
       IF op[st] # None /\ op[st].phase = "resolving"
       THEN [w EXCEPT !.next = "resolve", !.resolution = Completion(w.by), !.at = "repair"] ELSE None]
  /\ UNCHANGED <<mapping, owner, listed, receipt, score, request, routes, history, byos>>

ContinueUndated(st, answer) ==   \* mutant: the resolution carries no time for its receipt
  LET w == reconciler[st]
      verdict == Verdict(answer) IN
  reconciler' = [reconciler EXCEPT ![st] =
    IF verdict = "gone" THEN None
    ELSE [w EXCEPT !.next = "resolve", !.resolution = Resolution(request[w.by].kind, verdict = "applied")]]

\* What the researcher's Redis answered, or None where it stays pending.
Continue(st, answer) ==
  LET w == reconciler[st]
      verdict == Verdict(answer) IN
  reconciler' = [reconciler EXCEPT ![st] =
    IF verdict = "gone" THEN None
    ELSE [w EXCEPT !.next = "resolve", !.at = "repair",
                   !.resolution = Resolution(request[w.by].kind, verdict = "applied")]]

Settle(st) ==
  LET w == reconciler[st] IN
  /\ w # None /\ w.next = "settle"
  /\ SettleScript(w.by, st)
  /\ Continue(st, IF marker[w.by] = "created" \/ study[st] # None THEN "applied" ELSE "cancelled")
  /\ UNCHANGED <<platform, routes, history>>

\* finishThenDeletePendingStudy: the interviews between P1 and Finish are read,
\* each is finished with the guard row it has by then, and the study is deleted.
Members(st) ==
  LET w == reconciler[st] IN
  /\ w # None /\ w.next = "members"
  /\ reconciler' = [reconciler EXCEPT ![st].next = "delete", ![st].ids = persisting[st]]
  /\ UNCHANGED <<platform, routes, history, byos>>

FinishMember(st, i, steps) ==
  LET w == reconciler[st] IN
  /\ w # None /\ w.next = "delete" /\ i \in w.ids
  /\ IF pguard[i] = None THEN steps = 4 /\ UNCHANGED <<studyRows, interviewRows, draft>>
     ELSE FinishScript(i, pguard[i], steps)
  /\ reconciler' = [reconciler EXCEPT ![st] = IF steps = 4 THEN [w EXCEPT !.ids = @ \ {i}] ELSE None]
  /\ UNCHANGED <<platform, routes, history, saving, told>>

RepairEmptyDelete(st, steps) ==
  LET w == reconciler[st]
      r == request[w.by] IN
  /\ w # None /\ w.next = "delete" /\ w.ids = {} /\ ~r.populated
  /\ EmptyDeleteScript(w.by, st, r.expected, steps)
  /\ Continue(st, IF steps = 6 THEN EmptyDeleteAnswer(w.by, st, r.expected) ELSE "ambiguous")
  /\ UNCHANGED <<platform, routes, history>>

RepairPopulatedDelete(st, ids, steps) ==
  LET w == reconciler[st]
      r == request[w.by] IN
  /\ w # None /\ w.next = "delete" /\ w.ids = {} /\ r.populated /\ ids \in Batches(st)
  /\ PopulatedDeleteScript(w.by, st, r.expected, ids, steps)
  /\ Continue(st, IF steps = 3 THEN PopulatedDeleteAnswer(w.by, st, r.expected, ids) ELSE "ambiguous")
  /\ UNCHANGED <<platform, routes, history>>

\* continueResolve.
RepairResolve(st, steps) ==
  LET w == reconciler[st] IN
  /\ w # None /\ w.next = "resolve"
  /\ CASE op[st] # None /\ MayResolve(st, w.by, w.resolution) ->
            /\ Resolve(st, w.by, w.resolution, w.at, steps)
            /\ reconciler' = [reconciler EXCEPT ![st] =
                 IF steps = 1 THEN None ELSE [w EXCEPT !.next = "publish", !.frozen = op'[st].frozen]]
       [] op[st] # None /\ op[st].phase = "publishing" /\ request[op[st].by].kind = request[w.by].kind ->
            /\ reconciler' = [reconciler EXCEPT ![st] = [w EXCEPT !.next = "publish", !.frozen = op[st].frozen]]
            /\ UNCHANGED <<platform, history>>
       [] OTHER -> reconciler' = [reconciler EXCEPT ![st] = None] /\ UNCHANGED <<platform, history>>
  /\ UNCHANGED <<routes, byos>>

RepairPublish(st, steps, late) ==
  LET w == reconciler[st] IN
  /\ w # None /\ w.next = "publish"
  /\ Publish(st, w.by, w.frozen, steps, late)
  /\ reconciler' = [reconciler EXCEPT ![st] = None]
  /\ UNCHANGED <<routes, history, byos>>

\* The receipt's own expiry (EX RECEIPT_TTL_SECONDS); its score has none.
ExpireReceipt(st) ==
  /\ "expiry" \in environment /\ receipt[st] # None /\ receipt' = [receipt EXCEPT ![st] = None]
  /\ UNCHANGED <<mapping, owner, listed, op, lock, score, request, routes, reconciler, history, byos>>

-----------------------------------------------------------------------------
(* What the researcher and the participants do meanwhile. *)

\* The authority gate was open at some time; the request it let through may
\* execute at any time after.
Admitted(st) ==
  \/ st \in Existing
  \/ \E o \in Operation : /\ outcome[o] = "create-complete" /\ request[o].study = st
                          /\ op[st] # None => op[st].by # o

Edit(st) ==
  /\ "edit" \in environment /\ Admitted(st) /\ (ReplaceConfig(st) \/ SetLinks(st)) /\ UNCHANGED hosted

Aggregate(st) ==
  /\ "aggregate" \in environment /\ Admitted(st) /\ (DraftAggregate(st) \/ SaveAggregate(st)) /\ UNCHANGED hosted

SaveInterview(i) ==
  /\ "save" \in environment /\ Admitted(Of[i])
  /\ \/ \E content \in Content, revision \in Revision : StartSave(i, content, revision)
     \/ \E content \in Content : RepeatSave(i, content)
     \/ \E c \in saving : c.interview = i /\ ((\E k \in StepsOf(4) : FinishSave(c, k)) \/ ("lost" \in environment /\ DropSave(c)))
  /\ UNCHANGED hosted

-----------------------------------------------------------------------------
Lateness == IF "expiry" \in environment THEN BOOLEAN ELSE {FALSE}
ResolveSteps == IF "split" \in environment THEN {1, 2} ELSE {2}

\* The revisions a researcher may have been shown.
Shown(st) == IF study[st] = None THEN {} ELSE 1..study[st].revision

Begin(st, o) ==
  \/ \E k \in StepsOf(5) : BeginCreate(st, o, k)
  \/ \E k \in StepsOf(5) \ {2, 3}, expected \in {None} \cup Shown(st) : BeginDelete(st, o, expected, k)

Route(o) ==
  \/ Send(o) \/ GiveUp(o) \/ CompleteKey(o)
  \/ \E k \in StepsOf(2) : MutateCreate(o, k)
  \/ \E k \in StepsOf(6) : MutateEmptyDelete(o, k)
  \/ \E k \in StepsOf(3), ids \in SUBSET Interview : MutatePopulatedDelete(o, ids, k)
  \/ \E k \in ResolveSteps : RouteResolve(o, k)
  \/ \E k \in StepsOf(4), late \in Lateness : RoutePublish(o, k, late)

Reconcile(st) ==
  \/ Load(st) \/ Stop(st) \/ Recover(st) \/ Settle(st) \/ Members(st)
  \/ \E i \in Interview, k \in StepsOf(4) : FinishMember(st, i, k)
  \/ \E k \in StepsOf(6) : RepairEmptyDelete(st, k)
  \/ \E k \in StepsOf(3), ids \in SUBSET Interview : RepairPopulatedDelete(st, ids, k)
  \/ \E k \in ResolveSteps : RepairResolve(st, k)
  \/ \E k \in StepsOf(4), late \in Lateness : RepairPublish(st, k, late)

HostedNext ==
  \/ \E st \in Study : ReserveKey(st) \/ Age(st) \/ ExpireReceipt(st) \/ Reconcile(st) \/ Edit(st) \/ Aggregate(st)
  \/ \E st \in Study, o \in Operation : Begin(st, o)
  \/ \E o \in Operation : Route(o)
  \/ \E i \in Interview : SaveInterview(i)

HostedSpec == HostedInit /\ [][HostedNext]_<<hosted, byos>>

-----------------------------------------------------------------------------
(* Properties. *)

\* The shape of both databases, and of what routes and the reconciler hold.
HostedTypeOK ==
  /\ \A st \in Study :
       /\ op[st] = None \/ (op[st] \in OpRows /\ (op[st].phase = "publishing" <=> op[st].frozen \in Frozens))
       /\ receipt[st] \in Frozens \cup {None} /\ lock[st] \in Operation \cup {None}
       /\ study[st] \in StudyRows \cup {None} /\ guard[st] \in GuardRows \cup {None}
  /\ owner \subseteq Study /\ listed \subseteq Study /\ sent \subseteq Operation
  /\ \A o \in Operation : marker[o] \in Markers \cup {None}
  /\ \A i \in Interview : body[i] \in BodyRows \cup {None}

\* An operation that is pending can be resolved either way: it holds its own
\* lock, and its study still has the owner a rollback or a completion keeps.
\* (BEGIN, RECOVER, RESOLVE and PUBLISH write lock, owner and record in
\* different orders, and every prefix of them may be what is left.)
PendingIsResolvable ==
  \A st \in Study : op[st] # None /\ op[st].phase = "pending" => lock[st] = op[st].by /\ st \in owner

\* A study that is stored and has no operation in progress is routed to its
\* researcher and listed: whatever was cut or given up, no study is orphaned.
StudyIsRouted ==
  \A st \in Study \ split : study[st] # None /\ op[st] = None => st \in owner /\ st \in listed

\* What an operation was resolved to is what its mutation did, also when the
\* mutation was still on its way when the reconciler resolved it.
RecordedOutcomeHolds ==
  \A o \in Operation : LET st == request[o].study IN
    outcome[o] # None /\ st \notin split =>
      CASE outcome[o] = "create-rollback" -> study[st] = None
        [] outcome[o] = "delete-complete" -> study[st] = None
        [] OTHER -> study[st] # None \/ \E p \in Operation \ {o} : request[p] # None /\ request[p].study = st
                                          /\ request[p].kind = "delete"

\* Nothing a participant or an analysis writes outlives its study.
NothingOutlivesItsStudy ==
  \A st \in Study : study[st] = None =>
    /\ ~aggregate[st] /\ index[st] = {} /\ persisting[st] = {}
    /\ \A i \in Interview : Of[i] = st => body[i] = None

\* An interview the participant was told is saved is there, indexed in its study,
\* with the content submitted, until a deletion confirmed with its interviews
\* starts: not a second tab, nor a deletion of an empty study, takes it.
ToldSavedIsKept ==
  \A i \in Interview : told[i] # None =>
    \/ study[Of[i]] # None /\ body[i] = [content |-> told[i]] /\ i \in index[Of[i]]
    \/ \E o \in Operation : request[o] # None /\ request[o].study = Of[i] /\ request[o].populated

\* A record that is publishing finds its receipt's slot free, or holding its own
\* receipt: the operation stays repairable.
PublishingIsRepairable ==
  \A st \in Study : op[st] # None /\ op[st].phase = "publishing" =>
    ReceiptFits(st, op[st].frozen) /\ ScoreFits(st, op[st].frozen)
=============================================================================
