---------------------------- MODULE RedisStudies ----------------------------
(***************************************************************************)
(* The researcher's own Redis database in hosted mode: one study's record,  *)
(* the guard and the receipts of the operations that create and delete it,  *)
(* its interviews, its aggregate and its auxiliary rows.                    *)
(*                                                                         *)
(* Every write is one Lua script.  A script is isolated from the others but *)
(* is not all or nothing: the repository names the points a script may stop *)
(* at ("fault cut"), commits there, and tests the repair.  So a script here *)
(* is an operator with a last argument, the number of steps it executed.    *)
(* The steps of a script are numbered in the order of its writes.           *)
(*                                                                         *)
(* Completing an interview takes two scripts, P1 and Finish, with a guard   *)
(* row between them; deleting a populated study takes one pass per batch.   *)
(***************************************************************************)
EXTENDS Naturals, FiniteSets

CONSTANTS
  Study, Interview,   \* ids; an interview's id is that of its participant session
  Operation,          \* creations and deletions: each has its own marker
  Content,            \* what a participant may submit
  Of,                 \* the study of each interview
  MaxRevision,        \* bound: revisions of a study
  MaxAuxiliary,       \* bound: batches of auxiliary rows a study has
  PurgeBatch,         \* STUDY_PURGE_BATCH
  SaveMaximum,        \* the save window's maximum
  None

ASSUME RedisAssumption ==
  /\ Of \in [Interview -> Study]
  /\ {MaxRevision, PurgeBatch} \subseteq Nat \ {0}
  /\ {MaxAuxiliary, SaveMaximum} \subseteq Nat
  /\ IsFiniteSet(Interview)
  /\ None \notin Content \cup Operation \cup Study

VARIABLES
  study,       \* study:<id>
  guard,       \* study-mutation-guard:<id>
  marker,      \* study-operation-result:<marker>: created, cancelled or deleted
  index,       \* study-interviews:<id>
  persisting,  \* study-persisting:<id>
  pguard,      \* interview-persisting:<id>
  body,        \* interview:<id> with its fingerprint
  rate,        \* the save window: members counted
  aggregate,   \* study-aggregate:<id>: there is one
  auxiliary,   \* batches of consents and exploration rows left
  saving,      \* save calls between P1 and Finish
  draft,       \* aggregate calls waiting for the provider
  told         \* history: what each participant was told is saved

studyRows == <<study, guard, marker, aggregate, auxiliary>>
interviewRows == <<index, persisting, pguard, body, rate>>
byos == <<studyRows, interviewRows, saving, draft, told>>

Revision == 1..MaxRevision

\* The rows the database may hold, and what calls hold between two scripts.
StudyRows      == [revision : Revision, links : BOOLEAN, count : 0..Cardinality(Interview)]
GuardRows      == [by : Operation, kind : {"create", "delete"},
                   state : {"created", "cancelled", "in-flight"}, populated : BOOLEAN]
SubmissionRows == [content : Content, revision : Revision]
BodyRows       == [content : Content]
DraftRows      == [revision : Revision, interviews : SUBSET Interview]
Markers        == {"created", "cancelled", "deleted"}

\* null is no row.
ASSUME NoneIsNoStudyRow ==
  None \notin StudyRows \cup GuardRows \cup SubmissionRows \cup BodyRows \cup DraftRows \cup Markers

GuardRow(o, kind, state, populated) == [by |-> o, kind |-> kind, state |-> state, populated |-> populated]

ByosInit(existing) ==
  /\ study = [st \in Study |-> IF st \in existing THEN [revision |-> 1, links |-> TRUE, count |-> 0] ELSE None]
  /\ guard = [st \in Study |-> None] /\ marker = [o \in Operation |-> None]
  /\ index = [st \in Study |-> {}] /\ persisting = [st \in Study |-> {}]
  /\ pguard = [i \in Interview |-> None] /\ body = [i \in Interview |-> None]
  /\ rate = {} /\ aggregate = [st \in Study |-> FALSE]
  /\ auxiliary \in [Study -> 0..MaxAuxiliary]
  /\ saving = {} /\ draft = [st \in Study |-> None] /\ told = [i \in Interview |-> None]

-----------------------------------------------------------------------------
(* Creating a study. *)

\* The study's guard stands against a creation.
GuardRefuses(st) ==
  guard[st] # None /\ (guard[st].state \in {"cancelled", "deleted"} \/ (guard[st].state = "in-flight" /\ guard[st].kind = "delete"))

CreateAnswer(o, st) ==
  CASE marker[o] \in {"cancelled", "deleted"} \/ (marker[o] = None /\ GuardRefuses(st)) -> "refused"
    [] marker[o] = None /\ ~GuardRefuses(st) /\ persisting[st] # {} -> "unavailable"
    [] OTHER -> "applied"

\* CREATE_STUDY_SCRIPT: 1 writes the study [S2], 2 its receipt and guard.
CreateScript(o, st, steps) ==
  /\ IF CreateAnswer(o, st) = "applied" /\ marker[o] = None
     THEN /\ study' = [study EXCEPT ![st] = IF @ = None THEN [revision |-> 1, links |-> TRUE, count |-> 0] ELSE @]
          /\ marker' = IF steps >= 2 THEN [marker EXCEPT ![o] = "created"] ELSE marker
          /\ guard' = IF steps >= 2 THEN [guard EXCEPT ![st] = GuardRow(o, "create", "created", FALSE)] ELSE guard
     ELSE UNCHANGED <<study, marker, guard>>
  /\ UNCHANGED <<aggregate, auxiliary, interviewRows, saving, draft, told>>

SettleWithoutTombstone(o, st) ==   \* mutant: a cancelled creation leaves no row behind
  /\ IF marker[o] = "created" \/ study[st] # None
     THEN /\ marker' = [marker EXCEPT ![o] = "created"]
          /\ guard' = [guard EXCEPT ![st] = GuardRow(o, "create", "created", FALSE)]
     ELSE UNCHANGED <<marker, guard>>
  /\ UNCHANGED <<study, aggregate, auxiliary, interviewRows, saving, draft, told>>

\* SETTLE_STUDY_OPERATION_SCRIPT for a creation: it observes the study and
\* records what it saw, so that a creation still in flight finds the record.
SettleScript(o, st) ==
  LET state == IF marker[o] = "created" \/ study[st] # None THEN "created" ELSE "cancelled" IN
  /\ marker' = [marker EXCEPT ![o] = state]
  /\ guard' = [guard EXCEPT ![st] = GuardRow(o, "create", state, FALSE)]
  /\ UNCHANGED <<study, aggregate, auxiliary, interviewRows, saving, draft, told>>

-----------------------------------------------------------------------------
(* Deleting a study. *)

\* cleanup_this_generation: the guard row of this operation, never another's.
WithoutGuardOf(o, st) == IF guard[st] # None /\ guard[st].by = o THEN [guard EXCEPT ![st] = None] ELSE guard

StaleRevision(st, expected) == study[st] # None /\ expected # None /\ study[st].revision # expected

DeletesOverPersisting(st) ==   \* mutant: a deletion does not wait for an interview between P1 and Finish
  TRUE

\* Both delete scripts refuse while an interview is between P1 and Finish.
NonePersisting(st) == persisting[st] = {}

\* DELETE_EMPTY_STUDY_SCRIPT passes its checks and begins to write.
EmptyDeleteBegins(o, st, expected) ==
  /\ marker[o] \notin {"deleted", "cancelled"}
  /\ NonePersisting(st) /\ index[st] = {} /\ ~StaleRevision(st, expected)

\* What it answers when it is not cut.
EmptyDeleteAnswer(o, st, expected) ==
  CASE marker[o] \in {"deleted", "cancelled"} -> marker[o]
    [] marker[o] \notin {"deleted", "cancelled"} /\ ~NonePersisting(st) -> "still-pending"
    [] EmptyDeleteBegins(o, st, expected) -> IF auxiliary[st] > 1 THEN "still-pending" ELSE "deleted"
    [] OTHER -> "conflict"

\* 1 guard [D1], 2 one batch of auxiliary rows, 3 aggregate [D5], 4 study [D2],
\* 5 receipt [D4], 6 guard of this operation.  Rows left over stop it after 2.
EmptyDeleteScript(o, st, expected, steps) ==
  LET done(n) == EmptyDeleteBegins(o, st, expected) /\ steps >= n /\ (n <= 2 \/ auxiliary[st] <= 1)
      cleans == marker[o] \in {"deleted", "cancelled"} \/ (NonePersisting(st) /\ index[st] # {}) IN
  /\ guard' = IF cleans \/ done(6) THEN [WithoutGuardOf(o, st) EXCEPT ![st] = IF done(6) THEN None ELSE @]
              ELSE IF done(1) THEN [guard EXCEPT ![st] = GuardRow(o, "delete", "in-flight", FALSE)] ELSE guard
  /\ auxiliary' = IF done(2) /\ auxiliary[st] > 0 THEN [auxiliary EXCEPT ![st] = @ - 1] ELSE auxiliary
  /\ aggregate' = IF done(3) THEN [aggregate EXCEPT ![st] = FALSE] ELSE aggregate
  /\ study' = IF done(4) THEN [study EXCEPT ![st] = None] ELSE study
  /\ marker' = IF done(5) THEN [marker EXCEPT ![o] = "deleted"] ELSE marker
  /\ UNCHANGED <<interviewRows, saving, draft, told>>

Tombstoned(o, st) == guard[st] # None /\ guard[st].by = o /\ guard[st].kind = "delete"

\* DELETE_POPULATED_STUDY_SCRIPT passes its checks.  Its own tombstone lets a
\* later pass resume, with no second look at the revision.
PopulatedDeleteBegins(o, st, expected) ==
  /\ marker[o] \notin {"deleted", "cancelled"}
  /\ guard[st] # None => (guard[st].state = "created" \/ Tombstoned(o, st))
  /\ NonePersisting(st)
  /\ (Tombstoned(o, st) /\ guard[st].populated) \/ ~StaleRevision(st, expected)

LastPass(st, ids) == index[st] = ids /\ auxiliary[st] <= 1

PopulatedDeleteAnswer(o, st, expected, ids) ==
  CASE marker[o] \in {"deleted", "cancelled"} -> marker[o]
    [] PopulatedDeleteBegins(o, st, expected) -> IF LastPass(st, ids) THEN "deleted" ELSE "still-pending"
    [] /\ marker[o] \notin {"deleted", "cancelled"} /\ NonePersisting(st) /\ ~PopulatedDeleteBegins(o, st, expected)
       /\ guard[st] # None => (guard[st].state = "created" \/ Tombstoned(o, st)) -> "conflict"
    [] OTHER -> "still-pending"

\* One pass over a batch of interviews: 1 tombstone, the batch and the
\* aggregate [DP1], 2 one batch of auxiliary rows [DP2], 3 the study, its
\* receipt and the tombstone.
PopulatedDeleteScript(o, st, expected, ids, steps) ==
  LET done(n) == PopulatedDeleteBegins(o, st, expected) /\ steps >= n
      last == done(3) /\ LastPass(st, ids) IN
  /\ guard' = CASE last -> [guard EXCEPT ![st] = None]
                [] done(1) /\ ~last /\ ~(Tombstoned(o, st) /\ guard[st].populated)
                     -> [guard EXCEPT ![st] = GuardRow(o, "delete", "in-flight", TRUE)]
                [] OTHER -> guard
  /\ body' = [i \in Interview |-> IF done(1) /\ i \in ids THEN None ELSE body[i]]
  /\ pguard' = [i \in Interview |-> IF done(1) /\ i \in ids THEN None ELSE pguard[i]]
  /\ index' = IF done(1) THEN [index EXCEPT ![st] = @ \ ids] ELSE index
  /\ aggregate' = IF done(1) THEN [aggregate EXCEPT ![st] = FALSE] ELSE aggregate
  /\ auxiliary' = IF done(2) /\ auxiliary[st] > 0 THEN [auxiliary EXCEPT ![st] = @ - 1] ELSE auxiliary
  /\ study' = IF last THEN [study EXCEPT ![st] = None] ELSE study
  /\ marker' = IF last THEN [marker EXCEPT ![o] = "deleted"] ELSE marker
  /\ UNCHANGED <<persisting, rate, saving, draft, told>>

\* SRANDMEMBER of at most PurgeBatch ids.
Batches(st) == {ids \in SUBSET index[st] :
                  Cardinality(ids) = PurgeBatch \/ (ids = index[st] /\ Cardinality(ids) < PurgeBatch)}

-----------------------------------------------------------------------------
(* Completing an interview. *)

BindsGuardOnly(i, content, revision) ==   \* mutant: a body that was committed is not compared
  pguard[i] # None => pguard[i] = [content |-> content, revision |-> revision]

\* The guard row and the body bind the content and the revision of the first P1.
SameSubmission(i, content, revision) ==
  /\ pguard[i] # None => pguard[i] = [content |-> content, revision |-> revision]
  /\ body[i] # None => body[i].content = content

Retries(i) == pguard[i] # None \/ body[i] # None

Committed(i, content) == body[i] = [content |-> content] /\ i \in index[Of[i]] /\ pguard[i] = None

\* A first submission needs an open mutation guard and room in the save window.
MayStart(i) ==
  /\ guard[Of[i]] # None => guard[Of[i]].state = "created"
  /\ i \in rate \/ Cardinality(rate) < SaveMaximum

\* persistCompletedInterviewP1, for a participant bound to a revision that was
\* read before; then persistCompletedInterview reads the guard row it finishes.
StartSave(i, content, revision) ==
  LET st == Of[i] IN
  /\ study[st] # None /\ study[st].links /\ study[st].revision = revision
  /\ SameSubmission(i, content, revision) /\ ~Committed(i, content)
  /\ Retries(i) \/ MayStart(i)
  /\ body' = [body EXCEPT ![i] = [content |-> content]]
  /\ pguard' = [pguard EXCEPT ![i] = IF @ = None THEN [content |-> content, revision |-> revision] ELSE @]
  /\ persisting' = [persisting EXCEPT ![st] = @ \cup {i}]
  /\ saving' = saving \cup {[interview |-> i, guard |-> pguard'[i]]}
  /\ UNCHANGED <<studyRows, index, rate, draft, told>>

\* P1 answers duplicate.
RepeatSave(i, content) ==
  /\ study[Of[i]] # None /\ study[Of[i]].links /\ Committed(i, content)
  /\ told' = [told EXCEPT ![i] = content]
  /\ UNCHANGED <<studyRows, interviewRows, saving, draft>>

FinishAnswer(i, g) ==
  CASE pguard[i] = None -> IF Committed(i, g.content) THEN "duplicate" ELSE "refused"
    [] pguard[i] # None /\ (pguard[i] # g \/ body[i] # [content |-> g.content]) -> "refused"
    [] pguard[i] = g /\ study[Of[i]] = None -> "refused"
    [] OTHER -> IF study[Of[i]].revision = g.revision THEN "created" ELSE "refused"

\* 1 index [F1], 2 the study's count and lock [F2], 3 the save window [F3..F5],
\* 4 the guard row.
FinishScript(i, g, steps) ==
  LET st == Of[i]
      done(n) == FinishAnswer(i, g) = "created" /\ steps >= n IN
  /\ index' = IF done(1) THEN [index EXCEPT ![st] = @ \cup {i}] ELSE index
  /\ study' = IF done(2) THEN [study EXCEPT ![st].count = Cardinality(index'[st])] ELSE study
  /\ rate' = IF done(3) THEN rate \cup {i} ELSE rate
  /\ pguard' = IF done(4) THEN [pguard EXCEPT ![i] = None] ELSE pguard
  /\ persisting' = IF done(4) THEN [persisting EXCEPT ![st] = @ \ {i}] ELSE persisting
  /\ UNCHANGED <<guard, marker, aggregate, auxiliary, body, draft>>

\* persistCompletedInterviewFinish by the participant's request.
FinishSave(call, steps) ==
  LET i == call.interview IN
  /\ call \in saving /\ saving' = saving \ {call}
  /\ FinishScript(i, call.guard, steps)
  /\ told' = IF steps = 4 /\ FinishAnswer(i, call.guard) # "refused"
             THEN [told EXCEPT ![i] = call.guard.content] ELSE told

\* The request dies between the scripts.
DropSave(call) ==
  /\ call \in saving /\ saving' = saving \ {call}
  /\ UNCHANGED <<studyRows, interviewRows, draft, told>>

-----------------------------------------------------------------------------
(* Editing a study and caching its aggregate. *)

Writable(st) == study[st] # None /\ NonePersisting(st) /\ (guard[st] # None => guard[st].state = "created")

\* REPLACE_STUDY_CONFIG_SCRIPT, with a changed configuration.
ReplaceConfig(st) ==
  /\ Writable(st) /\ study[st].revision < MaxRevision
  /\ study' = [study EXCEPT ![st].revision = @ + 1]
  /\ UNCHANGED <<guard, marker, aggregate, auxiliary, interviewRows, saving, draft, told>>

\* SET_STUDY_LINKS_SCRIPT.
SetLinks(st) ==
  /\ Writable(st) /\ study' = [study EXCEPT ![st].links = ~@]
  /\ UNCHANGED <<guard, marker, aggregate, auxiliary, interviewRows, saving, draft, told>>

\* The aggregate route reads the study and its interviews, then pays a provider.
DraftAggregate(st) ==
  /\ study[st] # None /\ index[st] # {} /\ draft[st] = None
  /\ draft' = [draft EXCEPT ![st] = [revision |-> study[st].revision, interviews |-> index[st]]]
  /\ UNCHANGED <<studyRows, interviewRows, saving, told>>

AggregateFits(st) ==
  /\ study[st] # None /\ study[st].revision = draft[st].revision
  /\ guard[st] # None => guard[st].state = "created"
  /\ \A i \in draft[st].interviews : body[i] # None

\* SAVE_STUDY_AGGREGATE_SCRIPT, refused or not.
SaveAggregate(st) ==
  /\ draft[st] # None /\ draft' = [draft EXCEPT ![st] = None]
  /\ aggregate' = IF AggregateFits(st) THEN [aggregate EXCEPT ![st] = TRUE] ELSE aggregate
  /\ UNCHANGED <<study, guard, marker, auxiliary, interviewRows, saving, told>>
=============================================================================
