------------------------ MODULE HostedStudies_proofs ------------------------
(***************************************************************************)
(* Theorems about HostedStudies, for any number of studies, operations and  *)
(* interviews, every bound, and every set of events at once.                *)
(***************************************************************************)
EXTENDS HostedStudies, FiniteSetTheorems, TLAPS

-----------------------------------------------------------------------------
(* The researcher's Redis.                                                  *)

ByosShape ==
  /\ study \in [Study -> StudyRows \cup {None}] /\ guard \in [Study -> GuardRows \cup {None}]
  /\ marker \in [Operation -> Markers \cup {None}]
  /\ index \in [Study -> SUBSET Interview] /\ persisting \in [Study -> SUBSET Interview]
  /\ pguard \in [Interview -> SubmissionRows \cup {None}] /\ body \in [Interview -> BodyRows \cup {None}]
  /\ aggregate \in [Study -> BOOLEAN] /\ auxiliary \in [Study -> Nat]
  /\ saving \subseteq [interview : Interview, guard : SubmissionRows]
  /\ draft \in [Study -> DraftRows \cup {None}] /\ told \in [Interview -> Content \cup {None}]

\* An interview is listed under its own study, and one that is stored is listed.
Filed ==
  /\ \A st \in Study : \A i \in index[st] \cup persisting[st] : Of[i] = st
  /\ \A i \in Interview : body[i] # None => i \in index[Of[i]] \cup persisting[Of[i]]

ByosInv == ByosShape /\ Filed /\ NothingOutlivesItsStudy

\* A new study's row is a row.
LEMMA NewStudyRow == [revision |-> 1, links |-> TRUE, count |-> 0] \in StudyRows \ {None}
<1>1. 0 \in 0..Cardinality(Interview)
  <2>1. Cardinality(Interview) \in Nat
    BY RedisAssumption, FS_CardinalityType
  <2> QED
    BY <2>1
<1>2. 1 \in Revision
  BY RedisAssumption, MaxRevision \in Nat \ {0} DEF Revision
<1>3. [revision |-> 1, links |-> TRUE, count |-> 0] \in StudyRows
  BY <1>1, <1>2 DEF StudyRows
<1> QED
  BY <1>3, NoneIsNoStudyRow

\* The row a script writes on a study is a row.
LEMMA GuardRowsAreRows ==
  ASSUME NEW o \in Operation, NEW kind \in {"create", "delete"}, NEW state \in {"created", "cancelled", "in-flight"},
         NEW populated \in BOOLEAN
  PROVE  GuardRow(o, kind, state, populated) \in GuardRows \ {None}
  BY NoneIsNoStudyRow DEF GuardRows, GuardRow

\* Each script of the researcher's Redis, wherever it stops: the creation.
LEMMA CreateKeepsByos ==
  ASSUME ByosInv, NEW o \in Operation, NEW st \in Study, NEW k \in 1..2, CreateScript(o, st, k)
  PROVE  ByosInv'
<1>1. CASE UNCHANGED <<study, marker, guard>>
  BY <1>1 DEF ByosInv, ByosShape, Filed, NothingOutlivesItsStudy, CreateScript, interviewRows
<1>2. CASE CreateAnswer(o, st) = "applied" /\ marker[o] = None
  <2>1. study' \in [Study -> StudyRows \cup {None}] /\ \A s \in Study : study'[s] = None => study[s] = None
    BY <1>2, NewStudyRow DEF ByosInv, ByosShape, CreateScript
  <2>2. guard' \in [Study -> GuardRows \cup {None}] /\ marker' \in [Operation -> Markers \cup {None}]
    <3>1. GuardRow(o, "create", "created", FALSE) \in GuardRows
      BY GuardRowsAreRows
    <3> QED
      BY <1>2, <3>1 DEF ByosInv, ByosShape, CreateScript, Markers
  <2> QED
    BY <2>1, <2>2 DEF ByosInv, ByosShape, Filed, NothingOutlivesItsStudy, CreateScript, interviewRows
<1> QED
  BY <1>1, <1>2 DEF CreateScript

\* The reconciler's settling of a creation.
LEMMA SettleKeepsByos ==
  ASSUME ByosInv, NEW o \in Operation, NEW st \in Study, SettleScript(o, st)
  PROVE  ByosInv'
<1>1. guard' \in [Study -> GuardRows \cup {None}] /\ marker' \in [Operation -> Markers \cup {None}]
  BY GuardRowsAreRows DEF ByosInv, ByosShape, SettleScript, Markers
<1> QED
  BY <1>1 DEF ByosInv, ByosShape, Filed, NothingOutlivesItsStudy, SettleScript, interviewRows

\* The deletion of an empty study.
LEMMA EmptyDeleteKeepsByos ==
  ASSUME ByosInv, NEW o \in Operation, NEW st \in Study, NEW expected, NEW k \in 1..6, EmptyDeleteScript(o, st, expected, k)
  PROVE  ByosInv'
<1> DEFINE begins == EmptyDeleteBegins(o, st, expected)
<1>1. guard' \in [Study -> GuardRows \cup {None}]
  BY GuardRowsAreRows DEF ByosInv, ByosShape, EmptyDeleteScript, WithoutGuardOf
<1>2. marker' \in [Operation -> Markers \cup {None}] /\ auxiliary' \in [Study -> Nat] /\ aggregate' \in [Study -> BOOLEAN]
  BY DEF ByosInv, ByosShape, EmptyDeleteScript, Markers
<1>3. /\ study' \in [Study -> StudyRows \cup {None}]
      /\ \A s \in Study : study'[s] = None =>
           study[s] = None \/ (s = st /\ ~aggregate'[s] /\ index[s] = {} /\ persisting[s] = {})
  BY DEF ByosInv, ByosShape, EmptyDeleteScript, EmptyDeleteBegins, NonePersisting
<1>4. \A s \in Study : aggregate'[s] => aggregate[s]
  BY DEF ByosInv, ByosShape, EmptyDeleteScript
<1>5. UNCHANGED <<index, persisting, pguard, body, saving, draft, told>>
  BY DEF EmptyDeleteScript, interviewRows
<1> QED
  BY <1>1, <1>2, <1>3, <1>4, <1>5, RedisAssumption DEF ByosInv, ByosShape, Filed, NothingOutlivesItsStudy

\* A pass of the deletion with the interviews.
LEMMA PopulatedDeleteKeepsByos ==
  ASSUME ByosInv, NEW o \in Operation, NEW st \in Study, NEW expected, NEW ids \in Batches(st), NEW k \in 1..3,
         PopulatedDeleteScript(o, st, expected, ids, k)
  PROVE  ByosInv'
<1>0. ids \subseteq index[st] /\ ids \subseteq Interview
  BY DEF Batches, ByosInv, ByosShape
<1>1. guard' \in [Study -> GuardRows \cup {None}]
  BY GuardRowsAreRows DEF ByosInv, ByosShape, PopulatedDeleteScript
<1>2. /\ marker' \in [Operation -> Markers \cup {None}] /\ auxiliary' \in [Study -> Nat] /\ aggregate' \in [Study -> BOOLEAN]
      /\ body' \in [Interview -> BodyRows \cup {None}] /\ pguard' \in [Interview -> SubmissionRows \cup {None}]
      /\ index' \in [Study -> SUBSET Interview]
  BY DEF ByosInv, ByosShape, PopulatedDeleteScript, Markers
<1>3. /\ study' \in [Study -> StudyRows \cup {None}]
      /\ \A s \in Study : study'[s] = None =>
           study[s] = None \/ (s = st /\ ~aggregate'[s] /\ index'[s] = {} /\ persisting[s] = {})
  BY DEF ByosInv, ByosShape, PopulatedDeleteScript, PopulatedDeleteBegins, NonePersisting, LastPass
<1>4. \A s \in Study : (aggregate'[s] => aggregate[s]) /\ index'[s] \subseteq index[s]
  BY DEF ByosInv, ByosShape, PopulatedDeleteScript
<1>5. UNCHANGED <<persisting, saving, draft, told>>
  BY DEF PopulatedDeleteScript
<1>6. \A i \in Interview : body'[i] # None => body[i] # None /\ (i \in index[Of[i]] => i \in index'[Of[i]])
  <2> TAKE i \in Interview
  <2> HAVE body'[i] # None
  <2>1. body[i] # None /\ (PopulatedDeleteBegins(o, st, expected) => i \notin ids)
    BY DEF PopulatedDeleteScript
  <2>2. index' = index \/ (PopulatedDeleteBegins(o, st, expected) /\ index' = [index EXCEPT ![st] = @ \ ids])
    BY DEF PopulatedDeleteScript
  <2> QED
    BY <2>1, <2>2, RedisAssumption DEF ByosInv, ByosShape
<1> QED
  BY SMTT(60), <1>0, <1>1, <1>2, <1>3, <1>4, <1>5, <1>6, RedisAssumption DEF ByosInv, ByosShape, Filed, NothingOutlivesItsStudy

\* A script finishes only what its own guard row describes, in a study that is there.
LEMMA FinishNeedsItsRow ==
  ASSUME NEW i \in Interview, NEW g \in SubmissionRows, FinishAnswer(i, g) = "created"
  PROVE  study[Of[i]] # None /\ pguard[i] # None /\ body[i] = [content |-> g.content]
<1>1. CASE pguard[i] = None
  BY <1>1, NoneIsNoStudyRow DEF FinishAnswer
<1>2. CASE pguard[i] # None /\ (pguard[i] # g \/ body[i] # [content |-> g.content])
  BY <1>2 DEF FinishAnswer
<1>3. CASE pguard[i] # None /\ pguard[i] = g /\ body[i] = [content |-> g.content] /\ study[Of[i]] = None
  BY <1>3 DEF FinishAnswer
<1> QED
  BY <1>1, <1>2, <1>3

\* The last writes of a participant's interview.
LEMMA FinishKeepsByos ==
  ASSUME ByosInv, NEW i \in Interview, NEW g \in SubmissionRows, NEW k \in 1..4, FinishScript(i, g, k),
         saving' \subseteq saving, told' \in [Interview -> Content \cup {None}]
  PROVE  /\ ByosInv'
         /\ \A s \in Study : /\ study[s] # None <=> study'[s] # None
                             /\ study'[s] # None => study'[s].revision = study[s].revision
                             /\ index[s] \subseteq index'[s]
<1>0. Of[i] \in Study
  BY RedisAssumption
<1>1. /\ index' \in [Study -> SUBSET Interview]
      /\ \A s \in Study : index[s] \subseteq index'[s]
      /\ \A s \in Study : index'[s] \subseteq index[s] \cup {i}
      /\ \A s \in Study : s # Of[i] => index'[s] = index[s]
      /\ FinishAnswer(i, g) # "created" => index' = index
      /\ FinishAnswer(i, g) = "created" => i \in index'[Of[i]]
  BY <1>0 DEF FinishScript, ByosInv, ByosShape
<1>2. FinishAnswer(i, g) = "created" => study[Of[i]] # None
  BY FinishNeedsItsRow
<1>3. Cardinality(index'[Of[i]]) \in 0..Cardinality(Interview)
  BY <1>0, <1>1, RedisAssumption, FS_Subset, FS_CardinalityType
<1>4. /\ study' \in [Study -> StudyRows \cup {None}]
      /\ \A s \in Study : /\ study[s] # None <=> study'[s] # None
                          /\ study'[s] # None => study'[s].revision = study[s].revision
  <2>1. CASE study' = study
    BY <2>1 DEF ByosInv, ByosShape
  <2>2. CASE FinishAnswer(i, g) = "created" /\ study' = [study EXCEPT ![Of[i]].count = Cardinality(index'[Of[i]])]
    <3>1. study[Of[i]] \in StudyRows
      BY <2>2, <1>0, <1>2 DEF ByosInv, ByosShape
    <3>2. [study[Of[i]] EXCEPT !.count = Cardinality(index'[Of[i]])] \in StudyRows
      BY <3>1, <1>3 DEF StudyRows
    <3>3. [study[Of[i]] EXCEPT !.count = Cardinality(index'[Of[i]])].revision = study[Of[i]].revision
      BY <3>1 DEF StudyRows
    <3> QED
      BY <1>0, <2>2, <3>1, <3>2, <3>3, NoneIsNoStudyRow DEF ByosInv, ByosShape
  <2> QED
    BY <2>1, <2>2 DEF FinishScript
<1>5. /\ pguard' \in [Interview -> SubmissionRows \cup {None}]
      /\ persisting' \in [Study -> SUBSET Interview]
      /\ \A s \in Study : persisting'[s] \subseteq persisting[s] /\ persisting[s] \subseteq persisting'[s] \cup {i}
      /\ \A s \in Study : s # Of[i] => persisting'[s] = persisting[s]
      /\ FinishAnswer(i, g) # "created" => persisting' = persisting
  BY <1>0 DEF FinishScript, ByosInv, ByosShape
<1>6. UNCHANGED <<guard, marker, aggregate, auxiliary, body, draft>>
  BY DEF FinishScript
<1>7. ByosShape'
  BY <1>1, <1>4, <1>5, <1>6 DEF ByosInv, ByosShape
<1>8. Filed'
  BY <1>0, <1>1, <1>5, <1>6, RedisAssumption DEF ByosInv, ByosShape, Filed
<1>9. NothingOutlivesItsStudy'
  BY <1>0, <1>1, <1>2, <1>4, <1>5, <1>6 DEF ByosInv, ByosShape, NothingOutlivesItsStudy
<1> QED
  BY <1>1, <1>4, <1>7, <1>8, <1>9 DEF ByosInv

\* The first writes of a participant's interview.
LEMMA StartKeepsByos ==
  ASSUME ByosInv, NEW i \in Interview, NEW content \in Content, NEW revision \in Revision, StartSave(i, content, revision)
  PROVE  ByosInv'
<1>0. Of[i] \in Study /\ study[Of[i]] # None
  BY RedisAssumption DEF StartSave
<1>1. [content |-> content] \in BodyRows /\ [content |-> content, revision |-> revision] \in SubmissionRows
  BY DEF BodyRows, SubmissionRows
<1>2. pguard' \in [Interview -> SubmissionRows \cup {None}] /\ body' \in [Interview -> BodyRows \cup {None}]
  BY <1>1 DEF StartSave, ByosInv, ByosShape
<1>3. pguard'[i] \in SubmissionRows
  BY <1>1 DEF StartSave, ByosInv, ByosShape
<1>4. saving' \subseteq [interview : Interview, guard : SubmissionRows]
  BY <1>3 DEF StartSave, ByosInv, ByosShape
<1>5. persisting' \in [Study -> SUBSET Interview] /\ persisting' = [persisting EXCEPT ![Of[i]] = @ \cup {i}]
  BY <1>0 DEF StartSave, ByosInv, ByosShape
<1>6. \A j \in Interview : body'[j] # None => body[j] # None \/ j = i
  BY DEF StartSave, ByosInv, ByosShape
<1>7. UNCHANGED <<study, guard, marker, aggregate, auxiliary, index, draft, told>>
  BY DEF StartSave, studyRows
<1>8. ByosShape'
  BY <1>2, <1>4, <1>5, <1>7 DEF ByosInv, ByosShape
<1>9. Filed'
  BY <1>0, <1>5, <1>6, <1>7, RedisAssumption DEF ByosInv, ByosShape, Filed
<1>10. NothingOutlivesItsStudy'
  BY <1>0, <1>5, <1>6, <1>7, RedisAssumption DEF ByosInv, ByosShape, NothingOutlivesItsStudy
<1> QED
  BY <1>8, <1>9, <1>10 DEF ByosInv

\* A participant's calls.
LEMMA SavingKeepsByos ==
  ASSUME ByosInv, NEW i \in Interview,
         \/ \E content \in Content : RepeatSave(i, content)
         \/ \E c \in saving : c.interview = i /\ (DropSave(c) \/ \E k \in 1..4 : FinishSave(c, k))
  PROVE  ByosInv'
<1>1. CASE \E content \in Content : RepeatSave(i, content)
  <2>1. told' \in [Interview -> Content \cup {None}] /\ UNCHANGED <<studyRows, interviewRows, saving, draft>>
    BY <1>1 DEF RepeatSave, ByosInv, ByosShape
  <2> QED
    BY <2>1 DEF ByosInv, ByosShape, Filed, NothingOutlivesItsStudy, studyRows, interviewRows
<1>2. CASE \E c \in saving : DropSave(c)
  BY <1>2 DEF DropSave, ByosInv, ByosShape, Filed, NothingOutlivesItsStudy, studyRows, interviewRows
<1>3. ASSUME NEW c \in saving, NEW k \in 1..4, c.interview = i, FinishSave(c, k)
      PROVE  ByosInv'
  <2>1. c.guard \in SubmissionRows /\ c.guard.content \in Content
    BY DEF ByosInv, ByosShape, SubmissionRows
  <2>2. saving' \subseteq saving /\ told' \in [Interview -> Content \cup {None}] /\ FinishScript(i, c.guard, k)
    BY <1>3, <2>1 DEF FinishSave, ByosInv, ByosShape
  <2> QED
    BY <2>1, <2>2, FinishKeepsByos
<1> QED
  BY <1>1, <1>2, <1>3

\* The researcher's edits and the aggregate.
LEMMA EditingKeepsByos ==
  ASSUME ByosInv, NEW st \in Study, ReplaceConfig(st) \/ SetLinks(st) \/ DraftAggregate(st) \/ SaveAggregate(st)
  PROVE  /\ ByosInv' /\ UNCHANGED <<guard, marker, index, persisting, pguard, body, rate, saving, told>>
         /\ \A s \in Study : /\ study[s] # None <=> study'[s] # None
                             /\ study[s] # None => study'[s].revision \in {study[s].revision, study[s].revision + 1}
<1>1. CASE ReplaceConfig(st) \/ SetLinks(st)
  <2>1. study[st] \in StudyRows
    BY <1>1 DEF ReplaceConfig, SetLinks, Writable, ByosInv, ByosShape
  <2>2. /\ study'[st] \in StudyRows /\ study' = [study EXCEPT ![st] = study'[st]]
        /\ study'[st].revision \in {study[st].revision, study[st].revision + 1}
    <3>1. CASE ReplaceConfig(st)
      <4>1. study[st].revision + 1 \in Revision
        BY <2>1, <3>1, RedisAssumption, MaxRevision \in Nat DEF ReplaceConfig, StudyRows, Revision
      <4> QED
        BY <2>1, <3>1, <4>1 DEF ReplaceConfig, StudyRows, ByosInv, ByosShape
    <3>2. CASE SetLinks(st)
      BY <2>1, <3>2 DEF SetLinks, StudyRows, ByosInv, ByosShape
    <3> QED
      BY <1>1, <3>1, <3>2
  <2>3. UNCHANGED <<guard, marker, aggregate, auxiliary, interviewRows, saving, draft, told>>
    BY <1>1 DEF ReplaceConfig, SetLinks
  <2>4. /\ study' \in [Study -> StudyRows \cup {None}]
        /\ \A s \in Study : /\ study[s] # None <=> study'[s] # None
                            /\ study[s] # None => study'[s].revision \in {study[s].revision, study[s].revision + 1}
    BY <2>1, <2>2, NoneIsNoStudyRow DEF ByosInv, ByosShape
  <2> QED
    BY <2>3, <2>4 DEF ByosInv, ByosShape, Filed, NothingOutlivesItsStudy, interviewRows
<1>2. CASE DraftAggregate(st)
  <2>1. [revision |-> study[st].revision, interviews |-> index[st]] \in DraftRows
    BY <1>2 DEF DraftAggregate, DraftRows, ByosInv, ByosShape, StudyRows
  <2> QED
    BY <1>2, <2>1 DEF DraftAggregate, ByosInv, ByosShape, Filed, NothingOutlivesItsStudy, studyRows, interviewRows
<1>3. CASE SaveAggregate(st)
  BY <1>3 DEF SaveAggregate, AggregateFits, ByosInv, ByosShape, Filed, NothingOutlivesItsStudy, interviewRows
<1> QED
  BY <1>1, <1>2, <1>3

-----------------------------------------------------------------------------
(* The platform's registry: who may write what of an operation's record.    *)

CallStates == {"none", "begun", "waiting", "applied", "refused", "completing", "refusing", "published", "gone"}

PlatformShape ==
  /\ mapping \in [Study -> {"none", "pending", "created", "deleted"}]
  /\ owner \subseteq Study /\ listed \subseteq Study
  /\ op \in [Study -> OpRows \cup {None}] /\ lock \in [Study -> Operation \cup {None}]
  /\ receipt \in [Study -> Frozens \cup {None}] /\ score \in [Study -> SlotRows \cup {None}]
  /\ request \in [Operation -> RequestRows \cup {None}]
  /\ call \in [Operation -> CallStates]
  /\ held \in [Operation -> Frozens \cup {None}] /\ sent \subseteq Operation
  /\ reconciler \in [Study -> WorkRows \cup {None}]
  /\ outcome \in [Operation -> Resolutions \cup {None}] /\ split \subseteq Study

Asked(o, st) == request[o] # None /\ request[o].study = st
Resolves(o)  == IF request[o].kind = "create" THEN {"create-complete", "create-rollback"}
                ELSE {"delete-complete", "delete-rollback"}

\* A record is of an operation asked for its study; frozen, it tells the outcome.
RecordsAreAsked ==
  \A st \in Study : op[st] # None =>
    /\ Asked(op[st].by, st)
    /\ op[st].phase # "publishing" => op[st].frozen = None
    /\ op[st].phase = "publishing" =>
         /\ op[st].frozen # None /\ op[st].frozen.by = op[st].by
         /\ outcome[op[st].by] = op[st].frozen.resolution /\ op[st].frozen.resolution \in Resolves(op[st].by)

\* What acts for an operation acts for one that was asked.
RoutesAreAsked ==
  \A o \in Operation :
    /\ call[o] # "none" \/ o \in sent \/ outcome[o] # None => request[o] # None
    /\ call[o] \in {"completing", "refusing"} => held[o] # None

RepairsAreAsked ==
  \A st \in Study : LET w == reconciler[st] IN w # None =>
    /\ Asked(w.by, st)
    /\ w.next = "recover" => op[st] # None /\ op[st].by = w.by /\ op[st].phase = "reserving"
    /\ w.next = "settle" => request[w.by].kind = "create"
    /\ w.next \in {"members", "delete"} => request[w.by].kind = "delete"
    /\ w.next = "resolve" => w.resolution \in Resolves(w.by) /\ w.at = "repair"
    /\ w.next = "publish" => w.frozen # None

\* The lock is free, or the record's; it is the record's while its operation is open.
LockIsTheRecords ==
  \A st \in Study :
    /\ op[st] = None => lock[st] = None
    /\ op[st] # None => lock[st] \in {None, op[st].by}
    /\ op[st] # None /\ op[st].phase \in {"pending", "resolving"} => lock[st] = op[st].by

\* A reservation was left by its route; what it wrote it wrote in order.
ReservationsAreLeft ==
  \A st \in Study : op[st] # None =>
    /\ op[st].phase = "pending" => st \in owner
    /\ op[st].phase = "reserving" =>
         /\ call[op[st].by] = "gone" /\ op[st].by \notin sent
         /\ lock[st] # None => st \in owner /\ (request[op[st].by].kind = "create" => st \in listed)
         /\ request[op[st].by].kind = "delete" => st \in owner

Own(o)      == op[request[o].study] # None /\ op[request[o].study].by = o
Engaged(o)  == call[o] \notin {"none", "gone", "published"}
HoldsOwn(o) == call[o] \in {"completing", "refusing"} /\ held[o].by = o
Repairs(o)  == reconciler[request[o].study] # None /\ reconciler[request[o].study].by = o
RepairsOwn(o) == Repairs(o) /\ reconciler[request[o].study].next = "publish" /\ reconciler[request[o].study].frozen.by = o
Scored(o)   == score[request[o].study] # None /\ score[request[o].study].by = o

\* An operation whose record has left the registry: at most one of its route and the
\* reconciler still acts for it, and unless that one holds the operation's own
\* receipt, the score is the operation's, and no other receipt fits it.
LateActorsAreBlocked ==
  \A o \in Operation : request[o] # None /\ ~Own(o) =>
    /\ ~(Engaged(o) /\ Repairs(o))
    /\ Engaged(o) /\ ~HoldsOwn(o) => Scored(o)
    /\ Repairs(o) /\ ~RepairsOwn(o) => Scored(o)

PlatformInv ==
  /\ PlatformShape /\ RecordsAreAsked /\ RoutesAreAsked /\ RepairsAreAsked
  /\ LockIsTheRecords /\ ReservationsAreLeft /\ LateActorsAreBlocked

\* A reserved creation key is not read by any of the parts.
LEMMA ReserveKeepsPlatform ==
  ASSUME PlatformInv, NEW st \in Study, ReserveKey(st)
  PROVE  PlatformInv'
  BY DEF PlatformInv, PlatformShape, RecordsAreAsked, RoutesAreAsked, RepairsAreAsked, LockIsTheRecords,
         ReservationsAreLeft, LateActorsAreBlocked, Asked, Resolves, Own, Engaged, HoldsOwn, Repairs, RepairsOwn, Scored,
         ReserveKey, routes, history

\* A script that begins an operation, of either kind.
Begins(st, o, kind, expected, steps) ==
  /\ request[o] = None /\ op[st] = None
  /\ request' = [request EXCEPT ![o] = [study |-> st, kind |-> kind, populated |-> expected # None, expected |-> expected]]
  /\ op' = [op EXCEPT ![st] = Record(o, IF steps = 5 THEN "pending" ELSE "reserving")]
  /\ lock' = IF steps >= 4 THEN [lock EXCEPT ![st] = o] ELSE lock
  /\ call' = [call EXCEPT ![o] = IF steps = 5 THEN "begun" ELSE "gone"]
  /\ kind = "create" => /\ owner' = IF steps >= 2 THEN owner \cup {st} ELSE owner
                        /\ listed' = IF steps >= 3 THEN listed \cup {st} ELSE listed
  /\ kind = "delete" => st \in owner /\ UNCHANGED <<owner, listed>>
  /\ UNCHANGED <<mapping, receipt, score, held, sent, reconciler, history, byos>>

\* The two scripts that begin an operation are one, up to what a deletion needs.
LEMMA BeginIsOfAKind ==
  ASSUME ByosShape, NEW st \in Study, NEW o \in Operation, Begin(st, o)
  PROVE  \E kind \in {"create", "delete"}, expected \in Revision \cup {None}, k \in 1..5 : 
           /\ Begins(st, o, kind, expected, k)
           /\ kind = "create" => expected = None /\ mapping[st] = "pending" /\ ~\E p \in Operation : Asked(p, st)
           /\ expected \in {None} \cup Shown(st)
<1>1. ASSUME NEW k \in 1..5, BeginCreate(st, o, k)
      PROVE  Begins(st, o, "create", None, k) /\ mapping[st] = "pending" /\ ~\E p \in Operation : Asked(p, st)
  BY <1>1 DEF BeginCreate, Begins, Asked
<1>2. ASSUME NEW k \in 1..5, NEW expected \in {None} \cup Shown(st), BeginDelete(st, o, expected, k)
      PROVE  Begins(st, o, "delete", expected, k) /\ expected \in Revision \cup {None}
  <2>1. Shown(st) \subseteq Revision
    BY RedisAssumption, MaxRevision \in Nat DEF Shown, Revision, ByosShape, StudyRows
  <2> QED
    BY <1>2, <2>1 DEF BeginDelete, Begins
<1>3. StepsOf(5) \subseteq 1..5
  BY DEF StepsOf
<1>4. None \in Revision \cup {None} /\ "create" \in {"create", "delete"} /\ "delete" \in {"create", "delete"}
  OBVIOUS
<1>5. CASE \E k \in StepsOf(5) : BeginCreate(st, o, k)
  <2>1. PICK k \in StepsOf(5) : BeginCreate(st, o, k)
    BY <1>5
  <2> QED
    BY <1>1, <1>3, <1>4, <2>1
<1>6. CASE \E k \in StepsOf(5) \ {2, 3}, expected \in {None} \cup Shown(st) : BeginDelete(st, o, expected, k)
  <2>1. PICK k \in StepsOf(5) \ {2, 3}, expected \in {None} \cup Shown(st) : BeginDelete(st, o, expected, k)
    BY <1>6
  <2> QED
    BY <1>2, <1>3, <1>4, <2>1
<1> QED
  BY <1>5, <1>6 DEF Begin

\* An operation that begins finds its study without a record, and no actor of its own.
LEMMA BeginsKeepPlatform ==
  ASSUME PlatformInv, NEW st \in Study, NEW o \in Operation, NEW kind \in {"create", "delete"},
         NEW expected \in Revision \cup {None}, NEW k \in 1..5, Begins(st, o, kind, expected, k)
  PROVE  PlatformInv' /\ \A p \in Operation : request[p] # None => request'[p] = request[p]
<1> DEFINE row == [study |-> st, kind |-> kind, populated |-> expected # None, expected |-> expected]
           rec == Record(o, IF k = 5 THEN "pending" ELSE "reserving")
<1>1. row \in RequestRows /\ row # None /\ request' = [request EXCEPT ![o] = row]
  <2>1. row \in RequestRows
    BY DEF RequestRows
  <2> QED
    BY <2>1, NoneIsNoPlatformRow DEF Begins
<1>2. rec \in OpRows /\ rec # None /\ op' = [op EXCEPT ![st] = rec] /\ rec.by = o /\ rec.frozen = None
      /\ rec.phase = IF k = 5 THEN "pending" ELSE "reserving"
  <2>1. rec \in OpRows
    BY DEF OpRows, Record, Phase
  <2> QED
    BY <2>1, NoneIsNoPlatformRow DEF Begins, Record
<1>3. request[o] = None /\ op[st] = None /\ request'[o] = row /\ op'[st] = rec
      /\ (\A p \in Operation : p # o => request'[p] = request[p])
      /\ (\A s \in Study : s # st => op'[s] = op[s])
  BY <1>1, <1>2 DEF Begins, PlatformInv, PlatformShape
<1> HIDE DEF rec
<1>4. lock[st] = None /\ o \notin sent /\ call[o] = "none" /\ outcome[o] = None
  BY <1>3 DEF PlatformInv, LockIsTheRecords, RoutesAreAsked, PlatformShape
<1>5. /\ lock' \in [Study -> Operation \cup {None}]
      /\ \A s \in Study : s # st => lock'[s] = lock[s]
      /\ lock'[st] = IF k >= 4 THEN o ELSE None
  BY <1>4 DEF Begins, PlatformInv, PlatformShape
<1>6. /\ call' \in [Operation -> CallStates]
      /\ \A p \in Operation : p # o => call'[p] = call[p]
      /\ call'[o] = IF k = 5 THEN "begun" ELSE "gone"
  BY DEF Begins, PlatformInv, PlatformShape, CallStates
<1>7. /\ owner \subseteq owner' /\ listed \subseteq listed' /\ owner' \subseteq Study /\ listed' \subseteq Study
      /\ kind = "create" /\ k >= 2 => st \in owner'
      /\ kind = "create" /\ k >= 3 => st \in listed'
      /\ kind = "delete" => st \in owner'
  BY DEF Begins, PlatformInv, PlatformShape
<1>8. UNCHANGED <<mapping, receipt, score, held, sent, reconciler, outcome, split, environment>>
  BY DEF Begins, history
<1>9. PlatformShape'
  BY <1>1, <1>2, <1>5, <1>6, <1>7, <1>8 DEF PlatformInv, PlatformShape
<1>10. \A p \in Operation : request[p] # None => request'[p] = request[p] /\ p # o /\ call'[p] = call[p]
  BY <1>3, <1>6
<1>11. RecordsAreAsked'
  <2> SUFFICES ASSUME NEW s \in Study, op'[s] # None
               PROVE /\ Asked(op[s].by, s)'
                     /\ op'[s].phase # "publishing" => op'[s].frozen = None
                     /\ op'[s].phase = "publishing" =>
                          /\ op'[s].frozen # None /\ op'[s].frozen.by = op'[s].by
                          /\ outcome'[op'[s].by] = op'[s].frozen.resolution /\ op'[s].frozen.resolution \in Resolves(op[s].by)'
    BY DEF RecordsAreAsked
  <2>1. CASE s = st
    BY <1>1, <1>2, <1>3, <2>1 DEF Asked
  <2>2. CASE s # st
    <3>1. op'[s] = op[s] /\ op[s].by \in Operation /\ Asked(op[s].by, s)
      BY <1>3, <2>2 DEF PlatformInv, PlatformShape, RecordsAreAsked, OpRows
    <3>2. request'[op[s].by] = request[op[s].by]
      BY <1>10, <3>1 DEF Asked
    <3> QED
      BY <1>8, <3>1, <3>2 DEF PlatformInv, RecordsAreAsked, Asked, Resolves
  <2> QED
    BY <2>1, <2>2
<1>12. RoutesAreAsked'
  BY <1>1, <1>3, <1>6, <1>8, <1>10 DEF PlatformInv, RoutesAreAsked
<1>13. RepairsAreAsked'
  <2> SUFFICES ASSUME NEW s \in Study, reconciler[s] # None
               PROVE /\ Asked(reconciler[s].by, s)'
                     /\ reconciler[s].next = "recover" => op'[s] # None /\ op'[s].by = reconciler[s].by /\ op'[s].phase = "reserving"
                     /\ request'[reconciler[s].by] = request[reconciler[s].by]
    BY <1>8 DEF PlatformInv, RepairsAreAsked, Resolves
  <2>1. reconciler[s].by \in Operation /\ Asked(reconciler[s].by, s)
    BY DEF PlatformInv, PlatformShape, RepairsAreAsked, WorkRows
  <2>2. reconciler[s].next = "recover" => s # st
    BY <1>3 DEF PlatformInv, RepairsAreAsked
  <2> QED
    BY <1>3, <1>8, <1>10, <2>1, <2>2 DEF Asked, PlatformInv, RepairsAreAsked
<1>14. LockIsTheRecords'
  BY <1>2, <1>3, <1>5 DEF PlatformInv, LockIsTheRecords
<1>15. ReservationsAreLeft'
  <2> SUFFICES ASSUME NEW s \in Study, op'[s] # None
               PROVE /\ op'[s].phase = "pending" => s \in owner'
                     /\ op'[s].phase = "reserving" =>
                          /\ call'[op'[s].by] = "gone" /\ op'[s].by \notin sent
                          /\ lock'[s] # None => s \in owner' /\ (request'[op'[s].by].kind = "create" => s \in listed')
                          /\ request'[op'[s].by].kind = "delete" => s \in owner'
    BY <1>8 DEF ReservationsAreLeft
  <2>1. CASE s = st
    <3>1. op'[s].by = o /\ op'[s].phase = (IF k = 5 THEN "pending" ELSE "reserving") /\ request'[o].kind = kind
      BY <1>2, <1>3, <2>1
    <3>2. kind = "create" \/ kind = "delete"
      OBVIOUS
    <3> HIDE DEF row
    <3> QED
      BY <1>4, <1>5, <1>6, <1>7, <1>8, <2>1, <3>1, <3>2
  <2>2. CASE s # st
    <3>1. op'[s] = op[s] /\ op[s].by \in Operation /\ Asked(op[s].by, s)
      BY <1>3, <2>2 DEF PlatformInv, PlatformShape, RecordsAreAsked, OpRows
    <3>2. request'[op[s].by] = request[op[s].by] /\ call'[op[s].by] = call[op[s].by]
      BY <1>10, <3>1 DEF Asked
    <3> QED
      BY <1>5, <1>7, <2>2, <3>1, <3>2 DEF PlatformInv, ReservationsAreLeft
  <2> QED
    BY <2>1, <2>2
<1>16. LateActorsAreBlocked'
  <2> SUFFICES ASSUME NEW p \in Operation, request'[p] # None, ~Own(p)'
               PROVE  /\ ~(Engaged(p) /\ Repairs(p))'
                      /\ (Engaged(p) /\ ~HoldsOwn(p))' => Scored(p)'
                      /\ (Repairs(p) /\ ~RepairsOwn(p))' => Scored(p)'
    BY DEF LateActorsAreBlocked
  <2>1. p # o
    BY <1>1, <1>2, <1>3 DEF Own
  <2>2. request'[p] = request[p] /\ call'[p] = call[p] /\ request[p] # None /\ request[p].study \in Study
    BY <1>3, <1>6, <2>1 DEF PlatformInv, PlatformShape, RequestRows
  <2>3. ~Own(p)
    BY <1>2, <1>3, <2>1, <2>2 DEF Own
  <2> QED
    BY <1>8, <2>2, <2>3 DEF PlatformInv, LateActorsAreBlocked, Engaged, HoldsOwn, Repairs, RepairsOwn, Scored
<1> QED
  BY <1>9, <1>10, <1>11, <1>12, <1>13, <1>14, <1>15, <1>16 DEF PlatformInv

\* A route goes on, writing nothing to the registry.
RouteTurns(o) ==
  /\ UNCHANGED <<owner, listed, op, lock, receipt, score, request, reconciler, outcome, split>>
  /\ mapping' \in [Study -> {"none", "pending", "created", "deleted"}]
  /\ call[o] \in CallStates \ {"none"} \/ o \in sent
  /\ call' \in [Operation -> CallStates] /\ \A p \in Operation \ {o} : call'[p] = call[p]
  /\ call[o] \in {"none", "gone"} => call'[o] = call[o]
  /\ sent' \subseteq sent \/ (call[o] = "begun" /\ sent' = sent \cup {o})
  /\ held' \in [Operation -> Frozens \cup {None}] /\ \A p \in Operation \ {o} : held'[p] = held[p]
  /\ call'[o] \in {"completing", "refusing"} => held'[o] # None
  /\ Engaged(o)' => Engaged(o) /\ (HoldsOwn(o) => HoldsOwn(o)')

\* A route that moves on without writing the registry.
LEMMA RouteTurnsKeepPlatform ==
  ASSUME PlatformInv, NEW o \in Operation, RouteTurns(o)
  PROVE  PlatformInv'
<1>1. PlatformShape'
  BY DEF PlatformInv, PlatformShape, RouteTurns
<1>2. RecordsAreAsked' /\ LockIsTheRecords'
  BY DEF PlatformInv, RecordsAreAsked, LockIsTheRecords, RouteTurns, Asked, Resolves
<1>3. RoutesAreAsked'
  BY DEF PlatformInv, PlatformShape, RoutesAreAsked, RouteTurns
<1>4. RepairsAreAsked'
  BY DEF PlatformInv, RepairsAreAsked, RouteTurns, Asked, Resolves
<1>5. ReservationsAreLeft'
  <2> SUFFICES ASSUME NEW s \in Study, op[s] # None, op[s].phase = "reserving"
               PROVE  call'[op[s].by] = "gone" /\ op[s].by \notin sent'
    BY DEF PlatformInv, ReservationsAreLeft, RouteTurns
  <2>1. op[s].by \in Operation /\ call[op[s].by] = "gone" /\ op[s].by \notin sent
    BY DEF PlatformInv, PlatformShape, ReservationsAreLeft, OpRows
  <2> QED
    BY <2>1 DEF RouteTurns
<1>6. LateActorsAreBlocked'
  <2> SUFFICES ASSUME NEW p \in Operation, request[p] # None, ~Own(p)
               PROVE  /\ ~(Engaged(p) /\ Repairs(p))'
                      /\ (Engaged(p) /\ ~HoldsOwn(p))' => Scored(p)'
                      /\ (Repairs(p) /\ ~RepairsOwn(p))' => Scored(p)'
    BY DEF LateActorsAreBlocked, RouteTurns, Own
  <2>1. (Repairs(p)' <=> Repairs(p)) /\ (RepairsOwn(p)' <=> RepairsOwn(p)) /\ (Scored(p)' <=> Scored(p))
    BY DEF Repairs, RepairsOwn, Scored, RouteTurns
  <2>2. Engaged(p)' => Engaged(p) /\ (HoldsOwn(p) => HoldsOwn(p)')
    BY DEF RouteTurns, Engaged, HoldsOwn
  <2> QED
    BY <2>1, <2>2 DEF PlatformInv, LateActorsAreBlocked
<1> QED
  BY <1>1, <1>2, <1>3, <1>4, <1>5, <1>6 DEF PlatformInv

\* The reconciler goes on, writing nothing to the registry.
ReconcilerTurns(st) ==
  /\ UNCHANGED <<platform, routes, outcome, split>>
  /\ reconciler' = [reconciler EXCEPT ![st] = reconciler'[st]] /\ reconciler'[st] \in WorkRows \cup {None}
  /\ reconciler'[st] # None =>
       /\ Asked(reconciler'[st].by, st)
       /\ reconciler'[st].next = "recover" => op[st] # None /\ op[st].by = reconciler'[st].by /\ op[st].phase = "reserving"
       /\ reconciler'[st].next = "settle" => request[reconciler'[st].by].kind = "create"
       /\ reconciler'[st].next \in {"members", "delete"} => request[reconciler'[st].by].kind = "delete"
       /\ reconciler'[st].next = "resolve" => reconciler'[st].resolution \in Resolves(reconciler'[st].by) /\ reconciler'[st].at = "repair"
       /\ reconciler'[st].next = "publish" => reconciler'[st].frozen # None
       /\ \/ op[st] # None /\ op[st].by = reconciler'[st].by
          \/ reconciler[st] # None /\ reconciler[st].next # "publish" /\ reconciler[st].by = reconciler'[st].by

\* The reconciler moving on without writing the registry.
LEMMA ReconcilerTurnsKeepPlatform ==
  ASSUME PlatformInv, NEW st \in Study, ReconcilerTurns(st)
  PROVE  PlatformInv'
<1>0. \A s \in Study \ {st} : reconciler'[s] = reconciler[s]
  BY DEF ReconcilerTurns, PlatformInv, PlatformShape
<1>1. PlatformShape'
  BY DEF PlatformInv, PlatformShape, ReconcilerTurns, platform, routes
<1>2. RecordsAreAsked' /\ LockIsTheRecords'
  BY DEF PlatformInv, RecordsAreAsked, LockIsTheRecords, ReconcilerTurns, platform, routes, Asked, Resolves
<1>3. RoutesAreAsked' /\ ReservationsAreLeft'
  BY DEF PlatformInv, RoutesAreAsked, ReservationsAreLeft, ReconcilerTurns, platform, routes
<1>4. RepairsAreAsked'
  BY <1>0 DEF PlatformInv, RepairsAreAsked, ReconcilerTurns, platform, routes, Asked, Resolves
<1>6. LateActorsAreBlocked'
  <2> SUFFICES ASSUME NEW p \in Operation, request[p] # None, ~Own(p)
               PROVE  /\ ~(Engaged(p) /\ Repairs(p)')
                      /\ Engaged(p) /\ ~HoldsOwn(p) => Scored(p)
                      /\ Repairs(p)' /\ ~RepairsOwn(p)' => Scored(p)
    BY DEF LateActorsAreBlocked, ReconcilerTurns, platform, routes, Own, Engaged, HoldsOwn, Scored
  <2>1. request[p].study \in Study /\ request' = request
    BY DEF PlatformInv, PlatformShape, RequestRows, ReconcilerTurns, platform
  <2>2. Repairs(p)' => Repairs(p) /\ (RepairsOwn(p) => RepairsOwn(p)')
    <3>1. CASE request[p].study = st
      BY <2>1, <3>1 DEF Repairs, RepairsOwn, Own, ReconcilerTurns
    <3>2. CASE request[p].study # st
      BY <1>0, <2>1, <3>2 DEF Repairs, RepairsOwn
    <3> QED
      BY <3>1, <3>2
  <2> QED
    BY <2>2 DEF PlatformInv, LateActorsAreBlocked
<1> QED
  BY <1>1, <1>2, <1>3, <1>4, <1>6 DEF PlatformInv

\* The grace of a record passes.
LEMMA AgeKeepsPlatform ==
  ASSUME PlatformInv, NEW st \in Study, Age(st)
  PROVE  PlatformInv'
<1>1. op[st] \in OpRows /\ op'[st] = [op[st] EXCEPT !.aged = TRUE] /\ op' = [op EXCEPT ![st] = op'[st]]
  BY DEF Age, PlatformInv, PlatformShape
<1>2. /\ op'[st] \in OpRows /\ op'[st] # None /\ op'[st].by = op[st].by /\ op'[st].phase = op[st].phase
      /\ op'[st].frozen = op[st].frozen
  BY <1>1, NoneIsNoPlatformRow DEF OpRows
<1>3. \A s \in Study : /\ op'[s] = None <=> op[s] = None
                       /\ op[s] # None => op'[s].by = op[s].by /\ op'[s].phase = op[s].phase /\ op'[s].frozen = op[s].frozen
  BY ZenonT(60), <1>1, <1>2, NoneIsNoPlatformRow DEF PlatformInv, PlatformShape
<1>4. UNCHANGED <<mapping, owner, listed, lock, receipt, score, request, call, held, sent, reconciler, outcome, split>>
  BY DEF Age, routes, history
<1>5. PlatformShape'
  BY <1>1, <1>2, <1>4 DEF PlatformInv, PlatformShape
<1>6. RecordsAreAsked' /\ RoutesAreAsked' /\ RepairsAreAsked' /\ LockIsTheRecords' /\ ReservationsAreLeft'
  BY <1>3, <1>4 DEF PlatformInv, RecordsAreAsked, RoutesAreAsked, RepairsAreAsked, LockIsTheRecords, ReservationsAreLeft, Asked, Resolves
<1>7. \A p \in Operation : request[p] # None => (Own(p)' <=> Own(p))
  BY <1>3, <1>4 DEF Own, PlatformInv, PlatformShape, RequestRows
<1>8. LateActorsAreBlocked'
  BY <1>4, <1>7 DEF PlatformInv, LateActorsAreBlocked, Engaged, HoldsOwn, Repairs, RepairsOwn, Scored
<1> QED
  BY <1>5, <1>6, <1>8 DEF PlatformInv

\* A receipt expires; its score stays, and it is the score that blocks late actors.
LEMMA ExpiryKeepsPlatform ==
  ASSUME PlatformInv, NEW st \in Study, ExpireReceipt(st)
  PROVE  PlatformInv'
<1>1. receipt' \in [Study -> Frozens \cup {None}]
  BY DEF ExpireReceipt, PlatformInv, PlatformShape
<1> QED
  BY <1>1 DEF PlatformInv, PlatformShape, RecordsAreAsked, RoutesAreAsked, RepairsAreAsked, LockIsTheRecords,
         ReservationsAreLeft, LateActorsAreBlocked, Asked, Resolves, Own, Engaged, HoldsOwn, Repairs, RepairsOwn, Scored,
         ExpireReceipt, routes, history

\* A reservation is given up, or installed as pending with its lock.
LEMMA RecoverKeepsPlatform ==
  ASSUME PlatformInv, NEW st \in Study, Recover(st)
  PROVE  PlatformInv'
<1> DEFINE w == reconciler[st]
<1>1. /\ w \in WorkRows /\ w.by \in Operation /\ op[st] \in OpRows /\ op[st] # None /\ op[st].by = w.by
      /\ op[st].phase = "reserving"
  BY DEF Recover, PlatformInv, PlatformShape, RepairsAreAsked, WorkRows
<1>2. /\ reconciler' = [reconciler EXCEPT ![st] = None]
      /\ lock' = IF lock[st] = None /\ Installs(st) THEN [lock EXCEPT ![st] = w.by] ELSE lock
      /\ op' = [op EXCEPT ![st] = op'[st]]
      /\ UNCHANGED <<mapping, owner, listed, receipt, score, request, call, held, sent, outcome, split>>
  BY <1>1 DEF Recover, routes, history, PlatformInv, PlatformShape
<1>3. \/ Abandons(st) /\ op'[st] = None
      \/ ~Abandons(st) /\ Installs(st) /\ op'[st] = [op[st] EXCEPT !.phase = "pending", !.aged = FALSE]
      \/ ~Installs(st) /\ op'[st] = op[st]
  BY <1>1 DEF Recover, PlatformInv, PlatformShape, Abandons, Installs
<1>4. op'[st] # None => /\ op'[st] \in OpRows /\ op'[st].by = w.by /\ op'[st].frozen = op[st].frozen
                        /\ op'[st].phase = IF Installs(st) THEN "pending" ELSE "reserving"
  BY <1>1, <1>3 DEF OpRows, Phase
<1>5. op'[st] = None => ~Installs(st) /\ lock[st] = None
  <2>1. [op[st] EXCEPT !.phase = "pending", !.aged = FALSE] \in OpRows
    BY <1>1 DEF OpRows, Phase
  <2>2. op'[st] = None => Abandons(st)
    BY <1>1, <1>3, <2>1, NoneIsNoPlatformRow
  <2> QED
    BY <2>2 DEF Abandons, Installs
<1>6. \A s \in Study \ {st} : op'[s] = op[s] /\ lock'[s] = lock[s] /\ reconciler'[s] = reconciler[s]
  BY <1>1, <1>2 DEF PlatformInv, PlatformShape
<1>7. lock'[st] = (IF Installs(st) THEN w.by ELSE None) /\ reconciler'[st] = None
  <2>1. lock[st] \in {None, w.by}
    BY <1>1 DEF PlatformInv, LockIsTheRecords
  <2> QED
    BY <1>2, <2>1 DEF PlatformInv, PlatformShape, Installs
<1>8. PlatformShape'
  BY <1>1, <1>2, <1>4 DEF PlatformInv, PlatformShape
<1>9. RecordsAreAsked' /\ RoutesAreAsked'
  BY <1>1, <1>2, <1>4, <1>6 DEF PlatformInv, RecordsAreAsked, RoutesAreAsked, Asked, Resolves
<1>10. RepairsAreAsked'
  BY <1>2, <1>6, <1>7 DEF PlatformInv, RepairsAreAsked, Asked, Resolves
<1>11. LockIsTheRecords'
  BY <1>1, <1>4, <1>5, <1>6, <1>7 DEF PlatformInv, LockIsTheRecords
<1>12. ReservationsAreLeft'
  <2>1. Installs(st) => st \in owner
    BY <1>1 DEF Installs, PlatformInv, ReservationsAreLeft
  <2>2. ~Installs(st) => lock'[st] = None
    BY <1>7
  <2> QED
    BY <1>1, <1>2, <1>4, <1>6, <2>1, <2>2 DEF PlatformInv, ReservationsAreLeft
<1>13. LateActorsAreBlocked'
  <2> SUFFICES ASSUME NEW p \in Operation, request[p] # None, ~Own(p)'
               PROVE  /\ ~(Engaged(p) /\ Repairs(p)')
                      /\ Engaged(p) /\ ~HoldsOwn(p) => Scored(p)
                      /\ Repairs(p)' /\ ~RepairsOwn(p)' => Scored(p)
    BY <1>2 DEF LateActorsAreBlocked, Engaged, HoldsOwn, Scored
  <2>1. request[p].study \in Study /\ request' = request /\ call' = call
    BY <1>2 DEF PlatformInv, PlatformShape, RequestRows
  <2>2. Repairs(p)' => Repairs(p) /\ (RepairsOwn(p) => RepairsOwn(p)')
    BY <1>6, <1>7, <2>1 DEF Repairs, RepairsOwn
  <2>3. Own(p) => ~Engaged(p) /\ ~Repairs(p)'
    <3>1. CASE request[p].study = st
      BY <1>1, <1>7, <2>1, <3>1 DEF Own, Engaged, Repairs, PlatformInv, ReservationsAreLeft
    <3>2. CASE request[p].study # st
      BY <1>6, <2>1, <3>2 DEF Own
    <3> QED
      BY <3>1, <3>2
  <2> QED
    BY <2>2, <2>3 DEF PlatformInv, LateActorsAreBlocked
<1> QED
  BY <1>8, <1>9, <1>10, <1>11, <1>12, <1>13 DEF PlatformInv

\* The route of an operation, and only it, goes on with a receipt or gives up.
RouteTakes(o, r) ==
  /\ call' \in [Operation -> CallStates] /\ \A p \in Operation \ {o} : call'[p] = call[p]
  /\ held' \in [Operation -> Frozens \cup {None}] /\ \A p \in Operation \ {o} : held'[p] = held[p]
  /\ call'[o] \in {"completing", "refusing", "published", "gone"} /\ held'[o] = r
  /\ call'[o] \in {"completing", "refusing"} => r # None
  /\ UNCHANGED <<reconciler, sent>>

\* So does the reconciler, for a study.
ReconcilerTakes(st, r) ==
  /\ reconciler' = [reconciler EXCEPT ![st] = reconciler'[st]] /\ reconciler'[st] \in WorkRows \cup {None}
  /\ reconciler'[st] # None => /\ r # None /\ reconciler[st] # None /\ reconciler'[st].by = reconciler[st].by
                               /\ reconciler'[st].next = "publish" /\ reconciler'[st].frozen = r
  /\ UNCHANGED routes

\* The record a resolution writes.
LEMMA ResolveWrites ==
  ASSUME PlatformInv, NEW st \in Study, NEW o \in Operation, Asked(o, st), NEW resolution \in Resolves(o),
         NEW at \in {"request", "repair"}, NEW k \in {1, 2}, op[st] # None, Resolve(st, o, resolution, at, k)
  PROVE  LET b == op[st].by IN
         /\ op' = [op EXCEPT ![st] = op'[st]] /\ op'[st] \in OpRows /\ op'[st] # None /\ op'[st].by = b
         /\ op'[st].phase = IF k = 1 THEN "resolving" ELSE "publishing"
         /\ k = 1 => op'[st].frozen = op[st].frozen
         /\ k = 2 => op'[st].frozen = Receipt(b, resolution, at)
<1> DEFINE b == op[st].by
<1>0. Resolves(o) \subseteq Resolutions
  BY DEF Resolves, Resolutions
<1>1. op[st] \in OpRows /\ b \in Operation /\ Asked(b, st) /\ request[b].kind = request[o].kind /\ Resolves(b) = Resolves(o)
      /\ op[st].phase \in {"pending", "resolving"} /\ lock[st] = b
  BY DEF Resolve, MayResolve, PlatformInv, PlatformShape, RecordsAreAsked, LockIsTheRecords, OpRows, Resolves
<1>2. /\ op' = [op EXCEPT ![st] = op'[st]] /\ op'[st] \in OpRows /\ op'[st] # None /\ op'[st].by = b
      /\ op'[st].phase = IF k = 1 THEN "resolving" ELSE "publishing"
      /\ k = 1 => op'[st].frozen = op[st].frozen
      /\ k = 2 => op'[st].frozen = Receipt(b, resolution, at)
  <2>1. Receipt(b, resolution, at) \in Frozens
    BY <1>0, <1>1 DEF Receipt, Frozens
  <2>2. op'[st] = IF k = 1 THEN [op[st] EXCEPT !.phase = "resolving", !.aged = FALSE]
                  ELSE [op[st] EXCEPT !.phase = "publishing", !.aged = FALSE, !.frozen = Receipt(b, resolution, at)]
    BY DEF Resolve, PlatformInv, PlatformShape
  <2>3. op' = [op EXCEPT ![st] = op'[st]]
    BY DEF Resolve, PlatformInv, PlatformShape
  <2>4. /\ op'[st] \in OpRows /\ op'[st].by = b /\ op'[st].phase = IF k = 1 THEN "resolving" ELSE "publishing"
        /\ k = 1 => op'[st].frozen = op[st].frozen
        /\ k = 2 => op'[st].frozen = Receipt(b, resolution, at)
    <3> DEFINE f == Receipt(b, resolution, at)
    <3>1. f \in Frozens
      BY <2>1
    <3> HIDE DEF f
    <3>2. CASE k = 1
      <4>1. op'[st] = [op[st] EXCEPT !.phase = "resolving", !.aged = FALSE]
        BY <2>2, <3>2
      <4>2. /\ op'[st] \in OpRows /\ op'[st].by = b /\ op'[st].phase = "resolving" /\ op'[st].frozen = op[st].frozen
        BY <1>1, <4>1 DEF OpRows, Phase
      <4> QED
        BY <3>2, <4>2
    <3>3. CASE k = 2
      <4>1. op'[st] = [op[st] EXCEPT !.phase = "publishing", !.aged = FALSE, !.frozen = f]
        BY <2>2, <3>3 DEF f
      <4>2. /\ op'[st] \in OpRows /\ op'[st].by = b /\ op'[st].phase = "publishing" /\ op'[st].frozen = f
        BY <1>1, <3>1, <4>1 DEF OpRows, Phase
      <4> QED
        BY <3>3, <4>2 DEF f
    <3> QED
      BY <3>2, <3>3
  <2> QED
    BY <2>3, <2>4, NoneIsNoPlatformRow
<1> QED
  BY <1>2

\* A resolution freezes its receipt for the operation that holds the record.
LEMMA ResolveKeepsPlatform ==
  ASSUME PlatformInv, NEW st \in Study, NEW o \in Operation, Asked(o, st), NEW resolution \in Resolves(o),
         NEW at \in {"request", "repair"}, NEW k \in {1, 2}, op[st] # None, Resolve(st, o, resolution, at, k),
         \/ call[o] \in {"applied", "refused"} /\ RouteTakes(o, IF k = 1 THEN None ELSE op'[st].frozen)
         \/ /\ reconciler[st] # None /\ reconciler[st].by = o /\ reconciler[st].next = "resolve"
            /\ ReconcilerTakes(st, IF k = 1 THEN None ELSE op'[st].frozen)
  PROVE  PlatformInv'
<1> DEFINE b == op[st].by
<1>0. Resolves(o) \subseteq Resolutions
  BY DEF Resolves, Resolutions
<1>1. op[st] \in OpRows /\ b \in Operation /\ Asked(b, st) /\ request[b].kind = request[o].kind /\ Resolves(b) = Resolves(o)
      /\ op[st].phase \in {"pending", "resolving"} /\ lock[st] = b
  BY DEF Resolve, MayResolve, PlatformInv, PlatformShape, RecordsAreAsked, LockIsTheRecords, OpRows, Resolves
<1>2. /\ op' = [op EXCEPT ![st] = op'[st]] /\ op'[st] \in OpRows /\ op'[st] # None /\ op'[st].by = b
      /\ op'[st].phase = IF k = 1 THEN "resolving" ELSE "publishing"
      /\ k = 1 => op'[st].frozen = op[st].frozen
      /\ k = 2 => op'[st].frozen = Receipt(b, resolution, at)
  BY ResolveWrites
<1>3. /\ outcome' \in [Operation -> Resolutions \cup {None}] /\ \A p \in Operation \ {b} : outcome'[p] = outcome[p]
      /\ k = 1 => outcome' = outcome
      /\ k = 2 => outcome'[b] = resolution
  BY <1>0, <1>1 DEF Resolve, PlatformInv, PlatformShape
<1>4. /\ owner' \subseteq Study /\ listed' \subseteq Study /\ split' \subseteq Study
      /\ mapping' \in [Study -> {"none", "pending", "created", "deleted"}]
      /\ \A s \in Study \ {st} : (s \in owner' <=> s \in owner) /\ (s \in listed' <=> s \in listed)
      /\ UNCHANGED <<lock, receipt, score, request, sent>>
  BY DEF Resolve, PlatformInv, PlatformShape, RouteTakes, ReconcilerTakes, routes
<1>5. /\ call' \in [Operation -> CallStates] /\ held' \in [Operation -> Frozens \cup {None}]
      /\ reconciler' \in [Study -> WorkRows \cup {None}]
      /\ \A p \in Operation : call[p] = "gone" => call'[p] = "gone"
      /\ \A p \in Operation : call'[p] # call[p] \/ held'[p] # held[p] => p = o
      /\ \A s \in Study \ {st} : reconciler'[s] = reconciler[s]
  BY DEF RouteTakes, ReconcilerTakes, PlatformInv, PlatformShape, routes
<1>6. \A s \in Study \ {st} : op'[s] = op[s]
  BY <1>2 DEF PlatformInv, PlatformShape
<1>7. PlatformShape'
  BY <1>2, <1>3, <1>4, <1>5 DEF PlatformInv, PlatformShape
<1>8. RecordsAreAsked'
  <2> SUFFICES ASSUME NEW s \in Study, op'[s] # None
               PROVE /\ Asked(op'[s].by, s)
                     /\ op'[s].phase # "publishing" => op'[s].frozen = None
                     /\ op'[s].phase = "publishing" =>
                          /\ op'[s].frozen # None /\ op'[s].frozen.by = op'[s].by
                          /\ outcome'[op'[s].by] = op'[s].frozen.resolution /\ op'[s].frozen.resolution \in Resolves(op'[s].by)
    BY <1>4 DEF RecordsAreAsked, Asked, Resolves
  <2>1. CASE s = st
    <3>1. Receipt(b, resolution, at) \in Frozens /\ Receipt(b, resolution, at) # None
      <4>1. Receipt(b, resolution, at) \in Frozens
        BY <1>0, <1>1 DEF Receipt, Frozens
      <4> QED
        BY <4>1, NoneIsNoPlatformRow
    <3>2. Receipt(b, resolution, at).by = b /\ Receipt(b, resolution, at).resolution = resolution
      BY DEF Receipt
    <3>3. k = 1 => op[st].frozen = None
      BY <1>1 DEF PlatformInv, RecordsAreAsked
    <3>4. op'[st].by = b /\ Asked(b, st) /\ resolution \in Resolves(b)
      BY <1>1, <1>2
    <3> QED
      BY <1>2, <1>3, <2>1, <3>1, <3>2, <3>3, <3>4
  <2>2. CASE s # st
    <3>1. op'[s] = op[s] /\ op[s].by \in Operation /\ Asked(op[s].by, s)
      BY <1>6, <2>2 DEF PlatformInv, PlatformShape, RecordsAreAsked, OpRows
    <3>2. op[s].by # b
      BY <1>1, <2>2, <3>1 DEF Asked
    <3> QED
      BY <1>3, <3>1, <3>2 DEF PlatformInv, RecordsAreAsked
  <2> QED
    BY <2>1, <2>2
<1>9. RoutesAreAsked'
  <2> SUFFICES ASSUME NEW p \in Operation
               PROVE  /\ call'[p] # "none" \/ p \in sent \/ outcome'[p] # None => request[p] # None
                      /\ call'[p] \in {"completing", "refusing"} => held'[p] # None
    BY <1>4 DEF RoutesAreAsked
  <2>1. CASE p = o
    BY <2>1 DEF Asked, RouteTakes, ReconcilerTakes, routes, PlatformInv, RoutesAreAsked
  <2>2. CASE p # o
    BY <1>1, <1>3, <1>5, <2>2 DEF Asked, PlatformInv, RoutesAreAsked
  <2> QED
    BY <2>1, <2>2
<1>10. RepairsAreAsked'
  <2> SUFFICES ASSUME NEW s \in Study, reconciler'[s] # None
               PROVE  LET w == reconciler'[s] IN
                      /\ Asked(w.by, s)
                      /\ w.next = "recover" => op'[s] # None /\ op'[s].by = w.by /\ op'[s].phase = "reserving"
                      /\ w.next = "settle" => request[w.by].kind = "create"
                      /\ w.next \in {"members", "delete"} => request[w.by].kind = "delete"
                      /\ w.next = "resolve" => w.resolution \in Resolves(w.by) /\ w.at = "repair"
                      /\ w.next = "publish" => w.frozen # None
    BY <1>4 DEF RepairsAreAsked, Asked, Resolves
  <2>1. CASE reconciler'[s] = reconciler[s]
    <3>1. reconciler[s].next = "recover" => s # st
      BY <1>1, <2>1 DEF PlatformInv, RepairsAreAsked
    <3> QED
      BY <1>6, <2>1, <3>1 DEF PlatformInv, RepairsAreAsked
  <2>2. CASE reconciler'[s] # reconciler[s]
    <3>1. s = st
      BY <1>5, <2>2
    <3>2. reconciler'[st].by = o /\ reconciler'[st].next = "publish" /\ reconciler'[st].frozen # None
      BY <2>2, <3>1 DEF ReconcilerTakes, RouteTakes
    <3> QED
      BY <3>1, <3>2
  <2> QED
    BY <2>1, <2>2
<1>11. LockIsTheRecords'
  BY <1>1, <1>2, <1>4, <1>6 DEF PlatformInv, LockIsTheRecords
<1>12. ReservationsAreLeft'
  <2> SUFFICES ASSUME NEW s \in Study \ {st}, op[s] # None
               PROVE  op[s].phase = "reserving" => call'[op[s].by] = "gone"
    BY <1>2, <1>4, <1>6 DEF PlatformInv, ReservationsAreLeft
  <2> QED
    BY <1>5 DEF PlatformInv, PlatformShape, OpRows, ReservationsAreLeft
<1>13. LateActorsAreBlocked'
  <2> SUFFICES ASSUME NEW p \in Operation, request[p] # None, ~Own(p)'
               PROVE  /\ ~(Engaged(p)' /\ Repairs(p)')
                      /\ Engaged(p)' /\ ~HoldsOwn(p)' => Scored(p)
                      /\ Repairs(p)' /\ ~RepairsOwn(p)' => Scored(p)
    BY <1>4 DEF LateActorsAreBlocked, Scored
  <2>1. request[p].study \in Study /\ request' = request
    BY <1>4 DEF PlatformInv, PlatformShape, RequestRows
  <2>2. ~Own(p)
    BY <1>2, <1>6, <2>1 DEF Own
  <2>3. Engaged(p)' => Engaged(p) /\ (HoldsOwn(p) => HoldsOwn(p)')
    BY DEF RouteTakes, ReconcilerTakes, Engaged, HoldsOwn, routes
  <2>4. Repairs(p)' => Repairs(p) /\ (RepairsOwn(p) => RepairsOwn(p)')
    <3>1. CASE request[p].study = st /\ reconciler' # reconciler
      BY <2>1, <3>1 DEF RouteTakes, ReconcilerTakes, Repairs, RepairsOwn
    <3>2. CASE request[p].study # st \/ reconciler' = reconciler
      BY <1>5, <2>1, <3>2 DEF Repairs, RepairsOwn
    <3> QED
      BY <3>1, <3>2
  <2> QED
    BY <2>2, <2>3, <2>4 DEF PlatformInv, LateActorsAreBlocked
<1> QED
  BY <1>7, <1>8, <1>9, <1>10, <1>11, <1>12, <1>13 DEF PlatformInv

\* The record that is published whole is the publishing operation's own: the receipt
\* of another operation does not fit the score of one that is over.
LEMMA PublishesItsOwn ==
  ASSUME PlatformInv, NEW st \in Study, NEW o \in Operation, Asked(o, st), NEW r \in Frozens,
         \/ call[o] \in {"completing", "refusing"} /\ held[o] = r
         \/ reconciler[st] # None /\ reconciler[st].by = o /\ reconciler[st].next = "publish" /\ reconciler[st].frozen = r,
         Frozen(st, r), ScoreFits(st, r)
  PROVE  op[st].by = o
<1> SUFFICES ASSUME op[st].by # o
             PROVE  FALSE
  OBVIOUS
<1>1. op[st].frozen = r /\ r.by = op[st].by /\ ~Own(o) /\ request[o].study = st /\ request[o] # None
  BY DEF Frozen, Asked, Own, PlatformInv, RecordsAreAsked
<1>2. (Engaged(o) /\ ~HoldsOwn(o)) \/ (Repairs(o) /\ ~RepairsOwn(o))
  BY <1>1 DEF Engaged, HoldsOwn, Repairs, RepairsOwn
<1>3. Scored(o)
  BY <1>1, <1>2 DEF PlatformInv, LateActorsAreBlocked
<1>4. score[st] = Slot(r) /\ Slot(r).by = r.by
  BY <1>1, <1>3 DEF Scored, ScoreFits, Slot
<1> QED
  BY <1>1, <1>3, <1>4 DEF Scored

\* A publication removes a record only with the score that blocks its late actors.
LEMMA PublishKeepsPlatform ==
  ASSUME PlatformInv, NEW st \in Study, NEW o \in Operation, Asked(o, st), NEW r \in Frozens, NEW k \in 1..4,
         NEW late \in BOOLEAN, Publish(st, o, r, k, late), UNCHANGED <<outcome, split>>,
         \/ /\ call[o] \in {"completing", "refusing"} /\ held[o] = r /\ RouteTakes(o, None)
            /\ call'[o] \in {"published", "gone"}
         \/ /\ reconciler[st] # None /\ reconciler[st].by = o /\ reconciler[st].next = "publish"
            /\ reconciler[st].frozen = r /\ ReconcilerTakes(st, None)
  PROVE  PlatformInv'
<1> DEFINE byRoute == /\ call[o] \in {"completing", "refusing"} /\ held[o] = r /\ RouteTakes(o, None)
                      /\ call'[o] \in {"published", "gone"}
           byRepair == /\ reconciler[st] # None /\ reconciler[st].by = o /\ reconciler[st].next = "publish"
                       /\ reconciler[st].frozen = r /\ ReconcilerTakes(st, None)
           whole == Frozen(st, r) /\ ReceiptFits(st, r) /\ ScoreFits(st, r)
<1>0. Slot(r) \in SlotRows /\ Slot(r).by = r.by /\ Slot(r) # None
  <2>1. Slot(r) \in SlotRows /\ Slot(r).by = r.by
    BY DEF Slot, SlotRows, Frozens
  <2> QED
    BY <2>1, NoneIsNoPlatformRow
<1>1. whole => op[st].by = o
  BY PublishesItsOwn
<1>2. UNCHANGED <<mapping, owner, listed, request, outcome, split, sent>>
  BY DEF Publish, PublishRecord, PublishAbsent, platform, RouteTakes, ReconcilerTakes, routes
<1> DEFINE slot == Slot(r)
<1>a. Frozen(st, r) =>
        /\ receipt' = receipt \/ receipt' = [receipt EXCEPT ![st] = r]
        /\ score' = score \/ (whole /\ score' = [score EXCEPT ![st] = slot])
        /\ lock' = lock \/ (k >= 3 /\ whole /\ lock[st] = o /\ lock' = [lock EXCEPT ![st] = None])
        /\ op' = op \/ (k >= 4 /\ whole /\ op' = [op EXCEPT ![st] = None])
        /\ whole /\ k >= 3 /\ lock[st] = o => lock' = [lock EXCEPT ![st] = None]
        /\ whole /\ k >= 2 => score' = [score EXCEPT ![st] = slot]
  <2> HAVE Frozen(st, r)
  <2>1. PublishRecord(st, o, r, k)
    BY DEF Publish, Frozen
  <2> QED
    BY <2>1 DEF PublishRecord
<1>b. ~Frozen(st, r) /\ op[st] = None =>
        /\ receipt' = receipt \/ receipt' = [receipt EXCEPT ![st] = None]
        /\ \/ score' = score
           \/ score[st] = slot /\ score' = [score EXCEPT ![st] = None]
           \/ score[st] = None /\ score' = [score EXCEPT ![st] = slot]
        /\ lock' = lock \/ lock' = [lock EXCEPT ![st] = None]
        /\ op' = op
  <2> HAVE ~Frozen(st, r) /\ op[st] = None
  <2>1. PublishAbsent(st, o, r, late)
    BY DEF Publish
  <2> QED
    BY <2>1 DEF PublishAbsent
<1>c. ~Frozen(st, r) /\ op[st] # None => UNCHANGED platform
  BY DEF Publish
<1>d. slot \in SlotRows /\ slot.by = r.by /\ slot # None
  BY <1>0
<1>e. whole => score[st] \in {None, slot}
  BY DEF ScoreFits
<1>f. op[st] = None => ~Frozen(st, r)
  BY DEF Frozen
<1> HIDE DEF slot
<1>3. /\ receipt' \in [Study -> Frozens \cup {None}] /\ score' \in [Study -> SlotRows \cup {None}]
      /\ lock' \in [Study -> Operation \cup {None}]
      /\ \A s \in Study \ {st} : op'[s] = op[s] /\ lock'[s] = lock[s] /\ score'[s] = score[s]
      /\ \A s \in Study : lock'[s] \in {None, lock[s]}
  <2>1. CASE Frozen(st, r)
    BY <1>a, <1>d, <2>1 DEF PlatformInv, PlatformShape
  <2>2. CASE ~Frozen(st, r) /\ op[st] = None
    BY <1>b, <1>d, <2>2 DEF PlatformInv, PlatformShape
  <2>3. CASE ~Frozen(st, r) /\ op[st] # None
    BY <1>c, <2>3 DEF platform, PlatformInv, PlatformShape
  <2> QED
    BY <2>1, <2>2, <2>3
<1>4. op' = op \/ (whole /\ op' = [op EXCEPT ![st] = None] /\ lock'[st] = None /\ score'[st] = slot)
  <2>1. CASE Frozen(st, r)
    <3>1. whole => lock[st] \in {None, o}
      BY <1>1 DEF PlatformInv, LockIsTheRecords, Frozen
    <3> QED
      BY <1>a, <2>1, <3>1 DEF PlatformInv, PlatformShape
  <2>2. CASE ~Frozen(st, r)
    BY <1>b, <1>c, <2>2 DEF platform
  <2> QED
    BY <2>1, <2>2
<1>5. /\ call' \in [Operation -> CallStates] /\ held' \in [Operation -> Frozens \cup {None}]
      /\ \A p \in Operation \ {o} : call'[p] = call[p] /\ held'[p] = held[p]
      /\ \A p \in Operation : call[p] = "gone" => call'[p] = "gone"
      /\ \A p \in Operation : call'[p] \in {"completing", "refusing"} => call'[p] = call[p] /\ held'[p] = held[p]
      /\ \A p \in Operation : call'[p] # "none" => call[p] # "none"
  BY DEF RouteTakes, ReconcilerTakes, routes, PlatformInv, PlatformShape
<1>6. /\ reconciler' \in [Study -> WorkRows \cup {None}]
      /\ \A s \in Study : reconciler'[s] # None => reconciler'[s] = reconciler[s]
  BY DEF RouteTakes, ReconcilerTakes, PlatformInv, PlatformShape
<1>7. \A s \in Study : op'[s] # None => op'[s] = op[s]
  BY <1>4 DEF PlatformInv, PlatformShape
<1>8. PlatformShape'
  BY <1>2, <1>3, <1>4, <1>5, <1>6 DEF PlatformInv, PlatformShape
<1>9. RecordsAreAsked' /\ RoutesAreAsked'
  BY <1>2, <1>5, <1>7 DEF PlatformInv, RecordsAreAsked, RoutesAreAsked, Asked, Resolves
<1>10. RepairsAreAsked'
  <2>1. \A s \in Study : reconciler'[s] # None /\ reconciler'[s].next = "recover" => op'[s] = op[s]
    BY <1>3, <1>4, <1>6 DEF Frozen, PlatformInv, RepairsAreAsked
  <2> QED
    BY <1>2, <1>6, <2>1 DEF PlatformInv, RepairsAreAsked, Asked, Resolves
<1>11. LockIsTheRecords'
  <2> SUFFICES ASSUME NEW s \in Study
               PROVE  /\ op'[s] = None => lock'[s] = None
                      /\ op'[s] # None => lock'[s] \in {None, op'[s].by}
                      /\ op'[s] # None /\ op'[s].phase \in {"pending", "resolving"} => lock'[s] = op'[s].by
    BY DEF LockIsTheRecords
  <2>1. op'[s] # None /\ op'[s].phase \in {"pending", "resolving"} => lock'[s] = lock[s]
    <3>1. CASE s = st /\ Frozen(st, r)
      BY <1>7, <3>1 DEF Frozen
    <3>2. CASE s = st /\ ~Frozen(st, r)
      BY <1>c, <1>7, <3>2 DEF platform
    <3>3. CASE s # st
      BY <1>3, <3>3
    <3> QED
      BY <3>1, <3>2, <3>3
  <2>2. op'[s] = None => lock'[s] = None
    BY <1>3, <1>4 DEF PlatformInv, PlatformShape, LockIsTheRecords
  <2> QED
    BY <1>3, <1>7, <2>1, <2>2 DEF PlatformInv, LockIsTheRecords
<1>12. ReservationsAreLeft'
  BY <1>2, <1>3, <1>5, <1>7, NoneIsNoPlatformRow DEF PlatformInv, PlatformShape, ReservationsAreLeft, OpRows
<1>13. LateActorsAreBlocked'
  <2> SUFFICES ASSUME NEW p \in Operation, request[p] # None, ~Own(p)'
               PROVE  /\ ~(Engaged(p)' /\ Repairs(p)')
                      /\ Engaged(p)' /\ ~HoldsOwn(p)' => Scored(p)'
                      /\ Repairs(p)' /\ ~RepairsOwn(p)' => Scored(p)'
    BY <1>2 DEF LateActorsAreBlocked
  <2>1. request[p].study \in Study /\ request' = request
    BY <1>2 DEF PlatformInv, PlatformShape, RequestRows
  <2>2. Engaged(p)' => Engaged(p) /\ call'[p] = call[p] /\ held'[p] = held[p]
    BY DEF RouteTakes, ReconcilerTakes, routes, Engaged
  <2>3. Repairs(p)' => Repairs(p) /\ (RepairsOwn(p) => RepairsOwn(p)')
    BY <1>6, <2>1 DEF Repairs, RepairsOwn
  <2>4. CASE request[p].study # st
    <3>1. ~Own(p) /\ (Scored(p) => Scored(p)')
      BY <1>3, <2>1, <2>4 DEF Own, Scored
    <3> QED
      BY <2>2, <2>3, <3>1 DEF PlatformInv, LateActorsAreBlocked, HoldsOwn
  <2>5. CASE request[p].study = st /\ Own(p)
    <3>1. op' # op /\ op[st].by = p /\ op[st] # None
      BY <2>1, <2>5 DEF Own
    <3>2. p = o /\ op[st].by = r.by /\ score'[st] = slot
      BY <1>1, <1>4, <3>1 DEF Frozen, PlatformInv, RecordsAreAsked
    <3>3. Scored(p)'
      BY <1>d, <2>1, <2>5, <3>1, <3>2 DEF Scored
    <3>4. ~(Engaged(p)' /\ Repairs(p)')
      BY <2>1, <2>5, <3>2 DEF Engaged, Repairs, RouteTakes, ReconcilerTakes
    <3> QED
      BY <3>3, <3>4
  <2>6. CASE request[p].study = st /\ ~Own(p)
    <3>1. ~(Engaged(p) /\ Repairs(p)) /\ (Engaged(p) /\ ~HoldsOwn(p) => Scored(p)) /\ (Repairs(p) /\ ~RepairsOwn(p) => Scored(p))
      BY <2>6 DEF PlatformInv, LateActorsAreBlocked
    <3>2. CASE p = o
      <4>1. ~Engaged(p)' \/ ~Repairs(p)'
        BY <2>2, <2>3, <3>1
      <4>2. CASE byRoute
        <5>1. Engaged(p) /\ ~Engaged(p)'
          BY <3>2, <4>2 DEF Engaged
        <5> QED
          BY <2>3, <3>1, <5>1
      <4>3. CASE byRepair
        <5>1. Repairs(p) /\ ~Repairs(p)'
          BY <2>1, <2>6, <3>2, <4>3 DEF Repairs, ReconcilerTakes
        <5> QED
          BY <2>2, <3>1, <5>1
      <4> QED
        BY <4>2, <4>3
    <3>3. CASE p # o
      <4>1. Scored(p) /\ (Engaged(p) \/ Repairs(p)) => Scored(p)'
        <5> SUFFICES ASSUME Scored(p), ~Scored(p)'
                     PROVE  FALSE
          OBVIOUS
        <5>1. score[st] # None /\ score[st].by = p /\ score'[st] # score[st]
          BY <2>1, <2>6 DEF Scored
        <5>2. op[st] = None /\ score[st] = slot
          <6>1. CASE Frozen(st, r)
            BY <1>a, <1>e, <5>1, <6>1 DEF PlatformInv, PlatformShape
          <6>2. CASE ~Frozen(st, r) /\ op[st] # None
            BY <1>c, <5>1, <6>2 DEF platform
          <6>3. CASE ~Frozen(st, r) /\ op[st] = None
            BY <1>b, <5>1, <6>3 DEF PlatformInv, PlatformShape
          <6> QED
            BY <6>1, <6>2, <6>3
        <5>3. ~Own(o) /\ r.by = p /\ request[o].study = st /\ request[o] # None
          BY <1>d, <5>1, <5>2 DEF Own, Asked
        <5>4. Scored(o)
          BY <3>3, <5>3 DEF PlatformInv, LateActorsAreBlocked, Engaged, HoldsOwn, Repairs, RepairsOwn
        <5> QED
          BY <3>3, <5>1, <5>3, <5>4 DEF Scored
      <4>2. (Engaged(p)' => Engaged(p)) /\ (HoldsOwn(p) /\ Engaged(p)' => HoldsOwn(p)')
        BY <2>2 DEF HoldsOwn
      <4> QED
        BY <2>3, <3>1, <4>1, <4>2
    <3> QED
      BY <3>2, <3>3
  <2> QED
    BY <2>4, <2>5, <2>6
<1> QED
  BY <1>8, <1>9, <1>10, <1>11, <1>12, <1>13 DEF PlatformInv

\* A receipt frozen by a resolution is a receipt.
LEMMA ResolveFreezes ==
  ASSUME PlatformInv, NEW st \in Study, NEW o \in Operation, Asked(o, st), NEW resolution \in Resolves(o),
         NEW at \in {"request", "repair"}, op[st] # None, NEW k \in {1, 2}, k = 2, Resolve(st, o, resolution, at, k)
  PROVE  op'[st].frozen \in Frozens \ {None}
<1>1. Receipt(op[st].by, resolution, at) \in Frozens
  BY DEF PlatformInv, PlatformShape, OpRows, Resolves, Resolutions, Receipt, Frozens
<1> DEFINE f == Receipt(op[st].by, resolution, at)
<1>2. op'[st] = [op[st] EXCEPT !.phase = "publishing", !.aged = FALSE, !.frozen = f]
  <2>1. op'[st] = IF k = 1 THEN [op[st] EXCEPT !.phase = "resolving", !.aged = FALSE]
                  ELSE [op[st] EXCEPT !.phase = "publishing", !.aged = FALSE, !.frozen = Receipt(op[st].by, resolution, at)]
    BY DEF Resolve, PlatformInv, PlatformShape
  <2> QED
    BY <2>1
<1>3. f \in Frozens /\ op[st] \in OpRows
  BY <1>1 DEF PlatformInv, PlatformShape
<1> HIDE DEF f
<1>4. op'[st].frozen = f
  BY <1>2, <1>3 DEF OpRows
<1> QED
  BY <1>3, <1>4, NoneIsNoPlatformRow

\* What a mutation answers moves its route.
LEMMA DeliveryTurnsTheRoute ==
  ASSUME PlatformInv, NEW o \in Operation, NEW answer, NEW whole \in BOOLEAN, Deliver(o, answer, whole)
  PROVE  RouteTurns(o)
<1>1. Verdict(answer) \in {"applied", "refused", "gone"}
  BY DEF Verdict
<1>2. call'[o] = IF call[o] = "waiting" THEN (IF whole THEN Verdict(answer) ELSE "gone") ELSE call[o]
  BY DEF Deliver, PlatformInv, PlatformShape
<1>3. call'[o] = call[o] \/ (call[o] = "waiting" /\ call'[o] \in {"applied", "refused", "gone"})
  BY <1>1, <1>2
<1>4. /\ call' \in [Operation -> CallStates] /\ \A p \in Operation \ {o} : call'[p] = call[p]
      /\ o \in sent /\ sent' \subseteq sent
      /\ UNCHANGED <<mapping, owner, listed, op, lock, receipt, score, request, held, reconciler, outcome, split>>
  BY <1>3 DEF Deliver, PlatformInv, PlatformShape, CallStates, platform, history
<1>5. Engaged(o)' => Engaged(o) /\ (HoldsOwn(o) => HoldsOwn(o)')
  BY <1>3, <1>4 DEF Engaged, HoldsOwn
<1>6. call'[o] \in {"completing", "refusing"} => held'[o] # None
  BY <1>3, <1>4 DEF PlatformInv, RoutesAreAsked
<1> QED
  BY <1>3, <1>4, <1>5, <1>6 DEF RouteTurns, PlatformInv, PlatformShape

\* How a route resolves: it freezes a receipt, or it takes the frozen one, or it stops.
LEMMA RouteResolves ==
  ASSUME PlatformInv, NEW o \in Operation, NEW k \in {1, 2}, RouteResolve(o, k)
  PROVE  \/ RouteTurns(o) /\ UNCHANGED <<platform, history, byos>> /\ call'[o] \notin {"applied", "refused"}
         \/ /\ Asked(o, request[o].study) /\ request[o].study \in Study
            /\ Resolution(request[o].kind, call[o] = "applied") \in Resolves(o)
            /\ op[request[o].study] # None /\ call[o] \in {"applied", "refused"}
            /\ Resolve(request[o].study, o, Resolution(request[o].kind, call[o] = "applied"), "request", k)
            /\ RouteTakes(o, IF k = 1 THEN None ELSE op'[request[o].study].frozen)
            /\ UNCHANGED byos
<1> DEFINE st == request[o].study
           resolution == Resolution(request[o].kind, call[o] = "applied")
<1>1. request[o] # None /\ request[o] \in RequestRows /\ st \in Study /\ Asked(o, st) /\ call[o] \in {"applied", "refused"}
      /\ UNCHANGED <<sent, reconciler, byos>>
  BY DEF RouteResolve, PlatformInv, PlatformShape, RoutesAreAsked, RequestRows, Asked
<1>2. resolution \in Resolves(o)
  <2>1. request[o].kind \in {"create", "delete"}
    BY <1>1 DEF RequestRows
  <2> QED
    BY <2>1 DEF Resolution, Resolves
<1> HIDE DEF st, resolution
<1>3. Finalizing(o) \in {"completing", "refusing"}
  BY DEF Finalizing
<1>4. CASE op[st] # None /\ MayResolve(st, o, resolution)
  <2>1. /\ Resolve(st, o, resolution, "request", k)
        /\ call' = [call EXCEPT ![o] = IF k = 1 THEN "gone" ELSE Finalizing(o)]
        /\ held' = [held EXCEPT ![o] = IF k = 1 THEN None ELSE op'[st].frozen]
    BY <1>4 DEF RouteResolve, MayResolve, st, resolution
  <2>2. k = 2 => op'[st].frozen \in Frozens \ {None}
    BY <1>1, <1>2, <1>4, <2>1, ResolveFreezes
  <2>3. RouteTakes(o, IF k = 1 THEN None ELSE op'[st].frozen)
    BY <1>1, <1>3, <2>1, <2>2 DEF RouteTakes, PlatformInv, PlatformShape, CallStates
  <2> QED
    BY <1>1, <1>2, <1>4, <2>1, <2>3 DEF st, resolution
<1>5. CASE ~(op[st] # None /\ MayResolve(st, o, resolution))
  <2>1. /\ UNCHANGED <<platform, history>>
        /\ \/ /\ call' = [call EXCEPT ![o] = Finalizing(o)] /\ held' = [held EXCEPT ![o] = op[st].frozen]
              /\ op[st] # None /\ op[st].phase = "publishing"
           \/ call' = [call EXCEPT ![o] = IF Completes(o) THEN "published" ELSE "gone"] /\ UNCHANGED held
           \/ call' = [call EXCEPT ![o] = "gone"] /\ UNCHANGED held
    BY <1>5 DEF RouteResolve, st, resolution
  <2>2. op[st] # None /\ op[st].phase = "publishing" => op[st].frozen \in Frozens \ {None}
    BY <1>1 DEF PlatformInv, PlatformShape, RecordsAreAsked, OpRows
  <2>3. /\ call' \in [Operation -> CallStates] /\ \A p \in Operation \ {o} : call'[p] = call[p]
        /\ held' \in [Operation -> Frozens \cup {None}] /\ \A p \in Operation \ {o} : held'[p] = held[p]
        /\ call'[o] \in {"completing", "refusing", "published", "gone"}
        /\ call'[o] \in {"completing", "refusing"} => held'[o] # None
    BY <1>1, <1>3, <2>1, <2>2 DEF PlatformInv, PlatformShape, CallStates
  <2>4. Engaged(o) /\ ~HoldsOwn(o)
    BY <1>1 DEF Engaged, HoldsOwn
  <2>5. RouteTurns(o)
    BY <1>1, <2>1, <2>3, <2>4 DEF RouteTurns, PlatformInv, PlatformShape, platform, history, CallStates
  <2> QED
    BY <1>1, <2>1, <2>3, <2>5
<1> QED
  BY <1>4, <1>5

\* How the reconciler resolves.
LEMMA ReconcilerResolves ==
  ASSUME PlatformInv, NEW st \in Study, NEW k \in {1, 2}, RepairResolve(st, k)
  PROVE  LET w == reconciler[st] IN
         \/ ReconcilerTurns(st) /\ UNCHANGED <<platform, routes, history, byos>>
            /\ (reconciler'[st] # None => reconciler'[st].next = "publish")
         \/ /\ w # None /\ w.next = "resolve" /\ w.by \in Operation /\ Asked(w.by, st)
            /\ w.resolution \in Resolves(w.by) /\ w.at = "repair" /\ op[st] # None
            /\ Resolve(st, w.by, w.resolution, w.at, k)
            /\ ReconcilerTakes(st, IF k = 1 THEN None ELSE op'[st].frozen)
            /\ UNCHANGED byos
<1> DEFINE w == reconciler[st]
<1>1. /\ w # None /\ w.next = "resolve" /\ w \in WorkRows /\ w.by \in Operation /\ Asked(w.by, st)
      /\ w.resolution \in Resolves(w.by) /\ w.at = "repair" /\ UNCHANGED <<routes, byos>>
  BY DEF RepairResolve, PlatformInv, PlatformShape, RepairsAreAsked, WorkRows
<1>2. CASE op[st] # None /\ MayResolve(st, w.by, w.resolution)
  <2>1. /\ Resolve(st, w.by, w.resolution, w.at, k)
        /\ reconciler' = [reconciler EXCEPT ![st] = IF k = 1 THEN None ELSE [w EXCEPT !.next = "publish", !.frozen = op'[st].frozen]]
    BY <1>2 DEF RepairResolve, MayResolve
  <2>2. k = 2 => op'[st].frozen \in Frozens \ {None}
    BY <1>1, <1>2, <2>1, ResolveFreezes
  <2> DEFINE f == op'[st].frozen
             next == [w EXCEPT !.next = "publish", !.frozen = f]
  <2>3. k = 2 => next \in WorkRows /\ next.by = w.by /\ next.next = "publish" /\ next.frozen = f
    <3> HIDE DEF f
    <3> QED
      BY <1>1, <2>2 DEF f, WorkRows
  <2> HIDE DEF next, f
  <2>4. reconciler' = [reconciler EXCEPT ![st] = IF k = 1 THEN None ELSE next]
    BY <2>1 DEF next, f
  <2>5. reconciler'[st] = IF k = 1 THEN None ELSE next
    BY <2>4 DEF PlatformInv, PlatformShape
  <2>6. ReconcilerTakes(st, IF k = 1 THEN None ELSE f)
    BY <1>1, <2>2, <2>3, <2>4, <2>5 DEF ReconcilerTakes, f
  <2> QED
    BY <1>1, <1>2, <2>1, <2>6 DEF f
<1>3. CASE ~(op[st] # None /\ MayResolve(st, w.by, w.resolution))
  <2>1. /\ UNCHANGED <<platform, history>>
        /\ \/ /\ reconciler' = [reconciler EXCEPT ![st] = [w EXCEPT !.next = "publish", !.frozen = op[st].frozen]]
              /\ op[st] # None /\ op[st].phase = "publishing"
           \/ reconciler' = [reconciler EXCEPT ![st] = None]
    BY <1>3 DEF RepairResolve
  <2>2. op[st] # None /\ op[st].phase = "publishing" => op[st].frozen \in Frozens \ {None}
    BY DEF PlatformInv, PlatformShape, RecordsAreAsked, OpRows
  <2> DEFINE f == op[st].frozen
             next == [w EXCEPT !.next = "publish", !.frozen = f]
  <2>3. f \in Frozens => next \in WorkRows /\ next.by = w.by /\ next.next = "publish" /\ next.frozen = f
    <3> HIDE DEF f
    <3> QED
      BY <1>1 DEF WorkRows
  <2> HIDE DEF next, f
  <2>4. \/ reconciler' = [reconciler EXCEPT ![st] = next] /\ f \in Frozens \ {None}
        \/ reconciler' = [reconciler EXCEPT ![st] = None]
    BY <2>1, <2>2 DEF next, f
  <2>5. ReconcilerTurns(st) /\ (reconciler'[st] # None => reconciler'[st].next = "publish")
    BY <1>1, <2>1, <2>3, <2>4 DEF ReconcilerTurns, PlatformInv, PlatformShape, history
  <2> QED
    BY <1>1, <2>1, <2>5
<1> QED
  BY <1>2, <1>3

\* What the researcher's Redis answered moves the reconciler.
LEMMA ContinuingTurns ==
  ASSUME PlatformInv, NEW st \in Study, reconciler[st] # None, reconciler[st].next \in {"settle", "delete"}, NEW answer,
         Continue(st, answer), UNCHANGED <<platform, routes, history>>
  PROVE  ReconcilerTurns(st)
<1> DEFINE w == reconciler[st]
           applied == Verdict(answer) = "applied"
           resolution == Resolution(request[w.by].kind, applied)
           next == [w EXCEPT !.next = "resolve", !.at = "repair", !.resolution = resolution]
<1>1. w \in WorkRows /\ w.by \in Operation /\ Asked(w.by, st) /\ request[w.by].kind \in {"create", "delete"}
  BY DEF PlatformInv, PlatformShape, RepairsAreAsked, WorkRows, RequestRows, Asked
<1>2. resolution \in Resolves(w.by) /\ resolution \in Resolutions
  BY <1>1 DEF Resolution, Resolves, Resolutions
<1> HIDE DEF resolution
<1>3. next \in WorkRows /\ next.by = w.by /\ next.next = "resolve" /\ next.at = "repair" /\ next.resolution = resolution
  BY <1>1, <1>2 DEF WorkRows
<1>4. reconciler' = [reconciler EXCEPT ![st] = IF Verdict(answer) = "gone" THEN None ELSE next]
  BY DEF Continue, resolution
<1> HIDE DEF next
<1>5. reconciler'[st] = (IF Verdict(answer) = "gone" THEN None ELSE next) /\ reconciler' = [reconciler EXCEPT ![st] = reconciler'[st]]
  BY <1>4 DEF PlatformInv, PlatformShape
<1> QED
  BY <1>1, <1>2, <1>3, <1>5 DEF ReconcilerTurns, history

\* Loading gives the reconciler the next command of the record it found.
LEMMA LoadingTurns ==
  ASSUME PlatformInv, NEW st \in Study, Load(st)
  PROVE  ReconcilerTurns(st)
<1> DEFINE r == op[st]
           w == Work(r.by, "none")
<1>1. r # None /\ r \in OpRows /\ r.by \in Operation /\ Asked(r.by, st) /\ request[r.by].kind \in {"create", "delete"}
      /\ UNCHANGED <<platform, routes, history>>
  BY DEF Load, PlatformInv, PlatformShape, RecordsAreAsked, OpRows, RequestRows, Asked
<1>2. \E next \in WorkRows :
        /\ reconciler' = [reconciler EXCEPT ![st] = next] /\ next.by = r.by
        /\ next.next = "recover" => r.phase = "reserving"
        /\ next.next = "settle" => request[r.by].kind = "create"
        /\ next.next \in {"members", "delete"} => request[r.by].kind = "delete"
        /\ next.next = "resolve" => next.resolution \in Resolves(r.by) /\ next.at = "repair"
        /\ next.next = "publish" => next.frozen # None
  <2>1. CASE r.phase = "reserving"
    <3> DEFINE n == [w EXCEPT !.next = "recover"]
    <3>8. n \in WorkRows /\ n.by = r.by /\ n.next = "recover"
      BY <1>1 DEF Work, WorkRows
    <3>9. reconciler' = [reconciler EXCEPT ![st] = n]
      BY <2>1 DEF Load
    <3> HIDE DEF n
    <3> QED
      BY <2>1, <3>8, <3>9
  <2>2. CASE r.phase = "pending"
    <3>1. CASE request[r.by].kind = "create"
      <4> DEFINE n == [w EXCEPT !.next = "settle"]
      <4>8. n \in WorkRows /\ n.by = r.by /\ n.next = "settle"
        BY <1>1 DEF Work, WorkRows
      <4>9. reconciler' = [reconciler EXCEPT ![st] = n]
        BY <2>2, <3>1 DEF Load
      <4> HIDE DEF n
      <4> QED
        BY <2>2, <3>1, <4>8, <4>9
    <3>2. CASE request[r.by].kind = "delete"
      <4> DEFINE n == [w EXCEPT !.next = "members"]
      <4>8. n \in WorkRows /\ n.by = r.by /\ n.next = "members"
        BY <1>1 DEF Work, WorkRows
      <4>9. reconciler' = [reconciler EXCEPT ![st] = n]
        BY <2>2, <3>2 DEF Load
      <4> HIDE DEF n
      <4> QED
        BY <2>2, <3>2, <4>8, <4>9
    <3> QED
      BY <1>1, <3>1, <3>2
  <2>3. CASE r.phase = "resolving"
    <3> DEFINE c == Completion(r.by)
    <3>1. c \in Resolves(r.by) /\ c \in Resolutions
      BY <1>1 DEF Completion, Resolution, Resolves, Resolutions
    <3>2. reconciler' = [reconciler EXCEPT ![st] = [w EXCEPT !.next = "resolve", !.resolution = c, !.at = "repair"]]
      BY <2>3 DEF Load
    <3> HIDE DEF c
    <3> DEFINE n == [w EXCEPT !.next = "resolve", !.resolution = c, !.at = "repair"]
    <3>8. n \in WorkRows /\ n.by = r.by /\ n.next = "resolve" /\ n.resolution = c /\ n.at = "repair"
      BY <1>1, <3>1 DEF Work, WorkRows
    <3>9. reconciler' = [reconciler EXCEPT ![st] = n]
      BY <3>2
    <3> HIDE DEF n
    <3> QED
      BY <2>3, <3>8, <3>9, <3>1
  <2>4. CASE r.phase = "publishing"
    <3>1. r.frozen \in Frozens \ {None}
      BY <1>1, <2>4 DEF PlatformInv, RecordsAreAsked, OpRows
    <3> DEFINE n == [w EXCEPT !.next = "publish", !.frozen = r.frozen]
    <3>8. n \in WorkRows /\ n.by = r.by /\ n.next = "publish" /\ n.frozen = r.frozen
      BY <1>1, <3>1 DEF Work, WorkRows
    <3>9. reconciler' = [reconciler EXCEPT ![st] = n]
      BY <1>1, <2>4 DEF Load
    <3> HIDE DEF n
    <3> QED
      BY <2>4, <3>8, <3>9, <3>1
  <2> QED
    BY <1>1, <2>1, <2>2, <2>3, <2>4 DEF OpRows, Phase
<1> HIDE DEF w
<1>3. PICK next \in WorkRows :
        /\ reconciler' = [reconciler EXCEPT ![st] = next] /\ next.by = r.by
        /\ next.next = "recover" => r.phase = "reserving"
        /\ next.next = "settle" => request[r.by].kind = "create"
        /\ next.next \in {"members", "delete"} => request[r.by].kind = "delete"
        /\ next.next = "resolve" => next.resolution \in Resolves(r.by) /\ next.at = "repair"
        /\ next.next = "publish" => next.frozen # None
  BY <1>2
<1>4. reconciler'[st] = next /\ reconciler' = [reconciler EXCEPT ![st] = reconciler'[st]]
  BY <1>3 DEF PlatformInv, PlatformShape
<1> QED
  BY <1>1, <1>3, <1>4 DEF ReconcilerTurns, history

\* The steps a script may execute, and how a publication may find its receipt.
LEMMA Ranges ==
  /\ StepsOf(2) \subseteq 1..2 /\ StepsOf(3) \subseteq 1..3 /\ StepsOf(4) \subseteq 1..4 /\ StepsOf(6) \subseteq 1..6
  /\ Lateness \subseteq BOOLEAN
<1>1. StepsOf(2) \subseteq 1..2 /\ StepsOf(3) \subseteq 1..3 /\ StepsOf(4) \subseteq 1..4 /\ StepsOf(6) \subseteq 1..6
  BY DEF StepsOf
<1>2. Lateness = BOOLEAN \/ Lateness = {FALSE}
  BY Zenon DEF Lateness
<1>3. \A x \in Lateness : x \in BOOLEAN
  <2>1. CASE Lateness = {FALSE}
    <3>1. \A x \in {FALSE} : x \in BOOLEAN
      BY Zenon
    <3> QED
      BY <2>1, <3>1, Zenon
  <2> QED
    BY <1>2, <2>1, Zenon
<1> QED
  BY <1>1, <1>3

\* What was asked of an operation stays.
RequestsStay == \A p \in Operation : request[p] # None => request'[p] = request[p]

\* Every step of a route keeps the registry right.
LEMMA RouteKeepsPlatform ==
  ASSUME PlatformInv, NEW o \in Operation, Route(o)
  PROVE  PlatformInv' /\ UNCHANGED request
<1>1. CASE Send(o)
  <2>1. RouteTurns(o)
    BY <1>1 DEF Send, RouteTurns, PlatformInv, PlatformShape, CallStates, Engaged, HoldsOwn, platform, history
  <2> QED
    BY <1>1, <2>1, RouteTurnsKeepPlatform DEF Send, platform
<1>2. CASE GiveUp(o)
  <2>1. RouteTurns(o)
    BY <1>2 DEF GiveUp, RouteTurns, PlatformInv, PlatformShape, CallStates, Engaged, HoldsOwn, platform, history
  <2> QED
    BY <1>2, <2>1, RouteTurnsKeepPlatform DEF GiveUp, platform
<1>3. CASE CompleteKey(o)
  <2>1. RouteTurns(o)
    BY <1>3 DEF CompleteKey, RouteTurns, PlatformInv, PlatformShape, CallStates, Engaged, HoldsOwn, history
  <2> QED
    BY <1>3, <2>1, RouteTurnsKeepPlatform DEF CompleteKey
<1>4. ASSUME NEW answer, NEW whole \in BOOLEAN, Deliver(o, answer, whole)
      PROVE  PlatformInv' /\ UNCHANGED request
  BY <1>4, DeliveryTurnsTheRoute, RouteTurnsKeepPlatform DEF Deliver, platform
<1>5. CASE \E k \in StepsOf(2) : MutateCreate(o, k)
  <2>1. PICK k \in StepsOf(2) : MutateCreate(o, k)
    BY <1>5
  <2>2. (k = 2) \in BOOLEAN
    OBVIOUS
  <2> QED
    BY <1>4, <2>1, <2>2 DEF MutateCreate
<1>6. CASE \E k \in StepsOf(6) : MutateEmptyDelete(o, k)
  <2>1. PICK k \in StepsOf(6) : MutateEmptyDelete(o, k)
    BY <1>6
  <2>2. (k = 6) \in BOOLEAN
    OBVIOUS
  <2> QED
    BY <1>4, <2>1, <2>2 DEF MutateEmptyDelete
<1>7. CASE \E k \in StepsOf(3), ids \in SUBSET Interview : MutatePopulatedDelete(o, ids, k)
  <2>1. PICK k \in StepsOf(3), ids \in SUBSET Interview : MutatePopulatedDelete(o, ids, k)
    BY <1>7
  <2>2. (k = 3) \in BOOLEAN
    OBVIOUS
  <2> QED
    BY <1>4, <2>1, <2>2 DEF MutatePopulatedDelete
<1>8. CASE \E k \in ResolveSteps : RouteResolve(o, k)
  <2>1. PICK k \in {1, 2} : RouteResolve(o, k)
    BY <1>8 DEF ResolveSteps
  <2>2. CASE RouteTurns(o)
    BY <2>2, RouteTurnsKeepPlatform DEF RouteTurns
  <2>3. CASE ~RouteTurns(o)
    <3> DEFINE st == request[o].study
               resolution == Resolution(request[o].kind, call[o] = "applied")
    <3>1. /\ st \in Study /\ Asked(o, st) /\ resolution \in Resolves(o) /\ op[st] # None /\ call[o] \in {"applied", "refused"}
          /\ Resolve(st, o, resolution, "request", k)
          /\ RouteTakes(o, IF k = 1 THEN None ELSE op'[st].frozen)
      BY <2>1, <2>3, RouteResolves
    <3> HIDE DEF st, resolution
    <3>2. PlatformInv'
      BY <3>1, ResolveKeepsPlatform
    <3> QED
      BY <3>1, <3>2 DEF Resolve
  <2> QED
    BY <2>2, <2>3
<1>9. CASE \E k \in StepsOf(4), late \in Lateness : RoutePublish(o, k, late)
  <2>0. StepsOf(4) \subseteq 1..4 /\ Lateness \subseteq BOOLEAN
    BY Ranges
  <2>1. PICK k \in 1..4, late \in BOOLEAN : RoutePublish(o, k, late)
    BY <1>9, <2>0
  <2> DEFINE st == request[o].study
  <2>2. st \in Study /\ Asked(o, st) /\ held[o] \in Frozens /\ call[o] \in {"completing", "refusing"}
    BY <2>1 DEF RoutePublish, PlatformInv, PlatformShape, RoutesAreAsked, RequestRows, Asked
  <2>3. Publish(st, o, held[o], k, late) /\ RouteTakes(o, None) /\ call'[o] \in {"published", "gone"} /\ UNCHANGED history
    BY <2>1 DEF RoutePublish, RouteTakes, PlatformInv, PlatformShape, CallStates
  <2>4. PlatformInv'
    BY <2>2, <2>3, PublishKeepsPlatform DEF history
  <2> QED
    BY <2>3, <2>4 DEF Publish, PublishRecord, PublishAbsent, platform
<1> QED
  BY <1>1, <1>2, <1>3, <1>5, <1>6, <1>7, <1>8, <1>9 DEF Route

\* So does every step of the reconciler.
LEMMA ReconcileKeepsPlatform ==
  ASSUME PlatformInv, ByosShape, NEW st \in Study, Reconcile(st)
  PROVE  PlatformInv' /\ UNCHANGED request
<1> DEFINE w == reconciler[st]
<1>0. ASSUME ReconcilerTurns(st)
      PROVE  PlatformInv' /\ UNCHANGED request
  BY <1>0, ReconcilerTurnsKeepPlatform DEF ReconcilerTurns, platform
<1>1. CASE Load(st)
  BY <1>0, <1>1, LoadingTurns
<1>2. CASE Stop(st)
  <2>1. reconciler'[st] = None
    BY <1>2 DEF Stop, PlatformInv, PlatformShape
  <2> QED
    BY <1>0, <1>2, <2>1 DEF Stop, ReconcilerTurns, history
<1>3. CASE Recover(st)
  BY <1>3, RecoverKeepsPlatform DEF Recover
<1>4. ASSUME NEW answer, w # None, w.next \in {"settle", "delete"}, Continue(st, answer), UNCHANGED <<platform, routes, history>>
      PROVE  PlatformInv' /\ UNCHANGED request
  BY <1>0, <1>4, ContinuingTurns
<1>5. CASE Settle(st)
  BY <1>4, <1>5 DEF Settle
<1>6. CASE \E k \in StepsOf(6) : RepairEmptyDelete(st, k)
  BY <1>4, <1>6 DEF RepairEmptyDelete
<1>7. CASE \E k \in StepsOf(3), ids \in SUBSET Interview : RepairPopulatedDelete(st, ids, k)
  BY <1>4, <1>7 DEF RepairPopulatedDelete
<1>8. CASE Members(st)
  <2>1. w \in WorkRows /\ w # None /\ w.next = "members" /\ request[w.by].kind = "delete" /\ Asked(w.by, st)
        /\ persisting[st] \subseteq Interview
    BY <1>8 DEF Members, PlatformInv, PlatformShape, RepairsAreAsked, ByosShape
  <2> DEFINE n == [w EXCEPT !.next = "delete", !.ids = persisting[st]]
  <2>2. n \in WorkRows /\ n.by = w.by /\ n.next = "delete"
    BY <2>1 DEF WorkRows
  <2>3. reconciler' = [reconciler EXCEPT ![st] = n] /\ reconciler'[st] = n
    BY <1>8 DEF Members, PlatformInv, PlatformShape
  <2> HIDE DEF n
  <2>4. ReconcilerTurns(st)
    BY <1>8, <2>1, <2>2, <2>3 DEF Members, ReconcilerTurns, history
  <2> QED
    BY <1>0, <2>4
<1>9. CASE \E i \in Interview, k \in StepsOf(4) : FinishMember(st, i, k)
  <2>0. PICK i \in Interview, k \in StepsOf(4) : FinishMember(st, i, k)
    BY <1>9
  <2>1. w \in WorkRows /\ w # None /\ w.next = "delete" /\ request[w.by].kind = "delete" /\ Asked(w.by, st)
    BY <2>0 DEF FinishMember, PlatformInv, PlatformShape, RepairsAreAsked
  <2> DEFINE n == [w EXCEPT !.ids = @ \ {i}]
  <2>2. n \in WorkRows /\ n.by = w.by /\ n.next = "delete"
    BY <2>1 DEF WorkRows
  <2>3. reconciler' = [reconciler EXCEPT ![st] = IF k = 4 THEN n ELSE None]
    BY <2>0 DEF FinishMember
  <2>4. reconciler'[st] = IF k = 4 THEN n ELSE None
    BY <2>3 DEF PlatformInv, PlatformShape
  <2> HIDE DEF n
  <2>5. ReconcilerTurns(st)
    BY <2>0, <2>1, <2>2, <2>3, <2>4 DEF FinishMember, ReconcilerTurns, history
  <2> QED
    BY <1>0, <2>5
<1>10. CASE \E k \in ResolveSteps : RepairResolve(st, k)
  <2>1. PICK k \in {1, 2} : RepairResolve(st, k)
    BY <1>10 DEF ResolveSteps
  <2>2. CASE ReconcilerTurns(st)
    BY <1>0, <2>2
  <2>3. CASE ~ReconcilerTurns(st)
    <3>1. /\ w # None /\ w.next = "resolve" /\ w.by \in Operation /\ Asked(w.by, st)
          /\ w.resolution \in Resolves(w.by) /\ w.at = "repair" /\ op[st] # None
          /\ Resolve(st, w.by, w.resolution, w.at, k)
          /\ ReconcilerTakes(st, IF k = 1 THEN None ELSE op'[st].frozen)
      BY <2>1, <2>3, ReconcilerResolves
    <3>2. PlatformInv'
      BY <3>1, ResolveKeepsPlatform
    <3> QED
      BY <3>1, <3>2 DEF Resolve
  <2> QED
    BY <2>2, <2>3
<1>11. CASE \E k \in StepsOf(4), late \in Lateness : RepairPublish(st, k, late)
  <2>0. StepsOf(4) \subseteq 1..4 /\ Lateness \subseteq BOOLEAN
    BY Ranges
  <2>1. PICK k \in 1..4, late \in BOOLEAN : RepairPublish(st, k, late)
    BY <1>11, <2>0
  <2>2. w # None /\ w.next = "publish" /\ w.by \in Operation /\ Asked(w.by, st) /\ w.frozen \in Frozens
    BY <2>1 DEF RepairPublish, PlatformInv, PlatformShape, RepairsAreAsked, WorkRows
  <2>3. Publish(st, w.by, w.frozen, k, late) /\ ReconcilerTakes(st, None) /\ UNCHANGED history
    BY <2>1 DEF RepairPublish, ReconcilerTakes, PlatformInv, PlatformShape
  <2>4. PlatformInv'
    BY <2>2, <2>3, PublishKeepsPlatform DEF history
  <2> QED
    BY <2>3, <2>4 DEF Publish, PublishRecord, PublishAbsent, platform
<1> QED
  BY <1>1, <1>2, <1>3, <1>5, <1>6, <1>7, <1>8, <1>9, <1>10, <1>11 DEF Reconcile

\* So does every step of the two databases.
LEMMA PlatformSteps ==
  ASSUME PlatformInv, ByosShape, HostedNext
  PROVE  PlatformInv' /\ RequestsStay
<1>1. ASSUME NEW st \in Study, ReserveKey(st)
      PROVE  PlatformInv' /\ RequestsStay
  BY <1>1, ReserveKeepsPlatform DEF ReserveKey, RequestsStay
<1>2. ASSUME NEW st \in Study, Age(st)
      PROVE  PlatformInv' /\ RequestsStay
  BY <1>2, AgeKeepsPlatform DEF Age, RequestsStay
<1>3. ASSUME NEW st \in Study, ExpireReceipt(st)
      PROVE  PlatformInv' /\ RequestsStay
  BY <1>3, ExpiryKeepsPlatform DEF ExpireReceipt, RequestsStay
<1>4. ASSUME NEW st \in Study, Reconcile(st)
      PROVE  PlatformInv' /\ RequestsStay
  BY <1>4, ReconcileKeepsPlatform DEF RequestsStay
<1>5. ASSUME UNCHANGED hosted
      PROVE  PlatformInv' /\ RequestsStay
  BY <1>5 DEF hosted, platform, routes, history, PlatformInv, PlatformShape, RecordsAreAsked, RoutesAreAsked, RepairsAreAsked,
       LockIsTheRecords, ReservationsAreLeft, LateActorsAreBlocked, Asked, Resolves, Own, Engaged, HoldsOwn, Repairs, RepairsOwn,
       Scored, RequestsStay
<1>6. ASSUME NEW st \in Study, NEW o \in Operation, Begin(st, o)
      PROVE  PlatformInv' /\ RequestsStay
  BY <1>6, BeginIsOfAKind, BeginsKeepPlatform DEF RequestsStay
<1>7. ASSUME NEW o \in Operation, Route(o)
      PROVE  PlatformInv' /\ RequestsStay
  BY <1>7, RouteKeepsPlatform DEF RequestsStay
<1> QED
  BY <1>1, <1>2, <1>3, <1>4, <1>5, <1>6, <1>7 DEF HostedNext, Edit, Aggregate, SaveInterview

-----------------------------------------------------------------------------
(* What a step does to the researcher's Redis.                              *)

Creates(o, st) == request[o].kind = "create" /\ o \in sent /\ \E k \in 1..2 : CreateScript(o, st, k)
Settles(o, st) == request[o].kind = "create" /\ SettleScript(o, st)
EmptyDeletes(o, st) ==
  request[o].kind = "delete" /\ ~request[o].populated /\ \E k \in 1..6 : EmptyDeleteScript(o, st, request[o].expected, k)
PopulatedDeletes(o, st) ==
  request[o].kind = "delete" /\ request[o].populated
  /\ \E k \in 1..3, ids \in Batches(st) : PopulatedDeleteScript(o, st, request[o].expected, ids, k)
OperationWrites(o, st) ==
  Asked(o, st) /\ (Creates(o, st) \/ Settles(o, st) \/ EmptyDeletes(o, st) \/ PopulatedDeletes(o, st))
MemberFinishes ==
  \E i \in Interview, k \in 1..4 : pguard[i] # None /\ FinishScript(i, pguard[i], k) /\ UNCHANGED <<saving, told>>
ParticipantSaves(i) ==
  \/ \E content \in Content, revision \in Revision : StartSave(i, content, revision)
  \/ \E content \in Content : RepeatSave(i, content)
  \/ \E c \in saving : c.interview = i /\ (DropSave(c) \/ \E k \in 1..4 : FinishSave(c, k))
ResearcherEdits(st) == ReplaceConfig(st) \/ SetLinks(st) \/ DraftAggregate(st) \/ SaveAggregate(st)

ByosStep ==
  \/ UNCHANGED byos
  \/ \E o \in Operation, st \in Study : OperationWrites(o, st)
  \/ MemberFinishes
  \/ \E i \in Interview : ParticipantSaves(i)
  \/ \E st \in Study : ResearcherEdits(st)

\* A mutation acts for an operation that was asked for its study.
LEMMA SentIsAsked ==
  ASSUME PlatformInv, NEW o \in Operation, o \in sent
  PROVE  request[o].study \in Study /\ Asked(o, request[o].study)
  BY DEF PlatformInv, PlatformShape, RoutesAreAsked, RequestRows, Asked

\* What a route writes in the researcher's Redis is its own operation's script.
LEMMA RouteWrites ==
  ASSUME PlatformInv, NEW o \in Operation, Route(o)
  PROVE  UNCHANGED byos \/ (o \in sent /\ request[o].study \in Study /\ OperationWrites(o, request[o].study))
<1>1. CASE Send(o) \/ GiveUp(o) \/ CompleteKey(o)
  BY <1>1 DEF Send, GiveUp, CompleteKey
<1>2. CASE \E k \in StepsOf(2) : MutateCreate(o, k)
  BY <1>2, Ranges, SentIsAsked DEF MutateCreate, OperationWrites, Creates
<1>3. CASE \E k \in StepsOf(6) : MutateEmptyDelete(o, k)
  BY <1>3, Ranges, SentIsAsked DEF MutateEmptyDelete, OperationWrites, EmptyDeletes
<1>4. CASE \E k \in StepsOf(3), ids \in SUBSET Interview : MutatePopulatedDelete(o, ids, k)
  BY <1>4, Ranges, SentIsAsked DEF MutatePopulatedDelete, OperationWrites, PopulatedDeletes
<1>5. CASE (\E k \in ResolveSteps : RouteResolve(o, k)) \/ \E k \in StepsOf(4), late \in Lateness : RoutePublish(o, k, late)
  BY <1>5 DEF RouteResolve, RoutePublish
<1> QED
  BY <1>1, <1>2, <1>3, <1>4, <1>5 DEF Route

\* What the reconciler writes is the script of the operation it loaded, or a member's last writes.
LEMMA ReconcilerWrites ==
  ASSUME PlatformInv, NEW st \in Study, Reconcile(st)
  PROVE  \/ UNCHANGED byos
         \/ MemberFinishes
         \/ reconciler[st] # None /\ reconciler[st].by \in Operation /\ OperationWrites(reconciler[st].by, st)
<1> DEFINE w == reconciler[st]
<1>0. w # None => w.by \in Operation /\ Asked(w.by, st) /\ (w.next = "settle" => request[w.by].kind = "create")
                  /\ (w.next = "delete" => request[w.by].kind = "delete")
  BY DEF PlatformInv, PlatformShape, RepairsAreAsked, WorkRows
<1>1. CASE Load(st) \/ Stop(st) \/ Recover(st) \/ Members(st) \/ (\E k \in ResolveSteps : RepairResolve(st, k))
           \/ \E k \in StepsOf(4), late \in Lateness : RepairPublish(st, k, late)
  BY <1>1 DEF Load, Stop, Recover, Members, RepairResolve, RepairPublish
<1>2. CASE Settle(st)
  BY <1>0, <1>2 DEF Settle, OperationWrites, Settles
<1>3. CASE \E i \in Interview, k \in StepsOf(4) : FinishMember(st, i, k)
  <2>1. PICK i \in Interview, k \in 1..4 : FinishMember(st, i, k)
    BY <1>3, Ranges
  <2>2. CASE pguard[i] = None
    BY <2>1, <2>2 DEF FinishMember, byos
  <2>3. CASE pguard[i] # None
    BY <2>1, <2>3 DEF FinishMember, MemberFinishes
  <2> QED
    BY <2>2, <2>3
<1>4. CASE \E k \in StepsOf(6) : RepairEmptyDelete(st, k)
  BY <1>0, <1>4, Ranges DEF RepairEmptyDelete, OperationWrites, EmptyDeletes
<1>5. CASE \E k \in StepsOf(3), ids \in SUBSET Interview : RepairPopulatedDelete(st, ids, k)
  BY <1>0, <1>5, Ranges DEF RepairPopulatedDelete, OperationWrites, PopulatedDeletes
<1> QED
  BY <1>1, <1>2, <1>3, <1>4, <1>5 DEF Reconcile

\* Every step writes the researcher's Redis in one of these ways, or not at all.
LEMMA ByosSteps ==
  ASSUME PlatformInv, ByosInv, HostedNext
  PROVE  ByosStep
<1>1. ASSUME NEW st \in Study, ReserveKey(st) \/ Age(st) \/ ExpireReceipt(st)
      PROVE  ByosStep
  BY <1>1 DEF ReserveKey, Age, ExpireReceipt, ByosStep
<1>2. ASSUME NEW st \in Study, Reconcile(st)
      PROVE  ByosStep
  BY <1>2, ReconcilerWrites DEF ByosStep
<1>3. ASSUME NEW o \in Operation, Route(o)
      PROVE  ByosStep
  BY <1>3, RouteWrites DEF ByosStep
<1>4. ASSUME NEW st \in Study, NEW o \in Operation, Begin(st, o)
      PROVE  ByosStep
  BY <1>4 DEF Begin, BeginCreate, BeginDelete, ByosStep
<1>5. ASSUME NEW st \in Study, Edit(st) \/ Aggregate(st)
      PROVE  ByosStep
  BY <1>5 DEF Edit, Aggregate, ResearcherEdits, ByosStep
<1>6. ASSUME NEW i \in Interview, SaveInterview(i)
      PROVE  ByosStep
  BY <1>6, Ranges DEF SaveInterview, ParticipantSaves, ByosStep
<1> QED
  BY <1>1, <1>2, <1>3, <1>4, <1>5, <1>6 DEF HostedNext

\* Whatever writes it, the researcher's Redis keeps its shape and orphans nothing.
LEMMA ByosKept ==
  ASSUME ByosInv, ByosStep
  PROVE  ByosInv'
<1>1. CASE UNCHANGED byos
  BY <1>1 DEF ByosInv, ByosShape, Filed, NothingOutlivesItsStudy, byos, studyRows, interviewRows
<1>2. ASSUME NEW o \in Operation, NEW st \in Study, OperationWrites(o, st)
      PROVE  ByosInv'
  BY <1>2, CreateKeepsByos, SettleKeepsByos, EmptyDeleteKeepsByos, PopulatedDeleteKeepsByos
  DEF OperationWrites, Creates, Settles, EmptyDeletes, PopulatedDeletes
<1>3. CASE MemberFinishes
  <2>1. PICK i \in Interview, k \in 1..4 : pguard[i] # None /\ FinishScript(i, pguard[i], k) /\ UNCHANGED <<saving, told>>
    BY <1>3 DEF MemberFinishes
  <2>2. pguard[i] \in SubmissionRows /\ saving' \subseteq saving /\ told' \in [Interview -> Content \cup {None}]
    BY <2>1 DEF ByosInv, ByosShape
  <2> QED
    BY <2>1, <2>2, FinishKeepsByos
<1>4. ASSUME NEW i \in Interview, ParticipantSaves(i)
      PROVE  ByosInv'
  BY <1>4, StartKeepsByos, SavingKeepsByos DEF ParticipantSaves
<1>5. ASSUME NEW st \in Study, ResearcherEdits(st)
      PROVE  ByosInv'
  BY <1>5, EditingKeepsByos DEF ResearcherEdits
<1> QED
  BY <1>1, <1>2, <1>3, <1>4, <1>5 DEF ByosStep

-----------------------------------------------------------------------------
(* What a participant was told.                                             *)

Safe(i) == study[Of[i]] # None /\ body[i] = [content |-> told[i]] /\ i \in index[Of[i]]
Waived(i) == \E o \in Operation : request[o] # None /\ request[o].study = Of[i] /\ request[o].populated

\* A deletion for an empty study leaves a study with interviews alone.
LEMMA EmptyDeleteLeavesTheFull ==
  ASSUME ByosInv, NEW o \in Operation, NEW st \in Study, NEW k \in 1..6, NEW expected, EmptyDeleteScript(o, st, expected, k),
         NEW s \in Study, s # st \/ index[s] # {}
  PROVE  study'[s] = study[s]
  BY DEF EmptyDeleteScript, EmptyDeleteBegins, ByosInv, ByosShape

\* A saved interview stays, unless a deletion was confirmed with its interviews.
LEMMA SafeStays ==
  ASSUME ByosInv, ByosStep, NEW i \in Interview, told[i] # None, told'[i] = told[i], Safe(i)
  PROVE  Safe(i)' \/ Waived(i)
<1>0. Of[i] \in Study /\ told[i] \in Content /\ body[i] # None /\ study[Of[i]] # None /\ i \in index[Of[i]]
      /\ body[i] = [content |-> told[i]]
  <2>1. [content |-> told[i]] \in BodyRows
    BY DEF BodyRows, ByosInv, ByosShape
  <2> QED
    BY <2>1, RedisAssumption, NoneIsNoStudyRow DEF ByosInv, ByosShape, Safe
<1> SUFFICES ASSUME ~Waived(i)
             PROVE  study'[Of[i]] # None /\ body'[i] = body[i] /\ i \in index'[Of[i]]
  BY <1>0 DEF Safe
<1>1. CASE UNCHANGED byos
  BY <1>0, <1>1 DEF byos, studyRows, interviewRows
<1>2. ASSUME NEW o \in Operation, NEW st \in Study, Asked(o, st), Creates(o, st) \/ Settles(o, st)
      PROVE  study'[Of[i]] # None /\ body'[i] = body[i] /\ i \in index'[Of[i]]
  <2>1. CASE Settles(o, st)
    BY <1>0, <2>1 DEF Settles, SettleScript, interviewRows
  <2>2. CASE Creates(o, st)
    <3>1. PICK k \in 1..2 : CreateScript(o, st, k)
      BY <2>2 DEF Creates
    <3>2. study'[Of[i]] = study[Of[i]]
      BY <1>0, <3>1 DEF CreateScript, ByosInv, ByosShape
    <3> QED
      BY <1>0, <3>1, <3>2 DEF CreateScript, interviewRows
  <2> QED
    BY <1>2, <2>1, <2>2
<1>3. ASSUME NEW o \in Operation, NEW st \in Study, Asked(o, st), EmptyDeletes(o, st)
      PROVE  study'[Of[i]] # None /\ body'[i] = body[i] /\ i \in index'[Of[i]]
  <2>1. PICK k \in 1..6 : EmptyDeleteScript(o, st, request[o].expected, k)
    BY <1>3 DEF EmptyDeletes
  <2>2. study'[Of[i]] = study[Of[i]]
    BY <1>0, <2>1, EmptyDeleteLeavesTheFull
  <2> QED
    BY <1>0, <2>1, <2>2 DEF EmptyDeleteScript, interviewRows
<1>4. ASSUME NEW o \in Operation, NEW st \in Study, Asked(o, st), PopulatedDeletes(o, st)
      PROVE  study'[Of[i]] # None /\ body'[i] = body[i] /\ i \in index'[Of[i]]
  <2>1. st # Of[i]
    BY <1>4 DEF Waived, Asked, PopulatedDeletes
  <2>2. PICK k \in 1..3, ids \in Batches(st) : PopulatedDeleteScript(o, st, request[o].expected, ids, k)
    BY <1>4 DEF PopulatedDeletes
  <2>3. i \notin ids
    BY <2>1, <2>2 DEF Batches, ByosInv, ByosShape, Filed
  <2> QED
    BY <1>0, <2>1, <2>2, <2>3 DEF PopulatedDeleteScript, ByosInv, ByosShape
<1>5. ASSUME NEW j \in Interview, NEW g \in SubmissionRows, NEW k \in 1..4, FinishScript(j, g, k), saving' \subseteq saving,
             told' \in [Interview -> Content \cup {None}]
      PROVE  study'[Of[i]] # None /\ body'[i] = body[i] /\ i \in index'[Of[i]]
  BY <1>0, <1>5, FinishKeepsByos DEF FinishScript
<1>6. CASE MemberFinishes
  <2>1. PICK j \in Interview, k \in 1..4 : pguard[j] # None /\ FinishScript(j, pguard[j], k) /\ UNCHANGED <<saving, told>>
    BY <1>6 DEF MemberFinishes
  <2>2. pguard[j] \in SubmissionRows /\ saving' \subseteq saving /\ told' \in [Interview -> Content \cup {None}]
    BY <2>1 DEF ByosInv, ByosShape
  <2> QED
    BY <1>5, <2>1, <2>2
<1>7. ASSUME NEW j \in Interview, ParticipantSaves(j)
      PROVE  study'[Of[i]] # None /\ body'[i] = body[i] /\ i \in index'[Of[i]]
  <2>1. CASE (\E content \in Content : RepeatSave(j, content)) \/ \E c \in saving : DropSave(c)
    BY <1>0, <2>1 DEF RepeatSave, DropSave, studyRows, interviewRows
  <2>2. ASSUME NEW content \in Content, NEW revision \in Revision, StartSave(j, content, revision)
        PROVE  study'[Of[i]] # None /\ body'[i] = body[i] /\ i \in index'[Of[i]]
    <3>1. j = i => content = told[i]
      BY <1>0, <2>2 DEF StartSave, SameSubmission
    <3>2. body'[i] = body[i]
      BY <1>0, <2>2, <3>1 DEF StartSave, ByosInv, ByosShape
    <3> QED
      BY <1>0, <2>2, <3>2 DEF StartSave, studyRows
  <2>3. ASSUME NEW c \in saving, NEW k \in 1..4, FinishSave(c, k)
        PROVE  study'[Of[i]] # None /\ body'[i] = body[i] /\ i \in index'[Of[i]]
    <3>1. c.guard \in SubmissionRows /\ c.guard.content \in Content /\ c.interview \in Interview
      BY DEF ByosInv, ByosShape, SubmissionRows
    <3>2. saving' \subseteq saving /\ told' \in [Interview -> Content \cup {None}] /\ FinishScript(c.interview, c.guard, k)
      BY <2>3, <3>1 DEF FinishSave, ByosInv, ByosShape
    <3> QED
      BY <1>5, <3>1, <3>2
  <2> QED
    BY <1>7, <2>1, <2>2, <2>3 DEF ParticipantSaves
<1>8. ASSUME NEW st \in Study, ResearcherEdits(st)
      PROVE  study'[Of[i]] # None /\ body'[i] = body[i] /\ i \in index'[Of[i]]
  BY <1>0, <1>8, EditingKeepsByos DEF ResearcherEdits
<1> QED
  BY <1>1, <1>2, <1>3, <1>4, <1>6, <1>7, <1>8 DEF ByosStep, OperationWrites

\* Who is told anew has an interview that is safe.
LEMMA TellsTheTruth ==
  ASSUME ByosInv, ByosInv', ByosStep, NEW i \in Interview, told'[i] # None, told'[i] # told[i]
  PROVE  Safe(i)'
<1>0. Of[i] \in Study
  BY RedisAssumption
<1>1. \/ \E content \in Content : RepeatSave(i, content)
      \/ \E c \in saving, k \in 1..4 : c.interview = i /\ FinishSave(c, k)
  <2>1. ~UNCHANGED told
    OBVIOUS
  <2>2. ~MemberFinishes /\ ~UNCHANGED byos /\ \A st \in Study : ~ResearcherEdits(st)
    BY <2>1 DEF MemberFinishes, ResearcherEdits, ReplaceConfig, SetLinks, DraftAggregate, SaveAggregate, byos
  <2>3. \A o \in Operation, st \in Study : ~OperationWrites(o, st)
    <3>1. \A o \in Operation, st \in Study : ~Creates(o, st) /\ ~Settles(o, st)
      BY <2>1 DEF Creates, Settles, CreateScript, SettleScript
    <3>2. \A o \in Operation, st \in Study : ~EmptyDeletes(o, st)
      <4> SUFFICES ASSUME NEW o \in Operation, NEW st \in Study, NEW k, EmptyDeleteScript(o, st, request[o].expected, k)
                   PROVE  FALSE
        BY DEF EmptyDeletes
      <4>1. UNCHANGED told
        BY DEF EmptyDeleteScript
      <4> QED
        BY <2>1, <4>1
    <3>3. \A o \in Operation, st \in Study : ~PopulatedDeletes(o, st)
      <4> SUFFICES ASSUME NEW o \in Operation, NEW st \in Study, NEW k, NEW ids,
                          PopulatedDeleteScript(o, st, request[o].expected, ids, k)
                   PROVE  FALSE
        BY DEF PopulatedDeletes
      <4>1. UNCHANGED told
        BY DEF PopulatedDeleteScript
      <4> QED
        BY <2>1, <4>1
    <3> QED
      BY <3>1, <3>2, <3>3 DEF OperationWrites
  <2>4. PICK j \in Interview : ParticipantSaves(j)
    BY <2>2, <2>3 DEF ByosStep
  <2>5. \/ \E content \in Content : RepeatSave(j, content)
        \/ \E c \in saving, k \in 1..4 : c.interview = j /\ FinishSave(c, k)
    BY <2>1, <2>4 DEF ParticipantSaves, StartSave, DropSave
  <2>6. j = i
    BY <2>5 DEF RepeatSave, FinishSave, ByosInv, ByosShape
  <2> QED
    BY <2>5, <2>6
<1>2. CASE \E content \in Content : RepeatSave(i, content)
  <2>1. PICK content \in Content : RepeatSave(i, content)
    BY <1>2
  <2>2. told'[i] = content /\ Committed(i, content) /\ study[Of[i]] # None /\ UNCHANGED <<study, body, index>>
    BY <2>1 DEF RepeatSave, ByosInv, ByosShape, studyRows, interviewRows
  <2> QED
    BY <2>2 DEF Committed, Safe
<1>3. ASSUME NEW c \in saving, NEW k \in 1..4, c.interview = i, FinishSave(c, k)
      PROVE  Safe(i)'
  <2> DEFINE g == c.guard
  <2>1. g \in SubmissionRows /\ g.content \in Content
    BY DEF ByosInv, ByosShape, SubmissionRows
  <2>2. told'[i] = g.content /\ k = 4 /\ FinishAnswer(i, g) # "refused" /\ FinishScript(i, g, k) /\ body' = body
    BY <1>3 DEF FinishSave, FinishScript, ByosInv, ByosShape
  <2>3. i \in index'[Of[i]] /\ body[i] = [content |-> g.content]
    <3>1. CASE FinishAnswer(i, g) = "created"
      <4>1. body[i] = [content |-> g.content]
        BY <2>1, <3>1, FinishNeedsItsRow
      <4>2. index' = [index EXCEPT ![Of[i]] = @ \cup {i}]
        BY <2>2, <3>1 DEF FinishScript
      <4> QED
        BY <1>0, <4>1, <4>2 DEF ByosInv, ByosShape
    <3>2. CASE FinishAnswer(i, g) # "created"
      <4>1. Committed(i, g.content)
        <5>1. CASE pguard[i] = None
          BY <2>1, <2>2, <5>1, NoneIsNoStudyRow DEF FinishAnswer
        <5>2. CASE pguard[i] # None
          BY <2>1, <2>2, <3>2, <5>2 DEF FinishAnswer
        <5> QED
          BY <5>1, <5>2
      <4> QED
        BY <2>2, <3>2, <4>1 DEF Committed, FinishScript
    <3> QED
      BY <3>1, <3>2
  <2>4. study'[Of[i]] # None
    BY <1>0, <2>3 DEF ByosInv, NothingOutlivesItsStudy
  <2> QED
    BY <2>2, <2>3, <2>4 DEF Safe
<1> QED
  BY <1>1, <1>2, <1>3

\* So what a participant was told stays true.
LEMMA ToldStays ==
  ASSUME ByosInv, ByosInv', ByosStep, RequestsStay, ToldSavedIsKept
  PROVE  ToldSavedIsKept'
<1>1. ASSUME NEW i \in Interview, told'[i] # None
      PROVE  Safe(i)' \/ Waived(i)'
  <2>1. Waived(i) => Waived(i)'
    BY DEF Waived, RequestsStay
  <2>2. CASE told'[i] = told[i]
    <3>1. Safe(i) \/ Waived(i)
      BY <1>1, <2>2 DEF ToldSavedIsKept, Safe, Waived
    <3> QED
      BY <1>1, <2>1, <2>2, <3>1, SafeStays
  <2> QED
    BY <1>1, <2>2, TellsTheTruth
<1> QED
  BY <1>1 DEF ToldSavedIsKept, Safe, Waived

-----------------------------------------------------------------------------
(* Theorems: the two databases, and what participants were told.            *)

\* It holds at first.
LEMMA InitByos == HostedInit => ByosInv /\ ToldSavedIsKept
<1> SUFFICES ASSUME HostedInit
             PROVE  ByosInv /\ ToldSavedIsKept
  OBVIOUS
<1>1. ByosShape
  <2>1. study \in [Study -> StudyRows \cup {None}]
    BY NewStudyRow DEF HostedInit, ByosInit
  <2>2. auxiliary \in [Study -> Nat]
    BY RedisAssumption, MaxAuxiliary \in Nat DEF HostedInit, ByosInit
  <2> QED
    BY <2>1, <2>2 DEF HostedInit, ByosInit, ByosShape
<1> QED
  BY <1>1 DEF ByosInv, HostedInit, ByosInit, Filed, NothingOutlivesItsStudy, ToldSavedIsKept

\* So does what is claimed of the registry.
LEMMA InitPlatform == HostedInit => PlatformInv
<1> SUFFICES ASSUME HostedInit
             PROVE  PlatformInv
  OBVIOUS
<1>1. Existing \subseteq Study
  BY DEF Existing
<1>2. PlatformShape
  BY <1>1 DEF HostedInit, PlatformShape, CallStates
<1> QED
  BY <1>2 DEF PlatformInv, HostedInit, RecordsAreAsked, RoutesAreAsked, RepairsAreAsked, LockIsTheRecords, ReservationsAreLeft,
     LateActorsAreBlocked

HostedInv == ByosInv /\ PlatformInv /\ ToldSavedIsKept

\* Both together are inductive.
LEMMA HostedInvSteps == HostedInv /\ [HostedNext]_<<hosted, byos>> => HostedInv' /\ RequestsStay
<1>1. ASSUME HostedInv, HostedNext
      PROVE  HostedInv' /\ RequestsStay
  <2>1. PlatformInv' /\ RequestsStay
    BY <1>1, PlatformSteps DEF HostedInv, ByosInv
  <2>2. ByosStep /\ ByosInv'
    BY <1>1, ByosSteps, ByosKept DEF HostedInv
  <2> QED
    BY <1>1, <2>1, <2>2, ToldStays DEF HostedInv
<1>2. ASSUME HostedInv, UNCHANGED <<hosted, byos>>
      PROVE  HostedInv' /\ RequestsStay
  <2>1. PlatformInv' /\ RequestsStay
    BY SMTT(60), <1>2 DEF HostedInv, hosted, platform, routes, history, PlatformInv, PlatformShape, RecordsAreAsked, RoutesAreAsked,
       RepairsAreAsked, LockIsTheRecords, ReservationsAreLeft, LateActorsAreBlocked, Asked, Resolves, Own, Engaged, HoldsOwn,
       Repairs, RepairsOwn, Scored, RequestsStay
  <2>2. ByosStep /\ ByosInv'
    BY <1>2, ByosKept DEF HostedInv, ByosStep
  <2> QED
    BY <1>2, <2>1, <2>2, ToldStays DEF HostedInv
<1> QED
  BY <1>1, <1>2

\* So they hold.
LEMMA HostedInvHolds == HostedSpec => []HostedInv
<1>1. HostedInit => HostedInv
  BY InitByos, InitPlatform DEF HostedInv
<1>2. HostedInv /\ [HostedNext]_<<hosted, byos>> => HostedInv'
  BY HostedInvSteps
<1> QED
  BY <1>1, <1>2, PTL DEF HostedSpec

\* Both databases keep their shape: a record is a record in one of its phases, and it
\* holds a frozen receipt exactly while it is publishing.
THEOREM HostedTypeCorrect == HostedSpec => []HostedTypeOK
<1>1. HostedInv => HostedTypeOK
  <2> SUFFICES ASSUME HostedInv
               PROVE  HostedTypeOK
    OBVIOUS
  <2>1. \A st \in Study : op[st] = None \/ (op[st] \in OpRows /\ (op[st].phase = "publishing" <=> op[st].frozen \in Frozens))
    BY NoneIsNoPlatformRow DEF HostedInv, PlatformInv, PlatformShape, RecordsAreAsked, OpRows
  <2> QED
    BY <2>1 DEF HostedTypeOK, HostedInv, PlatformInv, PlatformShape, ByosInv, ByosShape
<1> QED
  BY <1>1, HostedInvHolds, PTL

\* Whatever prefix of a script was written, whoever came late, and however many operations
\* went before: a pending operation holds its own lock, and its study has its owner.
THEOREM PendingOperationsResolve == HostedSpec => []PendingIsResolvable
<1>1. HostedInv => PendingIsResolvable
  BY DEF HostedInv, PlatformInv, LockIsTheRecords, ReservationsAreLeft, PendingIsResolvable
<1> QED
  BY <1>1, HostedInvHolds, PTL

\* Nothing a participant or an analysis writes is left where its study is gone.
THEOREM NothingIsOrphaned == HostedSpec => []NothingOutlivesItsStudy
<1>1. HostedInv => NothingOutlivesItsStudy
  BY DEF HostedInv, ByosInv
<1> QED
  BY <1>1, HostedInvHolds, PTL

\* What a participant was told is saved is there until a deletion confirmed with its
\* interviews begins.
THEOREM ToldIsKept == HostedSpec => []ToldSavedIsKept
<1>1. HostedInv => ToldSavedIsKept
  BY DEF HostedInv
<1> QED
  BY <1>1, HostedInvHolds, PTL

-----------------------------------------------------------------------------
(* What mutations did, and what is recorded of them.  A study whose          *)
(* resolution stopped half way is in split, and nothing is claimed of it.    *)

Kind(o, kind)     == request[o] # None /\ request[o].kind = kind
AnotherDeletes(o) == \E p \in Operation \ {o} : Asked(p, request[o].study) /\ Kind(p, "delete")
Whole(o)          == request[o].study \notin split

\* Each study is created once, and a deletion is confirmed for a revision or for no interviews.
AskedOnce ==
  /\ \A o, p \in Operation : Kind(o, "create") /\ Kind(p, "create") /\ request[o].study = request[p].study => o = p
  /\ \A o \in Operation : Kind(o, "delete") => (request[o].populated <=> request[o].expected # None)

\* A marker tells what became of the study.
MarkersFit ==
  \A o \in Operation :
    /\ request[o] = None => marker[o] = None
    /\ Kind(o, "create") =>
         /\ marker[o] # "deleted"
         /\ marker[o] = "created" => study[request[o].study] # None \/ AnotherDeletes(o)
         /\ marker[o] = "cancelled" => study[request[o].study] = None
         /\ AnotherDeletes(o) /\ Whole(o) => marker[o] = "created"
    /\ Kind(o, "delete") =>
         /\ marker[o] \in {None, "deleted"}
         /\ Whole(o) /\ marker[o] = "deleted" => study[request[o].study] = None
         /\ Whole(o) /\ request[o].populated /\ study[request[o].study] # None =>
              request[o].expected <= study[request[o].study].revision

GuardsFit ==
  \A st \in Study : guard[st] # None =>
    /\ guard[st].by \in Operation /\ Asked(guard[st].by, st) /\ request[guard[st].by].kind = guard[st].kind
    /\ guard[st].kind = "delete" => guard[st].state = "in-flight"
    /\ guard[st].state = "cancelled" => marker[guard[st].by] = "cancelled"

\* A deletion that was refused would be refused again.
Refusing(o) ==
  LET r == request[o] IN
  \/ AnotherDeletes(o)
  \/ /\ study[r.study] # None /\ marker[o] = None
     /\ ~r.populated => index[r.study] # {}
     /\ r.populated => study[r.study].revision # r.expected /\ ~(Tombstoned(o, r.study) /\ guard[r.study].populated)

\* A resolution agrees with what the mutation did.
Agrees(o, resolution) ==
  \/ resolution = "create-complete" /\ Kind(o, "create") /\ marker[o] = "created"
  \/ resolution = "create-rollback" /\ Kind(o, "create") /\ marker[o] = "cancelled"
  \/ resolution = "delete-complete" /\ Kind(o, "delete") /\ marker[o] = "deleted"
  \/ resolution = "delete-rollback" /\ Kind(o, "delete") /\ Refusing(o)

RouteClaims == \A o \in Operation, r \in Resolutions :
  call[o] \in {"applied", "refused"} /\ Whole(o) /\ r = Resolution(request[o].kind, call[o] = "applied") => Agrees(o, r)
ReconcilerClaims == \A st \in Study \ split, o \in Operation, r \in Resolutions :
  reconciler[st] # None /\ reconciler[st].next = "resolve" /\ reconciler[st].by = o /\ reconciler[st].resolution = r => Agrees(o, r)
RecordClaims == \A o \in Operation, r \in Resolutions : outcome[o] = r /\ Whole(o) => Agrees(o, r)

\* Half a resolution is remembered.
ResolvingWasCut == \A st \in Study : op[st] # None /\ op[st].phase = "resolving" => st \in split

\* Who keeps the routing of a study that is there, or that may yet be created.
Routed ==
  /\ \A o \in Operation : Kind(o, "create") /\ ~Own(o) /\ request[o].study \in owner => outcome[o] = "create-complete"
  /\ \A o \in Operation : outcome[o] \in {"create-rollback", "delete-complete"} => request[o].study \notin owner
  /\ \A st \in Study \ split : study[st] # None => st \in owner /\ st \in listed
  /\ \A o \in Operation : Kind(o, "create") /\ (o \in sent \/ call[o] = "begun") /\ marker[o] = None /\ Whole(o) =>
       request[o].study \in owner /\ request[o].study \in listed

OutcomeInv ==
  /\ AskedOnce /\ MarkersFit /\ GuardsFit /\ RouteClaims /\ ReconcilerClaims /\ RecordClaims
  /\ ResolvingWasCut /\ Routed

\* What a resolution agrees with is what was recorded.
LEMMA RecordsHold == HostedInv /\ OutcomeInv => RecordedOutcomeHolds /\ StudyIsRouted
<1> SUFFICES ASSUME HostedInv, OutcomeInv
             PROVE  RecordedOutcomeHolds /\ StudyIsRouted
  OBVIOUS
<1>1. StudyIsRouted
  BY DEF StudyIsRouted, OutcomeInv, Routed
<1>2. ASSUME NEW o \in Operation, outcome[o] # None, request[o].study \notin split
      PROVE  CASE outcome[o] = "create-rollback" -> study[request[o].study] = None
               [] outcome[o] = "delete-complete" -> study[request[o].study] = None
               [] OTHER -> study[request[o].study] # None \/ \E p \in Operation \ {o} : request[p] # None
                             /\ request[p].study = request[o].study /\ request[p].kind = "delete"
  <2>1. Agrees(o, outcome[o])
    BY <1>2 DEF OutcomeInv, RecordClaims, Whole, HostedInv, PlatformInv, PlatformShape
  <2>2. CASE outcome[o] = "create-rollback"
    BY <2>1, <2>2 DEF Agrees, OutcomeInv, MarkersFit
  <2>3. CASE outcome[o] = "delete-complete"
    BY <1>2, <2>1, <2>3 DEF Agrees, OutcomeInv, MarkersFit, Whole
  <2>4. CASE outcome[o] \notin {"create-rollback", "delete-complete"}
    <3>1. study[request[o].study] # None \/ AnotherDeletes(o)
      BY <2>1, <2>4 DEF Agrees, Refusing, OutcomeInv, MarkersFit
    <3> QED
      BY <2>4, <3>1 DEF AnotherDeletes, Asked, Kind
  <2> QED
    BY <2>2, <2>3, <2>4
<1> QED
  BY <1>1, <1>2 DEF RecordedOutcomeHolds

\* Nothing was asked yet, and the studies that exist are routed.
LEMMA InitOutcome == HostedInit => OutcomeInv
<1> SUFFICES ASSUME HostedInit
             PROVE  OutcomeInv
  OBVIOUS
<1>0. \A o \in Operation : request[o] = None /\ marker[o] = None /\ outcome[o] = None /\ call[o] = "none"
  BY DEF HostedInit, ByosInit
<1>1. AskedOnce /\ MarkersFit /\ RouteClaims /\ RecordClaims
  BY <1>0, NoneIsNoPlatformRow DEF AskedOnce, MarkersFit, RouteClaims, RecordClaims, Kind
<1>2. GuardsFit /\ ReconcilerClaims /\ ResolvingWasCut
  BY DEF HostedInit, ByosInit, GuardsFit, ReconcilerClaims, ResolvingWasCut
<1>3. Routed
  <2>1. \A st \in Study : study[st] # None => st \in owner /\ st \in listed
    BY DEF HostedInit, ByosInit
  <2>2. \A o \in Operation : outcome[o] \notin {"create-rollback", "delete-complete"}
    BY <1>0, NoneIsNoPlatformRow DEF Resolutions
  <2> QED
    BY <1>0, <2>1, <2>2 DEF Routed, Kind
<1> QED
  BY <1>1, <1>2, <1>3 DEF OutcomeInv

\* Steps that leave the researcher's Redis, the requests, the routing and the outcomes alone.
LEMMA QuietOutcomes ==
  ASSUME HostedInv, OutcomeInv, UNCHANGED <<byos, request, owner, listed, outcome, split>>,
         \A s \in Study : op'[s] # None => op[s] # None /\ op'[s].by = op[s].by
                                           /\ (op'[s].phase = "resolving" => op[s].phase = "resolving"),
         \A s \in Study : op[s] # None /\ op'[s] = None /\ s \in owner /\ request[op[s].by].kind = "create" =>
                            outcome[op[s].by] = "create-complete",
         \A o \in Operation : call'[o] \in {"applied", "refused", "begun"} => call'[o] = call[o],
         \A o \in sent' : o \in sent \/ call[o] = "begun",
         \A s \in Study : reconciler'[s] # None /\ reconciler'[s].next = "resolve" => reconciler'[s] = reconciler[s] \/ s \in split
  PROVE  OutcomeInv'
<1>0. UNCHANGED <<study, guard, marker, index>>
  BY DEF byos, studyRows, interviewRows
<1>1. \A o \in Operation, r \in Resolutions : Agrees(o, r)' <=> Agrees(o, r)
  BY <1>0 DEF Agrees, Refusing, AnotherDeletes, Asked, Kind, Tombstoned
<1>2. AskedOnce' /\ GuardsFit' /\ MarkersFit'
  BY <1>0 DEF OutcomeInv, AskedOnce, GuardsFit, MarkersFit, AnotherDeletes, Asked, Kind, Whole
<1>3. RouteClaims' /\ RecordClaims'
  BY <1>1 DEF OutcomeInv, RouteClaims, RecordClaims, Whole
<1>4. ReconcilerClaims'
  BY <1>1 DEF OutcomeInv, ReconcilerClaims
<1>5. ResolvingWasCut'
  BY DEF OutcomeInv, ResolvingWasCut
<1>6. Routed'
  <2>1. ASSUME NEW o \in Operation, Kind(o, "create"), ~Own(o)', request[o].study \in owner
        PROVE  outcome[o] = "create-complete"
    <3>1. request[o].study \in Study
      BY <2>1 DEF Kind, HostedInv, PlatformInv, PlatformShape, RequestRows
    <3>2. CASE Own(o)
      <4>1. op'[request[o].study] = None
        BY <2>1, <3>1, <3>2 DEF Own
      <4> QED
        BY <2>1, <3>1, <3>2, <4>1 DEF Own, Kind
    <3>3. CASE ~Own(o)
      BY <2>1, <3>3 DEF OutcomeInv, Routed
    <3> QED
      BY <3>2, <3>3
  <2>2. \A o \in Operation : Kind(o, "create") /\ (o \in sent' \/ call'[o] = "begun") /\ marker[o] = None /\ Whole(o) =>
          request[o].study \in owner /\ request[o].study \in listed
    BY DEF OutcomeInv, Routed
  <2> QED
    BY <1>0, <2>1, <2>2 DEF OutcomeInv, Routed, Kind, Whole
<1> QED
  BY <1>2, <1>3, <1>4, <1>5, <1>6 DEF OutcomeInv

\* What the script of an operation may do: it touches its own study, its own marker, which
\* stays once it is written, and a guard that is its own or gone.
Touches(o, st) ==
  /\ \A s \in Study \ {st} : study'[s] = study[s] /\ guard'[s] = guard[s] /\ index'[s] = index[s]
  /\ \A p \in Operation \ {o} : marker'[p] = marker[p]
  /\ marker[o] # None => marker'[o] = marker[o]
  /\ \/ guard'[st] \in {guard[st], None}
     \/ /\ guard'[st] # None /\ guard'[st].by = o /\ guard'[st].kind = request[o].kind
        /\ guard'[st].kind = "delete" => guard'[st].state = "in-flight"
        /\ guard'[st].state = "cancelled" => marker'[o] = "cancelled"

\* A creation creates a study that is not there, while it is on its way, and its marker
\* tells what became of the study.
CreationEffect(o, st) ==
  /\ Touches(o, st) /\ index'[st] = index[st]
  /\ \/ study'[st] = study[st]
     \/ marker[o] = None /\ o \in sent /\ study[st] = None /\ study'[st] # None
  /\ marker'[o] \in {None, "created", "cancelled"}
  /\ marker'[o] = "created" => marker[o] = "created" \/ study'[st] # None
  /\ marker'[o] = "cancelled" => study'[st] = None

\* A deletion takes its study, with its marker at the latest, and one that was refused
\* does nothing but take its own guard away.
DeletionEffect(o, st) ==
  /\ Touches(o, st)
  /\ study'[st] \in {study[st], None}
  /\ marker'[o] \in {None, "deleted"}
  /\ marker'[o] = "deleted" => marker[o] = "deleted" \/ study'[st] = None
  /\ Refusing(o) => AnotherDeletes(o) \/ (UNCHANGED <<study, marker, index>> /\ guard'[st] \in {guard[st], None})

\* What participants and researchers do.
QuietEffect ==
  /\ UNCHANGED <<marker, guard>>
  /\ \A s \in Study :
       /\ study'[s] = None <=> study[s] = None
       /\ study[s] # None => study'[s].revision >= study[s].revision
       /\ index[s] # {} => index'[s] # {}

\* A creation does what a creation may.
LEMMA CreatesEffect ==
  ASSUME HostedInv, OutcomeInv, NEW o \in Operation, NEW st \in Study, Asked(o, st), Creates(o, st)
  PROVE  CreationEffect(o, st)
<1>1. PICK k \in 1..2 : CreateScript(o, st, k) /\ o \in sent /\ request[o].kind = "create"
  BY DEF Creates
<1>2. UNCHANGED index /\ Kind(o, "create") /\ request[o].study = st
  BY <1>1 DEF CreateScript, interviewRows, Asked, Kind
<1>3. marker[o] \in {None, "created", "cancelled"} /\ (marker[o] = "cancelled" => study[st] = None)
  BY <1>2 DEF HostedInv, ByosInv, ByosShape, OutcomeInv, MarkersFit, Markers
<1>4. CASE UNCHANGED <<study, marker, guard>>
  BY <1>2, <1>3, <1>4 DEF CreationEffect, Touches
<1>5. CASE CreateAnswer(o, st) = "applied" /\ marker[o] = None
  <2> DEFINE row == [revision |-> 1, links |-> TRUE, count |-> 0]
             g == GuardRow(o, "create", "created", FALSE)
  <2>1. row # None /\ g # None /\ g.by = o /\ g.kind = "create" /\ g.state = "created"
    BY NewStudyRow, GuardRowsAreRows DEF GuardRow
  <2>2. /\ study' = [study EXCEPT ![st] = IF @ = None THEN row ELSE @]
        /\ marker' = IF k >= 2 THEN [marker EXCEPT ![o] = "created"] ELSE marker
        /\ guard' = IF k >= 2 THEN [guard EXCEPT ![st] = g] ELSE guard
    BY <1>1, <1>5 DEF CreateScript
  <2> HIDE DEF row, g
  <2>3. /\ \A s \in Study \ {st} : study'[s] = study[s] /\ guard'[s] = guard[s]
        /\ study'[st] = (IF study[st] = None THEN row ELSE study[st])
        /\ \A p \in Operation \ {o} : marker'[p] = marker[p]
        /\ marker'[o] \in {None, "created"} /\ guard'[st] \in {guard[st], g}
    BY <1>5, <2>2 DEF HostedInv, ByosInv, ByosShape
  <2>4. Touches(o, st)
    BY <1>1, <1>2, <1>5, <2>1, <2>3 DEF Touches
  <2>5. None # "created" /\ None # "cancelled"
    BY NoneIsNoStudyRow DEF Markers
  <2> QED
    BY <1>1, <1>2, <1>5, <2>1, <2>3, <2>4, <2>5 DEF CreationEffect
<1> QED
  BY <1>1, <1>4, <1>5 DEF CreateScript

\* So does the reconciler's settling, and it always leaves a marker.
LEMMA SettlesEffect ==
  ASSUME HostedInv, OutcomeInv, NEW o \in Operation, NEW st \in Study, Asked(o, st), Settles(o, st)
  PROVE  /\ CreationEffect(o, st)
         /\ marker'[o] = IF marker[o] = "created" \/ study[st] # None THEN "created" ELSE "cancelled"
<1>1. SettleScript(o, st) /\ Kind(o, "create") /\ request[o].study = st
  BY DEF Settles, Asked, Kind
<1> DEFINE state == IF marker[o] = "created" \/ study[st] # None THEN "created" ELSE "cancelled"
           g == GuardRow(o, "create", state, FALSE)
<1>2. state \in {"created", "cancelled"}
  OBVIOUS
<1>3. g # None /\ g.by = o /\ g.kind = "create" /\ g.state = state
  <2> HIDE DEF state
  <2> QED
    BY <1>2, GuardRowsAreRows DEF GuardRow
<1>4. marker' = [marker EXCEPT ![o] = state] /\ guard' = [guard EXCEPT ![st] = g] /\ UNCHANGED <<study, index>>
  BY <1>1 DEF SettleScript, interviewRows
<1> HIDE DEF g
<1>5. /\ \A s \in Study \ {st} : guard'[s] = guard[s]
      /\ \A p \in Operation \ {o} : marker'[p] = marker[p]
      /\ marker'[o] = state /\ guard'[st] = g
  BY <1>4 DEF HostedInv, ByosInv, ByosShape
<1>6. marker[o] \in {None, "created", "cancelled"} /\ (marker[o] = "cancelled" => study[st] = None)
  BY <1>1 DEF HostedInv, ByosInv, ByosShape, OutcomeInv, MarkersFit, Markers
<1>7. marker[o] # None => state = marker[o]
  BY <1>6
<1>8. Touches(o, st)
  BY <1>1, <1>2, <1>3, <1>4, <1>5, <1>7 DEF Touches, Kind
<1> QED
  BY <1>4, <1>5, <1>8 DEF CreationEffect

\* A deletion's marker, the study it may find, and when it would be refused.
LEMMA DeletionsAreAsked ==
  ASSUME HostedInv, OutcomeInv, NEW o \in Operation, NEW st \in Study, Asked(o, st), request[o].kind = "delete"
  PROVE  /\ Kind(o, "delete") /\ request[o].study = st
         /\ marker[o] \in {None, "deleted"} /\ None # "deleted"
         /\ request[o].populated \in BOOLEAN
         /\ request[o].populated <=> request[o].expected # None
<1>1. Kind(o, "delete") /\ request[o].study = st /\ request[o] \in RequestRows
  BY DEF Asked, Kind, HostedInv, PlatformInv, PlatformShape
<1> QED
  BY <1>1, NoneIsNoStudyRow DEF OutcomeInv, MarkersFit, AskedOnce, RequestRows, Markers

\* A deletion of an empty study does what a deletion may.
LEMMA EmptyDeletesEffect ==
  ASSUME HostedInv, OutcomeInv, NEW o \in Operation, NEW st \in Study, Asked(o, st), EmptyDeletes(o, st)
  PROVE  DeletionEffect(o, st)
<1>0. request[o].kind = "delete" /\ ~request[o].populated
  BY DEF EmptyDeletes
<1>1. PICK k \in 1..6 : EmptyDeleteScript(o, st, request[o].expected, k)
  BY DEF EmptyDeletes
<1>2. Kind(o, "delete") /\ request[o].study = st /\ marker[o] \in {None, "deleted"} /\ None # "deleted"
  BY <1>0, DeletionsAreAsked
<1> DEFINE begins == EmptyDeleteBegins(o, st, request[o].expected)
           g == GuardRow(o, "delete", "in-flight", FALSE)
<1>3. g # None /\ g.by = o /\ g.kind = "delete" /\ g.state = "in-flight"
  BY GuardRowsAreRows DEF GuardRow
<1>4. UNCHANGED index
  BY <1>1 DEF EmptyDeleteScript, interviewRows
<1>5. /\ study' = study \/ (begins /\ study' = [study EXCEPT ![st] = None])
      /\ marker' = marker \/ (begins /\ marker' = [marker EXCEPT ![o] = "deleted"] /\ study' = [study EXCEPT ![st] = None])
  BY <1>1 DEF EmptyDeleteScript
<1>6. /\ \A s \in Study \ {st} : guard'[s] = guard[s]
      /\ guard'[st] \in {guard[st], None} \/ (begins /\ guard'[st] = g)
  <2>1. WithoutGuardOf(o, st) \in [Study -> GuardRows \cup {None}] /\ WithoutGuardOf(o, st)[st] \in {guard[st], None}
        /\ \A s \in Study \ {st} : WithoutGuardOf(o, st)[s] = guard[s]
    BY DEF WithoutGuardOf, HostedInv, ByosInv, ByosShape
  <2> DEFINE w == WithoutGuardOf(o, st)
  <2>2. \/ guard' = [w EXCEPT ![st] = None]
        \/ guard' = [w EXCEPT ![st] = w[st]]
        \/ begins /\ guard' = [guard EXCEPT ![st] = g]
        \/ guard' = guard
    BY <1>1 DEF EmptyDeleteScript
  <2> HIDE DEF w, g
  <2> QED
    BY <2>1, <2>2 DEF w, HostedInv, ByosInv, ByosShape
<1>7. Refusing(o) => AnotherDeletes(o) \/ ~begins
  BY <1>0, <1>2 DEF Refusing, EmptyDeleteBegins
<1>8. /\ \A s \in Study \ {st} : study'[s] = study[s]
      /\ \A p \in Operation \ {o} : marker'[p] = marker[p]
      /\ study'[st] \in {study[st], None}
      /\ marker'[o] = marker[o] \/ (marker'[o] = "deleted" /\ study'[st] = None)
      /\ begins => marker[o] = None
  BY <1>2, <1>5 DEF HostedInv, ByosInv, ByosShape, EmptyDeleteBegins
<1> HIDE DEF g, begins
<1>9. Touches(o, st)
  BY <1>0, <1>2, <1>3, <1>4, <1>5, <1>6, <1>8 DEF Touches
<1> QED
  BY <1>2, <1>4, <1>5, <1>6, <1>7, <1>8, <1>9 DEF DeletionEffect

\* So does a pass of a deletion with the interviews.
LEMMA PopulatedDeletesEffect ==
  ASSUME HostedInv, OutcomeInv, NEW o \in Operation, NEW st \in Study, Asked(o, st), PopulatedDeletes(o, st)
  PROVE  DeletionEffect(o, st)
<1>0. request[o].kind = "delete" /\ request[o].populated
  BY DEF PopulatedDeletes
<1>1. PICK k \in 1..3, ids \in Batches(st) : PopulatedDeleteScript(o, st, request[o].expected, ids, k)
  BY DEF PopulatedDeletes
<1>2. Kind(o, "delete") /\ request[o].study = st /\ marker[o] \in {None, "deleted"} /\ None # "deleted"
      /\ request[o].expected # None
  BY <1>0, DeletionsAreAsked
<1> DEFINE begins == PopulatedDeleteBegins(o, st, request[o].expected)
           g == GuardRow(o, "delete", "in-flight", TRUE)
<1>3. g # None /\ g.by = o /\ g.kind = "delete" /\ g.state = "in-flight"
  BY GuardRowsAreRows DEF GuardRow
<1>4. index' = index \/ (begins /\ index' = [index EXCEPT ![st] = @ \ ids])
  BY <1>1 DEF PopulatedDeleteScript
<1>5. /\ study' = study \/ (begins /\ study' = [study EXCEPT ![st] = None])
      /\ marker' = marker \/ (begins /\ marker' = [marker EXCEPT ![o] = "deleted"] /\ study' = [study EXCEPT ![st] = None])
      /\ guard' = guard \/ guard' = [guard EXCEPT ![st] = None] \/ guard' = [guard EXCEPT ![st] = g]
      /\ ~begins => guard' = guard
  BY <1>1 DEF PopulatedDeleteScript
<1>7. Refusing(o) => AnotherDeletes(o) \/ ~begins
  BY <1>0, <1>2 DEF Refusing, PopulatedDeleteBegins, StaleRevision
<1> HIDE DEF g
<1>8. /\ \A s \in Study \ {st} : study'[s] = study[s] /\ guard'[s] = guard[s] /\ index'[s] = index[s]
      /\ \A p \in Operation \ {o} : marker'[p] = marker[p]
      /\ study'[st] \in {study[st], None} /\ guard'[st] \in {guard[st], None, g}
      /\ marker'[o] = marker[o] \/ (marker'[o] = "deleted" /\ study'[st] = None)
      /\ begins => marker[o] = None
  BY <1>2, <1>4, <1>5 DEF HostedInv, ByosInv, ByosShape, PopulatedDeleteBegins
<1> HIDE DEF begins
<1>9. Touches(o, st)
  BY <1>0, <1>2, <1>3, <1>8 DEF Touches
<1> QED
  BY <1>2, <1>4, <1>5, <1>7, <1>8, <1>9 DEF DeletionEffect

\* A stored revision is a number.
LEMMA RevisionsAreNumbers ==
  ASSUME ByosShape, NEW st \in Study, study[st] # None
  PROVE  study[st].revision \in Nat
  BY RedisAssumption, MaxRevision \in Nat DEF ByosShape, StudyRows, Revision

\* Participants and the researcher touch no marker, no guard of an operation and no study's existence.
LEMMA OthersAreQuiet ==
  ASSUME HostedInv,
         \/ UNCHANGED byos \/ MemberFinishes
         \/ \E i \in Interview : ParticipantSaves(i)
         \/ \E st \in Study : ResearcherEdits(st)
  PROVE  QuietEffect
<1>0. \A s \in Study : study[s] # None => study[s].revision \in Nat
  BY RevisionsAreNumbers DEF HostedInv, ByosInv
<1>1. CASE UNCHANGED <<study, marker, guard, index>>
  BY <1>0, <1>1 DEF QuietEffect
<1>2. ASSUME NEW j \in Interview, NEW g \in SubmissionRows, NEW k \in 1..4, FinishScript(j, g, k), saving' \subseteq saving,
             told' \in [Interview -> Content \cup {None}]
      PROVE  QuietEffect
  <2>1. \A s \in Study : /\ study[s] # None <=> study'[s] # None
                         /\ study'[s] # None => study'[s].revision = study[s].revision
                         /\ index[s] \subseteq index'[s]
    BY <1>2, FinishKeepsByos DEF HostedInv
  <2>2. UNCHANGED <<marker, guard>>
    BY <1>2 DEF FinishScript
  <2>3. \A s \in Study : /\ study'[s] = None <=> study[s] = None
                         /\ study[s] # None => study'[s].revision >= study[s].revision
                         /\ index[s] # {} => index'[s] # {}
    BY <1>0, <2>1
  <2> QED
    BY <2>2, <2>3 DEF QuietEffect
<1>3. CASE UNCHANGED byos
  BY <1>1, <1>3 DEF byos, studyRows, interviewRows
<1>4. CASE MemberFinishes
  <2>1. PICK j \in Interview, k \in 1..4 : pguard[j] # None /\ FinishScript(j, pguard[j], k) /\ UNCHANGED <<saving, told>>
    BY <1>4 DEF MemberFinishes
  <2>2. pguard[j] \in SubmissionRows /\ saving' \subseteq saving /\ told' \in [Interview -> Content \cup {None}]
    BY <2>1 DEF HostedInv, ByosInv, ByosShape
  <2> QED
    BY <1>2, <2>1, <2>2
<1>5. ASSUME NEW j \in Interview, ParticipantSaves(j)
      PROVE  QuietEffect
  <2>1. CASE \/ \E content \in Content, revision \in Revision : StartSave(j, content, revision)
             \/ \E content \in Content : RepeatSave(j, content)
             \/ \E c \in saving : DropSave(c)
    BY <1>1, <2>1 DEF StartSave, RepeatSave, DropSave, studyRows, interviewRows
  <2>2. ASSUME NEW c \in saving, NEW k \in 1..4, FinishSave(c, k)
        PROVE  QuietEffect
    <3>1. c.guard \in SubmissionRows /\ c.guard.content \in Content /\ c.interview \in Interview
      BY DEF HostedInv, ByosInv, ByosShape, SubmissionRows
    <3>2. saving' \subseteq saving /\ told' \in [Interview -> Content \cup {None}] /\ FinishScript(c.interview, c.guard, k)
      BY <2>2, <3>1 DEF FinishSave, HostedInv, ByosInv, ByosShape
    <3> QED
      BY <1>2, <3>1, <3>2
  <2> QED
    BY <1>5, <2>1, <2>2 DEF ParticipantSaves
<1>6. ASSUME NEW st \in Study, ResearcherEdits(st)
      PROVE  QuietEffect
  <2>1. /\ UNCHANGED <<guard, marker, index>>
        /\ \A s \in Study : /\ study[s] # None <=> study'[s] # None
                            /\ study[s] # None => study'[s].revision \in {study[s].revision, study[s].revision + 1}
    BY <1>6, EditingKeepsByos DEF ResearcherEdits, HostedInv
  <2>2. \A s \in Study : study[s] # None => study'[s].revision >= study[s].revision
    BY <1>0, <2>1
  <2> QED
    BY <2>1, <2>2 DEF QuietEffect
<1> QED
  BY <1>3, <1>4, <1>5, <1>6

\* Every step is quiet, or one operation's.
ByosEffects ==
  \/ QuietEffect
  \/ \E o \in Operation, st \in Study : Asked(o, st) /\ Kind(o, "create") /\ CreationEffect(o, st)
  \/ \E o \in Operation, st \in Study : Asked(o, st) /\ Kind(o, "delete") /\ DeletionEffect(o, st)

\* Every step has one of these effects.
LEMMA StepsHaveEffects ==
  ASSUME HostedInv, OutcomeInv, ByosStep
  PROVE  ByosEffects
<1>1. ASSUME NEW o \in Operation, NEW st \in Study, OperationWrites(o, st)
      PROVE  ByosEffects
  <2>1. Asked(o, st) /\ request[o] # None
    BY <1>1 DEF OperationWrites, Asked
  <2>2. CASE Creates(o, st) \/ Settles(o, st)
    <3>1. CreationEffect(o, st)
      BY <2>1, <2>2, CreatesEffect, SettlesEffect
    <3>2. Kind(o, "create")
      BY <2>1, <2>2 DEF Creates, Settles, Kind
    <3> QED
      BY <2>1, <3>1, <3>2 DEF ByosEffects
  <2>3. CASE EmptyDeletes(o, st) \/ PopulatedDeletes(o, st)
    <3>1. DeletionEffect(o, st)
      BY <2>1, <2>3, EmptyDeletesEffect, PopulatedDeletesEffect
    <3>2. Kind(o, "delete")
      BY <2>1, <2>3 DEF EmptyDeletes, PopulatedDeletes, Kind
    <3> QED
      BY <2>1, <3>1, <3>2 DEF ByosEffects
  <2> QED
    BY <1>1, <2>2, <2>3 DEF OperationWrites
<1> QED
  BY <1>1, OthersAreQuiet DEF ByosStep, ByosEffects

\* A creation is the only one of its study, and a deletion of a whole study finds it created.
LEMMA OfOneStudy ==
  ASSUME HostedInv, OutcomeInv, NEW o \in Operation, NEW st \in Study, Asked(o, st), NEW p \in Operation, p # o,
         request[p].study = st
  PROVE  /\ Kind(o, "create") => ~Kind(p, "create")
         /\ Kind(o, "delete") => AnotherDeletes(p)
         /\ Kind(o, "create") /\ Kind(p, "delete") => AnotherDeletes(o) /\ (Whole(o) => marker[o] = "created")
  BY DEF OutcomeInv, AskedOnce, MarkersFit, AnotherDeletes, Asked, Kind

\* A deletion that was refused stays refused: its revision or its emptiness is past.
LEMMA RefusedStaysRefused ==
  ASSUME HostedInv, HostedInv', OutcomeInv, ByosEffects, UNCHANGED request, NEW o \in Operation, Kind(o, "delete"), Whole(o), Refusing(o)
  PROVE  Refusing(o)'
<1> DEFINE st == request[o].study
<1>0. st \in Study /\ request'[o] = request[o] /\ request[o] \in RequestRows
  BY DEF Kind, HostedInv, PlatformInv, PlatformShape, RequestRows
<1>1. CASE AnotherDeletes(o)
  BY <1>1 DEF Refusing, AnotherDeletes, Asked, Kind
<1>2. CASE ~AnotherDeletes(o)
  <2>1. /\ study[st] # None /\ marker[o] = None
        /\ ~request[o].populated => index[st] # {}
        /\ request[o].populated => study[st].revision # request[o].expected /\ ~(Tombstoned(o, st) /\ guard[st].populated)
    BY <1>2 DEF Refusing
  <2> SUFFICES /\ study'[st] # None /\ marker'[o] = None
               /\ ~request[o].populated => index'[st] # {}
               /\ request[o].populated => /\ study'[st].revision # request[o].expected
                                          /\ guard'[st] = guard[st] \/ guard'[st] = None \/ guard'[st].by # o
    BY <1>0, <2>1 DEF Refusing, Tombstoned
  <2>2. CASE QuietEffect
    <3>1. study[st].revision \in Nat /\ study'[st] # None /\ study'[st].revision >= study[st].revision
      BY <1>0, <2>1, <2>2, RevisionsAreNumbers DEF QuietEffect, HostedInv, ByosInv
    <3>2. request[o].populated =>
            request[o].expected \in Nat /\ request[o].expected <= study[st].revision /\ study'[st].revision \in Nat
      <4>1. request[o].populated => request[o].expected \in Revision /\ request[o].expected <= study[st].revision
        BY <1>0, <2>1 DEF OutcomeInv, MarkersFit, AskedOnce, RequestRows, Kind
      <4>2. study'[st].revision \in Nat
        BY <1>0, <3>1, RedisAssumption, MaxRevision \in Nat DEF HostedInv, ByosInv, ByosShape, StudyRows, Revision
      <4> QED
        BY <4>1, <4>2, RedisAssumption, MaxRevision \in Nat DEF Revision
    <3> QED
      BY <1>0, <2>1, <2>2, <3>1, <3>2 DEF QuietEffect
  <2>3. ASSUME NEW p \in Operation, NEW s \in Study, Asked(p, s), Kind(p, "create") /\ CreationEffect(p, s)
        PROVE  /\ study'[st] = study[st] /\ marker'[o] = marker[o] /\ index'[st] = index[st]
               /\ guard'[st] = guard[st] \/ guard'[st] = None \/ guard'[st].by # o
    <3>1. p # o
      BY <2>3 DEF Kind
    <3>2. CASE s # st
      BY <1>0, <2>3, <3>1, <3>2 DEF CreationEffect, Touches
    <3>3. CASE s = st
      BY <1>0, <2>1, <2>3, <3>1, <3>3 DEF CreationEffect, Touches
    <3> QED
      BY <3>2, <3>3
  <2>4. ASSUME NEW p \in Operation, NEW s \in Study, Asked(p, s), Kind(p, "delete") /\ DeletionEffect(p, s)
        PROVE  /\ study'[st] = study[st] /\ marker'[o] = marker[o] /\ index'[st] = index[st]
               /\ guard'[st] = guard[st] \/ guard'[st] = None \/ guard'[st].by # o
    <3>1. CASE s # st
      <4>1. p # o
        BY <2>4, <3>1 DEF Asked
      <4> QED
        BY <1>0, <2>4, <3>1, <4>1 DEF DeletionEffect, Touches
    <3>2. CASE s = st
      <4>1. p = o
        BY <1>2, <2>4, <3>2 DEF AnotherDeletes
      <4> QED
        BY <1>2, <2>4, <3>2, <4>1 DEF DeletionEffect
    <3> QED
      BY <3>1, <3>2
  <2> QED
    BY <2>1, <2>2, <2>3, <2>4 DEF ByosEffects
<1> QED
  BY <1>1, <1>2

\* A marker that is written stays, so what was agreed stays agreed.
LEMMA MarkersStay ==
  ASSUME HostedInv, OutcomeInv, ByosEffects, NEW o \in Operation, marker[o] # None
  PROVE  marker'[o] = marker[o]
  BY DEF ByosEffects, QuietEffect, CreationEffect, DeletionEffect, Touches

\* What agrees once with what a mutation did agrees for good.
LEMMA AgreementStays ==
  ASSUME HostedInv, HostedInv', OutcomeInv, ByosEffects, UNCHANGED request, NEW o \in Operation, Whole(o), NEW r, Agrees(o, r)
  PROVE  Agrees(o, r)'
<1>1. None \notin {"created", "cancelled", "deleted"}
  BY NoneIsNoStudyRow DEF Markers
<1>2. marker[o] \in {"created", "cancelled", "deleted"} => marker'[o] = marker[o]
  BY <1>1, MarkersStay
<1>3. CASE r = "delete-rollback"
  BY <1>3, RefusedStaysRefused DEF Agrees, Kind
<1> QED
  BY <1>2, <1>3 DEF Agrees, Kind

\* Guards tell of their own operation, after any effect.
LEMMA GuardsStayFit ==
  ASSUME HostedInv, OutcomeInv, ByosEffects, UNCHANGED request
  PROVE  GuardsFit'
<1> SUFFICES ASSUME NEW s \in Study, guard'[s] # None
             PROVE  /\ guard'[s].by \in Operation /\ Asked(guard'[s].by, s) /\ request[guard'[s].by].kind = guard'[s].kind
                    /\ guard'[s].kind = "delete" => guard'[s].state = "in-flight"
                    /\ guard'[s].state = "cancelled" => marker'[guard'[s].by] = "cancelled"
  BY DEF GuardsFit, Asked
<1>1. CASE guard'[s] = guard[s]
  <2>1. guard[s].state = "cancelled" => marker[guard[s].by] = "cancelled" /\ guard[s].by \in Operation
    BY <1>1 DEF OutcomeInv, GuardsFit
  <2>2. "cancelled" # None
    BY NoneIsNoStudyRow DEF Markers
  <2>3. guard[s].state = "cancelled" => marker'[guard[s].by] = "cancelled"
    BY <2>1, <2>2, MarkersStay
  <2> QED
    BY <1>1, <2>3 DEF OutcomeInv, GuardsFit
<1>2. ASSUME NEW o \in Operation, NEW st \in Study, Asked(o, st), Touches(o, st), guard'[s] # guard[s]
      PROVE  /\ guard'[s].by \in Operation /\ Asked(guard'[s].by, s) /\ request[guard'[s].by].kind = guard'[s].kind
             /\ guard'[s].kind = "delete" => guard'[s].state = "in-flight"
             /\ guard'[s].state = "cancelled" => marker'[guard'[s].by] = "cancelled"
  BY <1>2 DEF Touches
<1> QED
  BY <1>1, <1>2 DEF ByosEffects, QuietEffect, CreationEffect, DeletionEffect

\* Markers tell what became of the study, after any effect.
LEMMA MarkersStayFit ==
  ASSUME HostedInv, HostedInv', OutcomeInv, ByosEffects, UNCHANGED <<request, split>>
  PROVE  MarkersFit'
<1> SUFFICES ASSUME NEW p \in Operation
             PROVE
    /\ request[p] = None => marker'[p] = None
    /\ Kind(p, "create") =>
         /\ marker'[p] # "deleted"
         /\ marker'[p] = "created" => study'[request[p].study] # None \/ AnotherDeletes(p)
         /\ marker'[p] = "cancelled" => study'[request[p].study] = None
         /\ AnotherDeletes(p) /\ Whole(p) => marker'[p] = "created"
    /\ Kind(p, "delete") =>
         /\ marker'[p] \in {None, "deleted"}
         /\ Whole(p) /\ marker'[p] = "deleted" => study'[request[p].study] = None
         /\ Whole(p) /\ request[p].populated /\ study'[request[p].study] # None =>
              request[p].expected <= study'[request[p].study].revision
  BY DEF MarkersFit, AnotherDeletes, Asked, Kind, Whole
<1> DEFINE sp == request[p].study
<1>0. /\ None \notin {"created", "cancelled", "deleted"}
      /\ request[p] # None => sp \in Study /\ request[p] \in RequestRows
  BY NoneIsNoStudyRow DEF Markers, HostedInv, PlatformInv, PlatformShape, RequestRows
<1>1. /\ request[p] = None => marker[p] = None
      /\ Kind(p, "create") =>
           /\ marker[p] # "deleted"
           /\ marker[p] = "created" => study[sp] # None \/ AnotherDeletes(p)
           /\ marker[p] = "cancelled" => study[sp] = None
           /\ AnotherDeletes(p) /\ Whole(p) => marker[p] = "created"
      /\ Kind(p, "delete") =>
           /\ marker[p] \in {None, "deleted"}
           /\ Whole(p) /\ marker[p] = "deleted" => study[sp] = None
           /\ Whole(p) /\ request[p].populated /\ study[sp] # None => request[p].expected <= study[sp].revision
  BY DEF OutcomeInv, MarkersFit
<1>2. CASE QuietEffect
  <2>1. request[p] # None => (study'[sp] = None <=> study[sp] = None)
    BY <1>0, <1>2 DEF QuietEffect
  <2>2. Kind(p, "delete") /\ Whole(p) /\ request[p].populated /\ study'[sp] # None => request[p].expected <= study'[sp].revision
    <3> SUFFICES ASSUME Kind(p, "delete"), Whole(p), request[p].populated, study'[sp] # None
                 PROVE  request[p].expected <= study'[sp].revision
      OBVIOUS
    <3>1. sp \in Study /\ study[sp] # None /\ request[p].expected \in Revision
      BY <1>0, <2>1 DEF Kind, OutcomeInv, AskedOnce, RequestRows
    <3>2. study[sp].revision \in Nat /\ study'[sp].revision \in Nat /\ study'[sp].revision >= study[sp].revision
      <4>1. study'[sp].revision \in Nat
        BY <1>2, <3>1, RedisAssumption, MaxRevision \in Nat DEF QuietEffect, HostedInv, ByosInv, ByosShape, StudyRows, Revision
      <4> QED
        BY <1>2, <3>1, <4>1, RevisionsAreNumbers DEF QuietEffect, HostedInv, ByosInv
    <3> QED
      BY <1>1, <3>1, <3>2, RedisAssumption, MaxRevision \in Nat DEF Revision
  <2> QED
    BY <1>1, <1>2, <2>1, <2>2 DEF QuietEffect, Kind
<1>3. ASSUME NEW o \in Operation, NEW st \in Study, Asked(o, st), Kind(o, "create"), CreationEffect(o, st)
      PROVE  /\ request[p] = None => marker'[p] = None
             /\ Kind(p, "create") =>
                  /\ marker'[p] # "deleted"
                  /\ marker'[p] = "created" => study'[sp] # None \/ AnotherDeletes(p)
                  /\ marker'[p] = "cancelled" => study'[sp] = None
                  /\ AnotherDeletes(p) /\ Whole(p) => marker'[p] = "created"
             /\ Kind(p, "delete") =>
                  /\ marker'[p] \in {None, "deleted"}
                  /\ Whole(p) /\ marker'[p] = "deleted" => study'[sp] = None
                  /\ Whole(p) /\ request[p].populated /\ study'[sp] # None => request[p].expected <= study'[sp].revision
  <2>1. CASE p = o
    <3>1. sp = st
      BY <1>3, <2>1 DEF Asked
    <3>2. ~Kind(p, "delete") /\ request[p] # None
      BY <1>3, <2>1 DEF Kind
    <3>3. marker'[p] \in {None, "created", "cancelled"} /\ (marker'[p] = "cancelled" => study'[sp] = None)
          /\ (marker'[p] = "created" => marker[p] = "created" \/ study'[sp] # None)
          /\ (marker[p] # None => marker'[p] = marker[p])
          /\ (study[sp] # None => study'[sp] # None)
      BY <1>3, <2>1, <3>1 DEF CreationEffect, Touches
    <3> QED
      BY <1>0, <1>1, <1>3, <2>1, <3>2, <3>3
  <2>2. CASE p # o /\ sp # st
    <3>1. marker'[p] = marker[p] /\ (request[p] # None => study'[sp] = study[sp])
      BY <1>0, <1>3, <2>2 DEF CreationEffect, Touches
    <3> QED
      BY <1>1, <3>1 DEF Kind
  <2>3. CASE p # o /\ sp = st
    <3>1. marker'[p] = marker[p] /\ ~Kind(p, "create")
      BY <1>3, <2>3, OfOneStudy DEF CreationEffect, Touches
    <3>2. Kind(p, "delete") /\ Whole(p) => study'[sp] = study[sp]
      <4>1. Kind(p, "delete") /\ Whole(p) => marker[o] = "created"
        BY <1>3, <2>3, OfOneStudy DEF Whole, Asked
      <4> QED
        BY <1>0, <1>3, <2>3, <4>1 DEF CreationEffect
    <3> QED
      BY <1>1, <3>1, <3>2
  <2> QED
    BY <2>1, <2>2, <2>3
<1>4. ASSUME NEW o \in Operation, NEW st \in Study, Asked(o, st), Kind(o, "delete"), DeletionEffect(o, st)
      PROVE  /\ request[p] = None => marker'[p] = None
             /\ Kind(p, "create") =>
                  /\ marker'[p] # "deleted"
                  /\ marker'[p] = "created" => study'[sp] # None \/ AnotherDeletes(p)
                  /\ marker'[p] = "cancelled" => study'[sp] = None
                  /\ AnotherDeletes(p) /\ Whole(p) => marker'[p] = "created"
             /\ Kind(p, "delete") =>
                  /\ marker'[p] \in {None, "deleted"}
                  /\ Whole(p) /\ marker'[p] = "deleted" => study'[sp] = None
                  /\ Whole(p) /\ request[p].populated /\ study'[sp] # None => request[p].expected <= study'[sp].revision
  <2>1. CASE sp # st
    <3>1. p # o
      BY <1>4, <2>1 DEF Asked
    <3>2. marker'[p] = marker[p] /\ (request[p] # None => study'[sp] = study[sp])
      BY <1>0, <1>4, <2>1, <3>1 DEF DeletionEffect, Touches
    <3> QED
      BY <1>1, <3>2 DEF Kind
  <2>2. CASE sp = st /\ p # o
    <3>1. marker'[p] = marker[p] /\ AnotherDeletes(p) /\ study'[sp] \in {study[sp], None}
      BY <1>4, <2>2, OfOneStudy DEF DeletionEffect, Touches
    <3> QED
      BY <1>1, <3>1
  <2>3. CASE p = o
    <3>1. sp = st /\ ~Kind(p, "create") /\ request[p] # None
      BY <1>4, <2>3 DEF Asked, Kind
    <3>2. marker'[p] \in {None, "deleted"} /\ study'[sp] \in {study[sp], None}
          /\ (marker'[p] = "deleted" => marker[p] = "deleted" \/ study'[sp] = None)
      BY <1>4, <2>3, <3>1 DEF DeletionEffect
    <3> QED
      BY <1>1, <3>1, <3>2
  <2> QED
    BY <2>1, <2>2, <2>3
<1> QED
  BY <1>2, <1>3, <1>4 DEF ByosEffects

\* Steps that write in the researcher's Redis.
LEMMA WritesKeepOutcomes ==
  ASSUME HostedInv, HostedInv', OutcomeInv, ByosStep, UNCHANGED <<platform, history>>, sent' \subseteq sent,
         \A o \in Operation : call'[o] = "begun" => call[o] = "begun",
         \A o \in Operation, r \in Resolutions :
           call'[o] \in {"applied", "refused"} /\ call'[o] # call[o] /\ Whole(o) /\ r = Resolution(request[o].kind, call'[o] = "applied")
             => Agrees(o, r)',
         \A st \in Study \ split, o \in Operation, r \in Resolutions :
           reconciler'[st] # None /\ reconciler'[st].next = "resolve" /\ reconciler'[st] # reconciler[st]
             /\ reconciler'[st].by = o /\ reconciler'[st].resolution = r => Agrees(o, r)'
  PROVE  OutcomeInv'
<1>0. ByosEffects /\ UNCHANGED <<request, op, owner, listed, outcome, split>>
  BY StepsHaveEffects DEF platform, history
<1>1. \A o \in Operation, r \in Resolutions : Whole(o) /\ Agrees(o, r) => Agrees(o, r)'
  BY <1>0, AgreementStays
<1>2. AskedOnce' /\ ResolvingWasCut'
  BY <1>0 DEF OutcomeInv, AskedOnce, ResolvingWasCut, Kind
<1>3. MarkersFit' /\ GuardsFit'
  BY <1>0, MarkersStayFit, GuardsStayFit
<1>4. RecordClaims'
  BY <1>0, <1>1 DEF OutcomeInv, RecordClaims, Whole
<1>5. RouteClaims'
  <2> SUFFICES ASSUME NEW o \in Operation, NEW r \in Resolutions, call'[o] \in {"applied", "refused"}, Whole(o),
                      r = Resolution(request[o].kind, call'[o] = "applied")
               PROVE  Agrees(o, r)'
    BY <1>0 DEF RouteClaims, Whole
  <2>1. CASE call'[o] = call[o]
    BY <1>1, <2>1 DEF OutcomeInv, RouteClaims
  <2> QED
    BY <2>1
<1>6. ReconcilerClaims'
  <2> SUFFICES ASSUME NEW st \in Study \ split, NEW o \in Operation, NEW r \in Resolutions, reconciler'[st] # None,
                      reconciler'[st].next = "resolve", reconciler'[st].by = o, reconciler'[st].resolution = r
               PROVE  Agrees(o, r)'
    BY <1>0 DEF ReconcilerClaims
  <2>1. CASE reconciler'[st] = reconciler[st]
    <3>1. Whole(o)
      BY <2>1 DEF HostedInv, PlatformInv, RepairsAreAsked, Asked, Whole
    <3> QED
      BY <1>1, <2>1, <3>1 DEF OutcomeInv, ReconcilerClaims
  <2> QED
    BY <2>1
<1>7. Routed'
  <2>1. ASSUME NEW s \in Study \ split, study'[s] # None
        PROVE  s \in owner /\ s \in listed
    <3>1. CASE study[s] # None
      BY <3>1 DEF OutcomeInv, Routed
    <3>2. CASE study[s] = None
      <4>1. PICK o \in Operation : Asked(o, s) /\ Kind(o, "create") /\ marker[o] = None /\ o \in sent
        BY <1>0, <2>1, <3>2 DEF ByosEffects, QuietEffect, CreationEffect, DeletionEffect, Touches
      <4> QED
        BY <4>1 DEF OutcomeInv, Routed, Asked, Whole
    <3> QED
      BY <3>1, <3>2
  <2>2. ASSUME NEW o \in Operation, Kind(o, "create"), o \in sent' \/ call'[o] = "begun", marker'[o] = None, Whole(o)
        PROVE  request[o].study \in owner /\ request[o].study \in listed
    <3>1. marker[o] = None
      BY <1>0, <2>2, MarkersStay
    <3> QED
      BY <2>2, <3>1 DEF OutcomeInv, Routed
  <2> QED
    BY <1>0, <2>1, <2>2 DEF OutcomeInv, Routed, Kind, Whole, Own
<1> QED
  BY <1>2, <1>3, <1>4, <1>5, <1>6, <1>7 DEF OutcomeInv

\* What a creation answers agrees with its marker.
LEMMA CreateAnswersAgree ==
  ASSUME HostedInv, OutcomeInv, NEW o \in Operation, NEW st \in Study, Asked(o, st), Kind(o, "create"), Whole(o),
         CreateScript(o, st, 2), UNCHANGED request
  PROVE  /\ Verdict(CreateAnswer(o, st)) = "applied" => Agrees(o, "create-complete")'
         /\ Verdict(CreateAnswer(o, st)) = "refused" => Agrees(o, "create-rollback")'
<1> DEFINE a == CreateAnswer(o, st)
<1>0. marker[o] \in {None, "created", "cancelled"} /\ None \notin {"created", "cancelled", "deleted"}
  BY NoneIsNoStudyRow DEF HostedInv, ByosInv, ByosShape, OutcomeInv, MarkersFit, Markers
<1>1. a = "applied" => marker'[o] = "created"
  <2>1. a = "applied" /\ marker[o] = None => marker'[o] = "created"
    BY DEF CreateScript, HostedInv, ByosInv, ByosShape
  <2>2. a = "applied" /\ marker[o] # None => marker[o] = "created" /\ marker' = marker
    BY <1>0 DEF CreateAnswer, CreateScript
  <2> QED
    BY <2>1, <2>2
<1>2. a = "refused" => marker'[o] = "cancelled"
  <2>1. a = "refused" => marker' = marker
    BY DEF CreateScript
  <2>2. a = "refused" => marker[o] = "cancelled" \/ (guard[st] # None /\ (guard[st].state \in {"cancelled", "deleted"} \/ guard[st].kind = "delete"))
    BY <1>0 DEF CreateAnswer, GuardRefuses
  <2>3. guard[st] # None => guard[st].state # "deleted"
    BY DEF HostedInv, ByosInv, ByosShape, GuardRows
  <2>4. ASSUME guard[st] # None, guard[st].kind = "delete"
        PROVE  marker[o] = "created"
    <3>1. guard[st].by \in Operation /\ Asked(guard[st].by, st) /\ Kind(guard[st].by, "delete")
      BY <2>4 DEF OutcomeInv, GuardsFit, Asked, Kind
    <3>2. guard[st].by # o
      BY <3>1 DEF Kind
    <3> QED
      BY <3>1, <3>2, OfOneStudy DEF Asked
  <2>5. ASSUME guard[st] # None, guard[st].state = "cancelled"
        PROVE  marker[o] = "cancelled"
    <3>1. guard[st].by \in Operation /\ Asked(guard[st].by, st) /\ Kind(guard[st].by, "create") /\ marker[guard[st].by] = "cancelled"
      BY <2>5 DEF OutcomeInv, GuardsFit, Asked, Kind, HostedInv, ByosInv, ByosShape, GuardRows
    <3>2. guard[st].by = o
      BY <3>1, OfOneStudy DEF Asked
    <3> QED
      BY <3>1, <3>2
  <2>6. a = "refused" => marker[o] # "created"
    BY <1>0 DEF CreateAnswer, GuardRefuses
  <2> QED
    BY <2>1, <2>2, <2>3, <2>4, <2>5, <2>6
<1>3. a \in {"applied", "refused", "unavailable"}
  BY DEF CreateAnswer
<1> HIDE DEF a
<1>4. (Verdict(a) = "applied" => a = "applied") /\ (Verdict(a) = "refused" => a = "refused")
  BY <1>3 DEF Verdict
<1> QED
  BY <1>1, <1>2, <1>4 DEF a, Agrees, Kind

\* What the reconciler settled of a creation agrees with the marker it wrote.
LEMMA SettleAnswersAgree ==
  ASSUME HostedInv, OutcomeInv, NEW o \in Operation, NEW st \in Study, Asked(o, st), Kind(o, "create"), Settles(o, st),
         UNCHANGED request
  PROVE  IF marker[o] = "created" \/ study[st] # None THEN Agrees(o, "create-complete")' ELSE Agrees(o, "create-rollback")'
  BY SettlesEffect DEF Agrees, Kind

\* What a deletion answers agrees with its marker, or it is refused for good.
LEMMA EmptyDeleteAnswersAgree ==
  ASSUME HostedInv, OutcomeInv, NEW o \in Operation, NEW st \in Study, Asked(o, st), Kind(o, "delete"), ~request[o].populated,
         EmptyDeleteScript(o, st, request[o].expected, 6), UNCHANGED request
  PROVE  LET a == EmptyDeleteAnswer(o, st, request[o].expected) IN
         /\ Verdict(a) = "applied" => Agrees(o, "delete-complete")'
         /\ Verdict(a) = "refused" => Agrees(o, "delete-rollback")'
<1> DEFINE a == EmptyDeleteAnswer(o, st, request[o].expected)
           begins == EmptyDeleteBegins(o, st, request[o].expected)
<1>0. /\ marker[o] \in {None, "deleted"} /\ None \notin {"deleted", "cancelled"} /\ request[o].study = st
      /\ request[o].expected = None
  BY DeletionsAreAsked, NoneIsNoStudyRow DEF Kind, Markers
<1>1. a = "deleted" => marker'[o] = "deleted"
  <2>1. CASE marker[o] = "deleted"
    <3>1. ~begins
      BY <2>1 DEF EmptyDeleteBegins
    <3> QED
      BY <2>1, <3>1 DEF EmptyDeleteScript
  <2>2. CASE marker[o] = None
    <3>1. a = "deleted" => begins /\ ~(auxiliary[st] > 1)
      BY <1>0, <2>2 DEF EmptyDeleteAnswer, EmptyDeleteBegins
    <3>2. begins /\ ~(auxiliary[st] > 1) => marker' = [marker EXCEPT ![o] = "deleted"]
      <4>1. auxiliary[st] \in Nat
        BY DEF HostedInv, ByosInv, ByosShape
      <4> QED
        BY <4>1 DEF EmptyDeleteScript
    <3> QED
      BY <3>1, <3>2 DEF HostedInv, ByosInv, ByosShape
  <2> QED
    BY <1>0, <2>1, <2>2
<1>2. a = "conflict" => marker[o] = None /\ ~begins /\ index[st] # {}
  <2>1. a = "conflict" => marker[o] = None /\ NonePersisting(st) /\ ~begins
    BY <1>0 DEF EmptyDeleteAnswer
  <2> QED
    BY <1>0, <2>1 DEF EmptyDeleteBegins, StaleRevision
<1>3. a = "conflict" => Refusing(o)'
  <2> SUFFICES ASSUME a = "conflict"
               PROVE  Refusing(o)'
    OBVIOUS
  <2>1. UNCHANGED <<study, marker, index>>
    BY <1>2 DEF EmptyDeleteScript, interviewRows
  <2>2. study[st] # None
    BY <1>2 DEF HostedInv, ByosInv, NothingOutlivesItsStudy
  <2> QED
    BY <1>0, <1>2, <2>1, <2>2 DEF Refusing
<1>4. a \in {"deleted", "still-pending", "conflict"}
  BY <1>0 DEF EmptyDeleteAnswer
<1> HIDE DEF a
<1>5. (Verdict(a) = "applied" => a = "deleted") /\ (Verdict(a) = "refused" => a = "conflict")
  BY <1>4 DEF Verdict
<1>6. (Verdict(a) = "applied" => Agrees(o, "delete-complete")') /\ (Verdict(a) = "refused" => Agrees(o, "delete-rollback")')
  BY <1>1, <1>3, <1>5 DEF Agrees, Kind
<1> QED
  BY <1>6 DEF a

\* The answer of the last script of a deletion with the interviews is what it did.
LEMMA PopulatedDeleteAnswersAgree ==
  ASSUME HostedInv, OutcomeInv, NEW o \in Operation, NEW st \in Study, Asked(o, st), Kind(o, "delete"), request[o].populated,
         NEW ids \in Batches(st), PopulatedDeleteScript(o, st, request[o].expected, ids, 3), UNCHANGED request
  PROVE  LET a == PopulatedDeleteAnswer(o, st, request[o].expected, ids) IN
         /\ Verdict(a) = "applied" => Agrees(o, "delete-complete")'
         /\ Verdict(a) = "refused" => Agrees(o, "delete-rollback")'
<1> DEFINE a == PopulatedDeleteAnswer(o, st, request[o].expected, ids)
           begins == PopulatedDeleteBegins(o, st, request[o].expected)
<1>0. /\ marker[o] \in {None, "deleted"} /\ None \notin {"deleted", "cancelled"} /\ request[o].study = st
      /\ request[o].expected # None
  BY DeletionsAreAsked, NoneIsNoStudyRow DEF Kind, Markers
<1>1. a = "deleted" => marker'[o] = "deleted"
  <2>1. CASE marker[o] = "deleted"
    <3>1. ~begins
      BY <2>1 DEF PopulatedDeleteBegins
    <3> QED
      BY <2>1, <3>1 DEF PopulatedDeleteScript
  <2>2. CASE marker[o] = None
    <3>1. a = "deleted" => begins /\ LastPass(st, ids)
      BY <1>0, <2>2 DEF PopulatedDeleteAnswer, PopulatedDeleteBegins
    <3>2. begins /\ LastPass(st, ids) => marker' = [marker EXCEPT ![o] = "deleted"]
      BY DEF PopulatedDeleteScript
    <3> QED
      BY <3>1, <3>2 DEF HostedInv, ByosInv, ByosShape
  <2> QED
    BY <1>0, <2>1, <2>2
<1>2. a = "conflict" => /\ marker[o] = None /\ ~begins
                        /\ StaleRevision(st, request[o].expected) /\ ~(Tombstoned(o, st) /\ guard[st].populated)
  <2>1. a = "conflict" => /\ marker[o] = None /\ NonePersisting(st) /\ ~begins
                          /\ guard[st] # None => (guard[st].state = "created" \/ Tombstoned(o, st))
    BY <1>0 DEF PopulatedDeleteAnswer
  <2> QED
    BY <1>0, <2>1 DEF PopulatedDeleteBegins
<1>3. a = "conflict" => Refusing(o)'
  <2> SUFFICES ASSUME a = "conflict"
               PROVE  Refusing(o)'
    OBVIOUS
  <2>1. UNCHANGED <<study, marker, guard>>
    BY <1>2 DEF PopulatedDeleteScript
  <2>2. study[st] # None /\ study[st].revision # request[o].expected
    BY <1>2 DEF StaleRevision
  <2> QED
    BY <1>0, <1>2, <2>1, <2>2 DEF Refusing, Tombstoned
<1>4. a \in {"deleted", "still-pending", "conflict"}
  BY <1>0 DEF PopulatedDeleteAnswer
<1> HIDE DEF a
<1>5. (Verdict(a) = "applied" => a = "deleted") /\ (Verdict(a) = "refused" => a = "conflict")
  BY <1>4 DEF Verdict
<1>6. (Verdict(a) = "applied" => Agrees(o, "delete-complete")') /\ (Verdict(a) = "refused" => Agrees(o, "delete-rollback")')
  BY <1>1, <1>3, <1>5 DEF Agrees, Kind
<1> QED
  BY <1>6 DEF a

\* A route that hears its mutation's answer claims what its study's rows say.
LEMMA DeliveryKeepsOutcomes ==
  ASSUME HostedInv, HostedInv', OutcomeInv, ByosStep, NEW o \in Operation, NEW answer, NEW whole \in BOOLEAN,
         Deliver(o, answer, whole),
         whole /\ Whole(o) =>
           \A r \in Resolutions :
             /\ Verdict(answer) = "applied" /\ r = Resolution(request[o].kind, TRUE) => Agrees(o, r)'
             /\ Verdict(answer) = "refused" /\ r = Resolution(request[o].kind, FALSE) => Agrees(o, r)'
  PROVE  OutcomeInv'
<1>1. /\ call'[o] = IF call[o] = "waiting" THEN (IF whole THEN Verdict(answer) ELSE "gone") ELSE call[o]
      /\ \A p \in Operation \ {o} : call'[p] = call[p]
      /\ UNCHANGED <<platform, history, reconciler>> /\ sent' \subseteq sent
  BY DEF Deliver, HostedInv, PlatformInv, PlatformShape
<1>2. Verdict(answer) \in {"applied", "refused", "gone"}
  BY DEF Verdict
<1>3. \A p \in Operation : call'[p] = "begun" => call[p] = "begun"
  BY <1>1, <1>2
<1>4. ASSUME NEW p \in Operation, NEW r \in Resolutions, call'[p] \in {"applied", "refused"}, call'[p] # call[p], Whole(p),
             r = Resolution(request[p].kind, call'[p] = "applied")
      PROVE  Agrees(p, r)'
  <2>1. p = o /\ whole /\ call'[o] = Verdict(answer)
    BY <1>1, <1>4
  <2>2. CASE Verdict(answer) = "applied"
    <3>1. (call'[p] = "applied") = TRUE
      BY <2>1, <2>2
    <3>2. r = Resolution(request[o].kind, TRUE)
      BY <1>4, <2>1, <3>1
    <3>3. whole /\ Whole(o)
      BY <1>4, <2>1
    <3> QED
      BY <2>1, <2>2, <3>2, <3>3
  <2>3. CASE Verdict(answer) = "refused"
    <3>1. (call'[p] = "applied") = FALSE
      BY <2>1, <2>3
    <3>2. r = Resolution(request[o].kind, FALSE)
      BY <1>4, <2>1, <3>1
    <3>3. whole /\ Whole(o)
      BY <1>4, <2>1
    <3> QED
      BY <2>1, <2>3, <3>2, <3>3
  <2> QED
    BY <1>4, <2>1, <2>2, <2>3
<1> QED
  BY <1>1, <1>3, <1>4, WritesKeepOutcomes

\* A mutation that is delivered, of any kind.
LEMMA MutationsKeepOutcomes ==
  ASSUME HostedInv, HostedInv', OutcomeInv, ByosStep, NEW o \in Operation,
         \/ \E k \in 1..2 : MutateCreate(o, k)
         \/ \E k \in 1..6 : MutateEmptyDelete(o, k)
         \/ \E k \in 1..3, ids \in SUBSET Interview : MutatePopulatedDelete(o, ids, k)
  PROVE  OutcomeInv'
<1> DEFINE st == request[o].study
<1>0. st \in Study /\ Asked(o, st) /\ UNCHANGED request
  BY SentIsAsked DEF HostedInv, MutateCreate, MutateEmptyDelete, MutatePopulatedDelete, Deliver, platform
<1>1. ASSUME NEW k \in 1..2, MutateCreate(o, k)
      PROVE  OutcomeInv'
  <2>1. Kind(o, "create") /\ (k = 2) \in BOOLEAN /\ Deliver(o, CreateAnswer(o, st), k = 2) /\ CreateScript(o, st, k)
    BY <1>0, <1>1 DEF MutateCreate, Asked, Kind
  <2>2. Resolution(request[o].kind, TRUE) = "create-complete" /\ Resolution(request[o].kind, FALSE) = "create-rollback"
    BY <2>1 DEF Resolution, Kind
  <2>3. k = 2 /\ Whole(o) => /\ Verdict(CreateAnswer(o, st)) = "applied" => Agrees(o, "create-complete")'
                             /\ Verdict(CreateAnswer(o, st)) = "refused" => Agrees(o, "create-rollback")'
    BY <1>0, <2>1, CreateAnswersAgree
  <2> HIDE DEF st
  <2> QED
    BY ZenonT(60), <2>1, <2>2, <2>3, DeliveryKeepsOutcomes
<1>2. ASSUME NEW k \in 1..6, MutateEmptyDelete(o, k)
      PROVE  OutcomeInv'
  <2> DEFINE a == EmptyDeleteAnswer(o, st, request[o].expected)
  <2>1. Kind(o, "delete") /\ ~request[o].populated /\ (k = 6) \in BOOLEAN /\ Deliver(o, a, k = 6)
        /\ EmptyDeleteScript(o, st, request[o].expected, k)
    BY <1>0, <1>2 DEF MutateEmptyDelete, Asked, Kind
  <2>2. Resolution(request[o].kind, TRUE) = "delete-complete" /\ Resolution(request[o].kind, FALSE) = "delete-rollback"
    BY <2>1 DEF Resolution, Kind
  <2>3. k = 6 => /\ Verdict(a) = "applied" => Agrees(o, "delete-complete")'
                 /\ Verdict(a) = "refused" => Agrees(o, "delete-rollback")'
    BY <1>0, <2>1, EmptyDeleteAnswersAgree
  <2> HIDE DEF st, a
  <2> QED
    BY ZenonT(60), <2>1, <2>2, <2>3, DeliveryKeepsOutcomes
<1>3. ASSUME NEW k \in 1..3, NEW ids \in SUBSET Interview, MutatePopulatedDelete(o, ids, k)
      PROVE  OutcomeInv'
  <2> DEFINE a == PopulatedDeleteAnswer(o, st, request[o].expected, ids)
  <2>1. Kind(o, "delete") /\ request[o].populated /\ ids \in Batches(st) /\ (k = 3) \in BOOLEAN /\ Deliver(o, a, k = 3)
        /\ PopulatedDeleteScript(o, st, request[o].expected, ids, k)
    BY <1>0, <1>3 DEF MutatePopulatedDelete, Asked, Kind
  <2>2. Resolution(request[o].kind, TRUE) = "delete-complete" /\ Resolution(request[o].kind, FALSE) = "delete-rollback"
    BY <2>1 DEF Resolution, Kind
  <2>3. k = 3 => /\ Verdict(a) = "applied" => Agrees(o, "delete-complete")'
                 /\ Verdict(a) = "refused" => Agrees(o, "delete-rollback")'
    BY <1>0, <2>1, PopulatedDeleteAnswersAgree
  <2> HIDE DEF st, a
  <2> QED
    BY ZenonT(60), <2>1, <2>2, <2>3, DeliveryKeepsOutcomes
<1> QED
  BY <1>1, <1>2, <1>3

\* The reconciler that hears an answer claims what the study's rows say.
LEMMA ContinuingKeepsOutcomes ==
  ASSUME HostedInv, HostedInv', OutcomeInv, ByosStep, NEW st \in Study, NEW o \in Operation, reconciler[st] # None,
         reconciler[st].by = o, NEW answer, Continue(st, answer), UNCHANGED <<platform, routes, history>>,
         st \notin split => /\ Verdict(answer) = "applied" => Agrees(o, Resolution(request[o].kind, TRUE))'
                            /\ Verdict(answer) = "refused" => Agrees(o, Resolution(request[o].kind, FALSE))',
         UNCHANGED request
  PROVE  OutcomeInv'
<1> DEFINE w == reconciler[st]
           applied == Verdict(answer) = "applied"
           resolution == Resolution(request[o].kind, applied)
           next == [w EXCEPT !.next = "resolve", !.at = "repair", !.resolution = resolution]
<1>1. w \in WorkRows
  BY DEF HostedInv, PlatformInv, PlatformShape
<1>2. reconciler' = [reconciler EXCEPT ![st] = IF Verdict(answer) = "gone" THEN None ELSE next]
  BY DEF Continue
<1>3. next.by = o /\ next.resolution = resolution
  <2> HIDE DEF resolution
  <2> QED
    BY <1>1 DEF WorkRows
<1> HIDE DEF next
<1>4. /\ reconciler'[st] = (IF Verdict(answer) = "gone" THEN None ELSE next)
      /\ \A s \in Study \ {st} : reconciler'[s] = reconciler[s]
  BY <1>2 DEF HostedInv, PlatformInv, PlatformShape
<1>5. Verdict(answer) \in {"applied", "refused", "gone"}
  BY DEF Verdict
<1>6. ASSUME NEW s \in Study \ split, NEW p \in Operation, NEW r \in Resolutions, reconciler'[s] # None,
             reconciler'[s].next = "resolve", reconciler'[s] # reconciler[s], reconciler'[s].by = p, reconciler'[s].resolution = r
      PROVE  Agrees(p, r)'
  <2>1. s = st /\ reconciler'[st] = next /\ p = o /\ r = resolution /\ Verdict(answer) \in {"applied", "refused"}
    BY <1>3, <1>4, <1>5, <1>6
  <2>2. CASE Verdict(answer) = "applied"
    <3>1. applied = TRUE
      BY <2>2
    <3>2. Agrees(o, Resolution(request[o].kind, TRUE))'
      BY <1>6, <2>1, <2>2
    <3> QED
      BY <2>1, <3>1, <3>2
  <2>3. CASE Verdict(answer) = "refused"
    <3>1. applied = FALSE
      BY <2>3
    <3>2. Agrees(o, Resolution(request[o].kind, FALSE))'
      BY <1>6, <2>1, <2>3
    <3> QED
      BY <2>1, <3>1, <3>2
  <2> QED
    BY <2>1, <2>2, <2>3
<1>7. UNCHANGED <<platform, history, call, sent>>
  BY DEF routes
<1> QED
  BY <1>6, <1>7, WritesKeepOutcomes

\* The reconciler's own mutations.
LEMMA RepairsKeepOutcomes ==
  ASSUME HostedInv, HostedInv', OutcomeInv, ByosStep, NEW st \in Study,
         \/ Settle(st)
         \/ \E i \in Interview, k \in 1..4 : FinishMember(st, i, k)
         \/ \E k \in 1..6 : RepairEmptyDelete(st, k)
         \/ \E k \in 1..3, ids \in SUBSET Interview : RepairPopulatedDelete(st, ids, k)
  PROVE  OutcomeInv'
<1>0. reconciler[st] # None /\ reconciler[st].by \in Operation /\ Asked(reconciler[st].by, st)
  <2>1. reconciler[st] # None
    BY DEF Settle, FinishMember, RepairEmptyDelete, RepairPopulatedDelete
  <2> QED
    BY <2>1 DEF HostedInv, PlatformInv, PlatformShape, RepairsAreAsked, WorkRows
<1>1. PICK o \in Operation : o = reconciler[st].by
  BY <1>0
<1>2. Asked(o, st) /\ UNCHANGED request
  BY <1>0, <1>1 DEF Settle, FinishMember, RepairEmptyDelete, RepairPopulatedDelete, platform
<1>3. CASE Settle(st)
  <2> DEFINE a == IF marker[o] = "created" \/ study[st] # None THEN "applied" ELSE "cancelled"
  <2>1. Kind(o, "create") /\ Settles(o, st) /\ Continue(st, a) /\ UNCHANGED <<platform, routes, history>>
    BY <1>1, <1>2, <1>3 DEF Settle, Settles, Asked, Kind, HostedInv, PlatformInv, RepairsAreAsked
  <2>2. Resolution(request[o].kind, TRUE) = "create-complete" /\ Resolution(request[o].kind, FALSE) = "create-rollback"
    BY <2>1 DEF Resolution, Kind
  <2>3. IF marker[o] = "created" \/ study[st] # None THEN Agrees(o, "create-complete")' ELSE Agrees(o, "create-rollback")'
    BY <1>2, <2>1, SettleAnswersAgree
  <2>4. /\ Verdict(a) = "applied" => Agrees(o, "create-complete")'
        /\ Verdict(a) = "refused" => Agrees(o, "create-rollback")'
    BY <2>3 DEF Verdict
  <2>5. Agrees(o, Resolution(request[o].kind, TRUE))' = Agrees(o, "create-complete")'
        /\ Agrees(o, Resolution(request[o].kind, FALSE))' = Agrees(o, "create-rollback")'
    BY <1>2, <2>2 DEF Agrees, Kind
  <2> HIDE DEF a
  <2> QED
    BY <1>0, <1>1, <1>2, <2>1, <2>4, <2>5, ContinuingKeepsOutcomes
<1>4. ASSUME NEW k \in 1..6, RepairEmptyDelete(st, k)
      PROVE  OutcomeInv'
  <2> DEFINE d == EmptyDeleteAnswer(o, st, request[o].expected)
             a == IF k = 6 THEN d ELSE "ambiguous"
  <2>1. Kind(o, "delete") /\ ~request[o].populated /\ EmptyDeleteScript(o, st, request[o].expected, k) /\ Continue(st, a)
        /\ UNCHANGED <<platform, routes, history>>
    BY <1>1, <1>2, <1>4 DEF RepairEmptyDelete, Asked, Kind, HostedInv, PlatformInv, RepairsAreAsked
  <2>2. Resolution(request[o].kind, TRUE) = "delete-complete" /\ Resolution(request[o].kind, FALSE) = "delete-rollback"
    BY <2>1 DEF Resolution, Kind
  <2>3. k = 6 => /\ Verdict(d) = "applied" => Agrees(o, "delete-complete")'
                 /\ Verdict(d) = "refused" => Agrees(o, "delete-rollback")'
    BY <1>2, <2>1, EmptyDeleteAnswersAgree
  <2>4. /\ Verdict(a) = "applied" => Agrees(o, "delete-complete")'
        /\ Verdict(a) = "refused" => Agrees(o, "delete-rollback")'
    <3> HIDE DEF d
    <3> QED
      BY <2>3 DEF Verdict
  <2>5. Agrees(o, Resolution(request[o].kind, TRUE))' = Agrees(o, "delete-complete")'
        /\ Agrees(o, Resolution(request[o].kind, FALSE))' = Agrees(o, "delete-rollback")'
    BY <1>2, <2>2 DEF Agrees, Refusing, AnotherDeletes, Kind
  <2> HIDE DEF a
  <2> QED
    BY <1>0, <1>1, <1>2, <2>1, <2>4, <2>5, ContinuingKeepsOutcomes
<1>5. ASSUME NEW k \in 1..3, NEW ids \in SUBSET Interview, RepairPopulatedDelete(st, ids, k)
      PROVE  OutcomeInv'
  <2> DEFINE d == PopulatedDeleteAnswer(o, st, request[o].expected, ids)
             a == IF k = 3 THEN d ELSE "ambiguous"
  <2>1. Kind(o, "delete") /\ request[o].populated /\ ids \in Batches(st)
        /\ PopulatedDeleteScript(o, st, request[o].expected, ids, k) /\ Continue(st, a) /\ UNCHANGED <<platform, routes, history>>
    BY <1>1, <1>2, <1>5 DEF RepairPopulatedDelete, Asked, Kind, HostedInv, PlatformInv, RepairsAreAsked
  <2>2. Resolution(request[o].kind, TRUE) = "delete-complete" /\ Resolution(request[o].kind, FALSE) = "delete-rollback"
    BY <2>1 DEF Resolution, Kind
  <2>3. k = 3 => /\ Verdict(d) = "applied" => Agrees(o, "delete-complete")'
                 /\ Verdict(d) = "refused" => Agrees(o, "delete-rollback")'
    BY <1>2, <2>1, PopulatedDeleteAnswersAgree
  <2>4. /\ Verdict(a) = "applied" => Agrees(o, "delete-complete")'
        /\ Verdict(a) = "refused" => Agrees(o, "delete-rollback")'
    <3> HIDE DEF d
    <3> QED
      BY <2>3 DEF Verdict
  <2>5. Agrees(o, Resolution(request[o].kind, TRUE))' = Agrees(o, "delete-complete")'
        /\ Agrees(o, Resolution(request[o].kind, FALSE))' = Agrees(o, "delete-rollback")'
    BY <1>2, <2>2 DEF Agrees, Refusing, AnotherDeletes, Kind
  <2> HIDE DEF a
  <2> QED
    BY <1>0, <1>1, <1>2, <2>1, <2>4, <2>5, ContinuingKeepsOutcomes
<1>6. ASSUME NEW i \in Interview, NEW k \in 1..4, FinishMember(st, i, k)
      PROVE  OutcomeInv'
  <2> DEFINE w == reconciler[st]
             n == [w EXCEPT !.ids = @ \ {i}]
  <2>1. w \in WorkRows /\ w.next = "delete" /\ UNCHANGED <<platform, routes, history>>
        /\ reconciler' = [reconciler EXCEPT ![st] = IF k = 4 THEN n ELSE None]
    BY <1>6 DEF FinishMember, HostedInv, PlatformInv, PlatformShape
  <2>2. n.next = "delete"
    BY <2>1 DEF WorkRows
  <2> HIDE DEF n
  <2>3. \A s \in Study : reconciler'[s] # None /\ reconciler'[s].next = "resolve" => reconciler'[s] = reconciler[s]
    BY <2>1, <2>2 DEF HostedInv, PlatformInv, PlatformShape
  <2> QED
    BY <2>1, <2>3, WritesKeepOutcomes DEF routes
<1> QED
  BY <1>3, <1>4, <1>5, <1>6

\* The steps of a route that write nothing in either database's routing.
LEMMA QuietRoutes ==
  ASSUME HostedInv, OutcomeInv, NEW o \in Operation, Send(o) \/ GiveUp(o) \/ CompleteKey(o)
  PROVE  OutcomeInv'
<1>1. UNCHANGED <<byos, request, owner, listed, outcome, split, op, reconciler>>
  BY DEF Send, GiveUp, CompleteKey, platform, history
<1>2. \A p \in Operation : call'[p] \in {"applied", "refused", "begun"} => call'[p] = call[p]
  BY DEF Send, GiveUp, CompleteKey, HostedInv, PlatformInv, PlatformShape
<1>3. \A p \in sent' : p \in sent \/ call[p] = "begun"
  BY DEF Send, GiveUp, CompleteKey
<1> QED
  BY <1>1, <1>2, <1>3, QuietOutcomes

\* Publishing takes a record away: a creation's record with its owner was completed.
LEMMA PublishKeepsOutcomes ==
  ASSUME HostedInv, OutcomeInv, NEW st \in Study, NEW o \in Operation, NEW r \in Frozens, NEW k \in 1..4, NEW late \in BOOLEAN,
         Publish(st, o, r, k, late), UNCHANGED <<byos, history, sent>>,
         \A p \in Operation : call'[p] \in {"applied", "refused", "begun"} => call'[p] = call[p],
         \A s \in Study : reconciler'[s] # None /\ reconciler'[s].next = "resolve" => reconciler'[s] = reconciler[s]
  PROVE  OutcomeInv'
<1>1. UNCHANGED <<request, owner, listed, outcome, split>>
  BY DEF Publish, PublishRecord, PublishAbsent, platform, history
<1>2. op' = op \/ (op[st] # None /\ op[st].phase = "publishing" /\ op' = [op EXCEPT ![st] = None])
  BY DEF Publish, PublishRecord, PublishAbsent, Frozen, platform
<1>3. \A s \in Study : op'[s] # None => op'[s] = op[s]
  BY <1>2 DEF HostedInv, PlatformInv, PlatformShape
<1>4. ASSUME NEW s \in Study, op[s] # None, op'[s] = None, s \in owner, request[op[s].by].kind = "create"
      PROVE  outcome[op[s].by] = "create-complete"
  <2>1. op[s].phase = "publishing" /\ op[s].by \in Operation /\ Asked(op[s].by, s)
    BY <1>2, <1>4 DEF HostedInv, PlatformInv, PlatformShape, RecordsAreAsked, OpRows
  <2>2. outcome[op[s].by] \in {"create-complete", "create-rollback"}
    BY <1>4, <2>1 DEF HostedInv, PlatformInv, RecordsAreAsked, Resolves
  <2>3. outcome[op[s].by] # "create-rollback"
    BY <1>4, <2>1 DEF OutcomeInv, Routed, Asked
  <2> QED
    BY <2>2, <2>3
<1> QED
  BY <1>1, <1>3, <1>4, QuietOutcomes

\* Loading completes a resolution only where one stopped half way.
LEMMA LoadingKeepsOutcomes ==
  ASSUME HostedInv, OutcomeInv, NEW st \in Study, Load(st) \/ Stop(st) \/ Members(st)
  PROVE  OutcomeInv'
<1>0. UNCHANGED <<platform, routes, history, byos>>
  BY DEF Load, Stop, Members
<1>1. \A s \in Study \ {st} : reconciler'[s] = reconciler[s]
  BY DEF Load, Stop, Members, HostedInv, PlatformInv, PlatformShape
<1>2. ASSUME reconciler'[st] # None, reconciler'[st].next = "resolve"
      PROVE  st \in split
  <2>1. ~Stop(st)
    BY <1>2 DEF Stop, HostedInv, PlatformInv, PlatformShape
  <2>2. ~Members(st)
    <3> SUFFICES ASSUME Members(st)
                 PROVE  FALSE
      OBVIOUS
    <3> DEFINE w == reconciler[st]
               n == [w EXCEPT !.next = "delete", !.ids = persisting[st]]
    <3>1. w \in WorkRows /\ reconciler'[st] = n
      BY DEF Members, HostedInv, PlatformInv, PlatformShape
    <3> QED
      BY <1>2, <3>1 DEF WorkRows
  <2>3. Load(st)
    BY <2>1, <2>2
  <2>4. op[st] # None /\ op[st] \in OpRows
    BY <2>3 DEF Load, HostedInv, PlatformInv, PlatformShape
  <2>5. op[st].phase = "resolving"
    <3> SUFFICES ASSUME op[st].phase # "resolving"
                 PROVE  FALSE
      OBVIOUS
    <3> DEFINE w == Work(op[st].by, "none")
    <3>0. w \in [by : Operation, next : {"none"}, resolution : {None}, at : {None}, ids : {{}}, frozen : {None}]
      BY <2>4 DEF Work, OpRows
    <3>1. \/ \E n \in {"recover", "settle", "members"} : reconciler'[st] = [w EXCEPT !.next = n]
          \/ reconciler'[st] = [w EXCEPT !.next = "publish", !.frozen = op[st].frozen]
      <4>1. CASE op[st].phase = "reserving"
        BY <2>3, <4>1 DEF Load, HostedInv, PlatformInv, PlatformShape
      <4>2. CASE op[st].phase = "pending"
        BY <2>3, <4>2 DEF Load, HostedInv, PlatformInv, PlatformShape
      <4>3. CASE op[st].phase = "publishing"
        BY <2>3, <4>3 DEF Load, HostedInv, PlatformInv, PlatformShape
      <4> QED
        BY <2>4, <4>1, <4>2, <4>3 DEF OpRows, Phase
    <3> HIDE DEF w
    <3>2. reconciler'[st].next \in {"recover", "settle", "members", "publish"}
      BY <3>0, <3>1
    <3> QED
      BY <1>2, <3>2
  <2> QED
    BY <2>4, <2>5 DEF OutcomeInv, ResolvingWasCut
<1>3. \A s \in Study : reconciler'[s] # None /\ reconciler'[s].next = "resolve" => reconciler'[s] = reconciler[s] \/ s \in split
  BY <1>1, <1>2
<1>4. UNCHANGED <<byos, request, owner, listed, outcome, split, op, call, sent>>
  BY <1>0 DEF platform, routes, history
<1> QED
  BY <1>3, <1>4, QuietOutcomes

\* A reservation is abandoned only without an owner.
LEMMA RecoverKeepsOutcomes ==
  ASSUME HostedInv, OutcomeInv, NEW st \in Study, Recover(st)
  PROVE  OutcomeInv'
<1>0. /\ UNCHANGED <<byos, request, owner, listed, outcome, split, call, sent>>
      /\ op[st] # None /\ op[st] \in OpRows /\ op[st].phase = "reserving"
  BY DEF Recover, routes, history, HostedInv, PlatformInv, PlatformShape, RepairsAreAsked
<1>1. \A s \in Study \ {st} : op'[s] = op[s] /\ reconciler'[s] = reconciler[s]
  BY <1>0 DEF Recover, HostedInv, PlatformInv, PlatformShape
<1>2. \/ op'[st] = None /\ st \notin owner
      \/ op'[st] = [op[st] EXCEPT !.phase = "pending", !.aged = FALSE]
      \/ op'[st] = op[st]
  BY <1>0 DEF Recover, Abandons, HostedInv, PlatformInv, PlatformShape
<1>3. op'[st] # None => op'[st].by = op[st].by /\ op'[st].phase # "resolving"
  BY <1>0, <1>2 DEF OpRows
<1>4. reconciler'[st] = None
  BY <1>0 DEF Recover, HostedInv, PlatformInv, PlatformShape
<1>5. /\ \A s \in Study : op'[s] # None => op[s] # None /\ op'[s].by = op[s].by
                                           /\ (op'[s].phase = "resolving" => op[s].phase = "resolving")
      /\ \A s \in Study : op[s] # None /\ op'[s] = None => s \notin owner
  <2>1. op'[st] = None => st \notin owner
    <3>1. CASE op'[st] = [op[st] EXCEPT !.phase = "pending", !.aged = FALSE]
      <4>1. op'[st] \in OpRows
        BY <1>0, <3>1 DEF OpRows, Phase
      <4> QED
        BY <4>1, NoneIsNoPlatformRow
    <3> QED
      BY <1>0, <1>2, <3>1
  <2>2. ASSUME NEW s \in Study
        PROVE  /\ op'[s] # None => op[s] # None /\ op'[s].by = op[s].by /\ (op'[s].phase = "resolving" => op[s].phase = "resolving")
               /\ op[s] # None /\ op'[s] = None => s \notin owner
    <3>1. CASE s = st
      BY <1>0, <1>3, <2>1, <3>1
    <3>2. CASE s # st
      BY <1>1, <3>2
    <3> QED
      BY <3>1, <3>2
  <2> QED
    BY <2>2
<1>6. \A s \in Study : reconciler'[s] # None => reconciler'[s] = reconciler[s]
  BY <1>1, <1>4
<1> QED
  BY <1>0, <1>5, <1>6, QuietOutcomes

\* The key, the record's age and the receipt's expiry decide nothing.
LEMMA WaitingKeepsOutcomes ==
  ASSUME HostedInv, OutcomeInv, NEW st \in Study, ReserveKey(st) \/ Age(st) \/ ExpireReceipt(st)
  PROVE  OutcomeInv'
<1>1. UNCHANGED <<byos, request, owner, listed, outcome, split, call, sent, reconciler>>
  BY DEF ReserveKey, Age, ExpireReceipt, routes, history
<1>2. \A s \in Study : (op'[s] # None <=> op[s] # None)
                       /\ (op'[s] # None => op'[s].by = op[s].by /\ op'[s].phase = op[s].phase)
  <2>1. CASE op' = op
    BY <2>1
  <2>2. CASE Age(st)
    <3>1. op[st] \in OpRows /\ op'[st] = [op[st] EXCEPT !.aged = TRUE] /\ op[st] # None
      BY <2>2 DEF Age, HostedInv, PlatformInv, PlatformShape
    <3>2. op'[st] \in OpRows /\ op'[st].by = op[st].by /\ op'[st].phase = op[st].phase
      BY <3>1 DEF OpRows
    <3>3. \A s \in Study \ {st} : op'[s] = op[s]
      BY <2>2 DEF Age, HostedInv, PlatformInv, PlatformShape
    <3> QED
      BY <3>1, <3>2, <3>3, NoneIsNoPlatformRow
  <2> QED
    BY <2>1, <2>2 DEF ReserveKey, ExpireReceipt
<1> QED
  BY <1>1, <1>2, QuietOutcomes

\* A study is asked for once with a creation, and a deletion begins where the creation is over.
LEMMA BeginsKeepOutcomes ==
  ASSUME HostedInv, HostedInv', OutcomeInv, NEW st \in Study, NEW o \in Operation, Begin(st, o)
  PROVE  OutcomeInv'
<1>1. PICK kind \in {"create", "delete"}, expected \in Revision \cup {None}, k \in 1..5 :
        /\ Begins(st, o, kind, expected, k)
        /\ kind = "create" => expected = None /\ mapping[st] = "pending" /\ ~\E p \in Operation : Asked(p, st)
        /\ expected \in {None} \cup Shown(st)
  BY BeginIsOfAKind DEF HostedInv, ByosInv
<1> DEFINE row == [study |-> st, kind |-> kind, populated |-> expected # None, expected |-> expected]
<1>2. /\ request[o] = None /\ op[st] = None /\ \A p \in Operation \ {o} : request'[p] = request[p]
      /\ UNCHANGED <<byos, outcome, split, sent, reconciler>> /\ request'[o] = row
      /\ \A s \in Study \ {st} : op'[s] = op[s]
      /\ op'[st] = Record(o, IF k = 5 THEN "pending" ELSE "reserving")
      /\ \A p \in Operation \ {o} : call'[p] = call[p]
      /\ call'[o] = IF k = 5 THEN "begun" ELSE "gone"
  BY <1>1 DEF Begins, history, HostedInv, PlatformInv, PlatformShape
<1>3. /\ request'[o] \in RequestRows /\ request'[o] # None /\ request'[o].study = st /\ request'[o].kind = kind
      /\ request'[o].expected = expected /\ (request'[o].populated <=> expected # None)
      /\ op'[st].by = o /\ op'[st].phase \in {"pending", "reserving"} /\ op'[st] # None
  <2>1. row \in RequestRows /\ row.study = st /\ row.kind = kind /\ row.expected = expected /\ (row.populated <=> expected # None)
    BY DEF RequestRows
  <2> DEFINE new == Record(o, IF k = 5 THEN "pending" ELSE "reserving")
  <2>2. new \in OpRows /\ new.by = o /\ new.phase \in {"pending", "reserving"}
    BY DEF Record, OpRows, Phase
  <2>3. request'[o] = row /\ op'[st] = new
    BY <1>2
  <2> HIDE DEF row, new
  <2> QED
    BY <2>1, <2>2, <2>3, NoneIsNoPlatformRow
<1> HIDE DEF row
<1>4. /\ marker[o] = None /\ outcome[o] = None /\ o \notin sent /\ call[o] = "none"
      /\ UNCHANGED <<study, guard, index, marker>>
  BY <1>2, NoneIsNoPlatformRow DEF OutcomeInv, MarkersFit, HostedInv, PlatformInv, RoutesAreAsked, byos, studyRows, interviewRows
<1>5. /\ owner \subseteq owner' /\ listed \subseteq listed'
      /\ \A s \in Study \ {st} : (s \in owner' <=> s \in owner) /\ (s \in listed' <=> s \in listed)
      /\ (kind = "delete" => st \in owner /\ UNCHANGED <<owner, listed>>)
      /\ (kind = "create" /\ k = 5 => st \in owner' /\ st \in listed')
  BY <1>1 DEF Begins
<1>6. /\ \A p \in Operation \ {o}, x \in {"create", "delete"} : Kind(p, x)' <=> Kind(p, x)
      /\ \A p \in Operation \ {o}, s \in Study : Asked(p, s)' <=> Asked(p, s)
      /\ \A p \in Operation \ {o} : request[p] # None => request'[p] # None /\ request[p].study \in Study
      /\ \A x \in {"create", "delete"} : Kind(o, x)' <=> kind = x
      /\ \A x \in {"create", "delete"} : ~Kind(o, x)
      /\ \A s \in Study : ~Asked(o, s) /\ (Asked(o, s)' <=> s = st)
  BY <1>2, <1>3 DEF Kind, Asked, HostedInv, PlatformInv, PlatformShape, RequestRows
<1>7. /\ \A p \in Operation \ {o} : request[p] # None /\ AnotherDeletes(p) => AnotherDeletes(p)'
      /\ \A p \in Operation \ {o} : request[p] # None /\ AnotherDeletes(p)' =>
                                      AnotherDeletes(p) \/ (kind = "delete" /\ request[p].study = st)
  <2> SUFFICES ASSUME NEW p \in Operation \ {o}, request[p] # None
               PROVE  /\ AnotherDeletes(p) => AnotherDeletes(p)'
                      /\ AnotherDeletes(p)' => AnotherDeletes(p) \/ (kind = "delete" /\ request[p].study = st)
    OBVIOUS
  <2>1. request'[p] = request[p] /\ request[p].study \in Study
    BY <1>2, <1>6
  <2>2. \A q \in Operation \ {o} : Asked(q, request[p].study)' <=> Asked(q, request[p].study)
    BY <1>2 DEF Asked
  <2> QED
    BY <1>3, <1>6, <2>1, <2>2 DEF AnotherDeletes, Asked
<1>8. \A p \in Operation, r \in Resolutions : Agrees(p, r) => Agrees(p, r)' /\ p # o
  <2> SUFFICES ASSUME NEW p \in Operation, NEW r \in Resolutions, Agrees(p, r)
               PROVE  Agrees(p, r)' /\ p # o
    OBVIOUS
  <2>1. p # o /\ request[p] # None
    BY <1>2 DEF Agrees, Kind
  <2>2. request'[p] = request[p]
    BY <1>2, <2>1
  <2>3. Refusing(p) => Refusing(p)'
    BY <1>4, <1>7, <2>1, <2>2 DEF Refusing, Tombstoned
  <2> QED
    BY <1>4, <2>1, <2>2, <2>3 DEF Agrees, Kind
<1>9. AskedOnce'
  <2>1. ASSUME NEW p \in Operation, NEW q \in Operation, Kind(p, "create")', Kind(q, "create")', request'[p].study = request'[q].study
        PROVE  p = q
    <3>1. CASE p # o /\ q # o
      BY <1>2, <1>6, <2>1, <3>1 DEF OutcomeInv, AskedOnce
    <3>2. CASE p = o \/ q = o
      BY <1>1, <1>2, <1>3, <1>6, <2>1, <3>2 DEF Asked, Kind
    <3> QED
      BY <3>1, <3>2
  <2>2. ASSUME NEW p \in Operation, Kind(p, "delete")'
        PROVE  request'[p].populated <=> request'[p].expected # None
    <3>1. CASE p = o
      BY <1>3, <3>1
    <3>2. CASE p # o
      BY <1>2, <1>6, <2>2, <3>2 DEF OutcomeInv, AskedOnce
    <3> QED
      BY <3>1, <3>2
  <2> QED
    BY <2>1, <2>2 DEF AskedOnce
<1>10. MarkersFit'
  <2> SUFFICES ASSUME NEW p \in Operation
               PROVE  /\ request'[p] = None => marker[p] = None
                      /\ Kind(p, "create")' =>
                           /\ marker[p] # "deleted"
                           /\ marker[p] = "created" => study[request'[p].study] # None \/ AnotherDeletes(p)'
                           /\ marker[p] = "cancelled" => study[request'[p].study] = None
                           /\ AnotherDeletes(p)' /\ Whole(p)' => marker[p] = "created"
                      /\ Kind(p, "delete")' =>
                           /\ marker[p] \in {None, "deleted"}
                           /\ Whole(p)' /\ marker[p] = "deleted" => study[request'[p].study] = None
                           /\ Whole(p)' /\ request'[p].populated /\ study[request'[p].study] # None =>
                                request'[p].expected <= study[request'[p].study].revision
    BY <1>4 DEF MarkersFit
  <2>1. CASE p = o
    <3>1. marker[p] = None
      BY <1>4, <2>1
    <3>2. None \notin {"created", "cancelled", "deleted"}
      BY NoneIsNoStudyRow DEF Markers
    <3>3. Kind(p, "create")' => ~AnotherDeletes(p)'
      <4> SUFFICES ASSUME kind = "create"
                   PROVE  ~AnotherDeletes(p)'
        BY <1>6, <2>1
      <4>1. \A q \in Operation \ {o} : ~Asked(q, st)'
        BY <1>1, <1>6
      <4> QED
        BY <1>3, <2>1, <4>1 DEF AnotherDeletes, Asked
    <3>4. request'[p].populated /\ study[st] # None => expected <= study[st].revision
      BY <1>1, <1>3, <2>1 DEF Shown
    <3> QED
      BY <1>3, <2>1, <3>1, <3>2, <3>3, <3>4
  <2>2. CASE p # o
    <3>1. request'[p] = request[p] /\ (Kind(p, "create")' <=> Kind(p, "create")) /\ (Kind(p, "delete")' <=> Kind(p, "delete"))
          /\ (Whole(p)' <=> Whole(p))
      BY <1>2, <1>6, <2>2 DEF Whole
    <3>2. ASSUME Kind(p, "create"), AnotherDeletes(p)', Whole(p)
          PROVE  marker[p] = "created"
      <4>1. CASE AnotherDeletes(p)
        BY <3>2, <4>1 DEF OutcomeInv, MarkersFit
      <4>2. CASE kind = "delete" /\ request[p].study = st
        <5>1. ~Own(p) /\ st \in owner
          BY <1>2, <1>5, <4>2 DEF Own
        <5>2. outcome[p] = "create-complete"
          BY <3>2, <4>2, <5>1 DEF OutcomeInv, Routed
        <5>3. Agrees(p, "create-complete")
          BY <3>2, <5>2 DEF OutcomeInv, RecordClaims, Resolutions
        <5> QED
          BY <5>3 DEF Agrees
      <4> QED
        BY <1>7, <2>2, <3>2, <4>1, <4>2 DEF Kind
    <3>3. Kind(p, "create") => (AnotherDeletes(p) => AnotherDeletes(p)')
      BY <1>7, <2>2 DEF Kind
    <3> QED
      BY <3>1, <3>2, <3>3 DEF OutcomeInv, MarkersFit
  <2> QED
    BY <2>1, <2>2
<1>11. GuardsFit'
  <2> SUFFICES ASSUME NEW s \in Study, guard[s] # None
               PROVE  request'[guard[s].by] = request[guard[s].by]
    BY <1>4 DEF OutcomeInv, GuardsFit, Asked
  <2> QED
    BY <1>2 DEF OutcomeInv, GuardsFit, Asked
<1>12. RouteClaims'
  <2> SUFFICES ASSUME NEW p \in Operation, NEW r \in Resolutions, call'[p] \in {"applied", "refused"}, Whole(p)',
                      r = Resolution(request'[p].kind, call'[p] = "applied")
               PROVE  Agrees(p, r)'
    BY DEF RouteClaims, Resolution
  <2>1. p # o /\ call'[p] = call[p] /\ request'[p] = request[p] /\ Whole(p)
    BY <1>2 DEF Whole
  <2> QED
    BY <1>8, <2>1 DEF OutcomeInv, RouteClaims
<1>13. ReconcilerClaims'
  BY <1>2, <1>8 DEF OutcomeInv, ReconcilerClaims
<1>14. RecordClaims'
  <2> SUFFICES ASSUME NEW p \in Operation, NEW r \in Resolutions, outcome[p] = r, Whole(p)'
               PROVE  Agrees(p, r)'
    BY <1>2 DEF RecordClaims
  <2>1. p # o
    BY <1>4, NoneIsNoPlatformRow
  <2> QED
    BY <1>2, <1>8, <2>1 DEF OutcomeInv, RecordClaims, Whole
<1>15. ResolvingWasCut'
  BY <1>2, <1>3 DEF OutcomeInv, ResolvingWasCut
<1>16. ASSUME NEW p \in Operation, Kind(p, "create")', ~Own(p)', request'[p].study \in owner'
       PROVE  outcome[p] = "create-complete"
  <2>1. p # o
    BY <1>3, <1>16 DEF Own
  <2>2. request'[p] = request[p] /\ Kind(p, "create") /\ request[p].study \in Study
    BY <1>2, <1>6, <1>16, <2>1 DEF Kind
  <2>3. CASE request[p].study = st
    <3>1. kind = "delete"
      BY <1>1, <2>2, <2>3 DEF Asked, Kind
    <3> QED
      BY <1>2, <1>5, <2>2, <2>3, <3>1 DEF OutcomeInv, Routed, Own
  <2>4. CASE request[p].study # st
    BY <1>2, <1>5, <1>16, <2>2, <2>4 DEF OutcomeInv, Routed, Own
  <2> QED
    BY <2>3, <2>4
<1>17. ASSUME NEW p \in Operation, outcome[p] \in {"create-rollback", "delete-complete"}
       PROVE  request'[p].study \notin owner'
  <2>1. p # o /\ outcome[p] # None
    BY <1>4, <1>17, NoneIsNoPlatformRow DEF Resolutions
  <2>2. request[p] # None /\ request'[p] = request[p] /\ request[p].study \in Study
    BY <1>2, <1>6, <2>1 DEF HostedInv, PlatformInv, RoutesAreAsked
  <2>3. request[p].study = st => kind = "delete"
    BY <1>1, <2>2 DEF Asked
  <2> QED
    BY <1>5, <1>17, <2>2, <2>3 DEF OutcomeInv, Routed
<1>18. ASSUME NEW p \in Operation, Kind(p, "create")', p \in sent \/ call'[p] = "begun", marker[p] = None, Whole(p)'
       PROVE  request'[p].study \in owner' /\ request'[p].study \in listed'
  <2>1. CASE p = o
    BY <1>2, <1>3, <1>4, <1>5, <1>6, <1>18, <2>1
  <2>2. CASE p # o
    <3>1. request'[p] = request[p] /\ Kind(p, "create") /\ call'[p] = call[p] /\ Whole(p)
      BY <1>2, <1>6, <1>18, <2>2 DEF Whole
    <3> QED
      BY <1>5, <1>18, <3>1 DEF OutcomeInv, Routed
  <2> QED
    BY <2>1, <2>2
<1>19. Routed'
  BY <1>2, <1>4, <1>5, <1>16, <1>17, <1>18 DEF OutcomeInv, Routed
<1> QED
  BY <1>9, <1>10, <1>11, <1>12, <1>13, <1>14, <1>15, <1>19 DEF OutcomeInv

\* A resolution freezes what its mutation did, and takes the routing of a study that is gone.
LEMMA ResolveKeepsOutcomes ==
  ASSUME HostedInv, OutcomeInv, NEW st \in Study, NEW o \in Operation, Asked(o, st), NEW res \in Resolves(o),
         NEW at \in {"request", "repair"}, NEW k \in {1, 2}, op[st] # None, Resolve(st, o, res, at, k),
         UNCHANGED <<byos, sent>>, st \notin split => Agrees(o, res),
         \A p \in Operation : call'[p] \in {"applied", "refused", "begun"} => call'[p] = call[p],
         \A s \in Study : reconciler'[s] # None /\ reconciler'[s].next = "resolve" => reconciler'[s] = reconciler[s]
  PROVE  OutcomeInv'
<1> DEFINE b == op[st].by
<1>1. /\ \A s \in Study \ {st} : op'[s] = op[s]
      /\ op'[st] # None /\ op'[st].by = b /\ op'[st].phase = IF k = 1 THEN "resolving" ELSE "publishing"
  BY ResolveWrites DEF HostedInv, PlatformInv, PlatformShape
<1>2. b \in Operation /\ Asked(b, st) /\ op[st].phase \in {"pending", "resolving"} /\ res \in Resolutions
  BY DEF Resolve, MayResolve, HostedInv, PlatformInv, PlatformShape, RecordsAreAsked, OpRows, Resolves, Resolutions
<1>3. /\ UNCHANGED <<request, study, guard, index, marker, sent>>
      /\ k = 1 => UNCHANGED <<owner, listed, outcome>> /\ split' = split \cup {st}
      /\ k = 2 => /\ outcome'[b] = res /\ \A p \in Operation \ {b} : outcome'[p] = outcome[p]
                  /\ split' = split
                  /\ Keeps(res) => owner' = owner /\ listed' = listed \cup {st}
                  /\ ~Keeps(res) => owner' = owner \ {st} /\ listed' = listed \ {st}
  BY <1>2 DEF Resolve, HostedInv, PlatformInv, PlatformShape, byos, studyRows, interviewRows
<1>4. st \notin split => o = b
  BY <1>2 DEF Resolve, MayResolve, OutcomeInv, ResolvingWasCut, HostedInv, PlatformInv, LockIsTheRecords
<1>5. \A p \in Operation : request[p] # None => request[p].study \in Study /\ (Own(p)' <=> Own(p))
  <2> SUFFICES ASSUME NEW p \in Operation, request[p] # None
               PROVE  request[p].study \in Study /\ (Own(p)' <=> Own(p))
    OBVIOUS
  <2>1. request[p].study \in Study
    BY DEF HostedInv, PlatformInv, PlatformShape, RequestRows
  <2>2. CASE request[p].study = st
    BY <1>1, <1>3, <2>1, <2>2 DEF Own
  <2>3. CASE request[p].study # st
    BY <1>1, <1>3, <2>1, <2>3 DEF Own
  <2> QED
    BY <2>1, <2>2, <2>3
<1>6. \A p \in Operation, r \in Resolutions : Agrees(p, r)' <=> Agrees(p, r)
  BY <1>3 DEF Agrees, Refusing, AnotherDeletes, Asked, Kind, Tombstoned
<1>7. \A p \in Operation : Whole(p)' => Whole(p)
  BY <1>3 DEF Whole
<1>8. AskedOnce' /\ GuardsFit' /\ MarkersFit'
  <2>1. AskedOnce' /\ GuardsFit'
    BY <1>3 DEF OutcomeInv, AskedOnce, GuardsFit, Asked, Kind
  <2>2. MarkersFit'
    <3>1. \A p \in Operation : /\ AnotherDeletes(p)' <=> AnotherDeletes(p)
                               /\ Kind(p, "create")' <=> Kind(p, "create")
                               /\ Kind(p, "delete")' <=> Kind(p, "delete")
      BY <1>3 DEF AnotherDeletes, Asked, Kind
    <3> QED
      BY <1>3, <1>7, <3>1 DEF OutcomeInv, MarkersFit
  <2> QED
    BY <2>1, <2>2
<1>9. RouteClaims'
  BY <1>3, <1>6, <1>7 DEF OutcomeInv, RouteClaims
<1>10. ReconcilerClaims'
  BY <1>3, <1>6 DEF OutcomeInv, ReconcilerClaims
<1>11. RecordClaims'
  <2> SUFFICES ASSUME NEW p \in Operation, NEW r \in Resolutions, outcome'[p] = r, Whole(p)
               PROVE  Agrees(p, r)
    BY <1>6, <1>7 DEF RecordClaims
  <2>1. CASE outcome'[p] = outcome[p]
    BY <2>1 DEF OutcomeInv, RecordClaims
  <2>2. CASE outcome'[p] # outcome[p]
    <3>1. k = 2 /\ p = b /\ r = res /\ st \notin split
      BY <1>2, <1>3, <2>2 DEF Whole, Asked
    <3> QED
      BY <1>4, <3>1
  <2> QED
    BY <2>1, <2>2
<1>12. ResolvingWasCut'
  BY <1>1, <1>3 DEF OutcomeInv, ResolvingWasCut
<1>13. owner' \subseteq owner /\ \A s \in Study \ {st} : (s \in owner' <=> s \in owner) /\ (s \in listed' <=> s \in listed)
  BY <1>3
<1>14. ASSUME NEW p \in Operation, Kind(p, "create"), ~Own(p), request[p].study \in owner'
       PROVE  outcome'[p] = "create-complete"
  <2>1. outcome[p] = "create-complete"
    BY <1>13, <1>14 DEF OutcomeInv, Routed
  <2>2. p # b
    BY <1>2, <1>14 DEF Own, Asked
  <2> QED
    BY <1>3, <2>1, <2>2
<1>15. ASSUME NEW p \in Operation, outcome'[p] \in {"create-rollback", "delete-complete"}
       PROVE  request[p].study \notin owner'
  <2>1. CASE outcome'[p] = outcome[p]
    BY <1>13, <1>15, <2>1 DEF OutcomeInv, Routed
  <2>2. CASE outcome'[p] # outcome[p]
    <3>1. k = 2 /\ p = b /\ outcome'[p] = res
      BY <1>2, <1>3, <2>2
    <3> QED
      BY <1>2, <1>3, <1>15, <3>1 DEF Keeps, Asked
  <2> QED
    BY <2>1, <2>2
<1>16. k = 2 /\ ~Keeps(res) /\ st \notin split => study[st] = None
  <2> SUFFICES ASSUME ~Keeps(res), st \notin split
               PROVE  study[st] = None
    OBVIOUS
  <2>1. Agrees(o, res) /\ request[o].study = st /\ Whole(o)
    BY DEF Asked, Whole
  <2>2. CASE Kind(o, "create") /\ marker[o] = "cancelled"
    BY <2>1, <2>2 DEF OutcomeInv, MarkersFit
  <2>3. CASE Kind(o, "delete") /\ marker[o] = "deleted"
    BY <2>1, <2>3 DEF OutcomeInv, MarkersFit
  <2> QED
    BY <2>1, <2>2, <2>3 DEF Agrees, Keeps
<1>17. ASSUME NEW s \in Study \ split', study[s] # None
       PROVE  s \in owner' /\ s \in listed'
  BY <1>3, <1>13, <1>16, <1>17 DEF OutcomeInv, Routed
<1>18. ASSUME NEW p \in Operation, Kind(p, "create"), p \in sent \/ call'[p] = "begun", marker[p] = None, Whole(p)'
       PROVE  request[p].study \in owner' /\ request[p].study \in listed'
  <2>1. request[p].study \in owner /\ request[p].study \in listed /\ request[p].study \in Study /\ Whole(p)
    BY <1>5, <1>7, <1>18 DEF OutcomeInv, Routed, Kind
  <2>2. ASSUME request[p].study = st, k = 2, ~Keeps(res)
        PROVE  FALSE
    <3>1. Agrees(o, res) /\ request[o].study = st
      BY <2>1, <2>2 DEF Asked, Whole
    <3>2. CASE Kind(o, "create") /\ marker[o] = "cancelled"
      <4>1. o = p
        BY <1>18, <2>2, <3>1, <3>2 DEF OutcomeInv, AskedOnce
      <4> QED
        BY <1>18, <3>2, <4>1, NoneIsNoStudyRow DEF Markers
    <3>3. CASE Kind(o, "delete")
      <4>1. o # p
        BY <1>18, <3>3 DEF Kind
      <4>2. AnotherDeletes(p)
        BY <2>2, <3>3, <4>1 DEF AnotherDeletes
      <4> QED
        BY <1>18, <2>1, <4>2, NoneIsNoStudyRow DEF OutcomeInv, MarkersFit, Markers
    <3> QED
      BY <2>2, <3>1, <3>2, <3>3 DEF Agrees, Keeps
  <2> QED
    BY <1>3, <1>13, <2>1, <2>2
<1>19. Routed'
  BY <1>3, <1>5, <1>14, <1>15, <1>17, <1>18 DEF Routed, Kind
<1> QED
  BY <1>8, <1>9, <1>10, <1>11, <1>12, <1>19 DEF OutcomeInv

\* The steps of a route.
LEMMA RouteKeepsOutcomes ==
  ASSUME HostedInv, HostedInv', OutcomeInv, NEW o \in Operation, Route(o), ByosStep
  PROVE  OutcomeInv'
<1>1. CASE Send(o) \/ GiveUp(o) \/ CompleteKey(o)
  BY <1>1, QuietRoutes
<1>2. CASE (\E k \in StepsOf(2) : MutateCreate(o, k)) \/ (\E k \in StepsOf(6) : MutateEmptyDelete(o, k))
           \/ (\E k \in StepsOf(3), ids \in SUBSET Interview : MutatePopulatedDelete(o, ids, k))
  BY <1>2, Ranges, MutationsKeepOutcomes
<1>3. CASE \E k \in ResolveSteps : RouteResolve(o, k)
  <2>1. PICK k \in {1, 2} : RouteResolve(o, k)
    BY <1>3 DEF ResolveSteps
  <2> DEFINE st == request[o].study
             res == Resolution(request[o].kind, call[o] = "applied")
  <2>2. \/ /\ RouteTurns(o) /\ UNCHANGED <<platform, history, byos>> /\ call'[o] \notin {"applied", "refused"}
        \/ /\ st \in Study /\ Asked(o, st) /\ res \in Resolves(o) /\ op[st] # None /\ call[o] \in {"applied", "refused"}
           /\ Resolve(st, o, res, "request", k) /\ RouteTakes(o, IF k = 1 THEN None ELSE op'[st].frozen) /\ UNCHANGED byos
    BY <2>1, RouteResolves DEF HostedInv
  <2>3. CASE RouteTurns(o) /\ UNCHANGED <<platform, history, byos>> /\ call'[o] \notin {"applied", "refused"}
    <3>1. UNCHANGED <<byos, request, owner, listed, outcome, split, op, reconciler, sent>>
      BY <2>1, <2>3 DEF RouteResolve, platform, history
    <3>2. \A p \in Operation : call'[p] \in {"applied", "refused", "begun"} => call'[p] = call[p]
      <4>1. Finalizing(o) # "begun"
        BY DEF Finalizing
      <4>2. \E v \in {"gone", "published", Finalizing(o)} : call' = [call EXCEPT ![o] = v]
        BY <2>1 DEF RouteResolve
      <4> QED
        BY <2>3, <4>1, <4>2 DEF HostedInv, PlatformInv, PlatformShape
    <3> QED
      BY <3>1, <3>2, QuietOutcomes
  <2>4. CASE /\ st \in Study /\ Asked(o, st) /\ res \in Resolves(o) /\ op[st] # None /\ call[o] \in {"applied", "refused"}
             /\ Resolve(st, o, res, "request", k) /\ RouteTakes(o, IF k = 1 THEN None ELSE op'[st].frozen) /\ UNCHANGED byos
    <3>1. st \notin split => Agrees(o, res)
      BY <2>4 DEF OutcomeInv, RouteClaims, Whole, Resolves, Resolutions
    <3>2. \A p \in Operation : call'[p] \in {"applied", "refused", "begun"} => call'[p] = call[p]
      BY <2>4 DEF RouteTakes
    <3>3. UNCHANGED <<byos, sent, reconciler>>
      BY <2>4 DEF RouteTakes
    <3> HIDE DEF st, res
    <3> QED
      BY <2>4, <3>1, <3>2, <3>3, ResolveKeepsOutcomes
  <2> QED
    BY <2>2, <2>3, <2>4
<1>4. CASE \E k \in StepsOf(4), late \in Lateness : RoutePublish(o, k, late)
  <2>0. StepsOf(4) \subseteq 1..4 /\ Lateness \subseteq BOOLEAN
    BY Ranges
  <2>1. PICK k \in 1..4, late \in BOOLEAN : RoutePublish(o, k, late)
    BY <1>4, <2>0
  <2> DEFINE st == request[o].study
  <2>2. st \in Study /\ held[o] \in Frozens
    BY <2>1 DEF RoutePublish, HostedInv, PlatformInv, PlatformShape, RoutesAreAsked, RequestRows
  <2>3. Publish(st, o, held[o], k, late) /\ UNCHANGED <<byos, history, sent, reconciler>>
        /\ \A p \in Operation : call'[p] \in {"applied", "refused", "begun"} => call'[p] = call[p]
    BY <2>1 DEF RoutePublish, HostedInv, PlatformInv, PlatformShape
  <2> HIDE DEF st
  <2> QED
    BY <2>2, <2>3, PublishKeepsOutcomes
<1> QED
  BY <1>1, <1>2, <1>3, <1>4 DEF Route

\* The steps of the reconciler.
LEMMA ReconcileKeepsOutcomes ==
  ASSUME HostedInv, HostedInv', OutcomeInv, NEW st \in Study, Reconcile(st), ByosStep
  PROVE  OutcomeInv'
<1> DEFINE w == reconciler[st]
<1>1. CASE Load(st) \/ Stop(st) \/ Members(st)
  BY <1>1, LoadingKeepsOutcomes
<1>2. CASE Recover(st)
  BY <1>2, RecoverKeepsOutcomes
<1>3. CASE Settle(st) \/ (\E i \in Interview, k \in StepsOf(4) : FinishMember(st, i, k)) \/ (\E k \in StepsOf(6) : RepairEmptyDelete(st, k))
           \/ (\E k \in StepsOf(3), ids \in SUBSET Interview : RepairPopulatedDelete(st, ids, k))
  BY <1>3, Ranges, RepairsKeepOutcomes
<1>4. CASE \E k \in ResolveSteps : RepairResolve(st, k)
  <2>1. PICK k \in {1, 2} : RepairResolve(st, k)
    BY <1>4 DEF ResolveSteps
  <2>2. \/ /\ ReconcilerTurns(st) /\ UNCHANGED <<platform, routes, history, byos>>
           /\ reconciler'[st] # None => reconciler'[st].next = "publish"
        \/ /\ w # None /\ w.next = "resolve" /\ w.by \in Operation /\ Asked(w.by, st)
           /\ w.resolution \in Resolves(w.by) /\ w.at = "repair" /\ op[st] # None
           /\ Resolve(st, w.by, w.resolution, w.at, k)
           /\ ReconcilerTakes(st, IF k = 1 THEN None ELSE op'[st].frozen) /\ UNCHANGED byos
    BY <2>1, ReconcilerResolves DEF HostedInv
  <2>3. CASE /\ ReconcilerTurns(st) /\ UNCHANGED <<platform, routes, history, byos>>
             /\ reconciler'[st] # None => reconciler'[st].next = "publish"
    <3>1. UNCHANGED <<byos, request, owner, listed, outcome, split, op, call, sent>>
      BY <2>3 DEF platform, routes, history
    <3>2. \A s \in Study : reconciler'[s] # None /\ reconciler'[s].next = "resolve" => reconciler'[s] = reconciler[s]
      BY <2>3 DEF ReconcilerTurns, HostedInv, PlatformInv, PlatformShape
    <3> QED
      BY <3>1, <3>2, QuietOutcomes
  <2>4. CASE /\ w # None /\ w.next = "resolve" /\ w.by \in Operation /\ Asked(w.by, st)
             /\ w.resolution \in Resolves(w.by) /\ w.at = "repair" /\ op[st] # None
             /\ Resolve(st, w.by, w.resolution, w.at, k)
             /\ ReconcilerTakes(st, IF k = 1 THEN None ELSE op'[st].frozen) /\ UNCHANGED byos
    <3>1. w.resolution \in Resolutions
      BY <2>4 DEF Resolves, Resolutions
    <3>2. st \notin split => Agrees(w.by, w.resolution)
      BY <2>4, <3>1 DEF OutcomeInv, ReconcilerClaims
    <3>3. UNCHANGED <<byos, sent, call>>
      BY <2>4 DEF ReconcilerTakes, routes
    <3>4. \A s \in Study : reconciler'[s] # None /\ reconciler'[s].next = "resolve" => reconciler'[s] = reconciler[s]
      BY <2>4 DEF ReconcilerTakes, HostedInv, PlatformInv, PlatformShape
    <3> DEFINE by == w.by
               res == w.resolution
    <3>5. by \in Operation /\ Asked(by, st) /\ res \in Resolves(by) /\ Resolve(st, by, res, "repair", k) /\ op[st] # None
          /\ (st \notin split => Agrees(by, res))
      BY <2>4, <3>2
    <3> HIDE DEF by, res
    <3> QED
      BY <3>3, <3>4, <3>5, ResolveKeepsOutcomes
  <2> QED
    BY <2>2, <2>3, <2>4
<1>5. CASE \E k \in StepsOf(4), late \in Lateness : RepairPublish(st, k, late)
  <2>0. StepsOf(4) \subseteq 1..4 /\ Lateness \subseteq BOOLEAN
    BY Ranges
  <2>1. PICK k \in 1..4, late \in BOOLEAN : RepairPublish(st, k, late)
    BY <1>5, <2>0
  <2> DEFINE by == w.by
             r == w.frozen
  <2>2. by \in Operation /\ r \in Frozens
    BY <2>1 DEF RepairPublish, HostedInv, PlatformInv, PlatformShape, RepairsAreAsked, WorkRows
  <2>3. /\ Publish(st, by, r, k, late) /\ UNCHANGED <<byos, history, sent, call>>
        /\ \A s \in Study : reconciler'[s] # None /\ reconciler'[s].next = "resolve" => reconciler'[s] = reconciler[s]
    BY <2>1 DEF RepairPublish, routes, HostedInv, PlatformInv, PlatformShape
  <2> HIDE DEF by, r
  <2> QED
    BY <2>2, <2>3, PublishKeepsOutcomes
<1> QED
  BY <1>1, <1>2, <1>3, <1>4, <1>5 DEF Reconcile

\* Every step of the two databases keeps what is recorded of the mutations true.
LEMMA OutcomeSteps == HostedInv /\ OutcomeInv /\ [HostedNext]_<<hosted, byos>> => OutcomeInv'
<1> SUFFICES ASSUME HostedInv, OutcomeInv, [HostedNext]_<<hosted, byos>>
             PROVE  OutcomeInv'
  OBVIOUS
<1>1. HostedInv'
  BY HostedInvSteps
<1>2. CASE UNCHANGED <<hosted, byos>>
  <2>1. UNCHANGED <<byos, request, owner, listed, outcome, split, op, call, sent, reconciler>>
    BY <1>2 DEF hosted, platform, routes, history
  <2> QED
    BY <2>1, QuietOutcomes
<1>3. CASE HostedNext
  <2>1. ByosStep
    BY <1>3, ByosSteps DEF HostedInv
  <2>2. ASSUME NEW st \in Study, ReserveKey(st) \/ Age(st) \/ ExpireReceipt(st)
        PROVE  OutcomeInv'
    BY <2>2, WaitingKeepsOutcomes
  <2>3. ASSUME NEW st \in Study, Reconcile(st)
        PROVE  OutcomeInv'
    BY <1>1, <2>1, <2>3, ReconcileKeepsOutcomes
  <2>4. ASSUME NEW st \in Study, NEW o \in Operation, Begin(st, o)
        PROVE  OutcomeInv'
    BY <1>1, <2>4, BeginsKeepOutcomes
  <2>5. ASSUME NEW o \in Operation, Route(o)
        PROVE  OutcomeInv'
    BY <1>1, <2>1, <2>5, RouteKeepsOutcomes
  <2>6. ASSUME UNCHANGED hosted
        PROVE  OutcomeInv'
    <3>1. UNCHANGED <<platform, history, sent, call, reconciler>>
      BY <2>6 DEF hosted, routes
    <3> QED
      BY <1>1, <2>1, <3>1, WritesKeepOutcomes
  <2> QED
    BY <1>3, <2>2, <2>3, <2>4, <2>5, <2>6 DEF HostedNext, Edit, Aggregate, SaveInterview
<1> QED
  BY <1>2, <1>3

\* So it holds.
LEMMA OutcomesHold == HostedSpec => [](HostedInv /\ OutcomeInv)
<1>1. HostedInit => HostedInv /\ OutcomeInv
  BY InitByos, InitPlatform, InitOutcome DEF HostedInv
<1>2. HostedInv /\ OutcomeInv /\ [HostedNext]_<<hosted, byos>> => (HostedInv /\ OutcomeInv)'
  BY HostedInvSteps, OutcomeSteps
<1> QED
  BY <1>1, <1>2, PTL DEF HostedSpec

\* What an operation was resolved to is what its mutation did to the study, also where
\* the mutation executed after its route had given up and the reconciler had answered.
THEOREM OutcomeHolds == HostedSpec => []RecordedOutcomeHolds
<1>1. HostedInv /\ OutcomeInv => RecordedOutcomeHolds
  BY RecordsHold
<1> QED
  BY <1>1, OutcomesHold, PTL

\* A study that is stored and has no operation in progress has its owner and is listed:
\* no cut, no lost answer and no order of the two databases' writes orphans it.
THEOREM StudyStaysRouted == HostedSpec => []StudyIsRouted
<1>1. HostedInv /\ OutcomeInv => StudyIsRouted
  BY RecordsHold
<1> QED
  BY <1>1, OutcomesHold, PTL
=============================================================================
