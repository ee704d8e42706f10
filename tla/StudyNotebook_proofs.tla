------------------------ MODULE StudyNotebook_proofs ------------------------
(***************************************************************************)
(* Theorems about StudyNotebook, for any number of requests and keys, every *)
(* quota, epoch and bound, and every set of activities at once.             *)
(***************************************************************************)
EXTENDS StudyNotebook, TLAPS

-----------------------------------------------------------------------------
(* Shapes.  A record whose fields are told apart, whatever they hold.       *)

StoreShape(s) ==
  s \in [study : {s.study}, answers : {s.answers}, receipts : {s.receipts},
         analysed : {s.analysed}, aggregate : {s.aggregate}, sequence : {s.sequence},
         snapshots : {s.snapshots}, state : {s.state}, version : {s.version},
         activated : {s.activated}, superseded : {s.superseded}]

Row == [status : Statuses, era : Nat]

StoreOK(s) == /\ StoreShape(s) /\ StorageOK(s)
              /\ \A r \in DOMAIN s.answers : s.answers[r] \in Row

Does == {"idle", "asks", "admitted", "waits", "knows", "holds", "done", "gone"}

RequestsOK ==
  /\ \E k : asking \in [Request -> [does : Does, key : Key \cup {k}]]
  /\ \A r \in Request : asking[r].does # "idle" => asking[r].key \in Key
  /\ calls \in [Key -> Nat]

TextShape(t) == t \in [analysed : {t.analysed}, aggregate : {t.aggregate}, answers : {t.answers}]

\* A snapshot's answers are a table.
TableOf(t) == t.answers = [r \in DOMAIN t.answers |-> t.answers[r]]

Exporting == exporting.does \notin {"idle", "changed"}

ExportOK ==
  Exporting =>
    /\ exporting \in [does : {"interviews", "aggregates", "answers", "verify", "done"},
                      sequence : Nat, archive : {exporting.archive}, began : {exporting.began},
                      era : Nat]
    /\ TextShape(exporting.archive) /\ TextShape(exporting.began) /\ TableOf(exporting.began)

Types == /\ StoreOK(storage) /\ StoreOK(bookmark) /\ configured \in Epoch /\ era \in Nat
         /\ RequestsOK /\ ExportOK

-----------------------------------------------------------------------------
(* What a transaction writes.                                              *)

\* The fields a write may leave alone, in groups.
SameTables(t, s) == t.study = s.study /\ t.answers = s.answers /\ t.receipts = s.receipts
SameOthers(t, s) == t.analysed = s.analysed /\ t.aggregate = s.aggregate /\ t.snapshots = s.snapshots
SameHold(t, s)   == t.state = s.state /\ t.activated = s.activated

\* Only captured snapshots.
Captures == /\ SameTables(storage', storage) /\ SameHold(storage', storage)
            /\ storage'.analysed = storage.analysed /\ storage'.aggregate = storage.aggregate
            /\ storage'.sequence = storage.sequence

\* reserve's row and receipt.
AddsRow(r) ==
  /\ storage'.study = storage.study
  /\ SameOthers(storage', storage) /\ SameHold(storage', storage)
  /\ storage'.answers = Extend(storage.answers, r, [status |-> "running", era |-> era])
  /\ storage'.receipts = Extend(storage.receipts, asking[r].key, r)
  /\ storage'.sequence = storage.sequence + 1

\* One answer's new status.
SetsStatus(r, status) ==
  /\ r \in DOMAIN storage.answers
  /\ storage'.study = storage.study /\ storage'.receipts = storage.receipts
  /\ SameOthers(storage', storage) /\ SameHold(storage', storage)
  /\ DOMAIN storage'.answers = DOMAIN storage.answers
  /\ storage'.answers[r].status = status
  /\ storage'.answers[r].era = storage.answers[r].era
  /\ \A x \in DOMAIN storage.answers \ {r} : storage'.answers[x] = storage.answers[x]
  /\ storage'.sequence = storage.sequence + 1

\* The other writers of the study.
WritesElsewhere ==
  /\ SameTables(storage', storage) /\ SameHold(storage', storage)
  /\ storage'.snapshots = storage.snapshots
  /\ storage'.sequence = storage.sequence + 1

RemovesStudy ==
  /\ ~storage'.study /\ DOMAIN storage'.answers = {} /\ storage'.receipts = storage.receipts
  /\ SameHold(storage', storage) /\ storage'.snapshots = storage.snapshots
  /\ storage'.sequence = storage.sequence + 1

\* A hold's write: running answers are classified, or there is nothing to classify.
Marks ==
  /\ DOMAIN storage'.answers = DOMAIN storage.answers
  /\ \A r \in DOMAIN storage.answers :
       /\ storage'.answers[r].era = storage.answers[r].era
       /\ storage'.answers[r].status = IF r \in Running THEN "recovery-required"
                                       ELSE storage.answers[r].status

Holds ==
  /\ storage'.study = storage.study /\ storage'.receipts = storage.receipts
  /\ SameOthers(storage', storage)
  /\ storage'.sequence >= storage.sequence
  /\ storage'.sequence = storage.sequence => storage'.answers = storage.answers
  /\ Marks \/ storage'.answers = storage.answers

\* A counted write keeps the other fields.
LEMMA BumpedIs ==
  ASSUME NEW s, StoreShape(s)
  PROVE  /\ StoreShape(Bumped(s)) /\ Bumped(s).sequence = s.sequence + 1
         /\ SameTables(Bumped(s), s) /\ SameOthers(Bumped(s), s) /\ SameHold(Bumped(s), s)
BY DEF StoreShape, Bumped, SameTables, SameOthers, SameHold

\* Within the bound the next sequence numbers are numbers.
LEMMA NextSequence ==
  ASSUME NEW s, StorageOK(s)
  PROVE  /\ s.sequence \in Nat
         /\ s.sequence < MaxSequence => {s.sequence + 1, s.sequence + 2} \subseteq 0..MaxSequence + 1
BY NotebookAssumption DEF StorageOK

\* reserve, when it admits the question.
LEMMA ReserveWrites ==
  ASSUME Types, NEW r \in Request, Reserve(r), Admits(r)
  PROVE  AddsRow(r) /\ StoreOK(storage')
<1> DEFINE s == [storage EXCEPT !.answers = Extend(@, r, [status |-> "running", era |-> era]),
                                !.receipts = Extend(@, asking[r].key, r)]
<1>1. StoreOK(storage) /\ asking[r].key \in Key /\ era \in Nat
  BY DEF Types, RequestsOK, Reserve
<1>2. /\ StoreShape(s) /\ SameOthers(s, storage) /\ SameHold(s, storage)
      /\ s.study = storage.study /\ s.sequence = storage.sequence
      /\ s.answers = Extend(storage.answers, r, [status |-> "running", era |-> era])
      /\ s.receipts = Extend(storage.receipts, asking[r].key, r)
  BY <1>1 DEF StoreOK, StoreShape, SameOthers, SameHold
<1>3. storage' = Bumped(s)
  BY DEF Reserve
<1> HIDE DEF s
<1>4. AddsRow(r) /\ StoreShape(storage')
  BY <1>2, <1>3, BumpedIs DEF AddsRow, SameTables, SameOthers, SameHold
<1>5. [status |-> "running", era |-> era] \in Row
  BY <1>1 DEF Row, Statuses
<1>6. /\ DOMAIN storage'.answers \subseteq Request
      /\ \A x \in DOMAIN storage'.answers : storage'.answers[x] \in Row
  <2> DEFINE row == [status |-> "running", era |-> era]
  <2> HIDE DEF row
  <2>1. storage'.answers = Extend(storage.answers, r, row)
    BY <1>4 DEF AddsRow, row
  <2>2. /\ DOMAIN storage'.answers = DOMAIN storage.answers \cup {r}
        /\ storage'.answers[r] = row
        /\ \A x \in DOMAIN storage.answers \ {r} : storage'.answers[x] = storage.answers[x]
    BY <2>1 DEF Extend
  <2> QED BY <1>1, <1>5, <2>2 DEF StoreOK, StorageOK, row
<1>7. /\ DOMAIN storage'.receipts \subseteq Key
      /\ \A k \in DOMAIN storage'.receipts : storage'.receipts[k] \in Request
  <2> DEFINE key == asking[r].key
  <2> HIDE DEF key
  <2>1. storage'.receipts = Extend(storage.receipts, key, r)
    BY <1>4 DEF AddsRow, key
  <2>2. /\ DOMAIN storage'.receipts = DOMAIN storage.receipts \cup {key}
        /\ storage'.receipts[key] = r
        /\ \A k \in DOMAIN storage.receipts \ {key} : storage'.receipts[k] = storage.receipts[k]
    BY <2>1 DEF Extend
  <2> QED BY <1>1, <2>2 DEF StoreOK, StorageOK, key
<1>8. storage'.sequence \in 0..MaxSequence + 1
  BY <1>1, <1>4, NextSequence DEF AddsRow, StoreOK, Reserve, Bounded
<1>9. storage'.state \in States /\ storage'.activated \in Epoch
  BY <1>1, <1>4 DEF AddsRow, SameHold, StoreOK, StorageOK
<1> QED BY <1>4, <1>6, <1>7, <1>8, <1>9 DEF StoreOK, StorageOK, Row

\* A write of one answer's status.
LEMMA StatusWrites ==
  ASSUME Types, NEW r \in DOMAIN storage.answers, NEW status \in Statuses, Bounded,
         storage' = Bumped([storage EXCEPT !.answers[r].status = status])
  PROVE  SetsStatus(r, status) /\ StoreOK(storage')
<1> DEFINE s == [storage EXCEPT !.answers[r].status = status]
<1>1. StoreOK(storage) /\ storage.answers[r] \in Row
  BY DEF Types, StoreOK
<1>2. /\ StoreShape(s) /\ SameOthers(s, storage) /\ SameHold(s, storage)
      /\ s.study = storage.study /\ s.sequence = storage.sequence /\ s.receipts = storage.receipts
      /\ s.answers = [storage.answers EXCEPT ![r].status = status]
  BY <1>1 DEF StoreOK, StoreShape, SameOthers, SameHold
<1>3. storage' = Bumped(s)
  OBVIOUS
<1> HIDE DEF s
<1>4. /\ DOMAIN s.answers = DOMAIN storage.answers
      /\ s.answers[r] = [storage.answers[r] EXCEPT !.status = status]
      /\ \A x \in DOMAIN storage.answers \ {r} : s.answers[x] = storage.answers[x]
  BY <1>2
<1>5. /\ s.answers[r].status = status /\ s.answers[r].era = storage.answers[r].era
      /\ s.answers[r] \in Row
  BY <1>1, <1>4 DEF Row
<1>6. /\ StoreShape(storage') /\ SameOthers(storage', storage) /\ SameHold(storage', storage)
      /\ storage'.study = storage.study /\ storage'.receipts = storage.receipts
      /\ storage'.answers = s.answers /\ storage'.sequence = storage.sequence + 1
  BY <1>2, <1>3, BumpedIs DEF SameTables, SameOthers, SameHold
<1>7. SetsStatus(r, status)
  BY <1>4, <1>5, <1>6 DEF SetsStatus
<1>8. \A x \in DOMAIN storage'.answers : storage'.answers[x] \in Row
  BY <1>1, <1>4, <1>5, <1>6 DEF StoreOK
<1>9. storage'.sequence \in 0..MaxSequence + 1
  BY <1>1, <1>6, NextSequence DEF StoreOK, Bounded
<1> QED BY <1>1, <1>4, <1>6, <1>7, <1>8, <1>9 DEF StoreOK, StorageOK, SameHold, Row
-----------------------------------------------------------------------------
(* Kinds of step, by what they do to the requests and to the storage.      *)

\* One request goes on under its key.
Moves(r, does) ==
  /\ asking'[r].does = does /\ asking'[r].key = asking[r].key
  /\ \A x \in Request \ {r} : asking'[x] = asking[x]

Kept == UNCHANGED <<configured, restoring, bookmark, exporting, rewound, era>>

\* Nothing was written, or the status of an answer a guard allows.
Marked(r, from, status) ==
  \/ storage' = storage
  \/ /\ r \in DOMAIN storage.answers /\ storage.answers[r].status \in from
     /\ SetsStatus(r, status)

Asks(r) ==
  /\ asking[r].does = "idle" /\ asking'[r].does = "asks" /\ asking'[r].key \in Key
  /\ \A x \in Request \ {r} : asking'[x] = asking[x]
  /\ Kept /\ UNCHANGED <<storage, calls>>
Admitted(r) ==
  /\ asking[r].does = "asks" /\ MutationAllowed /\ storage.study
  /\ asking[r].key \notin DOMAIN storage.receipts
  /\ Moves(r, "admitted") /\ AddsRow(r) /\ Kept /\ UNCHANGED calls
GivesUp(r) ==
  /\ asking[r].does \in {"asks", "admitted", "waits", "knows"} /\ Moves(r, "gone")
  /\ \E status \in {"failed", "recovery-required"} : Marked(r, {"running"}, status)
  /\ Kept /\ UNCHANGED calls
Calls(r) ==
  /\ asking[r].does = "admitted" /\ Moves(r, "waits")
  /\ calls' = [calls EXCEPT ![asking[r].key] = @ + 1] /\ Kept /\ UNCHANGED storage
Hears(r) ==
  /\ asking[r].does = "waits" /\ Moves(r, "knows") /\ Kept /\ UNCHANGED <<storage, calls>>
Saves(r, does) ==
  /\ asking[r].does \in {"knows", "holds"} /\ Moves(r, does)
  /\ Marked(r, {"running", "recovery-required"}, "complete")
  /\ does = "done" => r \in DOMAIN storage'.answers /\ storage'.answers[r].status = "complete"
  /\ Kept /\ UNCHANGED calls
Doubts(r) ==
  /\ Marked(r, {"running"}, "recovery-required") /\ Kept /\ UNCHANGED <<asking, calls>>

Serves ==
  \E r \in Request :
    \/ Asks(r) \/ Admitted(r) \/ GivesUp(r) \/ Calls(r) \/ Hears(r) \/ Doubts(r)
    \/ \E does \in {"done", "holds"} : Saves(r, does)

Idle == UNCHANGED <<asking, calls>>
Writes == (WritesElsewhere \/ RemovesStudy) /\ Kept /\ Idle
Maintains ==
  /\ Holds /\ storage'.activated = storage.activated /\ Kept /\ Idle
  /\ storage'.state = "frozen" => Marks \/ Running = {}
Activates ==
  /\ Holds /\ Marks /\ storage'.activated = configured /\ storage'.state = storage.state
  /\ Kept /\ Idle
Rotates ==
  /\ configured' = configured + 1
  /\ UNCHANGED <<storage, restoring, bookmark, exporting, rewound, era>> /\ Idle
Bookmarks ==
  /\ bookmark' = storage /\ restoring.does # "scheduled" /\ era = 0
  /\ UNCHANGED <<storage, configured, restoring, exporting, rewound, era>> /\ Idle
Schedules ==
  /\ restoring'.does = "scheduled" => configured # storage.activated
  /\ UNCHANGED <<storage, configured, bookmark, exporting, rewound, era>> /\ Idle
Exports ==
  /\ BeginExport \/ PruneSnapshots \/ InterviewPage \/ AggregatePage \/ AnswerPage \/ VerifyExport
  /\ Captures /\ UNCHANGED <<configured, restoring, bookmark, rewound, era>> /\ Idle
Restarts == Restart /\ Idle
\* What a request does next, changed alone.
LEMMA BecomesIs ==
  ASSUME RequestsOK, NEW r \in Request, NEW does \in Does, asking[r].key \in Key,
         Becomes(r, does), UNCHANGED calls
  PROVE  Moves(r, does) /\ RequestsOK'
<1>1. PICK k : asking \in [Request -> [does : Does, key : Key \cup {k}]]
  BY DEF RequestsOK
<1>2. asking' = [asking EXCEPT ![r].does = does]
  BY DEF Becomes
<1>3. /\ asking' \in [Request -> [does : Does, key : Key \cup {k}]]
      /\ asking'[r].does = does /\ asking'[r].key = asking[r].key
      /\ \A x \in Request \ {r} : asking'[x] = asking[x]
  BY <1>1, <1>2
<1> QED BY <1>3 DEF RequestsOK, Moves

\* A question takes its key.
LEMMA AskIs ==
  ASSUME Types, NEW r \in Request, NEW k \in Key, Ask(r, k)
  PROVE  Asks(r) /\ Types'
<1>1. PICK x : asking \in [Request -> [does : Does, key : Key \cup {x}]]
  BY DEF Types, RequestsOK
<1>2. asking' = [asking EXCEPT ![r] = [does |-> "asks", key |-> k]]
  BY DEF Ask
<1>3. /\ asking' \in [Request -> [does : Does, key : Key \cup {x}]]
      /\ asking'[r].does = "asks" /\ asking'[r].key = k
      /\ \A y \in Request \ {r} : asking'[y] = asking[y]
  BY <1>1, <1>2 DEF Does
<1>4. RequestsOK'
  <2>1. \A y \in Request : asking'[y].does # "idle" => asking'[y].key \in Key
    BY <1>3 DEF Types, RequestsOK
  <2>2. calls' \in [Key -> Nat]
    BY DEF Ask, Types, RequestsOK
  <2> QED BY <1>3, <2>1, <2>2 DEF RequestsOK
<1>5. UNCHANGED <<storage, bookmark, configured, era, exporting, restoring, rewound, calls>>
  BY DEF Ask
<1>6. Types'
  BY <1>4, <1>5 DEF Types, StoreOK, StoreShape, StorageOK, ExportOK, Exporting, TextShape, TableOf
<1>7. Asks(r)
  BY <1>3, <1>5 DEF Asks, Kept, Ask
<1> QED BY <1>6, <1>7

\* Types' of a step that only serves a request.
LEMMA ServingTypes ==
  ASSUME Types, StoreOK(storage'), RequestsOK', Kept
  PROVE  Types'
<1>1. /\ StoreOK(bookmark)' /\ StoreOK(storage)' /\ configured' \in Epoch /\ era' \in Nat
  BY DEF Types, Kept, StoreOK, StoreShape, StorageOK
<1>2. ExportOK'
  BY DEF Types, Kept, ExportOK, Exporting, TextShape, TableOf
<1> QED BY <1>1, <1>2 DEF Types

\* fail: nothing, or one status of a running answer.
LEMMA FailIs ==
  ASSUME Types, NEW r, NEW status \in {"failed", "recovery-required"}, FailAnswer(r, status)
  PROVE  Marked(r, {"running"}, status) /\ StoreOK(storage')
<1>1. CASE UNCHANGED storage
  BY <1>1 DEF Marked, Types, StoreOK, StoreShape, StorageOK
<1>2. CASE ~UNCHANGED storage
  <2>1. /\ r \in DOMAIN storage.answers /\ storage.answers[r].status = "running" /\ Bounded
        /\ storage' = Bumped([storage EXCEPT !.answers[r].status = status])
    BY <1>2 DEF FailAnswer
  <2>2. SetsStatus(r, status) /\ StoreOK(storage')
    BY <2>1, StatusWrites DEF Statuses
  <2> QED BY <2>1, <2>2 DEF Marked
<1> QED BY <1>1, <1>2
\* Every step of a request is of one of these kinds.
LEMMA RequestSteps ==
  ASSUME Types, NEW r \in Request,
         \/ Reserve(r) \/ RefuseBudget(r) \/ CallProvider(r) \/ ProviderAnswers(r)
         \/ DoubtRunning(r) \/ MarkInterrupted(r) \/ Die(r)
         \/ \E status \in {"failed", "recovery-required"} : ProviderFails(r, status)
         \/ \E heard \in BOOLEAN : CompleteAnswer(r, heard)
  PROVE  Serves /\ Types'
<1>0. RequestsOK /\ StoreOK(storage) /\ (asking[r].does # "idle" => asking[r].key \in Key)
  BY DEF Types, RequestsOK
<1>s. ASSUME UNCHANGED storage PROVE StoreOK(storage')
  BY <1>0, <1>s DEF StoreOK, StoreShape, StorageOK
<1>1. CASE Reserve(r) /\ Admits(r)
  <2>1. AddsRow(r) /\ StoreOK(storage')
    BY <1>1, ReserveWrites
  <2>2. Becomes(r, "admitted") /\ Kept /\ UNCHANGED calls /\ asking[r].does = "asks"
    BY <1>1 DEF Reserve, Kept
  <2>3. Moves(r, "admitted") /\ RequestsOK'
    BY <1>0, <2>2, BecomesIs DEF Does
  <2>4. Admitted(r)
    BY <1>1, <2>1, <2>2, <2>3 DEF Admitted, Admits
  <2> QED BY <2>1, <2>2, <2>3, <2>4, ServingTypes DEF Serves
<1>2. CASE (Reserve(r) /\ ~Admits(r)) \/ Die(r)
  <2>1. /\ asking[r].does \in {"asks", "admitted", "waits", "knows"} /\ Becomes(r, "gone")
        /\ UNCHANGED storage /\ Kept /\ UNCHANGED calls
    BY <1>2 DEF Reserve, Die, Kept
  <2>2. Moves(r, "gone") /\ RequestsOK'
    BY <1>0, <2>1, BecomesIs DEF Does
  <2>3. GivesUp(r)
    BY <2>1, <2>2 DEF GivesUp, Marked
  <2> QED BY <1>s, <2>1, <2>2, <2>3, ServingTypes DEF Serves
<1>3. CASE RefuseBudget(r) \/ \E status \in {"failed", "recovery-required"} : ProviderFails(r, status)
  <2>1. PICK status \in {"failed", "recovery-required"} : FailAnswer(r, status)
    BY <1>3 DEF RefuseBudget, ProviderFails
  <2>2. /\ asking[r].does \in {"admitted", "waits"} /\ Becomes(r, "gone") /\ Kept /\ UNCHANGED calls
    BY <1>3 DEF RefuseBudget, ProviderFails, Kept
  <2>3. Marked(r, {"running"}, status) /\ StoreOK(storage')
    BY <2>1, FailIs
  <2>4. Moves(r, "gone") /\ RequestsOK'
    BY <1>0, <2>2, BecomesIs DEF Does
  <2>5. GivesUp(r)
    BY <2>2, <2>3, <2>4 DEF GivesUp
  <2> QED BY <2>2, <2>3, <2>4, <2>5, ServingTypes DEF Serves
<1>4. CASE CallProvider(r)
  <2>1. /\ asking[r].does = "admitted" /\ Becomes(r, "waits") /\ Kept /\ UNCHANGED storage
        /\ calls' = [calls EXCEPT ![asking[r].key] = @ + 1]
    BY <1>4 DEF CallProvider, Kept
  <2>2. Moves(r, "waits") /\ RequestsOK'
    <3>1. PICK k : asking \in [Request -> [does : Does, key : Key \cup {k}]]
      BY <1>0 DEF RequestsOK
    <3>2. /\ asking' \in [Request -> [does : Does, key : Key \cup {k}]]
          /\ asking'[r].does = "waits" /\ asking'[r].key = asking[r].key
          /\ \A x \in Request \ {r} : asking'[x] = asking[x]
      BY <2>1, <3>1 DEF Becomes, Does
    <3>3. calls' \in [Key -> Nat]
      BY <1>0, <2>1 DEF RequestsOK
    <3>4. \A x \in Request : asking'[x].does # "idle" => asking'[x].key \in Key
      BY <1>0, <2>1, <3>2 DEF RequestsOK
    <3> QED BY <3>2, <3>3, <3>4 DEF RequestsOK, Moves
  <2>3. Calls(r)
    BY <2>1, <2>2 DEF Calls
  <2> QED BY <1>s, <2>1, <2>2, <2>3, ServingTypes DEF Serves
<1>5. CASE ProviderAnswers(r)
  <2>1. asking[r].does = "waits" /\ Becomes(r, "knows") /\ Kept /\ UNCHANGED <<storage, calls>>
    BY <1>5 DEF ProviderAnswers, Kept
  <2>2. Moves(r, "knows") /\ RequestsOK'
    BY <1>0, <2>1, BecomesIs DEF Does
  <2>3. Hears(r)
    BY <2>1, <2>2 DEF Hears
  <2> QED BY <1>s, <2>1, <2>2, <2>3, ServingTypes DEF Serves
<1>6. CASE DoubtRunning(r) \/ MarkInterrupted(r)
  <2>1. Kept /\ UNCHANGED <<asking, calls>>
    BY <1>6 DEF DoubtRunning, MarkInterrupted, Kept
  <2>2. Marked(r, {"running"}, "recovery-required") /\ StoreOK(storage')
    <3>1. CASE DoubtRunning(r)
      BY <1>s, <3>1 DEF DoubtRunning, Marked
    <3>2. CASE MarkInterrupted(r)
      BY <3>2, FailIs DEF MarkInterrupted
    <3> QED BY <1>6, <3>1, <3>2
  <2>3. RequestsOK'
    BY <1>0, <2>1 DEF RequestsOK
  <2>4. Doubts(r)
    BY <2>1, <2>2 DEF Doubts
  <2> QED BY <2>1, <2>2, <2>3, <2>4, ServingTypes DEF Serves
<1>7. ASSUME NEW heard \in BOOLEAN, CompleteAnswer(r, heard) PROVE Serves /\ Types'
  <2>1. PICK does \in {"done", "holds"} :
          /\ Becomes(r, does)
          /\ does = "done" => MutationAllowed /\ r \in DOMAIN storage.answers
                              /\ storage'.answers[r].status = "complete"
    BY <1>7 DEF CompleteAnswer
  <2>2. asking[r].does \in {"knows", "holds"} /\ Kept /\ UNCHANGED calls
    BY <1>7 DEF CompleteAnswer, Kept
  <2>3. Moves(r, does) /\ RequestsOK'
    BY <1>0, <2>1, <2>2, BecomesIs DEF Does
  <2>4. Marked(r, {"running", "recovery-required"}, "complete") /\ StoreOK(storage')
    <3>1. CASE Completable(r)
      <4>1. /\ r \in DOMAIN storage.answers /\ Bounded
            /\ storage.answers[r].status \in {"running", "recovery-required"}
            /\ storage' = Bumped([storage EXCEPT !.answers[r].status = "complete"])
        BY <1>7, <3>1 DEF CompleteAnswer, Completable
      <4>2. SetsStatus(r, "complete") /\ StoreOK(storage')
        BY <4>1, StatusWrites DEF Statuses
      <4> QED BY <4>1, <4>2 DEF Marked
    <3>2. CASE ~Completable(r)
      BY <1>7, <1>s, <3>2 DEF CompleteAnswer, Marked
    <3> QED BY <3>1, <3>2
  <2>5. r \in DOMAIN storage.answers => r \in DOMAIN storage'.answers
    BY <2>4 DEF Marked, SetsStatus
  <2>6. Saves(r, does)
    BY <2>1, <2>2, <2>3, <2>4, <2>5 DEF Saves
  <2> QED BY <2>2, <2>3, <2>4, <2>6, ServingTypes DEF Serves
<1> QED BY <1>1, <1>2, <1>3, <1>4, <1>5, <1>6, <1>7
\* Types' of a step that leaves the requests, the bookmark and the export alone.
LEMMA WritingTypes ==
  ASSUME Types, StoreOK(storage'), configured' \in Epoch, Idle,
         UNCHANGED <<bookmark, exporting, era>>
  PROVE  Types'
<1>1. StoreOK(bookmark)' /\ StoreOK(storage)' /\ era' \in Nat
  BY DEF Types, StoreOK, StoreShape, StorageOK
<1>2. ExportOK' /\ RequestsOK'
  BY DEF Types, ExportOK, Exporting, TextShape, TableOf, RequestsOK, Idle
<1> QED BY <1>1, <1>2 DEF Types

\* The study's other writers.
LEMMA WriterSteps ==
  ASSUME Types, ReplaceAggregate \/ FinishAnalysis \/ RemoveStudy
  PROVE  Writes /\ Types'
<1>1. StoreOK(storage)
  BY DEF Types
<1>2. /\ Bounded /\ Idle /\ UNCHANGED <<configured, bookmark, restoring, exporting, era, rewound>>
  BY DEF ReplaceAggregate, FinishAnalysis, RemoveStudy, Idle
<1>3. ASSUME NEW s, StoreShape(s), SameHold(s, storage), s.snapshots = storage.snapshots,
             s.sequence = storage.sequence, s.receipts = storage.receipts,
             s.answers = storage.answers \/ DOMAIN s.answers = {},
             storage' = Bumped(s)
      PROVE  StoreOK(storage')
  <2>1. /\ StoreShape(storage') /\ SameTables(storage', s) /\ SameHold(storage', s)
        /\ storage'.sequence = storage.sequence + 1
    BY <1>3, BumpedIs
  <2>2. storage'.sequence \in 0..MaxSequence + 1
    BY <1>1, <1>2, <2>1, NextSequence DEF StoreOK, Bounded
  <2> QED BY <1>1, <1>3, <2>1, <2>2 DEF StoreOK, StorageOK, SameTables, SameHold
<1>4. CASE ReplaceAggregate \/ FinishAnalysis
  <2>1. PICK s : /\ StoreShape(s) /\ SameTables(s, storage) /\ SameHold(s, storage)
                 /\ s.snapshots = storage.snapshots /\ s.sequence = storage.sequence
                 /\ storage' = Bumped(s)
    <3>1. CASE ReplaceAggregate
      BY <1>1, <3>1 DEF ReplaceAggregate, StoreOK, StoreShape, SameTables, SameHold
    <3>2. CASE FinishAnalysis
      BY <1>1, <3>2 DEF FinishAnalysis, StoreOK, StoreShape, SameTables, SameHold
    <3> QED BY <1>4, <3>1, <3>2
  <2>2. WritesElsewhere
    BY <2>1, BumpedIs DEF WritesElsewhere, SameTables, SameHold, SameOthers
  <2>3. StoreOK(storage')
    BY <1>3, <2>1 DEF SameTables
  <2> QED BY <1>2, <2>2, <2>3, WritingTypes DEF Writes, Kept, Types
<1>5. CASE RemoveStudy
  <2>1. PICK s : /\ StoreShape(s) /\ SameHold(s, storage) /\ ~s.study /\ DOMAIN s.answers = {}
                 /\ s.receipts = storage.receipts
                 /\ s.snapshots = storage.snapshots /\ s.sequence = storage.sequence
                 /\ storage' = Bumped(s)
    <3>1. DOMAIN <<>> = {}
      OBVIOUS
    <3> QED BY <1>1, <1>5, <3>1 DEF RemoveStudy, StoreOK, StoreShape, SameHold
  <2>2. RemovesStudy
    BY <2>1, BumpedIs DEF RemovesStudy, SameTables, SameHold, SameOthers
  <2>3. StoreOK(storage')
    BY <1>3, <2>1
  <2> QED BY <1>2, <2>2, <2>3, WritingTypes DEF Writes, Kept, Types
<1> QED BY <1>4, <1>5

\* classifyExplorations.
LEMMA ClassifiedIs ==
  ASSUME StoreOK(storage)
  PROVE  /\ StoreShape(Classified)
         /\ Classified.study = storage.study /\ Classified.receipts = storage.receipts
         /\ SameOthers(Classified, storage) /\ SameHold(Classified, storage)
         /\ \/ Running = {} /\ Classified = storage
            \/ Running # {} /\ Classified.sequence = storage.sequence + 1
         /\ DOMAIN Classified.answers = DOMAIN storage.answers
         /\ \A r \in DOMAIN storage.answers :
              /\ Classified.answers[r] \in Row
              /\ Classified.answers[r].era = storage.answers[r].era
              /\ Classified.answers[r].status =
                   IF r \in Running THEN "recovery-required" ELSE storage.answers[r].status
<1>0. /\ StoreShape(storage) /\ \A r \in DOMAIN storage.answers : storage.answers[r] \in Row
  BY DEF StoreOK
<1>1. CASE Running = {}
  BY <1>0, <1>1 DEF Classified, SameOthers, SameHold
<1>2. CASE Running # {}
  <2> DEFINE marked == [r \in DOMAIN storage.answers |->
                          IF r \in Running THEN [storage.answers[r] EXCEPT !.status = "recovery-required"]
                          ELSE storage.answers[r]]
             s == [storage EXCEPT !.answers = marked]
  <2>1. Classified = Bumped(s)
    BY <1>2 DEF Classified
  <2>2. /\ DOMAIN marked = DOMAIN storage.answers
        /\ \A r \in DOMAIN storage.answers :
             marked[r] = IF r \in Running THEN [storage.answers[r] EXCEPT !.status = "recovery-required"]
                         ELSE storage.answers[r]
    OBVIOUS
  <2>3. ASSUME NEW r \in DOMAIN storage.answers
        PROVE  /\ marked[r] \in Row /\ marked[r].era = storage.answers[r].era
               /\ marked[r].status = IF r \in Running THEN "recovery-required" ELSE storage.answers[r].status
    <3> HIDE DEF marked
    <3>1. storage.answers[r] \in Row
      BY <1>0
    <3>2. CASE r \in Running
      BY <2>2, <3>1, <3>2 DEF Row, Statuses
    <3>3. CASE r \notin Running
      BY <2>2, <3>1, <3>3
    <3> QED BY <3>2, <3>3
  <2> HIDE DEF marked
  <2>4. /\ StoreShape(s) /\ s.answers = marked
        /\ s.study = storage.study /\ s.receipts = storage.receipts /\ s.sequence = storage.sequence
        /\ SameOthers(s, storage) /\ SameHold(s, storage)
    BY <1>0 DEF StoreShape, SameOthers, SameHold
  <2> HIDE DEF s
  <2>5. /\ StoreShape(Classified) /\ Classified.answers = marked
        /\ Classified.study = storage.study /\ Classified.receipts = storage.receipts
        /\ Classified.sequence = storage.sequence + 1
        /\ SameOthers(Classified, storage) /\ SameHold(Classified, storage)
    BY <2>1, <2>4, BumpedIs DEF SameTables, SameOthers, SameHold
  <2> QED BY <1>2, <2>2, <2>3, <2>5
<1> QED BY <1>1, <1>2
\* A hold's write, counted or not, over what was classified or not.
LEMMA HoldWrites ==
  ASSUME Types, Bounded, NEW c, c = storage \/ c = Classified,
         NEW t, t = c \/ t = Bumped(c),
         StoreShape(storage'), storage'.state \in States, storage'.activated \in Epoch,
         SameTables(storage', t), SameOthers(storage', t), storage'.sequence = t.sequence
  PROVE  /\ Holds /\ StoreOK(storage')
         /\ c = Classified => Marks
<1>1. StoreOK(storage) /\ storage.sequence \in Nat
      /\ {storage.sequence, storage.sequence + 1, storage.sequence + 2} \subseteq 0..MaxSequence + 1
  BY NextSequence DEF Types, StoreOK, StorageOK, Bounded
<1>2. CASE c = Classified
  <2>1. StoreShape(c)
    BY <1>1, <1>2, ClassifiedIs
  <2>2. /\ SameTables(t, c) /\ SameOthers(t, c)
        /\ t.sequence \in {c.sequence, c.sequence + 1}
    BY <2>1, BumpedIs DEF SameTables, SameOthers
  <2>3. /\ storage'.answers = Classified.answers /\ storage'.study = storage.study
        /\ storage'.receipts = storage.receipts /\ SameOthers(storage', storage)
    BY <1>1, <1>2, <2>2, ClassifiedIs DEF SameTables, SameOthers
  <2>4. Marks /\ \A r \in DOMAIN storage'.answers : storage'.answers[r] \in Row
    BY <1>1, <2>3, ClassifiedIs DEF Marks
  <2>5. storage'.sequence \in 0..MaxSequence + 1 /\ storage'.sequence >= storage.sequence
    BY <1>1, <1>2, <2>2, ClassifiedIs
  <2>6. storage'.sequence = storage.sequence => storage'.answers = storage.answers
    BY <1>1, <1>2, <2>2, <2>3, ClassifiedIs
  <2> QED BY <1>1, <2>3, <2>4, <2>5, <2>6, ClassifiedIs DEF Holds, StoreOK, StorageOK, Row
<1>3. CASE c # Classified
  <2>1. /\ SameTables(t, storage) /\ SameOthers(t, storage)
        /\ t.sequence \in {storage.sequence, storage.sequence + 1}
    BY <1>1, <1>3, BumpedIs DEF StoreOK, SameTables, SameOthers
  <2> QED BY <1>1, <1>3, <2>1 DEF Holds, StoreOK, StorageOK, SameTables, SameOthers
<1> QED BY <1>2, <1>3

\* Maintenance and a new epoch.
LEMMA OperatorSteps ==
  ASSUME Types, (\E next \in States, classify \in BOOLEAN : Transition(next, classify)) \/ Activate
  PROVE  (Maintains \/ Activates) /\ Types'
<1>1. /\ StoreOK(storage) /\ configured \in Epoch /\ Bounded /\ Idle
      /\ UNCHANGED <<configured, bookmark, restoring, exporting, era, rewound>>
  BY DEF Transition, Activate, Idle, Types
<1>2. ASSUME NEW next \in States, NEW classify \in BOOLEAN, Transition(next, classify)
      PROVE  Maintains /\ Types'
  <2>1. PICK c : /\ c = IF next = "frozen" THEN Classified ELSE storage
                 /\ storage' = [c EXCEPT !.state = next, !.version = @ + 1]
    BY <1>2 DEF Transition
  <2>2. StoreShape(c) /\ SameHold(c, storage)
    BY <1>1, <2>1, ClassifiedIs DEF StoreOK, SameHold
  <2>3. /\ StoreShape(storage') /\ storage'.state = next /\ storage'.activated = c.activated
        /\ SameTables(storage', c) /\ SameOthers(storage', c) /\ storage'.sequence = c.sequence
    BY <2>1, <2>2 DEF StoreShape, SameTables, SameOthers
  <2>4. storage'.activated = storage.activated /\ storage.activated \in Epoch
    BY <1>1, <2>2, <2>3 DEF SameHold, StoreOK, StorageOK
  <2>5. Holds /\ StoreOK(storage') /\ (next = "frozen" => Marks)
    BY <1>1, <2>1, <2>3, <2>4, HoldWrites
  <2> QED BY <1>1, <2>3, <2>4, <2>5, WritingTypes DEF Maintains, Kept
<1>3. CASE Activate
  <2>1. storage' = Bumped([Classified EXCEPT !.activated = configured,
                                             !.superseded = @ \cup {storage.activated}])
    BY <1>3 DEF Activate
  <2>2. StoreShape(Classified) /\ SameHold(Classified, storage)
    BY <1>1, ClassifiedIs
  <2> DEFINE s == [Classified EXCEPT !.activated = configured, !.superseded = @ \cup {storage.activated}]
  <2>3. /\ storage' = Bumped(s) /\ StoreShape(s)
        /\ SameTables(s, Classified) /\ SameOthers(s, Classified)
        /\ s.sequence = Classified.sequence /\ s.activated = configured
        /\ s.state = Classified.state
    BY <2>1, <2>2 DEF StoreShape, SameTables, SameOthers
  <2> HIDE DEF s
  <2>4. /\ StoreShape(storage') /\ storage'.state = storage.state /\ storage'.activated = configured
        /\ SameTables(storage', Bumped(Classified)) /\ SameOthers(storage', Bumped(Classified))
        /\ storage'.sequence = Bumped(Classified).sequence
    BY <2>2, <2>3, BumpedIs DEF SameTables, SameOthers, SameHold
  <2>5. storage.state \in States
    BY <1>1 DEF StoreOK, StorageOK
  <2>6. Holds /\ StoreOK(storage') /\ Marks
    BY <1>1, <2>4, <2>5, HoldWrites
  <2> QED BY <1>1, <2>4, <2>6, WritingTypes DEF Activates, Kept
<1> QED BY <1>2, <1>3
\* Epochs, bookmarks and restores.
LEMMA RestoreSteps ==
  ASSUME Types, RotateEpoch \/ TakeBookmark \/ BeginRestore \/ ScheduleRestore \/ Restart
  PROVE  (Rotates \/ Bookmarks \/ Schedules \/ Restarts) /\ Types'
<1>1. /\ StoreOK(storage) /\ StoreOK(bookmark) /\ configured \in Epoch /\ era \in Nat
      /\ RequestsOK /\ ExportOK
  BY DEF Types
<1>2. Idle /\ UNCHANGED exporting
  BY DEF RotateEpoch, TakeBookmark, BeginRestore, ScheduleRestore, Restart, Idle
<1>3. RequestsOK' /\ ExportOK'
  BY <1>1, <1>2 DEF RequestsOK, Idle, ExportOK, Exporting, TextShape, TableOf
<1>4. ASSUME NEW s, StoreOK(s), NEW t, t = s PROVE StoreOK(t)
  BY <1>4
<1>5. CASE RotateEpoch
  <2>1. Rotates /\ configured' \in Epoch /\ UNCHANGED <<storage, bookmark, era>>
    BY <1>2, <1>5 DEF RotateEpoch, Rotates
  <2> QED BY <1>1, <1>3, <2>1, <1>4 DEF Types, StoreOK, StoreShape, StorageOK
<1>6. CASE TakeBookmark
  <2>1. Bookmarks /\ bookmark' = storage /\ UNCHANGED <<storage, configured, era>>
    BY <1>2, <1>6 DEF TakeBookmark, Bookmarks
  <2> QED BY <1>1, <1>3, <2>1 DEF Types, StoreOK, StoreShape, StorageOK
<1>7. CASE BeginRestore \/ ScheduleRestore
  <2>1. UNCHANGED <<storage, configured, bookmark, era, rewound>>
    BY <1>7 DEF BeginRestore, ScheduleRestore
  <2>2. restoring'.does = "scheduled" => configured # storage.activated
    BY <1>7 DEF BeginRestore, ScheduleRestore, MayRestore
  <2>3. Schedules
    BY <1>2, <2>1, <2>2 DEF Schedules
  <2> QED BY <1>1, <1>3, <2>1, <2>3 DEF Types, StoreOK, StoreShape, StorageOK
<1>8. CASE Restart
  <2>1. Restarts /\ storage' = bookmark /\ era' = era + 1 /\ UNCHANGED <<bookmark, configured>>
    BY <1>2, <1>8 DEF Restart, Restarts
  <2> QED BY <1>1, <1>3, <2>1 DEF Types, StoreOK, StoreShape, StorageOK
<1> QED BY <1>5, <1>6, <1>7, <1>8

\* The text an export reads.
LEMMA TextIs ==
  /\ TextShape(Text) /\ TableOf(Text) /\ TextShape(NoText)
  /\ Text.analysed = storage.analysed /\ Text.aggregate = storage.aggregate
  /\ DOMAIN Text.answers = DOMAIN storage.answers
  /\ \A r \in DOMAIN storage.answers : Text.answers[r] = storage.answers[r].status
BY DEF Text, NoText, TextShape, TableOf

\* A page keeps the export's beginning, whatever it adds to the archive.
LEMMA PageIs ==
  ASSUME Types, Exporting, NEW does, NEW live, NEW page, TextShape(page),
         NEW next \in {"aggregates", "answers", "verify", "done"}, Page(does, live, page, next)
  PROVE  /\ ExportOK'
         /\ \/ storage' = storage \/ storage' = [storage EXCEPT !.snapshots = Loaded]
         /\ \/ exporting' = [does |-> "changed"]
            \/ /\ exporting.sequence \in DOMAIN Loaded
               /\ exporting' = [exporting EXCEPT !.does = next, !.archive = page]
<1>1. /\ \/ storage' = storage \/ storage' = [storage EXCEPT !.snapshots = Loaded]
      /\ \/ exporting' = [does |-> "changed"]
         \/ /\ exporting.sequence \in DOMAIN Loaded
            /\ exporting' = [exporting EXCEPT !.does = next, !.archive = page]
  BY DEF Page
<1>2. CASE exporting' = [does |-> "changed"]
  BY <1>1, <1>2 DEF ExportOK, Exporting
<1>3. CASE exporting' = [exporting EXCEPT !.does = next, !.archive = page]
  <2>1. /\ exporting \in [does : {"interviews", "aggregates", "answers", "verify", "done"},
                          sequence : Nat, archive : {exporting.archive}, began : {exporting.began},
                          era : Nat]
        /\ TextShape(exporting.began) /\ TableOf(exporting.began)
    BY DEF Types, ExportOK
  <2>2. /\ exporting'.archive = page /\ exporting'.began = exporting.began
        /\ exporting' \in [does : {"interviews", "aggregates", "answers", "verify", "done"},
                          sequence : Nat, archive : {page}, began : {exporting.began}, era : Nat]
    BY <1>3, <2>1
  <2> QED BY <1>1, <2>1, <2>2 DEF ExportOK
<1> QED BY <1>1, <1>2, <1>3

\* Snapshots change alone.
LEMMA SnapshotsAre ==
  ASSUME StoreOK(storage), NEW snapshots, storage' = [storage EXCEPT !.snapshots = snapshots]
  PROVE  StoreOK(storage') /\ Captures /\ storage'.snapshots = snapshots
BY DEF StoreOK, StoreShape, StorageOK, Captures, SameTables, SameHold, Row
\* Every page, with what it adds.
LEMMA PageSteps ==
  ASSUME Types, InterviewPage \/ AggregatePage \/ AnswerPage \/ VerifyExport
  PROVE  Exports /\ Types'
<1>1. /\ StoreOK(storage) /\ StoreOK(bookmark) /\ configured \in Epoch /\ era \in Nat
      /\ RequestsOK /\ ExportOK
  BY DEF Types
<1>2. Exporting
  BY DEF InterviewPage, AggregatePage, AnswerPage, VerifyExport, Page, Exporting
<1>3. TextShape(exporting.archive)
  BY <1>1, <1>2 DEF ExportOK
<1>4. Idle /\ UNCHANGED <<configured, restoring, bookmark, rewound, era>>
  BY DEF InterviewPage, AggregatePage, AnswerPage, VerifyExport, Page, Idle
<1>5. /\ ExportOK'
      /\ storage' = storage \/ storage' = [storage EXCEPT !.snapshots = Loaded]
  <2>1. CASE InterviewPage
    <3>1. TextShape([exporting.archive EXCEPT !.analysed = Captured.analysed])
      BY <1>3 DEF TextShape
    <3> QED BY <1>2, <2>1, <3>1, PageIs DEF InterviewPage, AfterInterviews, AfterAggregates
  <2>2. CASE AggregatePage
    <3>1. TextShape([exporting.archive EXCEPT !.aggregate =
                      IF Captured.aggregate # 0 THEN storage.aggregate ELSE @])
      BY <1>3 DEF TextShape
    <3> QED BY <1>2, <2>2, <3>1, PageIs DEF AggregatePage, AfterAggregates
  <2>3. CASE AnswerPage
    <3>1. TextShape([exporting.archive EXCEPT !.answers =
                      [r \in DOMAIN Captured.answers |-> storage.answers[r].status]])
      BY <1>3 DEF TextShape
    <3> QED BY <1>2, <2>3, <3>1, PageIs DEF AnswerPage
  <2>4. CASE VerifyExport
    BY <1>2, <1>3, <2>4, PageIs DEF VerifyExport
  <2> QED BY <2>1, <2>2, <2>3, <2>4
<1>6. StoreOK(storage') /\ Captures
  <2>1. CASE storage' = storage
    BY <1>1, <2>1 DEF StoreOK, StoreShape, StorageOK, Captures, SameTables, SameHold
  <2>2. CASE storage' = [storage EXCEPT !.snapshots = Loaded]
    BY <1>1, <2>2, SnapshotsAre
  <2> QED BY <1>5, <2>1, <2>2
<1>7. RequestsOK' /\ StoreOK(bookmark)'
  BY <1>1, <1>4 DEF RequestsOK, Idle, StoreOK, StoreShape, StorageOK
<1> QED BY <1>1, <1>4, <1>5, <1>6, <1>7 DEF Exports, Types, StoreOK, StoreShape, StorageOK

\* An export begins, and snapshots go.
LEMMA SnapshotSteps ==
  ASSUME Types, BeginExport \/ PruneSnapshots
  PROVE  Exports /\ Types'
<1>1. /\ StoreOK(storage) /\ StoreOK(bookmark) /\ configured \in Epoch /\ era \in Nat
      /\ RequestsOK /\ ExportOK
  BY DEF Types
<1>2. Idle /\ UNCHANGED <<configured, restoring, bookmark, rewound, era>>
  BY DEF BeginExport, PruneSnapshots, Idle
<1>3. PICK snapshots : storage' = [storage EXCEPT !.snapshots = snapshots]
  BY DEF BeginExport, PruneSnapshots
<1>4. StoreOK(storage') /\ Captures
  BY <1>1, <1>3, SnapshotsAre
<1>5. ExportOK'
  <2>1. CASE BeginExport
    <3>1. /\ exporting' = [does |-> "interviews", sequence |-> storage.sequence, archive |-> NoText,
                           began |-> Text, era |-> era]
          /\ storage.sequence \in Nat
      BY <1>1, <2>1, NextSequence DEF BeginExport, StoreOK
    <3> QED BY <1>1, <3>1, TextIs DEF ExportOK, Exporting
  <2>2. CASE PruneSnapshots
    BY <1>1, <2>2 DEF PruneSnapshots, ExportOK, Exporting, TextShape, TableOf
  <2> QED BY <2>1, <2>2
<1>6. RequestsOK' /\ StoreOK(bookmark)'
  BY <1>1, <1>2 DEF RequestsOK, Idle, StoreOK, StoreShape, StorageOK
<1> QED BY <1>1, <1>2, <1>4, <1>5, <1>6 DEF Exports, Types, StoreOK, StoreShape, StorageOK

Stays == UNCHANGED <<storage, configured, restoring, bookmark, exporting, rewound, era>> /\ Idle

\* Every step is of one of the kinds, and keeps the types.
LEMMA Steps ==
  ASSUME Types, [NotebookNext]_notebook
  PROVE  /\ Types'
         /\ \/ Serves \/ Writes \/ Maintains \/ Activates \/ Rotates \/ Bookmarks \/ Schedules
            \/ Restarts \/ Exports \/ Stays
<1>1. ASSUME NEW r \in Request, NEW k \in Key, Ask(r, k) PROVE Serves /\ Types'
  BY <1>1, AskIs DEF Serves
<1>2. CASE UNCHANGED notebook
  <2>1. Stays
    BY <1>2 DEF notebook, Stays, Idle
  <2>2. /\ StoreOK(storage) /\ StoreOK(bookmark) /\ configured \in Epoch /\ era \in Nat
        /\ RequestsOK /\ ExportOK
    BY DEF Types
  <2>3. RequestsOK'
    BY <2>1, <2>2 DEF Stays, Idle, RequestsOK
  <2>4. ExportOK'
    BY <2>1, <2>2 DEF Stays, ExportOK, Exporting, TextShape, TableOf
  <2>5. StoreOK(storage') /\ StoreOK(bookmark')
    BY <2>1, <2>2 DEF Stays, StoreOK, StoreShape, StorageOK
  <2> QED BY <2>1, <2>2, <2>3, <2>4, <2>5 DEF Stays, Types, StoreOK, StoreShape, StorageOK
<1> QED BY <1>1, <1>2, RequestSteps, WriterSteps, OperatorSteps, RestoreSteps, PageSteps,
           SnapshotSteps DEF NotebookNext
\* The first storage is empty.
LEMMA NotebookBegins ==
  ASSUME NotebookInit
  PROVE  /\ Types
         /\ DOMAIN storage.answers = {} /\ DOMAIN storage.receipts = {}
         /\ bookmark = storage /\ storage.state = "open" /\ storage.activated = 0
         /\ configured = 0 /\ era = 0 /\ rewound = {} /\ storage.study
         /\ restoring.does = "idle" /\ ~Exporting
         /\ \A r \in Request : asking[r].does = "idle"
         /\ \A k \in Key : calls[k] = 0
<1>0. DOMAIN <<>> = {}
  OBVIOUS
<1>1. /\ storage = [study |-> TRUE, answers |-> <<>>, receipts |-> <<>>, analysed |-> FALSE, aggregate |-> 0,
                    sequence |-> 0, snapshots |-> <<>>, state |-> "open", version |-> 0,
                    activated |-> 0, superseded |-> {}]
      /\ bookmark = storage /\ configured = 0 /\ era = 0 /\ rewound = {}
      /\ restoring = [does |-> "idle"] /\ exporting = [does |-> "idle"]
      /\ asking = [r \in Request |-> [does |-> "idle", key |-> CHOOSE k \in Key : TRUE]]
      /\ calls = [k \in Key |-> 0]
  BY DEF NotebookInit
<1>2. /\ storage.study /\ storage.answers = <<>> /\ storage.receipts = <<>> /\ storage.sequence = 0
      /\ storage.state = "open" /\ storage.activated = 0 /\ StoreShape(storage)
  BY <1>1 DEF StoreShape
<1>3. StoreOK(storage) /\ StoreOK(bookmark)
  BY <1>0, <1>1, <1>2, NotebookAssumption DEF StoreOK, StorageOK, States
<1>4. RequestsOK
  <2> DEFINE key == CHOOSE k \in Key : TRUE
  <2>1. asking = [r \in Request |-> [does |-> "idle", key |-> key]]
    BY <1>1
  <2> HIDE DEF key
  <2>2. asking \in [Request -> [does : Does, key : Key \cup {key}]]
    BY <2>1 DEF Does
  <2>3. \A r \in Request : asking[r].does = "idle"
    BY <2>1
  <2>4. calls \in [Key -> Nat]
    BY <1>1
  <2> QED BY <2>2, <2>3, <2>4 DEF RequestsOK
<1>5. ~Exporting /\ ExportOK
  BY <1>1 DEF Exporting, ExportOK
<1>6. Types
  BY <1>1, <1>3, <1>4, <1>5, NotebookAssumption DEF Types
<1> QED BY <1>0, <1>1, <1>2, <1>5, <1>6

\* Every table keeps its shape: rows belong to requests, receipts to keys, the
\* epochs are the deployment's, and the mutation sequence passes its bound by
\* one at most.
THEOREM NotebookTypeCorrect == NotebookSpec => []NotebookTypeOK
<1>1. NotebookInit => Types
  BY NotebookBegins
<1>2. Types /\ [NotebookNext]_notebook => Types'
  BY Steps
<1>3. Types => NotebookTypeOK
  BY DEF Types, StoreOK, RequestsOK, NotebookTypeOK, Does
<1> QED BY <1>1, <1>2, <1>3, PTL DEF NotebookSpec
-----------------------------------------------------------------------------
(* One call under a key.                                                   *)

Reserved == {"admitted", "waits", "knows", "holds", "done"}
Called   == {"waits", "knows", "holds", "done", "gone"}

\* No receipt of the bookmark is taken back.
ReceiptsKept ==
  \A k \in DOMAIN bookmark.receipts :
    k \in DOMAIN storage.receipts /\ storage.receipts[k] = bookmark.receipts[k]

\* A request that reserved its question is the one its key's receipt names.
ReceiptsAreOfReservers ==
  \A r \in Request : asking[r].does \in Reserved /\ asking[r].key \notin rewound =>
    asking[r].key \in DOMAIN storage.receipts /\ storage.receipts[asking[r].key] = r

\* A call was made by the request its receipt names.
CallsAreReserved ==
  \A k \in Key : k \notin rewound =>
    /\ calls[k] \in {0, 1}
    /\ calls[k] = 1 => /\ k \in DOMAIN storage.receipts
                       /\ asking[storage.receipts[k]].does \in Called

CallInv == Types /\ ReceiptsKept /\ ReceiptsAreOfReservers /\ CallsAreReserved

\* A step that writes no receipt and makes no call, and reserves nothing.
LEMMA QuietCalls ==
  ASSUME CallInv, Types', UNCHANGED <<calls, rewound>>,
         storage'.receipts = storage.receipts,
         bookmark' \in {bookmark, storage},
         \A r \in Request :
           /\ asking'[r].does \in Reserved => asking[r].does \in Reserved /\ asking'[r].key = asking[r].key
           /\ asking[r].does \in Called => asking'[r].does \in Called
  PROVE  CallInv'
<1>1. ReceiptsKept'
  BY DEF CallInv, ReceiptsKept
<1>2. ReceiptsAreOfReservers'
  BY DEF CallInv, ReceiptsAreOfReservers
<1>3. \A k \in DOMAIN storage.receipts : storage.receipts[k] \in Request
  BY DEF CallInv, Types, StoreOK, StorageOK
<1>4. CallsAreReserved'
  BY <1>3 DEF CallInv, CallsAreReserved
<1> QED BY <1>1, <1>2, <1>4 DEF CallInv

\* A reservation.
LEMMA AdmittedCalls ==
  ASSUME CallInv, Types', NEW r \in Request, Admitted(r)
  PROVE  CallInv'
<1> DEFINE key == asking[r].key
<1>0. /\ key \in Key /\ key \notin DOMAIN storage.receipts
      /\ asking[r].does = "asks" /\ asking'[r].does = "admitted" /\ asking'[r].key = key
      /\ \A x \in Request \ {r} : asking'[x] = asking[x]
      /\ UNCHANGED <<bookmark, rewound, calls>>
  BY DEF Admitted, Moves, CallInv, Types, RequestsOK, Kept
<1>1. storage'.receipts = Extend(storage.receipts, key, r)
  BY DEF Admitted, AddsRow
<1> HIDE DEF key
<1>2. /\ DOMAIN storage'.receipts = DOMAIN storage.receipts \cup {key}
      /\ storage'.receipts[key] = r
      /\ \A k \in DOMAIN storage.receipts : storage'.receipts[k] = storage.receipts[k]
  BY <1>0, <1>1 DEF Extend
<1>3. ReceiptsKept'
  BY <1>0, <1>2 DEF CallInv, ReceiptsKept
<1>4. ReceiptsAreOfReservers'
  <2> SUFFICES ASSUME NEW x \in Request, asking'[x].does \in Reserved, asking'[x].key \notin rewound
               PROVE  asking'[x].key \in DOMAIN storage'.receipts /\ storage'.receipts[asking'[x].key] = x
    BY <1>0 DEF ReceiptsAreOfReservers
  <2>1. CASE x = r
    BY <1>0, <1>2, <2>1
  <2>2. CASE x # r
    BY <1>0, <1>2, <2>2 DEF CallInv, ReceiptsAreOfReservers
  <2> QED BY <2>1, <2>2
<1>5. CallsAreReserved'
  <2> SUFFICES ASSUME NEW k \in Key, k \notin rewound
               PROVE  /\ calls[k] \in {0, 1}
                      /\ calls[k] = 1 => /\ k \in DOMAIN storage'.receipts
                                         /\ asking'[storage'.receipts[k]].does \in Called
    BY <1>0 DEF CallsAreReserved
  <2>1. /\ calls[k] \in {0, 1}
        /\ calls[k] = 1 => k \in DOMAIN storage.receipts /\ asking[storage.receipts[k]].does \in Called
    BY DEF CallInv, CallsAreReserved
  <2>2. ASSUME calls[k] = 1 PROVE asking'[storage'.receipts[k]].does \in Called
    <3>1. storage.receipts[k] \in Request /\ storage.receipts[k] # r /\ k # key
      BY <1>0, <2>1, <2>2 DEF Called, CallInv, Types, StoreOK, StorageOK
    <3> QED BY <1>0, <1>2, <2>1, <2>2, <3>1
  <2> QED BY <1>2, <2>1, <2>2
<1> QED BY <1>3, <1>4, <1>5 DEF CallInv

\* A call.
LEMMA CalledCalls ==
  ASSUME CallInv, Types', NEW r \in Request, Calls(r)
  PROVE  CallInv'
<1> DEFINE key == asking[r].key
<1>0. /\ key \in Key
      /\ asking[r].does = "admitted" /\ asking'[r].does = "waits" /\ asking'[r].key = key
      /\ \A x \in Request \ {r} : asking'[x] = asking[x]
      /\ UNCHANGED <<bookmark, rewound, storage>>
      /\ calls \in [Key -> Nat] /\ calls' = [calls EXCEPT ![key] = @ + 1]
  BY DEF Calls, Moves, CallInv, Types, RequestsOK, Kept
<1> HIDE DEF key
<1>1. ReceiptsKept'
  BY <1>0 DEF CallInv, ReceiptsKept
<1>2. ReceiptsAreOfReservers'
  <2> SUFFICES ASSUME NEW x \in Request, asking'[x].does \in Reserved, asking'[x].key \notin rewound
               PROVE  asking'[x].key \in DOMAIN storage.receipts /\ storage.receipts[asking'[x].key] = x
    BY <1>0 DEF ReceiptsAreOfReservers
  <2>1. asking[x].does \in Reserved /\ asking'[x].key = asking[x].key
    BY <1>0 DEF Reserved, key
  <2> QED BY <2>1 DEF CallInv, ReceiptsAreOfReservers
<1>3. CallsAreReserved'
  <2> SUFFICES ASSUME NEW k \in Key, k \notin rewound
               PROVE  /\ calls'[k] \in {0, 1}
                      /\ calls'[k] = 1 => /\ k \in DOMAIN storage.receipts
                                          /\ asking'[storage.receipts[k]].does \in Called
    BY <1>0 DEF CallsAreReserved
  <2>1. /\ calls[k] \in {0, 1}
        /\ calls[k] = 1 => k \in DOMAIN storage.receipts /\ asking[storage.receipts[k]].does \in Called
    BY DEF CallInv, CallsAreReserved
  <2>2. CASE k = key
    <3>1. key \in DOMAIN storage.receipts /\ storage.receipts[key] = r
      BY <1>0, <2>2 DEF CallInv, ReceiptsAreOfReservers, Reserved, key
    <3>2. calls[key] = 0
      BY <1>0, <2>1, <2>2, <3>1 DEF Called
    <3>3. calls'[key] = 1
      BY <1>0, <3>2
    <3> QED BY <1>0, <2>2, <3>1, <3>3 DEF Called
  <2>3. CASE k # key
    <3>1. calls'[k] = calls[k]
      BY <1>0, <2>3
    <3>2. calls[k] = 1 => storage.receipts[k] \in Request /\ storage.receipts[k] # r
      BY <1>0, <2>1 DEF Called, CallInv, Types, StoreOK, StorageOK
    <3> QED BY <1>0, <2>1, <3>1, <3>2
  <2> QED BY <2>2, <2>3
<1> QED BY <1>1, <1>2, <1>3 DEF CallInv
\* What a status write keeps.
LEMMA MarkedKeeps ==
  ASSUME NEW r, NEW from, NEW status, Marked(r, from, status)
  PROVE  /\ storage'.study = storage.study /\ storage'.receipts = storage.receipts
         /\ SameOthers(storage', storage) /\ SameHold(storage', storage)
         /\ DOMAIN storage'.answers = DOMAIN storage.answers
BY DEF Marked, SetsStatus, SameOthers, SameHold

\* A restore takes back the receipts the bookmark did not have, and says so.
LEMMA RestartCalls ==
  ASSUME CallInv, Types', Restarts
  PROVE  CallInv'
<1>0. /\ storage' = bookmark /\ UNCHANGED <<bookmark, asking, calls>>
      /\ rewound' = rewound \cup (DOMAIN storage.receipts \ DOMAIN bookmark.receipts)
  BY DEF Restarts, Restart, Idle
<1>1. ReceiptsKept'
  BY <1>0 DEF ReceiptsKept
<1>2. ReceiptsAreOfReservers'
  BY <1>0 DEF CallInv, ReceiptsAreOfReservers, ReceiptsKept
<1>3. CallsAreReserved'
  BY <1>0 DEF CallInv, CallsAreReserved, ReceiptsKept
<1> QED BY <1>1, <1>2, <1>3 DEF CallInv

\* Every step keeps a question to one call.
LEMMA CallSteps ==
  ASSUME CallInv, [NotebookNext]_notebook
  PROVE  CallInv'
<1>0. Types' /\ Types
  BY Steps DEF CallInv
<1>1. CASE Serves
  <2>1. PICK r \in Request :
          \/ Asks(r) \/ Admitted(r) \/ GivesUp(r) \/ Calls(r) \/ Hears(r) \/ Doubts(r)
          \/ \E does \in {"done", "holds"} : Saves(r, does)
    BY <1>1 DEF Serves
  <2>2. CASE Admitted(r) \/ Calls(r)
    BY <1>0, <2>2, AdmittedCalls, CalledCalls
  <2>3. CASE Asks(r) \/ Hears(r)
    BY <1>0, <2>3, QuietCalls DEF Asks, Hears, Moves, Kept, Reserved, Called
  <2>4. CASE GivesUp(r)
    BY <1>0, <2>4, QuietCalls, MarkedKeeps DEF GivesUp, Moves, Kept, Reserved, Called
  <2>5. CASE Doubts(r)
    BY <1>0, <2>5, QuietCalls, MarkedKeeps DEF Doubts, Kept
  <2>6. ASSUME NEW does \in {"done", "holds"}, Saves(r, does) PROVE CallInv'
    BY <1>0, <2>6, QuietCalls, MarkedKeeps DEF Saves, Moves, Kept, Reserved, Called
  <2> QED BY <2>1, <2>2, <2>3, <2>4, <2>5, <2>6
<1>2. CASE Writes
  BY <1>0, <1>2, QuietCalls DEF Writes, WritesElsewhere, RemovesStudy, SameTables, Kept, Idle
<1>3. CASE Maintains \/ Activates
  BY <1>0, <1>3, QuietCalls DEF Maintains, Activates, Holds, Kept, Idle
<1>4. CASE Rotates \/ Bookmarks \/ Schedules \/ Stays
  BY <1>0, <1>4, QuietCalls DEF Rotates, Bookmarks, Schedules, Stays, Idle
<1>5. CASE Exports
  BY <1>0, <1>5, QuietCalls DEF Exports, Captures, SameTables, Idle
<1>6. CASE Restarts
  BY <1>0, <1>6, RestartCalls
<1> QED BY <1>0, <1>1, <1>2, <1>3, <1>4, <1>5, <1>6, Steps

\* The provider is called once under a key, unless a restore took the key's
\* reservation back: the receipt is written before the call, by one request,
\* and no write but a restore forgets it.
THEOREM QuestionIsAskedOnce == NotebookSpec => []OneCallPerQuestion
<1>1. NotebookInit => CallInv
  BY NotebookBegins DEF CallInv, ReceiptsKept, ReceiptsAreOfReservers, CallsAreReserved, Reserved
<1>2. CallInv /\ [NotebookNext]_notebook => CallInv'
  BY CallSteps
<1>3. CallInv => OneCallPerQuestion
  BY DEF CallInv, CallsAreReserved, OneCallPerQuestion
<1> QED BY <1>1, <1>2, <1>3, PTL DEF NotebookSpec
-----------------------------------------------------------------------------
(* Uncertain work.                                                         *)

Epochs ==
  /\ bookmark.activated <= storage.activated /\ storage.activated <= configured
  /\ restoring.does = "scheduled" => bookmark.activated < configured

FrozenIsQuiet(s) ==
  s.state = "frozen" => \A r \in DOMAIN s.answers : s.answers[r].status # "running"

\* What runs was reserved in this era, or the deployment's epoch is not activated yet.
EraOrOld ==
  \/ \A r \in Running : storage.answers[r].era = era
  \/ storage.activated < configured

WorkInv == Types /\ Epochs /\ FrozenIsQuiet(storage) /\ FrozenIsQuiet(bookmark) /\ EraOrOld

\* A step that starts no work and freezes nothing.
LEMMA QuietWork ==
  ASSUME WorkInv, Types', Epochs', UNCHANGED <<era, configured>>, bookmark' \in {bookmark, storage},
         storage'.state = "frozen" => storage.state = "frozen",
         storage'.activated = storage.activated,
         DOMAIN storage'.answers \subseteq DOMAIN storage.answers,
         \A r \in DOMAIN storage'.answers :
           storage'.answers[r].status = "running" =>
             storage.answers[r].status = "running" /\ storage'.answers[r].era = storage.answers[r].era
  PROVE  WorkInv'
<1>1. FrozenIsQuiet(storage)' /\ FrozenIsQuiet(bookmark)'
  BY DEF WorkInv, FrozenIsQuiet
<1>2. Running' \subseteq Running /\ \A r \in Running' : storage'.answers[r].era = storage.answers[r].era
  BY DEF Running
<1>3. EraOrOld'
  BY <1>2 DEF WorkInv, EraOrOld
<1> QED BY <1>1, <1>3 DEF WorkInv

\* A status write starts no work.
LEMMA MarkedStartsNothing ==
  ASSUME NEW r, NEW from, NEW status, status # "running", Marked(r, from, status)
  PROVE  \A x \in DOMAIN storage'.answers :
           storage'.answers[x].status = "running" =>
             storage.answers[x].status = "running" /\ storage'.answers[x].era = storage.answers[x].era
BY DEF Marked, SetsStatus

\* What serves an answer moves the work it is about.
LEMMA ServedWork ==
  ASSUME WorkInv, Types', Serves
  PROVE  WorkInv'
<1>1. PICK r \in Request :
        \/ Asks(r) \/ Admitted(r) \/ GivesUp(r) \/ Calls(r) \/ Hears(r) \/ Doubts(r)
        \/ \E does \in {"done", "holds"} : Saves(r, does)
  BY DEF Serves
<1>2. Kept
  BY <1>1 DEF Asks, Admitted, GivesUp, Calls, Hears, Doubts, Saves
<1>3. CASE Asks(r) \/ Calls(r) \/ Hears(r)
  <2>1. storage' = storage
    BY <1>3 DEF Asks, Calls, Hears
  <2>2. Epochs'
    BY <1>2, <2>1 DEF WorkInv, Epochs, Kept
  <2> QED BY <1>2, <2>1, <2>2, QuietWork DEF Kept
<1>4. CASE GivesUp(r) \/ Doubts(r) \/ \E does \in {"done", "holds"} : Saves(r, does)
  <2>1. PICK from, status : status # "running" /\ Marked(r, from, status)
    <3>1. CASE GivesUp(r)
      BY <3>1 DEF GivesUp
    <3>2. CASE Doubts(r)
      BY <3>2 DEF Doubts
    <3>3. CASE \E does \in {"done", "holds"} : Saves(r, does)
      BY <3>3 DEF Saves
    <3> QED BY <1>4, <3>1, <3>2, <3>3
  <2>2. SameHold(storage', storage) /\ DOMAIN storage'.answers = DOMAIN storage.answers
    BY <2>1, MarkedKeeps
  <2>3. Epochs'
    BY <1>2, <2>2 DEF WorkInv, Epochs, Kept, SameHold
  <2> QED BY <1>2, <2>1, <2>2, <2>3, QuietWork, MarkedStartsNothing DEF Kept, SameHold
<1>5. CASE Admitted(r)
  <2>1. /\ storage.activated = configured /\ storage.state = "open"
        /\ SameHold(storage', storage)
        /\ storage'.answers = Extend(storage.answers, r, [status |-> "running", era |-> era])
    BY <1>5 DEF Admitted, AddsRow, MutationAllowed, Gated
  <2>2. /\ DOMAIN storage'.answers = DOMAIN storage.answers \cup {r}
        /\ storage'.answers[r].era = era
        /\ \A x \in DOMAIN storage.answers \ {r} : storage'.answers[x] = storage.answers[x]
    BY <2>1 DEF Extend
  <2>3. storage.activated \in Nat /\ configured \in Nat
    BY NotebookAssumption DEF WorkInv, Types, StoreOK, StorageOK
  <2>4. \A x \in Running : storage.answers[x].era = era
    BY <2>1, <2>3 DEF WorkInv, EraOrOld
  <2>5. \A x \in Running' : storage'.answers[x].era = era'
    BY <1>2, <2>2, <2>4 DEF Running, Kept
  <2>6. FrozenIsQuiet(storage)' /\ FrozenIsQuiet(bookmark)'
    BY <1>2, <2>1 DEF FrozenIsQuiet, SameHold, WorkInv, Kept
  <2>7. Epochs'
    BY <1>2, <2>1 DEF WorkInv, Epochs, Kept, SameHold
  <2> QED BY <2>5, <2>6, <2>7 DEF WorkInv, EraOrOld
<1> QED BY <1>1, <1>3, <1>4, <1>5

\* Every step keeps the work of an earlier epoch marked.
LEMMA WorkSteps ==
  ASSUME WorkInv, [NotebookNext]_notebook
  PROVE  WorkInv'
<1>0. Types' /\ Types
  BY Steps DEF WorkInv
<1>n. /\ storage.activated \in Nat /\ bookmark.activated \in Nat /\ configured \in Nat
  BY <1>0, NotebookAssumption DEF Types, StoreOK, StorageOK
<1>1. CASE Serves
  BY <1>0, <1>1, ServedWork
<1>2. CASE Writes
  <2>1. SameHold(storage', storage) /\ Kept
    BY <1>2 DEF Writes, WritesElsewhere, RemovesStudy
  <2>2. Epochs'
    BY <2>1 DEF WorkInv, Epochs, Kept, SameHold
  <2>3. DOMAIN storage'.answers = {} \/ storage'.answers = storage.answers
    BY <1>2 DEF Writes, WritesElsewhere, RemovesStudy, SameTables
  <2> QED BY <1>0, <2>1, <2>2, <2>3, QuietWork DEF Kept, SameHold
<1>3. CASE Maintains
  <2>1. /\ Kept /\ storage'.activated = storage.activated
        /\ Marks \/ storage'.answers = storage.answers
        /\ storage'.state = "frozen" => Marks \/ Running = {}
    BY <1>3 DEF Maintains, Holds
  <2>2. Epochs'
    BY <2>1 DEF WorkInv, Epochs, Kept
  <2>3. /\ DOMAIN storage'.answers = DOMAIN storage.answers
        /\ \A r \in DOMAIN storage'.answers : storage'.answers[r].status = "running" =>
             storage.answers[r].status = "running" /\ storage'.answers[r].era = storage.answers[r].era
    BY <2>1 DEF Marks, Running
  <2>4. FrozenIsQuiet(storage)'
    BY <2>1, <2>3 DEF FrozenIsQuiet, Marks, Running
  <2>5. Running' \subseteq Running /\ \A r \in Running' : storage'.answers[r].era = storage.answers[r].era
    BY <2>3 DEF Running
  <2>6. EraOrOld' /\ FrozenIsQuiet(bookmark)'
    BY <2>1, <2>5 DEF WorkInv, EraOrOld, Kept, FrozenIsQuiet
  <2> QED BY <1>0, <2>2, <2>4, <2>6 DEF WorkInv
<1>4. CASE Activates
  <2>1. Kept /\ Marks /\ storage'.activated = configured
    BY <1>4 DEF Activates
  <2>2. \A r \in DOMAIN storage'.answers : storage'.answers[r].status # "running"
    BY <2>1 DEF Marks, Running
  <2>3. Running' = {}
    BY <2>2 DEF Running
  <2>4. Epochs'
    BY <1>n, <2>1 DEF WorkInv, Epochs, Kept
  <2> QED BY <1>0, <2>1, <2>2, <2>3, <2>4 DEF WorkInv, EraOrOld, FrozenIsQuiet, Kept
<1>5. CASE Rotates
  <2>1. configured' = configured + 1 /\ UNCHANGED <<storage, bookmark, restoring, era>>
    BY <1>5 DEF Rotates
  <2>2. Epochs' /\ storage'.activated < configured'
    BY <1>n, <2>1 DEF WorkInv, Epochs
  <2> QED BY <1>0, <2>1, <2>2 DEF WorkInv, EraOrOld, FrozenIsQuiet
<1>6. CASE Bookmarks \/ Schedules \/ Stays \/ Exports
  <2>1. /\ storage'.answers = storage.answers /\ SameHold(storage', storage)
        /\ UNCHANGED <<configured, era>> /\ bookmark' \in {bookmark, storage}
    BY <1>6 DEF Bookmarks, Schedules, Stays, Exports, Captures, SameTables, SameHold
  <2>2. Epochs'
    <3>1. CASE Bookmarks
      BY <1>n, <3>1 DEF Bookmarks, WorkInv, Epochs
    <3>2. CASE Schedules
      BY <1>n, <3>2 DEF Schedules, WorkInv, Epochs
    <3>3. CASE Stays \/ Exports
      BY <2>1, <3>3 DEF Stays, Exports, WorkInv, Epochs, SameHold
    <3> QED BY <1>6, <3>1, <3>2, <3>3
  <2> QED BY <1>0, <2>1, <2>2, QuietWork DEF SameHold
<1>7. CASE Restarts
  <2>1. /\ restoring.does = "scheduled" /\ restoring' = [does |-> "idle"]
        /\ storage' = bookmark /\ UNCHANGED <<configured, bookmark>>
    BY <1>7 DEF Restarts, Restart
  <2>2. storage'.activated < configured' /\ Epochs'
    BY <1>n, <2>1 DEF WorkInv, Epochs
  <2> QED BY <1>0, <2>1, <2>2 DEF WorkInv, EraOrOld, FrozenIsQuiet
<1> QED BY <1>0, <1>1, <1>2, <1>3, <1>4, <1>5, <1>6, <1>7, Steps

\* Frozen is quiet, and work reserved before a restore is not taken for running
\* once changes are accepted: a restore only goes to a bookmark whose epoch is
\* older than the deployment's, and activating an epoch marks what runs.
THEOREM OldWorkIsMarked == NotebookSpec => []UncertainWorkIsMarked
<1>1. NotebookInit => WorkInv
  <2> SUFFICES ASSUME NotebookInit PROVE WorkInv
    OBVIOUS
  <2> QED BY NotebookBegins DEF WorkInv, Epochs, FrozenIsQuiet, EraOrOld, Running
<1>2. WorkInv /\ [NotebookNext]_notebook => WorkInv'
  BY WorkSteps
<1>3. WorkInv => UncertainWorkIsMarked
  <2> SUFFICES ASSUME WorkInv PROVE UncertainWorkIsMarked
    OBVIOUS
  <2>1. storage.activated \in Nat /\ configured \in Nat
    BY NotebookAssumption DEF WorkInv, Types, StoreOK, StorageOK
  <2>2. storage.state = "frozen" => Running = {}
    BY DEF WorkInv, FrozenIsQuiet, Running
  <2> QED BY <2>1, <2>2 DEF WorkInv, EraOrOld, UncertainWorkIsMarked, MutationAllowed, Gated
<1> QED BY <1>1, <1>2, <1>3, PTL DEF NotebookSpec
-----------------------------------------------------------------------------
(* Paid answers.                                                           *)

\* An answer is only failed for a request that is gone, and gone is for good.
FailedIsGone(s) == \A r \in DOMAIN s.answers : s.answers[r].status = "failed" => asking[r].does = "gone"

\* Before any restore, a reservation has its row, and what was said to be saved is.
RowsAreKept ==
  era = 0 /\ storage.study =>
    \A r \in Request :
      /\ asking[r].does \in Reserved => r \in DOMAIN storage.answers
      /\ asking[r].does = "done" => storage.answers[r].status = "complete"

PaidInv == Types /\ FailedIsGone(storage) /\ FailedIsGone(bookmark) /\ RowsAreKept

\* No row comes or goes, but with the study; none fails under a request that
\* goes on, and what is complete stays so.
RowsStay ==
  /\ storage'.study => storage.study /\ DOMAIN storage.answers \subseteq DOMAIN storage'.answers
  /\ DOMAIN storage'.answers \subseteq DOMAIN storage.answers
  /\ \A r \in DOMAIN storage'.answers :
       /\ storage'.answers[r].status = "failed" =>
            storage.answers[r].status = "failed" \/ asking'[r].does = "gone"
       /\ storage.answers[r].status = "complete" => storage'.answers[r].status = "complete"

\* Nobody comes back, reserves, or is told of a save that was not.
RequestsGoOn ==
  \A r \in Request :
    /\ asking[r].does = "gone" => asking'[r].does = "gone"
    /\ asking'[r].does \in Reserved => asking[r].does \in Reserved
    /\ asking'[r].does = "done" =>
         \/ asking[r].does = "done"
         \/ r \in DOMAIN storage'.answers /\ storage'.answers[r].status = "complete"

\* Steps that leave the stored rows as they are.
LEMMA QuietRows ==
  ASSUME PaidInv, Types', UNCHANGED era, bookmark' \in {bookmark, storage}, RowsStay, RequestsGoOn
  PROVE  PaidInv'
<1>1. /\ DOMAIN storage.answers \subseteq Request /\ DOMAIN bookmark.answers \subseteq Request
  BY DEF PaidInv, Types, StoreOK, StorageOK
<1>2. FailedIsGone(storage)' /\ FailedIsGone(bookmark)'
  BY <1>1 DEF PaidInv, FailedIsGone, RowsStay, RequestsGoOn
<1>3. RowsAreKept'
  <2> SUFFICES ASSUME era = 0, storage'.study, NEW r \in Request
               PROVE  /\ asking'[r].does \in Reserved => r \in DOMAIN storage'.answers
                      /\ asking'[r].does = "done" => storage'.answers[r].status = "complete"
    BY <1>1 DEF RowsAreKept
  <2>0. storage.study
    BY DEF RowsStay
  <2>1. /\ asking[r].does \in Reserved => r \in DOMAIN storage.answers
        /\ asking[r].does = "done" => storage.answers[r].status = "complete"
    BY <2>0 DEF PaidInv, RowsAreKept
  <2>2. asking'[r].does \in Reserved => r \in DOMAIN storage'.answers
    BY <2>1 DEF RowsStay, RequestsGoOn
  <2>3. asking'[r].does = "done" => storage'.answers[r].status = "complete"
    BY <2>1, <2>2 DEF Reserved, RowsStay, RequestsGoOn
  <2> QED BY <2>2, <2>3
<1> QED BY <1>2, <1>3 DEF PaidInv

\* What a status write does to the rows.
LEMMA MarkedRows ==
  ASSUME NEW r, NEW from, NEW status, "complete" \notin from \/ status = "complete",
         Marked(r, from, status)
  PROVE  \A x \in DOMAIN storage'.answers :
           /\ storage'.answers[x].status = "failed" =>
                storage.answers[x].status = "failed" \/ (x = r /\ status = "failed")
           /\ storage.answers[x].status = "complete" => storage'.answers[x].status = "complete"
BY DEF Marked, SetsStatus

\* What serves an answer stores it once.
LEMMA ServedRows ==
  ASSUME PaidInv, Types', Serves
  PROVE  PaidInv'
<1>1. PICK r \in Request :
        \/ Asks(r) \/ Admitted(r) \/ GivesUp(r) \/ Calls(r) \/ Hears(r) \/ Doubts(r)
        \/ \E does \in {"done", "holds"} : Saves(r, does)
  BY DEF Serves
<1>2. Kept
  BY <1>1 DEF Asks, Admitted, GivesUp, Calls, Hears, Doubts, Saves
<1>3. CASE Asks(r) \/ Calls(r) \/ Hears(r)
  <2>1. RowsStay
    BY <1>3 DEF Asks, Calls, Hears, RowsStay
  <2>2. RequestsGoOn
    BY <1>3 DEF Asks, Calls, Hears, Moves, Reserved, RequestsGoOn
  <2> QED BY <1>2, <2>1, <2>2, QuietRows DEF Kept
<1>4. CASE GivesUp(r)
  <2>1. PICK status \in {"failed", "recovery-required"} : Marked(r, {"running"}, status)
    BY <1>4 DEF GivesUp
  <2>2. storage'.study = storage.study /\ DOMAIN storage'.answers = DOMAIN storage.answers
    BY <2>1, MarkedKeeps
  <2>3. \A x \in DOMAIN storage'.answers :
           /\ storage'.answers[x].status = "failed" => storage.answers[x].status = "failed" \/ x = r
           /\ storage.answers[x].status = "complete" => storage'.answers[x].status = "complete"
    BY <2>1, MarkedRows
  <2>4. RowsStay
    BY <1>4, <2>2, <2>3 DEF GivesUp, Moves, RowsStay
  <2>5. RequestsGoOn
    BY <1>4 DEF GivesUp, Moves, Reserved, RequestsGoOn
  <2> QED BY <1>2, <2>4, <2>5, QuietRows DEF Kept
<1>5. CASE Doubts(r)
  <2>1. Marked(r, {"running"}, "recovery-required") /\ asking' = asking
    BY <1>5 DEF Doubts
  <2>2. storage'.study = storage.study /\ DOMAIN storage'.answers = DOMAIN storage.answers
    BY <2>1, MarkedKeeps
  <2>3. \A x \in DOMAIN storage'.answers :
           /\ storage'.answers[x].status = "failed" => storage.answers[x].status = "failed"
           /\ storage.answers[x].status = "complete" => storage'.answers[x].status = "complete"
    BY <2>1, MarkedRows
  <2>4. RowsStay /\ RequestsGoOn
    BY <2>1, <2>2, <2>3 DEF RowsStay, RequestsGoOn
  <2> QED BY <1>2, <2>4, QuietRows DEF Kept
<1>6. ASSUME NEW does \in {"done", "holds"}, Saves(r, does) PROVE PaidInv'
  <2>1. Marked(r, {"running", "recovery-required"}, "complete")
    BY <1>6 DEF Saves
  <2>2. storage'.study = storage.study /\ DOMAIN storage'.answers = DOMAIN storage.answers
    BY <2>1, MarkedKeeps
  <2>3. \A x \in DOMAIN storage'.answers :
           /\ storage'.answers[x].status = "failed" => storage.answers[x].status = "failed"
           /\ storage.answers[x].status = "complete" => storage'.answers[x].status = "complete"
    BY <2>1, MarkedRows
  <2>4. RowsStay
    BY <2>2, <2>3 DEF RowsStay
  <2>5. RequestsGoOn
    BY <1>6 DEF Saves, Moves, Reserved, RequestsGoOn
  <2> QED BY <1>2, <2>4, <2>5, QuietRows DEF Kept
<1>7. CASE Admitted(r)
  <2>1. /\ storage'.study = storage.study
        /\ storage'.answers = Extend(storage.answers, r, [status |-> "running", era |-> era])
        /\ asking[r].does = "asks" /\ asking'[r].does = "admitted"
        /\ \A x \in Request \ {r} : asking'[x] = asking[x]
    BY <1>7 DEF Admitted, AddsRow, Moves
  <2>2. /\ DOMAIN storage'.answers = DOMAIN storage.answers \cup {r}
        /\ storage'.answers[r].status = "running"
        /\ \A x \in DOMAIN storage.answers \ {r} : storage'.answers[x] = storage.answers[x]
    BY <2>1 DEF Extend
  <2>3. DOMAIN storage.answers \subseteq Request /\ DOMAIN bookmark.answers \subseteq Request
    BY DEF PaidInv, Types, StoreOK, StorageOK
  <2>4. FailedIsGone(storage)' /\ FailedIsGone(bookmark)'
    BY <1>2, <2>1, <2>2, <2>3 DEF PaidInv, FailedIsGone, Kept
  <2>5. RowsAreKept'
    BY <1>2, <2>1, <2>2 DEF PaidInv, RowsAreKept, Kept, Reserved
  <2> QED BY <2>4, <2>5 DEF PaidInv
<1> QED BY <1>1, <1>3, <1>4, <1>5, <1>6, <1>7

\* Every step keeps the answers that were paid for.
LEMMA PaidSteps ==
  ASSUME PaidInv, [NotebookNext]_notebook
  PROVE  PaidInv'
<1>0. Types' /\ Types
  BY Steps DEF PaidInv
<1>1. CASE Serves
  BY <1>0, <1>1, ServedRows
<1>2. CASE Writes
  <2>1. RowsStay /\ RequestsGoOn
    BY <1>2 DEF Writes, WritesElsewhere, RemovesStudy, SameTables, Idle, RowsStay, RequestsGoOn
  <2> QED BY <1>0, <1>2, <2>1, QuietRows DEF Writes, Kept
<1>3. CASE Maintains \/ Activates
  <2>1. /\ Kept /\ Idle /\ storage'.study = storage.study
        /\ Marks \/ storage'.answers = storage.answers
    BY <1>3 DEF Maintains, Activates, Holds
  <2>2. /\ DOMAIN storage'.answers = DOMAIN storage.answers
        /\ \A r \in DOMAIN storage'.answers :
             /\ storage'.answers[r].status = "failed" => storage.answers[r].status = "failed"
             /\ storage.answers[r].status = "complete" => storage'.answers[r].status = "complete"
    BY <2>1 DEF Marks, Running
  <2>3. RowsStay /\ RequestsGoOn
    BY <2>1, <2>2 DEF Idle, RowsStay, RequestsGoOn
  <2> QED BY <1>0, <2>1, <2>3, QuietRows DEF Kept
<1>4. CASE Rotates \/ Bookmarks \/ Schedules \/ Stays \/ Exports
  <2>1. /\ SameTables(storage', storage) /\ asking' = asking /\ UNCHANGED era
        /\ bookmark' \in {bookmark, storage}
    BY <1>4 DEF Rotates, Bookmarks, Schedules, Stays, Exports, Captures, SameTables, Idle
  <2>2. RowsStay /\ RequestsGoOn
    BY <2>1 DEF SameTables, RowsStay, RequestsGoOn
  <2> QED BY <1>0, <2>1, <2>2, QuietRows
<1>6. CASE Restarts
  <2>1. storage' = bookmark /\ era' = era + 1 /\ UNCHANGED <<bookmark, asking>> /\ era \in Nat
    BY <1>0, <1>6 DEF Restarts, Restart, Idle, Types
  <2> QED BY <1>0, <2>1 DEF PaidInv, FailedIsGone, RowsAreKept
<1> QED BY <1>0, <1>1, <1>2, <1>3, <1>4, <1>6, Steps

\* A paid answer can be saved as long as somebody holds it, and what was said to
\* be saved is, unless the study is deleted or a restore took the row back: a
\* running answer is only failed by the request that reserved it, as it gives up.
THEOREM AnswerIsKept == NotebookSpec => []PaidAnswerIsKept
<1>1. NotebookInit => PaidInv
  <2> SUFFICES ASSUME NotebookInit PROVE PaidInv
    OBVIOUS
  <2> QED BY NotebookBegins DEF PaidInv, FailedIsGone, RowsAreKept, Reserved
<1>2. PaidInv /\ [NotebookNext]_notebook => PaidInv'
  BY PaidSteps
<1>3. PaidInv => PaidAnswerIsKept
  <2> SUFFICES ASSUME PaidInv, NEW r \in Request, storage.study,
                      asking[r].does \in {"knows", "holds", "done"}
               PROVE  \/ era > 0 /\ (r \notin DOMAIN storage.answers \/ asking[r].does = "done")
                      \/ /\ r \in DOMAIN storage.answers
                         /\ storage.answers[r].status # "failed"
                         /\ asking[r].does = "done" => storage.answers[r].status = "complete"
    BY DEF PaidAnswerIsKept
  <2>1. r \in DOMAIN storage.answers => storage.answers[r].status # "failed"
    BY DEF PaidInv, FailedIsGone
  <2>2. era \in Nat
    BY DEF PaidInv, Types
  <2>3. era = 0 => /\ r \in DOMAIN storage.answers
                   /\ asking[r].does = "done" => storage.answers[r].status = "complete"
    BY DEF PaidInv, RowsAreKept, Reserved
  <2> QED BY <2>1, <2>2, <2>3
<1> QED BY <1>1, <1>2, <1>3, PTL DEF NotebookSpec
-----------------------------------------------------------------------------
(* Exports.                                                                *)

\* While the sequence is the one an export began at, so is the text; and the
\* snapshot stored under that sequence is the text it began with.
Fenced ==
  /\ exporting.sequence <= storage.sequence
  /\ exporting.sequence \in DOMAIN storage.snapshots =>
       storage.snapshots[exporting.sequence] = exporting.began
  /\ storage.sequence = exporting.sequence => Text = exporting.began

\* What was written of the archive is what the export began with.
Archived ==
  /\ exporting.does # "interviews" => exporting.archive.analysed = exporting.began.analysed
  /\ exporting.does \notin {"interviews", "aggregates"} =>
       exporting.archive.aggregate = exporting.began.aggregate
  /\ exporting.does \in {"verify", "done"} => exporting.archive.answers = exporting.began.answers
  /\ exporting.does \in {"interviews", "aggregates"} => exporting.archive.aggregate = 0
  /\ exporting.does \in {"interviews", "aggregates", "answers"} =>
       exporting.archive.answers = NoText.answers

ExportInv ==
  /\ Types
  /\ Exporting => exporting.era <= era
  /\ Exporting /\ exporting.era = era => Fenced /\ Archived

\* A write that counts, or leaves the text alone.
Counts ==
  /\ storage'.snapshots = storage.snapshots
  /\ \/ storage'.sequence > storage.sequence
     \/ storage'.sequence = storage.sequence /\ Text' = Text

\* Steps that leave the export alone.
LEMMA QuietExport ==
  ASSUME ExportInv, Types', UNCHANGED <<exporting, era>>, Counts
  PROVE  ExportInv'
<1>1. storage.sequence \in Nat /\ storage'.sequence \in Nat
  BY NextSequence DEF ExportInv, Types, StoreOK, StorageOK
<1>2. Exporting' <=> Exporting
  BY DEF Exporting
<1>3. ASSUME Exporting, exporting.era = era PROVE Fenced' /\ Archived'
  <2>1. Fenced /\ Archived /\ exporting.sequence \in Nat
    BY <1>3 DEF ExportInv, Types, ExportOK
  <2>2. Fenced'
    BY <1>1, <2>1 DEF Fenced, Counts
  <2> QED BY <2>1, <2>2 DEF Archived
<1> QED BY <1>2, <1>3 DEF ExportInv

\* What is exported is the answers, the results and the aggregate.
LEMMA TextKept ==
  ASSUME storage'.answers = storage.answers, storage'.analysed = storage.analysed,
         storage'.aggregate = storage.aggregate
  PROVE  Text' = Text
BY DEF Text

\* Every counted write is one more, and what is not counted is not exported.
LEMMA WritesCount ==
  ASSUME Types, Types',
         \/ Serves \/ Writes \/ Maintains \/ Activates \/ Rotates \/ Bookmarks \/ Schedules \/ Stays
  PROVE  Counts /\ UNCHANGED <<exporting, era>>
<1>0. storage.sequence \in Nat /\ storage'.sequence \in Nat
  BY NextSequence DEF Types, StoreOK, StorageOK
<1>1. CASE storage' = storage
  <2>1. Counts
    BY <1>0, <1>1, TextKept DEF Counts
  <2>2. UNCHANGED <<exporting, era>>
    BY DEF Serves, Asks, Admitted, GivesUp, Calls, Hears, Doubts, Saves, Writes, Maintains, Activates,
           Rotates, Bookmarks, Schedules, Stays, Kept
  <2> QED BY <2>1, <2>2
<1>2. CASE storage' # storage /\ Serves
  <2>1. PICK r \in Request :
          \/ Asks(r) \/ Admitted(r) \/ GivesUp(r) \/ Calls(r) \/ Hears(r) \/ Doubts(r)
          \/ \E does \in {"done", "holds"} : Saves(r, does)
    BY <1>2 DEF Serves
  <2>2. Kept
    BY <2>1 DEF Asks, Admitted, GivesUp, Calls, Hears, Doubts, Saves
  <2>3. storage'.snapshots = storage.snapshots /\ storage'.sequence = storage.sequence + 1
    BY <1>2, <2>1 DEF Asks, Admitted, GivesUp, Calls, Hears, Doubts, Saves, Marked, AddsRow,
                      SetsStatus, SameOthers
  <2> QED BY <1>0, <2>2, <2>3 DEF Counts, Kept
<1>3. CASE Writes
  BY <1>0, <1>3 DEF Writes, WritesElsewhere, RemovesStudy, Kept, Counts
<1>4. CASE Maintains \/ Activates
  <2>1. Holds /\ Kept
    BY <1>4 DEF Maintains, Activates
  <2>2. /\ SameOthers(storage', storage) /\ storage'.sequence >= storage.sequence
        /\ storage'.sequence = storage.sequence => storage'.answers = storage.answers
    BY <2>1 DEF Holds
  <2>3. storage'.sequence = storage.sequence => Text' = Text
    BY <2>2, TextKept DEF SameOthers
  <2>4. Counts
    BY <1>0, <2>2, <2>3 DEF Counts, SameOthers
  <2> QED BY <2>1, <2>4 DEF Kept
<1>5. CASE Rotates \/ Bookmarks \/ Schedules \/ Stays
  BY <1>1, <1>5 DEF Rotates, Bookmarks, Schedules, Stays
<1> QED BY <1>1, <1>2, <1>3, <1>4, <1>5
\* An export begins.
LEMMA BeginExports ==
  ASSUME ExportInv, Types', Captures, UNCHANGED era, BeginExport
  PROVE  ExportInv'
<1> DEFINE s == storage.sequence
<1>0. s \in Nat /\ StoreShape(storage)
  BY NextSequence DEF ExportInv, Types, StoreOK
<1>1. /\ exporting' = [does |-> "interviews", sequence |-> s, archive |-> NoText,
                       began |-> Text, era |-> era]
      /\ storage' = [storage EXCEPT !.snapshots = Extend(@, s, Text)]
  BY DEF BeginExport
<1>2. Text' = Text /\ storage'.sequence = s
  BY TextKept DEF Captures, SameTables
<1> HIDE DEF s
<1>3. /\ exporting'.does = "interviews" /\ exporting'.sequence = s /\ exporting'.began = Text
      /\ exporting'.era = era /\ exporting'.archive = NoText
  BY <1>1
<1>4. storage'.snapshots = Extend(storage.snapshots, s, Text)
  BY <1>0, <1>1 DEF StoreShape
<1>5. storage'.snapshots[s] = Text
  BY <1>4 DEF Extend
<1>6. Fenced'
  BY <1>0, <1>2, <1>3, <1>5 DEF Fenced
<1>7. Archived'
  BY <1>3 DEF Archived, NoText
<1> QED BY <1>3, <1>6, <1>7 DEF ExportInv, Types

\* Snapshots go.
LEMMA PruneExports ==
  ASSUME ExportInv, Types', Captures, UNCHANGED era, PruneSnapshots
  PROVE  ExportInv'
<1>1. storage'.sequence = storage.sequence /\ Text' = Text /\ exporting' = exporting
  BY TextKept DEF Captures, SameTables, PruneSnapshots
<1>2. DOMAIN storage'.snapshots = {}
  <2>1. storage' = [storage EXCEPT !.snapshots = <<>>] /\ DOMAIN <<>> = {}
    BY DEF PruneSnapshots
  <2> QED BY <2>1 DEF ExportInv, Types, StoreOK, StoreShape
<1>3. Exporting' <=> Exporting
  BY <1>1 DEF Exporting
<1>4. Exporting /\ exporting.era = era => Fenced' /\ Archived'
  BY <1>1, <1>2 DEF ExportInv, Fenced, Archived
<1> QED BY <1>1, <1>3, <1>4 DEF ExportInv

\* What a page reads, while the fence holds, is what the export began with.
LEMMA LoadedIs ==
  ASSUME Fenced, exporting.sequence \in DOMAIN Loaded
  PROVE  Captured = exporting.began
<1>1. CASE exporting.sequence \notin DOMAIN storage.snapshots /\ storage.sequence = exporting.sequence
  <2>1. Loaded = Extend(storage.snapshots, exporting.sequence, Text)
    BY <1>1 DEF Loaded
  <2>2. Loaded[exporting.sequence] = Text
    BY <2>1 DEF Extend
  <2> QED BY <1>1, <2>2 DEF Captured, Fenced
<1>2. CASE ~(exporting.sequence \notin DOMAIN storage.snapshots /\ storage.sequence = exporting.sequence)
  BY <1>2 DEF Loaded, Captured, Fenced
<1> QED BY <1>1, <1>2

\* A page that goes on keeps the fence, whatever it writes.
LEMMA PageExports ==
  ASSUME ExportInv, Types', Captures, UNCHANGED era, Exporting,
         storage' = storage \/ storage' = [storage EXCEPT !.snapshots = Loaded],
         NEW next \in {"aggregates", "answers", "verify", "done"}, NEW page,
         exporting.sequence \in DOMAIN Loaded,
         exporting' = [exporting EXCEPT !.does = next, !.archive = page],
         exporting.era = era /\ Fenced /\ Archived => Archived'
  PROVE  ExportInv'
<1>1. /\ exporting'.does = next /\ exporting'.sequence = exporting.sequence
      /\ exporting'.began = exporting.began /\ exporting'.era = exporting.era
  BY DEF ExportInv, Types, ExportOK
<1>2. storage'.sequence = storage.sequence /\ Text' = Text
  BY TextKept DEF Captures, SameTables
<1>3. storage'.snapshots = storage.snapshots \/ storage'.snapshots = Loaded
  BY DEF ExportInv, Types, StoreOK, StoreShape
<1>4. ASSUME exporting.era = era PROVE Fenced' /\ Archived'
  <2>1. Fenced /\ Archived
    BY <1>4 DEF ExportInv
  <2>2. Loaded[exporting.sequence] = exporting.began
    BY <2>1, LoadedIs DEF Captured
  <2>3. Fenced'
    BY <1>1, <1>2, <1>3, <2>1, <2>2 DEF Fenced
  <2> QED BY <1>4, <2>1, <2>3
<1>5. exporting'.era <= era' /\ (exporting'.era = era' <=> exporting.era = era)
  BY <1>1 DEF ExportInv
<1> QED BY <1>4, <1>5 DEF ExportInv
\* The four pages.
LEMMA ArchivingExports ==
  ASSUME ExportInv, Types', Captures, UNCHANGED era,
         InterviewPage \/ AggregatePage \/ AnswerPage \/ VerifyExport
  PROVE  ExportInv'
<1>0. /\ Types /\ Exporting /\ TextShape(exporting.archive) /\ TableOf(exporting.began)
  BY DEF InterviewPage, AggregatePage, AnswerPage, VerifyExport, Page, Exporting, ExportInv, Types, ExportOK
<1>1. CASE exporting' = [does |-> "changed"]
  BY <1>1 DEF ExportInv, Exporting
<1>r. ASSUME NEW next, NEW page, exporting' = [exporting EXCEPT !.does = next, !.archive = page]
      PROVE  /\ exporting'.does = next /\ exporting'.archive = page
             /\ exporting'.began = exporting.began
  BY <1>0, <1>r DEF ExportInv, Types, ExportOK
<1>2. CASE exporting' # [does |-> "changed"] /\ InterviewPage
  <2> DEFINE page == [exporting.archive EXCEPT !.analysed = Captured.analysed]
  <2>1. /\ TextShape(page) /\ page.analysed = Captured.analysed
        /\ page.aggregate = exporting.archive.aggregate /\ page.answers = exporting.archive.answers
    BY <1>0 DEF TextShape
  <2>2. Page("interviews", LiveInterview(Captured), page, AfterInterviews) /\ exporting.does = "interviews"
    BY <1>2 DEF InterviewPage, Page
  <2> HIDE DEF page
  <2>3. /\ exporting.sequence \in DOMAIN Loaded
        /\ exporting' = [exporting EXCEPT !.does = AfterInterviews, !.archive = page]
        /\ storage' = storage \/ storage' = [storage EXCEPT !.snapshots = Loaded]
    BY <1>2, <2>2 DEF Page
  <2>e. /\ exporting'.does = AfterInterviews /\ exporting'.archive = page
        /\ exporting'.began = exporting.began
    BY <1>r, <2>3
  <2>n. /\ AfterInterviews \in {"aggregates", "answers", "verify"}
        /\ AfterInterviews # "aggregates" => Captured.aggregate = 0
        /\ AfterInterviews = "verify" => Captured.answers = NoText.answers
    BY DEF AfterInterviews, AfterAggregates
  <2>4. exporting.era = era /\ Fenced /\ Archived => Archived'
    BY <2>e, <2>n, <2>1, <2>2, <2>3, LoadedIs DEF Archived, NoText
  <2> QED BY <1>0, <2>n, <2>3, <2>4, PageExports
<1>3. CASE exporting' # [does |-> "changed"] /\ AggregatePage
  <2> DEFINE read == IF Captured.aggregate # 0 THEN storage.aggregate ELSE exporting.archive.aggregate
             page == [exporting.archive EXCEPT !.aggregate = read]
  <2>1. /\ TextShape(page) /\ page.aggregate = read
        /\ page.analysed = exporting.archive.analysed /\ page.answers = exporting.archive.answers
    BY <1>0 DEF TextShape
  <2>2. Page("aggregates", LiveAggregate(Captured), page, AfterAggregates) /\ exporting.does = "aggregates"
    BY <1>3 DEF AggregatePage, Page
  <2> HIDE DEF page
  <2>l. LiveAggregate(Captured)
    BY <1>3, <2>2 DEF Page
  <2>3. /\ exporting.sequence \in DOMAIN Loaded
        /\ exporting' = [exporting EXCEPT !.does = AfterAggregates, !.archive = page]
        /\ storage' = storage \/ storage' = [storage EXCEPT !.snapshots = Loaded]
    BY <1>3, <2>2 DEF Page
  <2>e. /\ exporting'.does = AfterAggregates /\ exporting'.archive = page
        /\ exporting'.began = exporting.began
    BY <1>r, <2>3
  <2>n. /\ AfterAggregates \in {"answers", "verify"}
        /\ AfterAggregates = "verify" => Captured.answers = NoText.answers
    BY DEF AfterAggregates
  <2>a. exporting.archive.aggregate = 0 => read = Captured.aggregate
    BY <2>l DEF LiveAggregate
  <2> HIDE DEF read
  <2>4. exporting.era = era /\ Fenced /\ Archived => Archived'
    BY <2>e, <2>n, <2>a, <2>1, <2>2, <2>3, LoadedIs DEF Archived, NoText
  <2> QED BY <1>0, <2>n, <2>3, <2>4, PageExports
<1>4. CASE exporting' # [does |-> "changed"] /\ AnswerPage
  <2> DEFINE answers == [r \in DOMAIN Captured.answers |-> storage.answers[r].status]
             page == [exporting.archive EXCEPT !.answers = answers]
  <2>1. /\ TextShape(page) /\ page.answers = answers
        /\ page.aggregate = exporting.archive.aggregate /\ page.analysed = exporting.archive.analysed
    BY <1>0 DEF TextShape
  <2>2. Page("answers", LiveAnswers(Captured), page, "verify") /\ exporting.does = "answers"
    BY <1>4 DEF AnswerPage, Page
  <2> HIDE DEF page
  <2>l. LiveAnswers(Captured)
    BY <1>4, <2>2 DEF Page
  <2>3. /\ exporting.sequence \in DOMAIN Loaded
        /\ exporting' = [exporting EXCEPT !.does = "verify", !.archive = page]
        /\ storage' = storage \/ storage' = [storage EXCEPT !.snapshots = Loaded]
    BY <1>4, <2>2 DEF Page
  <2>4. ASSUME Fenced PROVE answers = exporting.began.answers
    <3>1. Captured = exporting.began
      BY <2>3, <2>4, LoadedIs
    <3>2. answers = [r \in DOMAIN exporting.began.answers |-> exporting.began.answers[r]]
      BY <2>l, <3>1 DEF LiveAnswers
    <3> QED BY <1>0, <3>2 DEF TableOf
  <2>e. exporting'.does = "verify" /\ exporting'.archive = page /\ exporting'.began = exporting.began
    BY <1>r, <2>3
  <2> HIDE DEF answers
  <2>5. exporting.era = era /\ Fenced /\ Archived => Archived'
    BY <2>e, <2>1, <2>2, <2>4 DEF Archived
  <2> QED BY <1>0, <2>3, <2>5, PageExports
<1>5. CASE exporting' # [does |-> "changed"] /\ VerifyExport
  <2>1. exporting.does = "verify" /\ Page("verify",
          LiveInterview(Captured) /\ LiveAggregate(Captured) /\ LiveAnswers(Captured),
          exporting.archive, "done")
    BY <1>5 DEF VerifyExport, Page
  <2>2. /\ exporting.sequence \in DOMAIN Loaded
        /\ exporting' = [exporting EXCEPT !.does = "done", !.archive = exporting.archive]
        /\ storage' = storage \/ storage' = [storage EXCEPT !.snapshots = Loaded]
    BY <1>5, <2>1 DEF Page
  <2>e. exporting'.does = "done" /\ exporting'.archive = exporting.archive
        /\ exporting'.began = exporting.began
    BY <1>r, <2>2
  <2>3. exporting.era = era /\ Fenced /\ Archived => Archived'
    BY <2>e, <2>1 DEF Archived
  <2> QED BY <1>0, <2>2, <2>3, PageExports
<1> QED BY <1>1, <1>2, <1>3, <1>4, <1>5

\* Every step keeps the export one state of the store.
LEMMA ExportSteps ==
  ASSUME ExportInv, [NotebookNext]_notebook
  PROVE  ExportInv'
<1>0. Types' /\ Types
  BY Steps DEF ExportInv
<1>1. CASE \/ Serves \/ Writes \/ Maintains \/ Activates \/ Rotates \/ Bookmarks \/ Schedules \/ Stays
  BY <1>0, <1>1, WritesCount, QuietExport
<1>2. CASE Exports
  <2>1. Captures /\ UNCHANGED era
    BY <1>2 DEF Exports
  <2> QED BY <1>0, <1>2, <2>1, BeginExports, PruneExports, ArchivingExports DEF Exports
<1>3. CASE Restarts
  <2>1. era' = era + 1 /\ UNCHANGED exporting /\ era \in Nat
    BY <1>0, <1>3 DEF Restarts, Restart, Types
  <2>2. Exporting' <=> Exporting
    BY <2>1 DEF Exporting
  <2>3. Exporting => exporting'.era < era' /\ exporting'.era \in Nat
    BY <1>0, <2>1 DEF ExportInv, Types, ExportOK
  <2> QED BY <1>0, <2>1, <2>2, <2>3 DEF ExportInv
<1> QED BY <1>0, <1>1, <1>2, <1>3, Steps

\* An export that was verified holds the state it began with, however its pages
\* were interleaved with other writes: every write of what is exported moves the
\* sequence, so a snapshot that is captured again is the same, and what a page
\* reads live is compared with it.
THEOREM ExportIsWhole == NotebookSpec => []ExportIsOneState
<1>1. NotebookInit => ExportInv
  BY NotebookBegins DEF ExportInv
<1>2. ExportInv /\ [NotebookNext]_notebook => ExportInv'
  BY ExportSteps
<1>3. ExportInv => ExportIsOneState
  <2> SUFFICES ASSUME ExportInv, exporting.does = "done", exporting.era = era
               PROVE  exporting.archive = exporting.began
    BY DEF ExportIsOneState
  <2>1. Exporting /\ TextShape(exporting.archive) /\ TextShape(exporting.began)
    BY DEF Exporting, ExportInv, Types, ExportOK
  <2>2. Archived
    BY <2>1 DEF ExportInv
  <2> QED BY <2>1, <2>2 DEF Archived, TextShape
<1> QED BY <1>1, <1>2, <1>3, PTL DEF NotebookSpec

=============================================================================
