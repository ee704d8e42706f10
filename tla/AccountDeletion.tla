--------------------------- MODULE AccountDeletion ---------------------------
(***************************************************************************)
(* Deleting a hosted account from the platform's Redis.                     *)
(*                                                                         *)
(* A request gathers the account's records, builds a plan of compare-and-   *)
(* delete commands that ends with the account, the local caches and the     *)
(* journal, and persists plan and journal in one script.  The plan is then  *)
(* applied one command per call at a persisted cursor; a call may stop      *)
(* between the command and the cursor, and any request may resume it.       *)
(* Meanwhile the person may sign in again, rotate credentials, and begin,   *)
(* resolve and publish study operations.                                    *)
(*                                                                         *)
(* A record is a slot <<kind, n>>, n being 0 or the number of its study;    *)
(* its value tells apart what a compare-and-delete compares.  The account   *)
(* deleted is "first"; a later sign-in may provision "second", whose own    *)
(* rows are the slot "successor".                                           *)
(***************************************************************************)
EXTENDS Naturals, FiniteSets, Sequences

CONSTANTS
  MaxOwned,       \* bound: studies of the account, numbered
  Deleter         \* requests that delete or resume

ASSUME DeletionAssumption == MaxOwned \in Nat

VARIABLES
  slots,      \* the platform's records: the value of each slot
  planned,    \* account-delete-plan:<account>: <<slot, expected value>> in order
  cursor,     \* how many of them are done, as stored
  worker,     \* each request: what it does next, and what it read
  gathered    \* history: the values the persisted plan was built from

deletion == <<slots, planned, cursor, worker, gathered>>

Absent == ""
Owned == 1..MaxOwned
OfAccount == {"oauth", "email", "account", "all", "storage", "reverse"} \X {0}
OfStudies == {"lock", "receipt", "score", "registry", "owner", "listed", "key", "keys"} \X Owned
Journal == <<"journal", 0>>
Memberships == {"all", "reverse", "listed", "score", "keys"}
Slots == OfAccount \cup OfStudies \cup {Journal, <<"successor", 0>>}
Reader(does, read) == [does |-> does, read |-> read, at |-> 0, slot |-> Journal]
Idle == Reader("idle", [k \in Slots |-> Absent])

\* Any of the account's studies may be there, created and published before.
DeletionInit ==
  /\ \E published \in SUBSET Owned :
       slots = [k \in Slots |->
         CASE k \in OfAccount -> "first"
           [] k \in OfStudies /\ k[2] \in published /\ k[1] \notin {"lock", "registry"} -> "published"
           [] OTHER -> Absent]
  /\ planned = <<>> /\ cursor = 0
  /\ worker = [d \in Deleter |-> Idle]
  /\ gathered = [k \in Slots |-> Absent]

There(kind, n) == slots[<<kind, n>>] # Absent

\* Several records get one value.
Put(kinds, n, value) == [k \in Slots |-> IF k[1] \in kinds /\ k[2] = n THEN value ELSE slots[k]]

-----------------------------------------------------------------------------
(* What else happens to these records. *)

\* PROVISION_RESEARCHER_SCRIPT, for a person neither of whose identities is
\* taken: an account with a new id.  Bound: once.
SignIn ==
  /\ ~There("oauth", 0) /\ ~There("email", 0) /\ ~There("successor", 0)
  /\ slots' = Put({"oauth", "email", "successor"}, 0, "second")
  /\ UNCHANGED <<planned, cursor, worker, gathered>>

\* UPDATE_RESEARCHER_CREDENTIALS_SCRIPT rewrites account and storage binding.
RotateCredentials ==
  /\ ~There("journal", 0) /\ slots[<<"account", 0>>] = "first" /\ There("storage", 0)
  /\ slots' = Put({"account", "storage"}, 0, "rotated")
  /\ UNCHANGED <<planned, cursor, worker, gathered>>

\* Both the creation key and BEGIN_STUDY_OPERATION_SCRIPT look at the journal.
MayBegin(s) ==
  /\ ~There("journal", 0) /\ ~There("registry", s)
  /\ There("account", 0) /\ There("storage", 0) /\ There("reverse", 0)

BeginCreation(s) ==
  /\ MayBegin(s) /\ ~There("key", s)
  /\ slots' = Put({"registry", "lock", "owner", "listed", "key", "keys"}, s, "create")
  /\ UNCHANGED <<planned, cursor, worker, gathered>>

BeginRemoval(s) ==
  /\ MayBegin(s) /\ There("owner", s)
  /\ slots' = Put({"registry", "lock"}, s, "delete")
  /\ UNCHANGED <<planned, cursor, worker, gathered>>

\* Resolving and publishing look at the registry, the lock and the owner only.
ResolveCreation(s) ==
  /\ slots[<<"registry", s>>] = "create" /\ There("lock", s) /\ There("owner", s)
  /\ slots' = [Put({"listed"}, s, "create") EXCEPT ![<<"registry", s>>] = "created"]
  /\ UNCHANGED <<planned, cursor, worker, gathered>>

ResolveRemoval(s) ==
  /\ slots[<<"registry", s>>] = "delete" /\ There("lock", s)
  /\ slots' = [Put({"owner", "listed"}, s, Absent) EXCEPT
                 ![<<"registry", s>>] = "deleted",
                 ![<<"key", s>>] = IF @ = Absent THEN Absent ELSE "delete"]
  /\ UNCHANGED <<planned, cursor, worker, gathered>>

PublishStudy(s) ==
  /\ slots[<<"registry", s>>] \in {"created", "deleted"} /\ ~There("receipt", s)
  /\ slots' = [Put({"receipt", "score"}, s, slots[<<"registry", s>>]) EXCEPT
                 ![<<"registry", s>>] = Absent, ![<<"lock", s>>] = Absent]
  /\ UNCHANGED <<planned, cursor, worker, gathered>>

-----------------------------------------------------------------------------
(* Gathering, planning and persisting: beginAccountDeletion. *)

\* gatherSnapshot's first reads, made together: the account and its indexes.
\* Nothing is gathered for an account that has gone.  Bound: an account row that
\* survived its deletion, being rewritten after it was gathered, is not deleted
\* again (that plan would be gathered with the identities of a successor).
GatherIndexes(d) ==
  /\ worker[d] = Idle /\ ~There("journal", 0) /\ There("account", 0) /\ planned = <<>>
  /\ worker' = [worker EXCEPT ![d] = Reader("gather",
       [k \in Slots |-> IF k \in OfAccount \/ k[1] \in {"listed", "score", "keys"} THEN slots[k] ELSE Absent])]
  /\ UNCHANGED <<slots, planned, cursor, gathered>>

\* Then the records the indexes name: of a study its lock, owner and registry
\* record, a receipt, and a creation key.
GatherRecords(d) ==
  LET seen == worker[d].read
      named(k) == \/ k[1] \in {"lock", "owner", "registry"} /\ seen[<<"listed", k[2]>>] # Absent
                  \/ k[1] = "receipt" /\ seen[<<"score", k[2]>>] # Absent
                  \/ k[1] = "key" /\ seen[<<"keys", k[2]>>] # Absent IN
  /\ worker[d].does = "gather"
  /\ worker' = [worker EXCEPT ![d] = Reader("persist",
       [k \in Slots |-> IF k \in OfStudies /\ named(k) THEN slots[k] ELSE seen[k]])]
  /\ UNCHANGED <<slots, planned, cursor, gathered>>

\* buildAccountDeletePlan: the order of the commands.  The identities go first,
\* so that nobody signs in to an account being deleted; then what is of each
\* study that is listed, a receipt among it; the storage binding; the creation
\* keys; the account.
Kinds == << <<"reverse", "oauth", "email", "all">>,
            <<"lock", "receipt", "score", "registry", "storage", "owner", "listed">>,
            <<"storage">>, <<"key", "keys">>, <<"account">> >>

\* A command's turn: its phase, its study, or 0, and its place there.
SlotAt(t) == LET kind == Kinds[t[1]][t[3]] IN <<kind, IF kind = "storage" THEN 0 ELSE t[2]>>
Before(t, u) == t[1] < u[1] \/ (t[1] = u[1] /\ (t[2] < u[2] \/ (t[2] = u[2] /\ t[3] < u[3])))

\* A value that was not there gives no command; the storage binding has its own
\* where no study is listed.
TurnsOf(seen) ==
  LET listed == {s \in Owned : seen[<<"listed", s>>] # Absent}
      studies == << {0}, listed, {0}, Owned, {0} >> IN
  {t \in (1..5) \X (0..MaxOwned) \X (1..7) :
     /\ t[2] \in studies[t[1]] /\ t[3] \in DOMAIN Kinds[t[1]]
     /\ (t[1] = 3 => listed = {}) /\ seen[SlotAt(t)] # Absent}

Plan(seen) ==
  LET turns == TurnsOf(seen)
      turn(n) == CHOOSE t \in turns : Cardinality({u \in turns : Before(u, t)}) = n - 1
  IN  Append([n \in 1..Cardinality(turns) |-> <<SlotAt(turn(n)), seen[SlotAt(turn(n))]>>], <<Journal, "open">>)

\* A request that loaded the plan and will send its next command.
Applying(plan, c) == IF c < Len(plan) THEN [Idle EXCEPT !.does = "apply", !.at = c, !.slot = plan[c + 1][1]] ELSE Idle

\* ACCOUNT_DELETE_PERSIST_SCRIPT: the plan and the journal, or the plan another
\* request persisted.  It does not look at the records again.
Persist(d) ==
  /\ worker[d].does = "persist"
  /\ IF There("journal", 0) THEN UNCHANGED <<slots, planned, cursor, gathered>>
     ELSE /\ slots' = Put({"journal"}, 0, "open")
          /\ planned' = Plan(worker[d].read) /\ cursor' = 0 /\ gathered' = worker[d].read
  /\ worker' = [worker EXCEPT ![d] = Applying(planned', cursor')]

-----------------------------------------------------------------------------
(* Applying the plan: resumeAccountDeletion. *)

\* A request finds the journal, loads the plan, and goes on at its cursor.
Resume(d) ==
  /\ worker[d] = Idle /\ There("journal", 0)
  /\ worker' = [worker EXCEPT ![d] = Applying(planned, cursor)]
  /\ UNCHANGED <<slots, planned, cursor, gathered>>

DeletesWhateverIsThere(d) ==   \* mutant: a command deletes without comparing
  slots' = [slots EXCEPT ![planned[cursor + 1][1]] = Absent]

\* A command deletes what the plan expected to find, and nothing else; the
\* account's place in an index goes whatever its score.
CompareAndDelete(d) ==
  LET slot == planned[cursor + 1][1] IN
  slots' = IF slot[1] \in Memberships \/ slots[slot] = planned[cursor + 1][2] THEN [slots EXCEPT ![slot] = Absent] ELSE slots

AdvancesFirst(d, steps) ==   \* mutant: the cursor is stored before the command runs
  /\ cursor' = cursor + 1
  /\ IF steps = 2 THEN CompareAndDelete(d) ELSE UNCHANGED slots

Advances(d, steps) ==
  /\ CompareAndDelete(d)
  /\ cursor' = IF steps = 2 THEN cursor + 1 ELSE cursor

\* The plan is where the request left it.
InStep(d) == worker[d].at = cursor /\ cursor < Len(planned) /\ planned[cursor + 1][1] = worker[d].slot

\* ACCOUNT_DELETE_APPLY_SCRIPT: 1 the command [adel-plan-ops], 2 the cursor.
\* A plan that moved on, or a cut, ends the request; one that dies between two
\* calls takes no further step.
Apply(d, steps) ==
  /\ worker[d].does = "apply"
  /\ IF InStep(d) THEN Advances(d, steps) ELSE steps = 2 /\ UNCHANGED <<slots, cursor>>
  /\ worker' = [worker EXCEPT ![d] = IF InStep(d) /\ steps = 2 THEN Applying(planned, cursor') ELSE Idle]
  /\ UNCHANGED <<planned, gathered>>

DeletionNext ==
  \/ SignIn \/ RotateCredentials
  \/ \E s \in Owned : BeginCreation(s) \/ BeginRemoval(s) \/ ResolveCreation(s) \/ ResolveRemoval(s) \/ PublishStudy(s)
  \/ \E d \in Deleter : \/ GatherIndexes(d) \/ GatherRecords(d) \/ Persist(d) \/ Resume(d)
                        \/ \E steps \in {1, 2} : Apply(d, steps)

DeletionSpec == DeletionInit /\ [][DeletionNext]_deletion

-----------------------------------------------------------------------------
(* Properties. *)

DeletionTypeOK ==
  /\ DOMAIN slots = Slots /\ cursor \in 0..Len(planned)
  /\ \A d \in Deleter : worker[d].does \in {"idle", "gather", "persist", "apply"} /\ DOMAIN worker[d].read = Slots

\* Once the journal is gone the deletion is done: whatever was cut, resumed or
\* applied twice, every record the plan was built from is gone, unless somebody
\* rewrote it after it was gathered.  (Receipts of studies no longer listed are
\* not gathered by the code, and stay.)
DeletedRecordsAreGone ==
  planned # <<>> /\ ~There("journal", 0) =>
    \A k \in OfAccount \cup OfStudies :
      gathered[k] # Absent /\ (k[1] \in {"receipt", "score"} => gathered[<<"listed", k[2]>>] # Absent)
        => slots[k] # gathered[k]

\* The account a person signs in to while the old one is being deleted keeps its
\* identities, also where a command that had run is applied again, or a plan that
\* was gathered before is persisted and applied after the first one.
SuccessorIsSpared ==
  There("successor", 0) => slots[<<"oauth", 0>>] = "second" /\ slots[<<"email", 0>>] = "second"
=============================================================================
