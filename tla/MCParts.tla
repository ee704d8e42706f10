------------------------------- MODULE MCParts -------------------------------
(* Small instances of the parts of the system that keep state of their own,   *)
(* each explored by itself: a behaviour is a behaviour of one of them.        *)
EXTENDS HostedStudies, AccountDeletion, StudyNotebook, SynchronousAnalysis, AttemptWindows,
  AnalysisPage, SampleWorkspace, Installer

VARIABLE part

Parts == {"hosted", "deletions", "deletion beside studies", "notebook", "analysis", "windows", "pages", "sample", "installation"}

MCOf == [i \in Interview |-> CHOOSE st \in Study : TRUE]
MCMaximumOf == [s \in Scope |-> 2]
MCLengthOf == [s \in Scope |-> IF s = Shared THEN 2 ELSE 1]

\* The parts that are not explored start in one state, and stay there.
Init ==
  /\ part \in Parts
  /\ HostedInit /\ (part # "hosted" => environment = {} /\ \A st \in Study : auxiliary[st] = 0)
  /\ "edit" \in environment => \A st \in Study : auxiliary[st] = MaxAuxiliary
  /\ DeletionInit /\ (part \notin {"deletions", "deletion beside studies"} => \A n \in Owned : ~There("owner", n))
  /\ NotebookInit /\ (part # "notebook" => scenario = {})
  /\ SynchronousInit /\ WindowsInit
  /\ PagesInit /\ (part # "pages" => trouble = {} /\ ~Active(job))
  /\ {"batch", "stopped"} \subseteq trouble => job.generation = 0
  /\ SampleInit
  /\ InstallerInit /\ (part # "installation" => meddling = {})

\* The records of the account's studies only go.
NoStudyWork == \A k \in OfStudies : slots'[k] \in {slots[k], Absent}
\* One request deletes at a time.
OneDeleter == \A d, e \in Deleter : worker'[d] # Idle /\ worker'[e] # Idle => d = e

OperationOrder == SetToSeq(Operation)
ContentOrder == SetToSeq(Content)
RunOrder == SetToSeq(Run)
CallerOrder == SetToSeq(Caller)

\* What is interchangeable begins in one order.
InOrder(order, begun) ==
  \A n \in 2..Len(order) : order[n] \in begun => order[n - 1] \in begun
ContentsHeld == {c \in Content : \/ \E i \in Interview : told'[i] = c
                                 \/ \E i \in Interview, rows \in {pguard', body'} : rows[i] # None /\ rows[i].content = c
                                 \/ \E finish \in saving' : finish.guard # None /\ finish.guard.content = c}
HostedInOrder == InOrder(OperationOrder, {o \in Operation : request'[o] # None}) /\ InOrder(ContentOrder, ContentsHeld)
AnalysisInOrder == InOrder(RunOrder, {r \in Run : run'[r] # "idle"})
\* Where batches stop, one request at a time is carried out late.
OneDelayed == "stopped" \in trouble => Cardinality(delayed') <= 1
\* Two requests over the sample at once.
SampleInOrder ==
  /\ InOrder(CallerOrder, {c \in Caller : caller'[c].does # "idle"})
  /\ \E c \in Caller : caller'[c].does \in {"idle", "ended"}

\* The variables of the parts the account's databases have no share in.
elsewhere == <<notebook, synchronous, windows, pages, sample, installer>>

Next ==
  /\ UNCHANGED part
  /\ \/ part = "hosted" /\ HostedNext /\ HostedInOrder /\ UNCHANGED <<deletion, elsewhere>>
     \/ part = "deletions" /\ DeletionNext /\ NoStudyWork /\ UNCHANGED <<hosted, byos, elsewhere>>
     \/ part = "deletion beside studies" /\ DeletionNext /\ OneDeleter /\ UNCHANGED <<hosted, byos, elsewhere>>
     \/ /\ UNCHANGED <<hosted, byos, deletion>>
        /\ \/ part = "notebook" /\ NotebookNext /\ UNCHANGED <<synchronous, windows, pages, sample, installer>>
           \/ part = "analysis" /\ SynchronousNext /\ AnalysisInOrder /\ UNCHANGED <<notebook, windows, pages, sample, installer>>
           \/ part = "windows" /\ WindowsNext /\ UNCHANGED <<notebook, synchronous, pages, sample, installer>>
           \/ part = "pages" /\ PagesNext /\ OneDelayed /\ UNCHANGED <<notebook, synchronous, windows, sample, installer>>
           \/ part = "sample" /\ SampleNext /\ SampleInOrder /\ UNCHANGED <<notebook, synchronous, windows, pages, installer>>
           \/ part = "installation" /\ InstallerNext /\ UNCHANGED <<notebook, synchronous, windows, pages, sample>>

Spec == Init /\ [][Next]_<<part, hosted, byos, deletion, elsewhere>>

\* The shape of the state of the part that is explored.
TypeOK ==
  CASE part = "hosted" -> HostedTypeOK
    [] part \in {"deletions", "deletion beside studies"} -> HostedTypeOK /\ DeletionTypeOK
    [] part = "notebook" -> NotebookTypeOK
    [] part = "analysis" -> SynchronousTypeOK
    [] part = "windows" -> WindowsTypeOK
    [] part = "pages" -> PagesTypeOK
    [] part = "sample" -> SampleTypeOK
    [] part = "installation" -> InstallerTypeOK
=============================================================================
