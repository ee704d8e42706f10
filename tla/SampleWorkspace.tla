--------------------------- MODULE SampleWorkspace ---------------------------
(***************************************************************************)
(* Loading and clearing the sample workspace on a Redis of one's own.       *)
(*                                                                         *)
(* Loading writes the sample study and its interviews; clearing deletes the *)
(* study by its one script and then removes the interviews it knows.  Each  *)
(* is a sequence of commands, any of which may fail, carried out or not,    *)
(* and the request may die between two.  Two researchers' pages may do it   *)
(* at once, and participants take part in the sample study.  Its id is used *)
(* again, so clearing also deletes the receipt of its own deletion.         *)
(***************************************************************************)
EXTENDS Naturals, FiniteSets, Sequences, SequencesExt

CONSTANTS
  Fixture,         \* DEMO_INTERVIEWS: the sample's interviews
  Joiner,          \* interviews participants give in the sample study
  Caller,          \* requests: each loads or clears once
  TheStudy         \* the sample study

ASSUME SampleAssumption ==
  Fixture \cap Joiner = {} /\ TheStudy \notin Fixture \cup Joiner /\ IsFiniteSet(Fixture)

VARIABLES
  present,         \* study:<id> is there
  inList,          \* it is in all-studies
  clearReceipt,    \* study-operation-result:delete:<id>:0
  tombstone,       \* study-mutation-guard:<id>: the deletion's
  bodies,          \* interview:<id>
  inStudy,         \* study-interviews:<id>
  inAll,           \* all-interviews
  joining,         \* study-persisting:<id>: interviews between P1 and Finish
  caller           \* each request: its commands to come, and what it answered

sampleRows == <<present, inList, clearReceipt, tombstone, bodies, inStudy, inAll, joining>>
sample == <<sampleRows, caller>>

SampleInit ==
  /\ present = FALSE /\ inList = FALSE /\ clearReceipt = FALSE /\ tombstone = FALSE
  /\ bodies = {} /\ inStudy = {} /\ inAll = {} /\ joining = {}
  /\ caller = [c \in Caller |-> [does |-> "idle", plan |-> <<>>, told |-> "nothing", owes |-> FALSE, masked |-> FALSE, disturbed |-> FALSE]]

Command(does, of) == [does |-> does, of |-> of]
\* Three commands for each interview, one interview after the other.
Each(commands) ==
  [n \in 1..3 * Cardinality(Fixture) |->
     Command(commands[((n - 1) % 3) + 1], SetToSeq(Fixture)[((n - 1) \div 3) + 1])]
Ends(c, reply) == caller' = [caller EXCEPT ![c].does = "ended", ![c].plan = <<>>, ![c].told = reply]

\* A load writes under every clear that is running.
Disturbs(c, mine) ==
  caller' = [d \in Caller |-> IF d = c THEN mine ELSE [caller[d] EXCEPT !.disturbed = @ \/ caller[d].does = "clears"]]

-----------------------------------------------------------------------------
(* seedSampleWorkspace. *)

\* studyKeysExist, then saveStudy and saveInterview of each.
LoadPlan == <<Command("set", TheStudy), Command("list", TheStudy)>> \o Each(<<"set", "member", "everyone">>)

BeginLoad(c) ==
  /\ caller[c].does = "idle"
  /\ IF present THEN Ends(c, "already-seeded")
     ELSE caller' = [caller EXCEPT ![c].does = "loads", ![c].plan = LoadPlan]
  /\ UNCHANGED sampleRows

\* What a command of the load writes.
Loads(k) ==
  /\ present' = (present \/ k = Command("set", TheStudy)) /\ inList' = (inList \/ k.does = "list")
  /\ bodies' = bodies \cup ({k.of : x \in {k.does} \cap {"set"}} \ {TheStudy})
  /\ inStudy' = inStudy \cup {k.of : x \in {k.does} \cap {"member"}}
  /\ inAll' = inAll \cup {k.of : x \in {k.does} \cap {"everyone"}}
  /\ UNCHANGED <<clearReceipt, tombstone, joining>>

\* What a plan has left after the record its first command belongs to.
NextRecord(plan) ==
  SubSeq(plan, Min({n \in 2..Len(plan) + 1 : n <= Len(plan) => plan[n].of # Head(plan).of}), Len(plan))

\* A command; one that fails ends the record it belongs to, and the load goes on.
LoadStep(c, done, heard) ==
  LET k == Head(caller[c].plan)
      rest == IF heard THEN Tail(caller[c].plan) ELSE NextRecord(caller[c].plan)
  IN
  /\ caller[c].does = "loads" /\ caller[c].plan # <<>> /\ (heard => done)
  /\ IF done THEN Loads(k) ELSE UNCHANGED sampleRows
  /\ Disturbs(c, [caller[c] EXCEPT !.plan = rest])

EndLoad(c) ==
  /\ caller[c].does = "loads" /\ caller[c].plan = <<>> /\ Ends(c, "seeded")
  /\ UNCHANGED sampleRows

-----------------------------------------------------------------------------
(* clearSampleWorkspaceRecords. *)

ClearPlanByIndex == <<Command("look", TheStudy), Command("purge", TheStudy), Command("forget", TheStudy)>>   \* mutant: only what the study's index names is removed

ClearPlan == <<Command("look", TheStudy), Command("purge", TheStudy), Command("forget", TheStudy)>>
             \o Each(<<"body", "member", "everyone">>)

BeginClear(c) ==
  /\ caller[c].does = "idle"
  /\ caller' = [caller EXCEPT ![c].does = "clears", ![c].plan = ClearPlan]
  /\ UNCHANGED sampleRows

Advanced(c) == caller' = [caller EXCEPT ![c].plan = Tail(@)]
Doing(c, does) == caller[c].does = "clears" /\ caller[c].plan # <<>> /\ Head(caller[c].plan).does = does

\* The receipt answers for what a load wrote since, because the clear that left
\* it has not come to forget it, or never will.
Masked ==
  /\ present \/ inList \/ inStudy # {}
  /\ \E c \in Caller : caller[c].owes /\ caller[c].told # "cleared"

\* deleteStudy looks for the receipt of this deletion: one that is there, with
\* no tombstone of it, is the answer.
LookForReceipt(c) ==
  /\ Doing(c, "look")
  /\ caller' = [caller EXCEPT ![c].plan = IF clearReceipt /\ ~tombstone THEN Tail(Tail(@)) ELSE Tail(@),
                              ![c].masked = clearReceipt /\ ~tombstone /\ Masked]
  /\ UNCHANGED sampleRows

\* DELETE_POPULATED_STUDY_SCRIPT, one pass over every member; it refuses while
\* an interview is between P1 and Finish.  `cut': a fault cut, DP1 or DP2.
PurgeStudy(c, cut) ==
  /\ Doing(c, "purge") /\ ~clearReceipt /\ joining = {}
  /\ bodies' = bodies \ inStudy /\ inAll' = inAll \ inStudy /\ inStudy' = {}
  /\ tombstone' = cut /\ clearReceipt' = ~cut
  /\ present' = (present /\ cut) /\ inList' = (inList /\ cut)
  /\ IF cut THEN Ends(c, "ambiguous") ELSE caller' = [caller EXCEPT ![c].plan = Tail(@), ![c].owes = TRUE]
  /\ UNCHANGED joining

\* The script finds the receipt, or refuses; or its answer is lost.
PurgeAnswers(c) ==
  /\ Doing(c, "purge") /\ (clearReceipt \/ joining # {})
  /\ IF clearReceipt THEN caller' = [caller EXCEPT ![c].plan = Tail(@), ![c].masked = @ \/ Masked]
     ELSE Ends(c, "ambiguous")
  /\ UNCHANGED sampleRows

\* The receipt must not answer for a sample loaded later.
ForgetReceipt(c) ==
  /\ Doing(c, "forget") /\ clearReceipt' = FALSE
  /\ caller' = [d \in Caller |-> [caller[d] EXCEPT !.owes = FALSE, !.plan = IF d = c THEN Tail(@) ELSE @]]
  /\ UNCHANGED <<present, inList, tombstone, bodies, inStudy, inAll, joining>>

\* An interview of the sample: its body, its place in the study's index, and in
\* the index of all.
RemoveInterview(c) ==
  LET k == Head(caller[c].plan) IN
  /\ caller[c].does = "clears" /\ caller[c].plan # <<>> /\ k.of # TheStudy
  /\ bodies' = IF k.does = "body" THEN bodies \ {k.of} ELSE bodies
  /\ inStudy' = IF k.does = "member" THEN inStudy \ {k.of} ELSE inStudy
  /\ inAll' = IF k.does = "everyone" THEN inAll \ {k.of} ELSE inAll
  /\ Advanced(c)
  /\ UNCHANGED <<present, inList, clearReceipt, tombstone, joining>>

EndClear(c) ==
  /\ caller[c].does = "clears" /\ caller[c].plan = <<>> /\ Ends(c, "cleared")
  /\ UNCHANGED sampleRows

\* The next command fails, or the request dies: what it did stays.
Interrupted(c) ==
  /\ caller[c].does \in {"loads", "clears"} /\ Ends(c, "ambiguous")
  /\ UNCHANGED sampleRows

-----------------------------------------------------------------------------
(* A participant of the sample study. *)

\* P1, with the study there and no deletion of it.
JoinSample(i) ==
  /\ i \notin bodies /\ present /\ ~tombstone
  /\ bodies' = bodies \cup {i} /\ joining' = joining \cup {i}
  /\ UNCHANGED <<present, inList, clearReceipt, tombstone, inStudy, inAll, caller>>

\* Finish, or the recovery of a P1 that was left.
FinishJoining(i) ==
  /\ i \in joining /\ joining' = joining \ {i}
  /\ inStudy' = inStudy \cup {i} /\ inAll' = inAll \cup {i}
  /\ UNCHANGED <<present, inList, clearReceipt, tombstone, bodies, caller>>

SampleNext ==
  \/ \E c \in Caller :
       \/ BeginLoad(c) \/ EndLoad(c) \/ BeginClear(c) \/ LookForReceipt(c) \/ PurgeAnswers(c)
       \/ \E done, heard \in BOOLEAN : LoadStep(c, done, heard)
       \/ \E cut \in BOOLEAN : PurgeStudy(c, cut)
       \/ ForgetReceipt(c) \/ RemoveInterview(c) \/ EndClear(c) \/ Interrupted(c)
  \/ \E i \in Joiner : JoinSample(i) \/ FinishJoining(i)

SampleSpec == SampleInit /\ [][SampleNext]_sample

-----------------------------------------------------------------------------
(* Properties. *)

SampleTypeOK ==
  /\ {present, inList, clearReceipt, tombstone} \subseteq BOOLEAN
  /\ bodies \cup inStudy \cup inAll \cup joining \subseteq Fixture \cup Joiner
  /\ \A c \in Caller : caller[c].does \in {"idle", "loads", "clears", "ended"}

\* A clear that answers `cleared' leaves nothing of the sample: no study, no
\* interview of it, participants' included, and no place in an index -- whatever
\* earlier loads and clears left half done, if no load wrote while it ran, and
\* no receipt that another clear had yet to forget answered for the study.
ClearedIsGone ==
  [][\A c \in Caller : caller[c].told = "nothing" /\ caller'[c].told = "cleared" /\ ~caller[c].masked /\ ~caller[c].disturbed =>
       ~present /\ ~inList /\ bodies \cup inStudy \cup inAll \cup joining = {}]_sample
=============================================================================
