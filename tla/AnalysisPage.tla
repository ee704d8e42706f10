---------------------------- MODULE AnalysisPage ----------------------------
(***************************************************************************)
(* A researcher's pages over one interview's queued analysis.               *)
(*                                                                         *)
(* A page shows the state it last confirmed and polls while work is         *)
(* pending: one read at a time, within a budget, not while it is hidden or  *)
(* offline.  It starts a generation only at the researcher's press, under a *)
(* key kept until the press is answered.  A batch starts its interview      *)
(* itself and waits on a poller of its own.  Requests and answers are lost, *)
(* and a request given up may be carried out later.  Each page polls and    *)
(* reloads by itself, so what they show differs.                            *)
(*                                                                         *)
(* The workspace is what the routes tell of it (AnalysisJobs has it whole). *)
(***************************************************************************)
EXTENDS Naturals, FiniteSets

CONSTANTS
  Tab,             \* pages of the interview
  Batch,           \* runs of runAnalysisBatch that come to the interview
  Blank,           \* nothing: no state, no request
  MaxShown,        \* bound: generations
  MaxMinted,       \* bound: keys a page makes
  Troubles         \* what happens to the pages, in one behaviour or another: sets of
                   \* "batch", "suspended", "failed", "lost", "left", "stopped", "budget"

Client == Tab \cup Batch

ASSUME PageAssumption == Tab \cap Batch = {} /\ MaxShown \in Nat \ {0} /\ MaxMinted \in Nat

VARIABLES
  job,             \* the interview's analysis: [generation, kind]
  outcomes,        \* history: the outcome each generation reached
  pressed,         \* history: the states shown when a start was asked for
  retryReceipts,   \* idempotency_receipts: the generation each key was told
  client,          \* each page's poller, and a batch's result
  statusRead,      \* each page's status read
  loaded,          \* the interview record each page holds
  reload,          \* each page's read of the record, answered
  post,            \* each page's start request
  retained,        \* AnalysisActionKeys: each page's retained action
  minted,          \* keys each page has made
  delayed,         \* start requests given up, that may still be carried out
  suspended,       \* pages hidden or offline
  trouble          \* what may happen

pages == <<job, outcomes, pressed, retryReceipts, client, statusRead, loaded, reload, post, retained, minted, delayed, suspended, trouble>>
workspace == <<job, outcomes, retryReceipts>>

\* isActiveAnalysis, isTerminalAnalysis.
Active(state) == state # Blank /\ state.kind \in {"queued", "running"}
Terminal(state) == state # Blank /\ state.kind \in {"complete", "failed"}

-----------------------------------------------------------------------------
(* The workspace, as the analyze route tells it. *)

\* The consumer runs the job, and settles it.
JobMoves ==
  /\ Active(job)
  /\ \E kind \in IF job.kind = "queued" THEN {"running"} ELSE {"complete", "failed"} :
       /\ job' = [job EXCEPT !.kind = kind]
       /\ outcomes' = IF kind = "running" THEN outcomes ELSE [outcomes EXCEPT ![job.generation] = kind]
  /\ UNCHANGED <<pressed, retryReceipts, client, statusRead, loaded, reload, post, retained, minted, delayed, suspended, trouble>>

AllocatesUnfenced(press) == ~Active(job) /\ job.kind # "complete"   \* mutant: expectedGeneration is not compared

\* A new generation, over the outcome the request expects and no other.
Allocates(press) == ~Active(job) /\ job.kind # "complete" /\ press.expected = job.generation

\* acceptAnalysisRetry: a key seen before is told its generation's state.
Accept(press) ==
  IF press.key \in DOMAIN retryReceipts \/ ~Allocates(press)
  THEN /\ retryReceipts' = IF press.key \notin DOMAIN retryReceipts /\ Active(job)
                      THEN [k \in DOMAIN retryReceipts \cup {press.key} |->
                              IF k = press.key THEN job.generation ELSE retryReceipts[k]]
                      ELSE retryReceipts
       /\ UNCHANGED <<job, outcomes>>
  ELSE LET next == job.generation + 1 IN
       /\ job' = [generation |-> next, kind |-> "queued"]
       /\ outcomes' = [g \in DOMAIN outcomes \cup {next} |-> IF g = next THEN "none" ELSE outcomes[g]]
       /\ retryReceipts' = [k \in DOMAIN retryReceipts \cup {press.key} |-> IF k = press.key THEN next ELSE retryReceipts[k]]

\* The state of a generation that is not the current one is its outcome.
ToldOf(generation) == [generation |-> generation, kind |-> IF generation = job.generation THEN job.kind ELSE outcomes[generation]]

\* acceptOutcomeResponse, of the state before: none where the state has changed.
Answer(press) ==
  IF press.key \in DOMAIN retryReceipts THEN ToldOf(retryReceipts[press.key])
  ELSE IF Active(job) \/ job.kind = "complete" THEN job
  ELSE IF Allocates(press) THEN [generation |-> job.generation + 1, kind |-> "queued"]
  ELSE Blank

-----------------------------------------------------------------------------
(* AnalysisStatusPoller. *)

\* adoptAnalysisStatus: an older generation, and a step back from an outcome, are rejected.
Adopt(current, incoming) ==
  IF /\ current # Blank
     /\ \/ incoming.generation < current.generation
        \/ incoming.generation = current.generation /\ Terminal(current) /\ ~Terminal(incoming)
  THEN current ELSE incoming

\* A poller before anything is known.
Fresh == [shown |-> Blank, phase |-> "idle", session |-> "none", ended |-> FALSE, error |-> FALSE, timer |-> FALSE]
Closed == [Fresh EXCEPT !.phase = "closed"]

\* scheduleNext: nothing to poll, or hidden, or no room for another read, or a timer.
ScheduleNext(p, hidden) ==
  IF ~Active(p.shown) THEN [p EXCEPT !.phase = IF p.session = "none" THEN "idle" ELSE "settled"]
  ELSE LET q == [p EXCEPT !.session = IF @ = "none" THEN "open" ELSE @] IN
       IF hidden THEN [q EXCEPT !.phase = "paused"]
       ELSE IF q.session = "over" THEN [q EXCEPT !.phase = "exhausted", !.ended = TRUE]
       ELSE [q EXCEPT !.phase = "waiting", !.timer = TRUE]

\* start: a new session with its budget; an outstanding read is aborted.
StartPoller(p, hidden) ==
  ScheduleNext([p EXCEPT !.timer = FALSE, !.session = "open", !.error = FALSE, !.ended = FALSE], hidden)

\* seed: a state that leaves nothing to check ends the polling, and the read.
Settles(p, state) == ~Active(Adopt(p.shown, state)) /\ p.phase # "idle"
Seed(p, state) ==
  LET q == [p EXCEPT !.shown = Adopt(@, state)] IN
  IF Settles(p, state) THEN [q EXCEPT !.timer = FALSE, !.error = FALSE, !.phase = "settled"] ELSE q

\* What waitForAnalysisOutcome makes of a snapshot: the batch is over, and why.
Waited(p) ==
  IF ~Active(p.shown) THEN [Closed EXCEPT !.shown = p.shown, !.phase = IF Terminal(p.shown) THEN "counted" ELSE "stopped"]
  ELSE IF p.phase = "exhausted" THEN [Closed EXCEPT !.shown = p.shown, !.phase = "awaiting"]
  ELSE IF p.phase = "halted" THEN [Closed EXCEPT !.shown = p.shown, !.phase = "stopped"]
  ELSE p

\* onChange: a page shows it, a batch may be done with it.
Turns(c, p) == client' = [client EXCEPT ![c] = IF c \in Batch THEN Waited(p) ELSE p]
\* No page, or a batch that came to its end.
Over == {"closed", "counted", "awaiting", "stopped"}

NoRead == [state |-> "none", answer |-> Blank, inSession |-> FALSE]
\* read: one at a time; its answer is the state when it is asked, and waits.
AsksStatus(c, p) ==
  /\ Turns(c, [p EXCEPT !.timer = FALSE, !.phase = "reading"])
  /\ statusRead' = [statusRead EXCEPT ![c] = [state |-> "asked", answer |-> Blank, inSession |-> p.session # "none" /\ ~p.ended]]

Reading(c) == statusRead[c].state # "none"
EndsRead(c) == statusRead' = [statusRead EXCEPT ![c] = NoRead]

TimerFires(c) ==
  /\ client[c].timer /\ ~Reading(c) /\ AsksStatus(c, client[c])
  /\ UNCHANGED <<workspace, pressed, loaded, reload, post, retained, minted, delayed, suspended, trouble>>

\* The route reads the workspace; the answer is on its way.
StatusRead(c) ==
  /\ statusRead[c].state = "asked"
  /\ statusRead' = [statusRead EXCEPT ![c].state = "answered", ![c].answer = job]
  /\ UNCHANGED <<workspace, pressed, client, loaded, reload, post, retained, minted, delayed, suspended, trouble>>

ReadAnswers(c) ==
  /\ statusRead[c].state = "answered"
  /\ Turns(c, ScheduleNext([client[c] EXCEPT !.error = FALSE, !.shown = Adopt(@, statusRead[c].answer)], c \in suspended))
  /\ EndsRead(c)
  /\ UNCHANGED <<workspace, pressed, loaded, reload, post, retained, minted, delayed, suspended, trouble>>

\* A read lost to a page going hidden or offline pauses; another failure halts.
ReadFails(c, network) ==
  /\ "failed" \in trouble /\ Reading(c)
  /\ Turns(c, IF network /\ client[c].session # "none" /\ c \in suspended
                THEN [client[c] EXCEPT !.phase = "paused"]
                ELSE [client[c] EXCEPT !.error = TRUE, !.phase = "halted"])
  /\ EndsRead(c)
  /\ UNCHANGED <<workspace, pressed, loaded, reload, post, retained, minted, delayed, suspended, trouble>>

\* readExpired: inside a session at its deadline, otherwise on its own clock.
ReadExpires(c) ==
  /\ Reading(c) /\ (statusRead[c].inSession => client[c].session = "over")
  /\ Turns(c, IF client[c].session # "none" /\ c \in suspended THEN [client[c] EXCEPT !.phase = "paused"]
                ELSE IF statusRead[c].inSession /\ ~client[c].error /\ Active(client[c].shown)
                THEN [client[c] EXCEPT !.phase = "exhausted", !.ended = TRUE]
                ELSE [client[c] EXCEPT !.error = TRUE, !.phase = "halted"])
  /\ EndsRead(c)
  /\ UNCHANGED <<workspace, pressed, loaded, reload, post, retained, minted, delayed, suspended, trouble>>

\* No time is left for another read.
BudgetRunsOut(c) ==
  /\ "budget" \in trouble /\ client[c].session = "open" /\ client' = [client EXCEPT ![c].session = "over"]
  /\ UNCHANGED <<workspace, pressed, statusRead, loaded, reload, post, retained, minted, delayed, suspended, trouble>>

\* handleEnvironmentChange: hidden or offline stops the timer, the return reads once.
Suspend(c) ==
  /\ "suspended" \in trouble /\ c \notin suspended /\ suspended' = suspended \cup {c}
  /\ client' = [client EXCEPT ![c] = IF @.timer THEN [@ EXCEPT !.timer = FALSE, !.phase = "paused"] ELSE @]
  /\ UNCHANGED <<workspace, pressed, statusRead, loaded, reload, post, retained, minted, delayed, trouble>>

Returns(c) ==
  /\ c \in suspended /\ suspended' = suspended \ {c}
  /\ IF client[c].phase = "paused" THEN AsksStatus(c, client[c]) ELSE UNCHANGED <<client, statusRead>>
  /\ UNCHANGED <<workspace, pressed, loaded, reload, post, retained, minted, delayed, trouble>>

-----------------------------------------------------------------------------
(* useInterviewAnalysis. *)

\* The page, or its reload, reads the record: at first; later because an
\* outcome is confirmed that the record does not show.
RecordRead(c) ==
  /\ reload[c] = Blank /\ (c \in Batch => "batch" \in trouble)
  /\ \/ client[c].phase \in Over
     \/ c \in Tab /\ Terminal(client[c].shown) /\ client[c].shown # loaded[c]
  /\ reload' = [reload EXCEPT ![c] = job]
  /\ UNCHANGED <<workspace, pressed, client, statusRead, loaded, post, retained, minted, delayed, suspended, trouble>>

\* The record seeds the poller, which starts where it finds work and has no session.
RecordArrives(c) ==
  LET opened == IF client[c].phase = "closed" THEN Fresh ELSE client[c]
      seeded == Seed(opened, reload[c])
      starts == seeded.session = "none" /\ Active(seeded.shown)
  IN
  /\ c \in Tab /\ reload[c] # Blank
  /\ loaded' = [loaded EXCEPT ![c] = reload[c]] /\ reload' = [reload EXCEPT ![c] = Blank]
  /\ client' = [client EXCEPT ![c] = IF starts THEN StartPoller(seeded, c \in suspended) ELSE seeded]
  /\ statusRead' = IF starts \/ Settles(opened, reload[c]) THEN [statusRead EXCEPT ![c] = NoRead] ELSE statusRead
  /\ UNCHANGED <<workspace, pressed, post, retained, minted, delayed, suspended, trouble>>

\* actionFor: the action of the same generation is retained, with its key.
ActionFor(c, shown) ==
  IF retained[c] # Blank /\ retained[c].expected = shown.generation THEN retained[c]
  ELSE [key |-> <<c, minted[c] + 1>>, expected |-> shown.generation]

\* A start asked for upon a state.
Sends(c, shown) ==
  LET action == ActionFor(c, shown) IN
  /\ pressed' = pressed \cup {shown}
  /\ retained' = [retained EXCEPT ![c] = action]
  /\ minted' = [minted EXCEPT ![c] = IF action = retained[c] THEN @ ELSE @ + 1]
  /\ post' = [post EXCEPT ![c] = [request |-> action, told |-> "nothing", answer |-> Blank]]

\* Bounds: generations, and keys.
Pressable(c, shown) ==
  shown.generation < MaxShown /\ (minted[c] < MaxMinted \/ ActionFor(c, shown) = retained[c])

\* run: one request at a time, and none while the state shown is active.
PressRun(c) ==
  /\ c \in Tab /\ client[c].phase # "closed" /\ post[c] = Blank
  /\ ~Active(client[c].shown) /\ client[c].shown.kind # "complete"
  /\ Pressable(c, client[c].shown)
  /\ Sends(c, client[c].shown)
  /\ UNCHANGED <<workspace, client, statusRead, loaded, reload, delayed, suspended, trouble>>

\* acceptAnalysisRetry executes the request.
PostExecutes(c) ==
  /\ post[c] # Blank /\ post[c].told = "nothing"
  /\ Accept(post[c].request)
  /\ post' = [post EXCEPT ![c].answer = Answer(post[c].request),
                          ![c].told = IF Answer(post[c].request) = Blank THEN "state-changed" ELSE "accepted"]
  /\ UNCHANGED <<pressed, client, statusRead, loaded, reload, retained, minted, delayed, suspended, trouble>>

\* A request given up is carried out, with nobody to answer.
DelayedExecutes(press) ==
  /\ delayed' = delayed \ {press} /\ Accept(press)
  /\ UNCHANGED <<pressed, client, statusRead, loaded, reload, post, retained, minted, suspended, trouble>>

\* settle: a definite answer ends the action.
ForgetsKey(c) == retained' = [retained EXCEPT ![c] = Blank]

\* refresh: one read now, unless one is outstanding.
Refresh(c) ==
  IF Reading(c) THEN UNCHANGED <<client, statusRead>> ELSE AsksStatus(c, client[c])

\* The state an accepted start reports is seeded, and polled while it is pending.
PostAccepted(c) ==
  LET answer == post[c].answer
      seeded == Seed(client[c], answer)
  IN
  /\ c \in Tab /\ client[c].phase # "closed" /\ post[c] # Blank /\ post[c].told = "accepted"
  /\ client' = [client EXCEPT ![c] = IF Active(answer) THEN StartPoller(seeded, c \in suspended) ELSE seeded]
  /\ statusRead' = IF Active(answer) \/ Settles(client[c], answer) THEN [statusRead EXCEPT ![c] = NoRead] ELSE statusRead
  /\ ForgetsKey(c) /\ post' = [post EXCEPT ![c] = Blank]
  /\ UNCHANGED <<workspace, pressed, loaded, reload, minted, delayed, suspended, trouble>>

PostRefused(c) ==
  /\ c \in Tab /\ client[c].phase # "closed" /\ post[c] # Blank /\ post[c].told = "state-changed"
  /\ Refresh(c) /\ ForgetsKey(c) /\ post' = [post EXCEPT ![c] = Blank]
  /\ UNCHANGED <<workspace, pressed, loaded, reload, minted, delayed, suspended, trouble>>

\* A refusal before anything is read (a limit, a hold): the action is kept.
PostDenied(c) ==
  /\ "lost" \in trouble /\ c \in Tab /\ post[c] # Blank /\ post[c].told = "nothing" /\ post' = [post EXCEPT ![c] = Blank]
  /\ UNCHANGED <<workspace, pressed, client, statusRead, loaded, reload, retained, minted, delayed, suspended, trouble>>

\* The researcher opens another interview: the poller is disposed.  The answer
\* of a start that is still out finds the page gone, unless it is back.
LeavePage(c) ==
  /\ "left" \in trouble /\ c \in Tab /\ client[c].phase # "closed"
  /\ client' = [client EXCEPT ![c] = Closed] /\ EndsRead(c)
  /\ reload' = [reload EXCEPT ![c] = Blank]
  /\ UNCHANGED <<workspace, pressed, loaded, post, retained, minted, delayed, suspended, trouble>>

PostUnwanted(c) ==
  /\ c \in Tab /\ client[c].phase = "closed" /\ post[c] # Blank
  /\ post' = [post EXCEPT ![c] = Blank]
  /\ delayed' = IF post[c].told = "nothing" THEN delayed \cup {post[c].request} ELSE delayed
  /\ UNCHANGED <<workspace, pressed, client, statusRead, loaded, reload, retained, minted, suspended, trouble>>

\* No answer came: the action is kept, and a read shows what the workspace holds.
PostLost(c) ==
  /\ "lost" \in trouble /\ c \in Tab /\ client[c].phase # "closed" /\ post[c] # Blank /\ Refresh(c)
  /\ post' = [post EXCEPT ![c] = Blank]
  /\ delayed' = IF post[c].told = "nothing" THEN delayed \cup {post[c].request} ELSE delayed
  /\ UNCHANGED <<workspace, pressed, loaded, reload, retained, minted, suspended, trouble>>

\* checkStatus, offered where polling ended, a read failed, or a start is not confirmed.
CheckStatus(c) ==
  /\ c \in Tab /\ client[c].phase # "closed" /\ ~Reading(c)
  /\ client[c].error \/ client[c].ended \/ (retained[c] # Blank /\ post[c] = Blank)
  /\ AsksStatus(c, client[c])
  /\ UNCHANGED <<workspace, pressed, loaded, reload, post, retained, minted, delayed, suspended, trouble>>

-----------------------------------------------------------------------------
(* runAnalysisBatch, at the interview. *)

\* The register's state: work already scheduled is observed, other work is started.
BatchTakesItem(c) ==
  /\ c \in Batch /\ client[c].phase \in Over /\ reload[c] # Blank
  /\ reload' = [reload EXCEPT ![c] = Blank]
  /\ IF Active(reload[c])
     THEN /\ Turns(c, StartPoller([Fresh EXCEPT !.shown = reload[c]], c \in suspended))
          /\ UNCHANGED <<pressed, retained, minted, post>>
     ELSE /\ reload[c].kind # "complete" /\ Pressable(c, reload[c])
          /\ client' = [client EXCEPT ![c] = [Fresh EXCEPT !.shown = reload[c], !.phase = "starting"]]
          /\ Sends(c, reload[c])
  /\ UNCHANGED <<workspace, statusRead, loaded, delayed, suspended, trouble>>

\* The start's answer: waited for while it is pending, counted when it is an outcome.
BatchStarted(c) ==
  LET answer == post[c].answer IN
  /\ client[c].phase = "starting" /\ post[c].told # "nothing"
  /\ IF post[c].told = "state-changed" THEN client' = [client EXCEPT ![c].phase = "stopped"]
     ELSE Turns(c, StartPoller([Fresh EXCEPT !.shown = answer], c \in suspended))
  /\ ForgetsKey(c) /\ post' = [post EXCEPT ![c] = Blank]
  /\ UNCHANGED <<workspace, pressed, statusRead, loaded, reload, minted, delayed, suspended, trouble>>

\* A request failure stops the batch, the researcher cancels it, or the page is
\* left: its poller is disposed, and a request on its way may still be carried out.
BatchStops(c) ==
  /\ "stopped" \in trouble /\ c \in Batch /\ client[c].phase \notin Over
  /\ client' = [client EXCEPT ![c] = [Closed EXCEPT !.phase = "stopped", !.shown = client[c].shown]]
  /\ EndsRead(c) /\ post' = [post EXCEPT ![c] = Blank]
  /\ delayed' = IF post[c] # Blank /\ post[c].told = "nothing" THEN delayed \cup {post[c].request} ELSE delayed
  /\ UNCHANGED <<workspace, pressed, loaded, reload, retained, minted, suspended, trouble>>

-----------------------------------------------------------------------------
PagesInit ==
  /\ job \in {[generation |-> 0, kind |-> "not-scheduled"], [generation |-> 1, kind |-> "queued"]}
  /\ outcomes = [g \in 0..job.generation |-> "none"] /\ pressed = {}
  /\ retryReceipts = [k \in {} |-> 0]
  /\ client = [c \in Client |-> Closed] /\ statusRead = [c \in Client |-> NoRead]
  /\ loaded = [c \in Client |-> Blank] /\ reload = [c \in Client |-> Blank]
  /\ post = [c \in Client |-> Blank] /\ retained = [c \in Client |-> Blank]
  /\ minted = [c \in Client |-> 0] /\ delayed = {} /\ suspended = {}
  /\ trouble \in Troubles

PagesNext ==
  \/ JobMoves
  \/ \E c \in Client :
       \/ TimerFires(c) \/ StatusRead(c) \/ ReadAnswers(c) \/ ReadExpires(c) \/ BudgetRunsOut(c)
       \/ \E network \in BOOLEAN : ReadFails(c, network)
       \/ Suspend(c) \/ Returns(c)
       \/ RecordRead(c) \/ RecordArrives(c) \/ PressRun(c) \/ PostExecutes(c)
       \/ PostAccepted(c) \/ PostRefused(c) \/ PostLost(c) \/ PostDenied(c)
       \/ CheckStatus(c) \/ LeavePage(c) \/ PostUnwanted(c)
       \/ BatchTakesItem(c) \/ BatchStarted(c) \/ BatchStops(c)
  \/ \E press \in delayed : DelayedExecutes(press)

PagesSpec == PagesInit /\ [][PagesNext]_pages

-----------------------------------------------------------------------------
(* Properties. *)

State == [generation : 0..MaxShown, kind : {"not-scheduled", "queued", "running", "complete", "failed"}]
Action == [key : Client \X (1..MaxMinted), expected : 0..MaxShown]

Start == [request : Action, told : {"nothing", "accepted", "state-changed"}, answer : State \cup {Blank}]
StatusAnswer == [state : {"none", "asked", "answered"}, answer : State \cup {Blank}, inSession : BOOLEAN]
Poller ==
  [shown : State \cup {Blank}, session : {"none", "open", "over"},
   phase : Over \cup {"idle", "waiting", "reading", "paused", "exhausted", "halted", "settled", "starting"},
   ended : BOOLEAN, error : BOOLEAN, timer : BOOLEAN]

ASSUME BlankAssumption == Blank \notin State /\ Blank \notin Start /\ Blank \notin [key : Client \X Nat, expected : Nat]

PagesTypeOK ==
  /\ job \in State /\ outcomes \in [0..job.generation -> {"none", "complete", "failed"}]
  /\ retryReceipts \in [DOMAIN retryReceipts -> 1..job.generation]
  /\ pressed \subseteq State /\ delayed \subseteq Action /\ suspended \subseteq Client
  /\ client \in [Client -> Poller] /\ statusRead \in [Client -> StatusAnswer]
  /\ {loaded, reload} \subseteq [Client -> State \cup {Blank}]
  /\ post \in [Client -> Start \cup {Blank}] /\ retained \in [Client -> Action \cup {Blank}]
  /\ minted \in [Client -> 0..MaxMinted]

\* What a page shows, and what keeps it up to date; a batch that is over shows nothing.
Shows(c) == client[c].phase \notin Over
WatchOf(c) ==
  IF ~Shows(c) THEN "nothing"
  ELSE IF c \in suspended THEN "away"
  ELSE IF client[c].timer \/ Reading(c) THEN "looks"
  ELSE IF client[c].ended \/ client[c].error THEN "stopped"
  ELSE IF client[c].phase = "settled" THEN "settled" ELSE "nothing"

Promise == INSTANCE PagePromise WITH View <- Client, work <- job,
  shown <- [c \in Client |-> IF Shows(c) THEN client[c].shown ELSE Blank],
  watch <- [c \in Client |-> WatchOf(c)]

\* The pages keep what PagePromise says of them.  Whatever is lost, repeated or
\* carried out late, an analysis is started again only over the outcome somebody
\* saw and pressed on (AnalysisActionKeys, expectedGeneration); what a page shows
\* is a state the work was in, and never goes back (adoptAnalysisStatus); and a
\* page that shows pending work looks again or says that it stopped
\* (AnalysisStatusPoller) -- except one given newer work after it had settled.
PagesKeepPromise == Promise!Spec
=============================================================================
