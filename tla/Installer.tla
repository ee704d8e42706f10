------------------------------- MODULE Installer -------------------------------
(***************************************************************************)
(* setup:cloudflare: installing a workspace in a Cloudflare account, and    *)
(* updating it.                                                            *)
(*                                                                         *)
(* A run works through phases and records in a receipt on disk what it      *)
(* attempts, before the remote call, and what it observed, after it.  A     *)
(* call's answer may be lost, landed or not, and a run may die anywhere;    *)
(* `resume' or the same `update' goes on from the receipt and what it       *)
(* observes.  A resource with the installation's name counts as its own     *)
(* only on evidence: identified as the one seen, or created in the window   *)
(* of a recorded attempt.  Meanwhile others create resources of that name,  *)
(* and people bind and delete secrets and gateways by hand.                 *)
(*                                                                         *)
(* A tick is longer than a window.  A refusal writes nothing: the run is    *)
(* over, as where it dies.  One run at a time (acquireLock).  Not here: the *)
(* config file on disk, the refusal of a key operation over a deployment     *)
(* nobody recorded, and rotations and a language, which change nothing else. *)
(***************************************************************************)
EXTENDS Naturals, Sequences

CONSTANTS
  Nothing,
  MaxWindow,       \* bound: the clock
  MaxMade,         \* bound: epochs generated
  Meddling         \* what others do, in one behaviour or another: sets of
                   \* "strangers", "elsewhere", "token", "key", "gateway", "update"

ASSUME InstallerAssumption == MaxWindow \in Nat /\ MaxMade \in Nat \ {0}

VARIABLES
  hour,            \* the clock
  receiptFile,     \* receipt.json
  cloudflare,      \* resources of the installation's names: whose, and when created
  serving,         \* the vars of the version the Worker serves
  secrets,         \* the Worker's secrets: epoch, provider keys, who bound the Run token
  object,          \* the workspace object: the epoch it was initialized with
  setup,           \* the run: its epoch and whether it was given a Run token, in memory
  meddling         \* what others do

remote == <<cloudflare, serving, secrets, object>>
installer == <<hour, receiptFile, remote, setup, meddling>>

Resource == {"queue", "gateway", "worker"}
Gateway == "cloudflare-gateway"
Provider == {"default", "other"}
Transport == {"direct", Gateway}
Phases == <<"resources", "ai-gateway", "deploy-initial", "secrets", "origin", "workspace-init", "bootstrap-clear", "verify">>

\* What Cloudflare has of a name, the vars of a version, the secrets, what an
\* update changes, the receipt, and a run.
Things == [by: {"us", "a stranger"}, at: SUBSET (0..MaxWindow)]
Configs == [bootstrap: BOOLEAN, origin: BOOLEAN, provider: Provider, transport: Transport]
Bound == [epoch: 0..MaxMade, keys: SUBSET Provider, token: {"none", "installer", "by hand"}]
Changes == [kind: {"provider", "ai-transport", "add-provider-key", "rotate-ai-gateway-token"},
            from: Provider \cup Transport \cup {""}, to: Provider \cup Transport \cup {""}]
Receipts == [phases: SUBSET {Phases[n] : n \in DOMAIN Phases}, attempts: [Resource -> SUBSET (0..MaxWindow)],
             observed: [Resource -> Things \cup {Nothing}], epoch: 1..MaxMade, attempted: BOOLEAN,
             last: Configs \cup {Nothing}, origin: BOOLEAN, explicit: BOOLEAN, transport: Transport, provider: Provider,
             keys: SUBSET Provider, pending: Changes \cup {Nothing}, probed: BOOLEAN]

Setups == [does: {Phases[n] : n \in DOMAIN Phases} \cup
                {"idle", "creates queue", "creates gateway", "reads queue", "reads gateway", "deploys",
                 "uploads secrets", "switches", "uploads key", "records key", "token", "rotates token"},
           operation: {"apply", "deploy", "provider", "add-provider-key", "ai-transport", "rotate-ai-gateway-token"},
           to: Provider \cup Transport \cup {""}, epoch: 0..MaxMade, token: BOOLEAN, only: BOOLEAN,
           config: Configs \cup {Nothing}]

ASSUME NothingAssumption == Nothing \notin Things \cup Configs \cup Changes \cup Receipts

NoSetup == [does |-> "idle", operation |-> "apply", to |-> "", epoch |-> 0, token |-> FALSE, only |-> TRUE,
            config |-> Nothing]

\* What others may have left there before.
InstallerInit ==
  /\ hour = 0 /\ receiptFile = Nothing /\ serving = Nothing /\ object = 0 /\ setup = NoSetup
  /\ cloudflare = [res \in Resource |-> Nothing]
  /\ secrets = [epoch |-> 0, keys |-> {}, token |-> "none"]
  /\ meddling \in Meddling

-----------------------------------------------------------------------------
(* The receipt. *)

Has(phase) == phase \in receiptFile.phases

\* There is no gateway to provide for on the direct transport.
PhaseDone(r, phase) ==
  phase \in r.phases \/ (phase = "ai-gateway" /\ r.transport # Gateway /\ "resources" \in r.phases)

FirstIncomplete(r) ==
  LET open == {n \in DOMAIN Phases : ~PhaseDone(r, Phases[n])} IN
  IF open = {} THEN "complete" ELSE Phases[CHOOSE n \in open : \A k \in open : n <= k]

\* The receipt is saved, and the run of `apply' or `resume' goes on to the next phase.
MarkPhase(phase, r) ==
  LET saved == [r EXCEPT !.phases = @ \cup {phase}]
      next == FirstIncomplete(saved)
  IN /\ receiptFile' = saved
     /\ setup' = IF next = "complete" THEN NoSetup ELSE [setup EXCEPT !.does = next]

\* buildInstallationConfig, bootstrapFor.
ConfigOf(r, provider, transport) ==
  [bootstrap |-> "workspace-init" \notin r.phases, origin |-> r.origin, provider |-> provider, transport |-> transport]

-----------------------------------------------------------------------------
(* Ownership. *)

AttemptVouches(res) == receiptFile.attempts[res] # {}   \* mutant: the marker of an attempt proves that it landed

\* withinAttempt: every creation and deployment in the window of a recorded attempt.
WithinAttempt(res) == receiptFile.attempts[res] # {} /\ cloudflare[res].at \subseteq receiptFile.attempts[res]

\* queueOwnership, gatewayOwnership, workerOwnership.
ShownOurs(res) ==
  IF receiptFile.observed[res] = Nothing THEN WithinAttempt(res)
  ELSE res = "worker" \/ cloudflare[res] = receiptFile.observed[res]

\* recordAttempt; a gateway that was seen and is gone is superseded first.
RecordAttempt(res) ==
  IF res = "gateway" /\ receiptFile.observed[res] # Nothing
  THEN [receiptFile EXCEPT !.attempts[res] = {hour}, !.observed[res] = Nothing]
  ELSE [receiptFile EXCEPT !.attempts[res] = @ \cup {hour}]
\* The attempt is the window's only one: forgetting it forgets the window.
Only(res) == hour \notin receiptFile.attempts[res]
DropAttempt(res) == IF setup.only THEN [receiptFile EXCEPT !.attempts[res] = @ \ {hour}] ELSE receiptFile
Observed(r, res) == [r EXCEPT !.observed[res] = IF res = "worker" \/ @ = Nothing THEN cloudflare[res] ELSE @]

-----------------------------------------------------------------------------
(* apply and resume. *)

\* A fresh installation: nothing has its names.
ApplyBegins(transport, explicit) ==
  /\ setup = NoSetup /\ receiptFile = Nothing
  /\ cloudflare["queue"] = Nothing /\ cloudflare["worker"] = Nothing
  /\ transport = Gateway => cloudflare["gateway"] = Nothing
  /\ receiptFile' = [phases |-> {}, attempts |-> [res \in Resource |-> {}], observed |-> [res \in Resource |-> Nothing],
                     epoch |-> 1, attempted |-> FALSE, last |-> Nothing, origin |-> explicit, explicit |-> explicit,
                     transport |-> transport, provider |-> "default", keys |-> {"default"}, pending |-> Nothing,
                     probed |-> FALSE]
  /\ setup' = [NoSetup EXCEPT !.does = "resources", !.epoch = 1, !.token = transport = Gateway]
  /\ UNCHANGED <<hour, remote, meddling>>

\* The epoch of a run that is over is gone.  A Run token is given again, unless
\* the secrets of an interrupted attempt are bound; an origin may be given.
ResumeBegins(explicit) ==
  /\ setup = NoSetup /\ receiptFile # Nothing /\ receiptFile.pending = Nothing
  /\ FirstIncomplete(receiptFile) # "complete" /\ (explicit => ~Has("origin"))
  /\ receiptFile' = [receiptFile EXCEPT !.origin = @ \/ explicit, !.explicit = @ \/ explicit]
  /\ setup' = [NoSetup EXCEPT !.does = FirstIncomplete(receiptFile),
                              !.token = receiptFile.transport = Gateway /\ secrets.epoch = 0]
  /\ UNCHANGED <<hour, remote, meddling>>

Provisions == [queue |-> "resources", gateway |-> "ai-gateway"]
Creation == [queue |-> "creates queue", gateway |-> "creates gateway"]
Lookup == [queue |-> "reads queue", gateway |-> "reads gateway"]

\* What follows a resource: its phase, or the rest of a transport switch.
Provisioned(res, r) ==
  LET probed == IF res = "gateway" /\ setup.token THEN [r EXCEPT !.probed = TRUE] ELSE r IN
  IF setup.operation = "apply" THEN MarkPhase(Provisions[res], probed)
  ELSE receiptFile' = probed /\ setup' = [setup EXCEPT !.does = "token"]

CreatedNow == [by |-> "us", at |-> {hour}]

\* The attempt is saved before the call.
Attempts(res) ==
  /\ setup.does = Provisions[res] /\ cloudflare[res] = Nothing
  /\ receiptFile' = RecordAttempt(res) /\ setup' = [setup EXCEPT !.does = Creation[res], !.only = Only(res)]
  /\ UNCHANGED <<hour, remote, meddling>>

\* Created by this call: Cloudflare refuses a name that is taken.
Creates(res) ==
  /\ setup.does = Creation[res] /\ cloudflare[res] = Nothing
  /\ cloudflare' = [cloudflare EXCEPT ![res] = CreatedNow]
  /\ Provisioned(res, [receiptFile EXCEPT !.observed[res] = cloudflare'[res]])
  /\ UNCHANGED <<hour, serving, secrets, object, meddling>>

\* The answer is lost: what is there then decides.
CreateLost(res, landed) ==
  /\ setup.does = Creation[res]
  /\ cloudflare' = [cloudflare EXCEPT ![res] = IF landed /\ @ = Nothing THEN CreatedNow ELSE @]
  /\ setup' = [setup EXCEPT !.does = Lookup[res]]
  /\ UNCHANGED <<hour, receiptFile, serving, secrets, object, meddling>>

\* nameTaken: this call created nothing, and its attempt vouches for nothing.
NameTaken(res) ==
  /\ setup.does = Creation[res] /\ cloudflare[res] # Nothing
  /\ receiptFile' = DropAttempt(res) /\ setup' = [setup EXCEPT !.does = Lookup[res]]
  /\ UNCHANGED <<hour, remote, meddling>>

\* A resource that is there is adopted on evidence.
Adopts(res) ==
  /\ setup.does \in {Provisions[res], Lookup[res]} /\ cloudflare[res] # Nothing /\ ShownOurs(res)
  /\ Provisioned(res, Observed(receiptFile, res))
  /\ UNCHANGED <<hour, remote, meddling>>

\* What is seen of a gateway is recorded before its policy and its probe refuse it.
GatewayRefused ==
  /\ setup.does \in {"ai-gateway", "reads gateway"} /\ cloudflare["gateway"] # Nothing /\ ShownOurs("gateway")
  /\ receiptFile' = Observed(receiptFile, "gateway") /\ setup' = NoSetup
  /\ UNCHANGED <<hour, remote, meddling>>

\* deployInstallation begins: the config is written for what the receipt says.
DeployBegins(r, provider, transport) ==
  /\ receiptFile' = r
  /\ setup' = [setup EXCEPT !.does = "deploys", !.config = ConfigOf(r, provider, transport)]

DeployInitial ==
  /\ setup.does = "deploy-initial" /\ (cloudflare["worker"] # Nothing => ShownOurs("worker"))
  /\ receiptFile' = RecordAttempt("worker")
  /\ setup' = [setup EXCEPT !.does = "deploys", !.only = Only("worker"),
                            !.config = ConfigOf(receiptFile, receiptFile.provider, receiptFile.transport)]
  /\ UNCHANGED <<hour, remote, meddling>>

\* The origin: explicit, or the workers.dev one the first deploy reported.
Origin ==
  LET r == [receiptFile EXCEPT !.origin = TRUE] IN
  /\ setup.does = "origin"
  /\ IF r.last.origin THEN MarkPhase("origin", r) ELSE DeployBegins(r, r.provider, r.transport)
  /\ UNCHANGED <<hour, remote, meddling>>

BootstrapClear ==
  /\ setup.does = "bootstrap-clear"
  /\ IF receiptFile.last.bootstrap THEN DeployBegins(receiptFile, receiptFile.provider, receiptFile.transport)
     ELSE MarkPhase("bootstrap-clear", receiptFile)
  /\ UNCHANGED <<hour, remote, meddling>>

\* The upload: a new version, over whatever has the Worker's name.
Landed ==
  LET was == cloudflare["worker"] IN
  /\ serving' = setup.config
  /\ cloudflare' = [cloudflare EXCEPT !["worker"] =
       IF was = Nothing THEN CreatedNow
       ELSE IF Has("deploy-initial") THEN was ELSE [was EXCEPT !.at = @ \cup {hour}]]

\* A deployment reported is recorded, and the phase or the operation with it.
Deployed ==
  LET r == [receiptFile EXCEPT !.last = setup.config] IN
  CASE setup.operation = "apply" /\ ~Has("deploy-initial") ->
         MarkPhase("deploy-initial", [r EXCEPT !.observed["worker"] = cloudflare'["worker"]])
    [] setup.operation = "apply" /\ Has("deploy-initial") -> MarkPhase(FirstIncomplete(receiptFile), r)
    [] setup.operation = "provider" ->
         /\ setup' = NoSetup
         /\ receiptFile' = [r EXCEPT !.provider = setup.to, !.keys = @ \cup {setup.to}, !.pending = Nothing]
    [] setup.operation = "ai-transport" ->
         /\ setup' = NoSetup
         /\ receiptFile' = [r EXCEPT !.transport = setup.to, !.pending = Nothing,
                                     !.phases = @ \cup IF setup.to = Gateway THEN {"ai-gateway"} ELSE {}]
    [] OTHER -> setup' = NoSetup /\ receiptFile' = r

Deploys ==
  /\ setup.does = "deploys" /\ Landed /\ Deployed
  /\ UNCHANGED <<hour, secrets, object, meddling>>

\* The answer is lost, or the run dies once the deployment is recorded.
DeployLost(landed, recorded) ==
  /\ setup.does = "deploys" /\ setup' = NoSetup /\ (recorded => landed)
  /\ IF landed THEN Landed ELSE UNCHANGED <<cloudflare, serving>>
  /\ receiptFile' = IF recorded THEN [receiptFile EXCEPT !.last = setup.config] ELSE receiptFile
  /\ UNCHANGED <<hour, secrets, object, meddling>>

\* deploy.mjs refused before wrangler ran: the attempt had no effect.
NothingUploaded ==
  /\ setup.does = "deploys" /\ setup' = NoSetup
  /\ receiptFile' = IF setup.operation = "apply" /\ ~Has("deploy-initial") THEN DropAttempt("worker") ELSE receiptFile
  /\ UNCHANGED <<hour, remote, meddling>>

\* Secrets an interrupted attempt bound are kept.
KeepSecrets ==
  /\ setup.does = "secrets" /\ secrets.epoch # 0 /\ receiptFile.attempted
  /\ MarkPhase("secrets", receiptFile)
  /\ UNCHANGED <<hour, remote, meddling>>

\* Otherwise the epoch of this run, or a new one, is recorded before the upload.
SetSecrets ==
  LET epoch == IF setup.epoch # 0 THEN setup.epoch ELSE receiptFile.epoch + 1 IN
  /\ setup.does = "secrets" /\ secrets.epoch = 0 /\ epoch <= MaxMade
  /\ receiptFile' = [receiptFile EXCEPT !.epoch = epoch, !.attempted = TRUE, !.probed = @ \/ receiptFile.transport = Gateway]
  /\ setup' = [setup EXCEPT !.does = "uploads secrets", !.epoch = epoch]
  /\ UNCHANGED <<hour, remote, meddling>>

AllBound == [epoch |-> setup.epoch, keys |-> receiptFile.keys,
             token |-> IF receiptFile.transport = Gateway THEN "installer" ELSE secrets.token]

UploadsSecrets(landed, heard) ==
  /\ setup.does = "uploads secrets" /\ secrets' = IF landed THEN AllBound ELSE secrets
  /\ IF landed /\ heard THEN MarkPhase("secrets", receiptFile) ELSE setup' = NoSetup /\ UNCHANGED receiptFile
  /\ UNCHANGED <<hour, cloudflare, serving, object, meddling>>

\* An origin of the operator's own reaches the Worker, or another one.
Routed == receiptFile.explicit => "elsewhere" \notin meddling

\* The Worker's own URL says that its workspace is initialized.
Initialized == object # 0 /\ object = secrets.epoch

WorkspaceInit ==
  /\ setup.does = "workspace-init" /\ Initialized /\ MarkPhase("workspace-init", receiptFile)
  /\ UNCHANGED <<hour, remote, meddling>>

Verify ==
  /\ setup.does = "verify" /\ Initialized /\ Routed /\ MarkPhase("verify", receiptFile)
  /\ UNCHANGED <<hour, remote, meddling>>

-----------------------------------------------------------------------------
(* update. *)

\* checkDrift: what is recorded is there, but for the key to be forgotten.  The
\* gateway is only read, with a token of its own, and not by every operation.
AsRecorded(forgetting) ==
  /\ cloudflare["worker"] # Nothing /\ cloudflare["queue"] = receiptFile.observed["queue"]
  /\ receiptFile.keys \ forgetting \subseteq secrets.keys
  /\ receiptFile.transport = Gateway => secrets.token # "none"

\* assertNoPendingChange: only what finishes the change, or abandons the switch.
Finishes(operation, to) ==
  receiptFile.pending # Nothing =>
    /\ receiptFile.pending.kind = operation
    /\ to = receiptFile.pending.to \/ (operation = "ai-transport" /\ to = receiptFile.pending.from)

UpdateBegins(operation, to, forgetting) ==
  /\ "update" \in meddling
  /\ setup = NoSetup /\ receiptFile # Nothing /\ Has("bootstrap-clear")
  /\ AsRecorded(forgetting) /\ Finishes(operation, to)
  /\ UNCHANGED <<hour, remote, meddling>>

PendingBegins(operation, from, to, does) ==
  /\ receiptFile' = [receiptFile EXCEPT !.pending = IF @ = Nothing THEN [kind |-> operation, from |-> from, to |-> to] ELSE @]
  /\ setup' = [NoSetup EXCEPT !.does = does, !.operation = operation, !.to = to,
                              !.token = to = Gateway /\ secrets.token = "none"]

UpdateDeploys ==
  /\ UpdateBegins("deploy", "", {}) /\ receiptFile.pending = Nothing
  /\ receiptFile' = receiptFile
  /\ setup' = [NoSetup EXCEPT !.does = "deploys", !.operation = "deploy",
                              !.config = ConfigOf(receiptFile, receiptFile.provider, receiptFile.transport)]

\* A key that is bound is not asked for again.
ChangeProvider(to) ==
  /\ UpdateBegins("provider", to, {}) /\ to # receiptFile.provider
  /\ PendingBegins("provider", receiptFile.provider, to, IF to \in secrets.keys THEN "switches" ELSE "uploads key")

\* A key bound by somebody else is refused, but not one this change uploaded.
AddKey ==
  /\ UpdateBegins("add-provider-key", "other", {}) /\ "other" \notin receiptFile.keys
  /\ receiptFile.pending = Nothing => "other" \notin secrets.keys
  /\ PendingBegins("add-provider-key", "", "other", IF "other" \in secrets.keys THEN "records key" ELSE "uploads key")

AfterKey == IF setup.operation = "provider" THEN "switches" ELSE "records key"

UploadsKey(landed, heard) ==
  /\ setup.does = "uploads key" /\ secrets' = IF landed THEN [secrets EXCEPT !.keys = @ \cup {setup.to}] ELSE secrets
  /\ setup' = IF landed /\ heard THEN [setup EXCEPT !.does = AfterKey] ELSE NoSetup
  /\ UNCHANGED <<hour, receiptFile, cloudflare, serving, object, meddling>>

RecordsKey ==
  /\ setup.does = "records key" /\ setup' = NoSetup
  /\ receiptFile' = [receiptFile EXCEPT !.keys = @ \cup {setup.to}, !.pending = Nothing]
  /\ UNCHANGED <<hour, remote, meddling>>

ForgetKey ==
  /\ UpdateBegins("forget-provider-key", "other", {"other"}) /\ receiptFile.pending = Nothing
  /\ "other" \in receiptFile.keys \ secrets.keys /\ receiptFile.provider # "other"
  /\ receiptFile' = [receiptFile EXCEPT !.keys = @ \ {"other"}] /\ setup' = setup

\* gatewayTokenRecorded: a token that is bound and was never probed is refused.
TokenRecorded == secrets.token = "none" \/ receiptFile.probed

ChangeTransport(to) ==
  /\ UpdateBegins("ai-transport", to, {}) /\ (receiptFile.pending = Nothing => to # receiptFile.transport)
  /\ to = Gateway => TokenRecorded /\ (cloudflare["gateway"] # Nothing => ShownOurs("gateway"))
  /\ PendingBegins("ai-transport", receiptFile.transport, to, IF to = Gateway THEN "ai-gateway" ELSE "switches")

\* The Run token the run was given, probed by now, is uploaded; or the one that is bound is kept.
UploadsToken(landed, heard) ==
  /\ setup.does = "token"
  /\ secrets' = IF setup.token /\ landed THEN [secrets EXCEPT !.token = "installer"] ELSE secrets
  /\ setup' = IF ~setup.token \/ (landed /\ heard) THEN [setup EXCEPT !.does = "switches"] ELSE NoSetup
  /\ UNCHANGED <<hour, receiptFile, cloudflare, serving, object, meddling>>

\* A new Run token is probed, and uploaded over the one that is bound.
RotateToken ==
  /\ UpdateBegins("rotate-ai-gateway-token", "", {}) 
  /\ receiptFile.observed["gateway"] # Nothing /\ secrets.token # "none"
  /\ PendingBegins("rotate-ai-gateway-token", "", "", "rotates token")

RotatesToken(landed, heard) ==
  /\ setup.does = "rotates token" /\ setup' = NoSetup
  /\ secrets' = IF landed THEN [secrets EXCEPT !.token = "installer"] ELSE secrets
  /\ receiptFile' = IF landed /\ heard THEN [receiptFile EXCEPT !.probed = TRUE, !.pending = Nothing] ELSE receiptFile
  /\ UNCHANGED <<hour, cloudflare, serving, object, meddling>>

Switches ==
  /\ setup.does = "switches"
  /\ DeployBegins(receiptFile, IF setup.operation = "provider" THEN setup.to ELSE receiptFile.provider,
                           IF setup.operation = "ai-transport" THEN setup.to ELSE receiptFile.transport)
  /\ UNCHANGED <<hour, remote, meddling>>

-----------------------------------------------------------------------------
(* Everything else. *)

\* The Worker initializes its workspace at a request, while it may bootstrap.
ObjectInitializes ==
  /\ serving # Nothing /\ serving.bootstrap /\ secrets.epoch # 0 /\ object = 0 /\ object' = secrets.epoch
  /\ UNCHANGED <<hour, receiptFile, cloudflare, serving, secrets, setup, meddling>>

Dies ==
  /\ setup # NoSetup /\ setup' = NoSetup
  /\ UNCHANGED <<hour, receiptFile, remote, meddling>>

Stranger(res) ==
  /\ "strangers" \in meddling /\ cloudflare[res] = Nothing
  /\ cloudflare' = [cloudflare EXCEPT ![res] = [by |-> "a stranger", at |-> {hour}]]
  /\ UNCHANGED <<hour, receiptFile, serving, secrets, object, setup, meddling>>

\* By hand: a Run token before any was probed (one bound later is taken for the
\* one that was probed), a provider key deleted, an unused gateway deleted.
HandBindsToken ==
  /\ "token" \in meddling /\ setup = NoSetup /\ secrets.epoch # 0 /\ secrets.token = "none" /\ ~receiptFile.probed
  /\ secrets' = [secrets EXCEPT !.token = "by hand"]
  /\ UNCHANGED <<hour, receiptFile, cloudflare, serving, object, setup, meddling>>

HandDeletesKey ==
  /\ "key" \in meddling /\ setup = NoSetup /\ receiptFile # Nothing /\ receiptFile.pending = Nothing
  /\ receiptFile.provider # "other" /\ "other" \in secrets.keys
  /\ secrets' = [secrets EXCEPT !.keys = @ \ {"other"}]
  /\ UNCHANGED <<hour, receiptFile, cloudflare, serving, object, setup, meddling>>

HandDeletesGateway ==
  /\ "gateway" \in meddling /\ cloudflare["gateway"] # Nothing /\ setup = NoSetup
  /\ serving # Nothing /\ serving.transport # Gateway /\ receiptFile.transport # Gateway
  /\ cloudflare' = [cloudflare EXCEPT !["gateway"] = Nothing]
  /\ UNCHANGED <<hour, receiptFile, serving, secrets, object, setup, meddling>>

\* A call is over within its window.
WindowPasses ==
  /\ hour < MaxWindow /\ \A res \in {"queue", "gateway"} : setup.does # Creation[res]
  /\ setup.does # "deploys" /\ hour' = hour + 1
  /\ UNCHANGED <<receiptFile, remote, setup, meddling>>

InstallerNext ==
  \/ \E transport \in Transport, explicit \in BOOLEAN : ApplyBegins(transport, explicit)
  \/ \E explicit \in BOOLEAN : ResumeBegins(explicit)
  \/ \E res \in {"queue", "gateway"} :
       Attempts(res) \/ Creates(res) \/ NameTaken(res) \/ Adopts(res) \/ \E landed \in BOOLEAN : CreateLost(res, landed)
  \/ GatewayRefused \/ DeployInitial \/ Origin \/ BootstrapClear \/ Deploys \/ NothingUploaded
  \/ KeepSecrets \/ SetSecrets \/ WorkspaceInit \/ Verify
  \/ \E landed, heard \in BOOLEAN :
       \/ DeployLost(landed, heard) \/ UploadsSecrets(landed, heard)
       \/ UploadsKey(landed, heard) \/ UploadsToken(landed, heard) \/ RotatesToken(landed, heard)
  \/ UpdateDeploys \/ AddKey \/ RecordsKey \/ ForgetKey \/ RotateToken \/ Switches
  \/ \E to \in Provider : ChangeProvider(to)
  \/ \E to \in Transport : ChangeTransport(to)
  \/ ObjectInitializes \/ Dies \/ WindowPasses
  \/ \E res \in Resource : Stranger(res)
  \/ HandBindsToken \/ HandDeletesKey \/ HandDeletesGateway

InstallerSpec == InstallerInit /\ [][InstallerNext]_installer

-----------------------------------------------------------------------------
(* Properties. *)

InstallerTypeOK ==
  /\ hour \in 0..MaxWindow
  /\ receiptFile \in Receipts \cup {Nothing}
  /\ cloudflare \in [Resource -> Things \cup {Nothing}]
  /\ serving \in Configs \cup {Nothing}
  /\ secrets \in Bound
  /\ object \in 0..MaxMade
  /\ setup \in Setups

\* A resource the installation counts as its own is one it created: a stranger's
\* only where it was created while a call to create it was on its way.
IsOurs(res) ==
  \/ cloudflare[res] = Nothing \/ cloudflare[res].by = "us"
  \/ cloudflare[res].at \subseteq receiptFile.attempts[res]

\* Whatever was lost, died or meddled with, the receipt is true of the account:
\* no unrelated resource is adopted; the fingerprint is that of the epoch that is
\* bound, and the workspace's; a Worker whose bootstrap is cleared has an
\* initialized workspace; without a pending change it runs the provider and the
\* transport recorded; and it sends no Run token that was never probed.
ReceiptIsTrue ==
  receiptFile # Nothing =>
    /\ Has("resources") => IsOurs("queue")
    /\ Has("deploy-initial") => IsOurs("worker")
    /\ serving # Nothing /\ serving.transport = Gateway => IsOurs("gateway") /\ secrets.token # "by hand"
    /\ Has("secrets") => secrets.epoch = receiptFile.epoch /\ object \in {0, receiptFile.epoch}
    /\ serving # Nothing /\ ~serving.bootstrap => object # 0
    /\ serving # Nothing /\ Has("secrets") => serving.provider \in secrets.keys
    /\ Has("bootstrap-clear") /\ receiptFile.pending = Nothing =>
         serving = [bootstrap |-> FALSE, origin |-> TRUE,
                    provider |-> receiptFile.provider, transport |-> receiptFile.transport]
=============================================================================
