---------------------------- MODULE Operator_proofs ----------------------------
(***************************************************************************)
(* Proofs about what an operator does: AttemptWindows, for any attempts,   *)
(* owners, maxima and lengths, and Installer, for any time and number of   *)
(* epochs and whatever others do.                                          *)
(***************************************************************************)
EXTENDS AttemptWindows, Installer, FiniteSetTheorems, TLAPS

-----------------------------------------------------------------------------
(* The sign-in budget. *)

\* What WindowsAreConserved says of one scope.
Conserved(s) ==
  /\ window[s].count <= MaximumOf[s]
  /\ window[s].count + strayed[s] = Cardinality(charged[s])
  /\ \A a \in charged[s] : attempt[a].does \in {"admitted", "kept"} /\ s \in attempt[a].scopes

\* What is charged is a finite set.
LEMMA ChargedIsFinite ==
  ASSUME WindowsTypeOK, NEW s \in Scope
  PROVE IsFiniteSet(charged[s]) /\ Cardinality(charged[s]) \in Nat
<1>1. charged[s] \subseteq Attempt
  BY DEF WindowsTypeOK
<1> QED
  BY <1>1, WindowAssumption, FS_Subset, FS_CardinalityType

\* Charging more than it may admit never happens: a charge finds room.
LEMMA ChargeableHasRoom ==
  ASSUME NEW scopes \in SUBSET Scope, NEW s \in Chargeable(scopes)
  PROVE Taken(s) < MaximumOf[s] /\ Chargeable(scopes) = scopes
BY DEF Chargeable

-----------------------------------------------------------------------------
(* Types. *)

\* Every step keeps the type.
LEMMA TypeNext == WindowsTypeOK /\ [WindowsNext]_windows => WindowsTypeOK'
<1> SUFFICES ASSUME WindowsTypeOK, [WindowsNext]_windows PROVE WindowsTypeOK'
  OBVIOUS
<1> USE DEF WindowsTypeOK
<1>1. ASSUME NEW a \in Attempt, NEW owner \in Owner, Admit(a, owner) PROVE WindowsTypeOK'
  <2> DEFINE scopes == {owner, Shared}
  <2>1. scopes \in SUBSET Scope /\ Chargeable(scopes) \in SUBSET Scope
    BY DEF Scope, Chargeable
  <2>2. attempt' \in [Attempt -> [does : {"idle", "admitted", "refused", "kept", "refunded"}, scopes : SUBSET Scope]]
    BY <1>1, <2>1 DEF Admit, Moves
  <2>3. clock' \in 0..Horizon
    BY <1>1 DEF Admit
  <2>4. window' \in [Scope -> [count : Nat, until : Nat]]
    <3>1. \A s \in Scope : clock + LengthOf[s] \in Nat
      BY WindowAssumption
    <3> QED
      BY <1>1, <3>1 DEF Admit, Charge
  <2>5. charged' \in [Scope -> SUBSET Attempt] /\ strayed' \in [Scope -> Nat]
    BY <1>1 DEF Admit, Charge
  <2> QED
    BY <2>2, <2>3, <2>4, <2>5
<1>2. ASSUME NEW a \in Attempt, KeepCharge(a) PROVE WindowsTypeOK'
  BY <1>2 DEF KeepCharge, Moves
<1>3. ASSUME NEW a \in Attempt, Refund(a) PROVE WindowsTypeOK'
  <2>1. attempt' \in [Attempt -> [does : {"idle", "admitted", "refused", "kept", "refunded"}, scopes : SUBSET Scope]]
    BY <1>3 DEF Refund, Moves
  <2>2. clock' = clock
    BY <1>3 DEF Refund
  <2>3. window' \in [Scope -> [count : Nat, until : Nat]]
    BY <1>3 DEF Refund, GiveBack, Open
  <2>4. charged' \in [Scope -> SUBSET Attempt] /\ strayed' \in [Scope -> Nat]
    BY <1>3 DEF Refund
  <2> QED
    BY <2>1, <2>2, <2>3, <2>4
<1>4. CASE Tick
  BY <1>4, WindowAssumption DEF Tick
<1>5. CASE UNCHANGED windows
  BY <1>5 DEF windows
<1> QED
  BY <1>1, <1>2, <1>3, <1>4, <1>5 DEF WindowsNext

-----------------------------------------------------------------------------
(* One scope under each action. *)

\* An admission is counted once.
LEMMA AdmitConserves ==
  ASSUME WindowsTypeOK, WindowsAreConserved, NEW a \in Attempt, NEW owner \in Owner, Admit(a, owner),
         NEW s \in Scope, Open(s)'
  PROVE Conserved(s)'
<1> DEFINE scopes == {owner, Shared}
<1>1. /\ attempt[a].does = "idle" /\ clock' = clock
      /\ window' = [t \in Scope |-> IF t \notin Chargeable(scopes) THEN window[t]
                      ELSE IF Open(t) THEN [window[t] EXCEPT !.count = @ + 1]
                      ELSE [count |-> 1, until |-> clock + LengthOf[t]]]
      /\ charged' = [t \in Scope |-> IF t \notin Chargeable(scopes) THEN charged[t]
                       ELSE IF Open(t) THEN charged[t] \cup {a} ELSE {a}]
      /\ strayed' = [t \in Scope |-> IF t \in Chargeable(scopes) /\ ~Open(t) THEN 0 ELSE strayed[t]]
      /\ attempt' = [attempt EXCEPT ![a] = [does |-> IF Chargeable(scopes) = scopes THEN "admitted" ELSE "refused",
                                            scopes |-> scopes]]
  BY DEF Admit, Charge, Moves
<1>2. scopes \in SUBSET Scope
  BY DEF Scope
<1>3. Open(s) => /\ a \notin charged[s] /\ Conserved(s)
                 /\ \A b \in charged[s] : b \in Attempt /\ b # a /\ attempt'[b] = attempt[b]
  BY <1>1 DEF WindowsAreConserved, Conserved, WindowsTypeOK
<1>4. IsFiniteSet(charged[s]) /\ Cardinality(charged[s]) \in Nat
  BY ChargedIsFinite
<1>5. CASE s \notin Chargeable(scopes)
  <2>1. window'[s] = window[s] /\ charged'[s] = charged[s] /\ strayed'[s] = strayed[s]
    BY <1>1, <1>5
  <2>2. Open(s)
    BY <1>1, <2>1 DEF Open
  <2> QED
    BY <1>3, <2>1, <2>2 DEF Conserved
<1>6. CASE s \in Chargeable(scopes) /\ Open(s)
  <2>1. window[s].count < MaximumOf[s] /\ Chargeable(scopes) = scopes
    BY <1>2, <1>6, ChargeableHasRoom DEF Taken
  <2>2. window'[s].count = window[s].count + 1 /\ charged'[s] = charged[s] \cup {a} /\ strayed'[s] = strayed[s]
    BY <1>1, <1>6 DEF WindowsTypeOK
  <2>3. Cardinality(charged'[s]) = Cardinality(charged[s]) + 1
    BY ZenonT(60), <1>3, <1>4, <1>6, <2>2, FS_AddElement
  <2>4. attempt'[a].does = "admitted" /\ s \in attempt'[a].scopes
    BY <1>1, <1>6, <2>1 DEF WindowsTypeOK
  <2>5. window'[s].count <= MaximumOf[s]
    BY <2>1, <2>2, WindowAssumption DEF WindowsTypeOK
  <2>6. window'[s].count + strayed'[s] = Cardinality(charged'[s])
    BY <1>3, <1>4, <1>6, <2>2, <2>3 DEF Conserved, WindowsTypeOK
  <2>7. \A b \in charged'[s] : attempt'[b].does \in {"admitted", "kept"} /\ s \in attempt'[b].scopes
    BY <1>3, <1>6, <2>2, <2>4 DEF Conserved
  <2> QED
    BY <2>5, <2>6, <2>7 DEF Conserved
<1>7. CASE s \in Chargeable(scopes) /\ ~Open(s)
  <2>1. 0 < MaximumOf[s] /\ Chargeable(scopes) = scopes
    BY <1>2, <1>7, ChargeableHasRoom DEF Taken
  <2>2. window'[s].count = 1 /\ charged'[s] = {a} /\ strayed'[s] = 0
    BY <1>1, <1>7
  <2>3. Cardinality(charged'[s]) = 1
    BY <2>2, FS_Singleton
  <2>4. attempt'[a].does = "admitted" /\ s \in attempt'[a].scopes
    BY <1>1, <1>7, <2>1 DEF WindowsTypeOK
  <2>5. 1 <= MaximumOf[s]
    BY <2>1, WindowAssumption
  <2> QED
    BY <2>2, <2>3, <2>4, <2>5 DEF Conserved
<1> QED
  BY <1>5, <1>6, <1>7

\* A refund takes back what was counted.
LEMMA RefundConserves ==
  ASSUME WindowsTypeOK, WindowsAreConserved, NEW a \in Attempt, Refund(a), NEW s \in Scope, Open(s)'
  PROVE Conserved(s)'
<1>1. /\ attempt[a].does = "admitted" /\ clock' = clock
      /\ window' = [t \in Scope |-> IF t \in attempt[a].scopes /\ Open(t)
                                    THEN [window[t] EXCEPT !.count = @ - 1] ELSE window[t]]
      /\ charged' = [t \in Scope |-> IF t \in attempt[a].scopes /\ Open(t) THEN charged[t] \ {a} ELSE charged[t]]
      /\ strayed' = [t \in Scope |-> IF t \in attempt[a].scopes /\ Open(t) /\ a \notin charged[t]
                                     THEN strayed[t] + 1 ELSE strayed[t]]
      /\ attempt' = [attempt EXCEPT ![a] = [does |-> "refunded", scopes |-> attempt[a].scopes]]
  BY DEF Refund, GiveBack, Moves
<1>2. Open(s)
  <2>1. window'[s].count > 0 /\ window'[s].until > clock
    BY <1>1 DEF Open
  <2>2. CASE s \in attempt[a].scopes /\ Open(s)
    BY <2>2
  <2>3. CASE ~(s \in attempt[a].scopes /\ Open(s))
    BY <1>1, <2>1, <2>3 DEF Open
  <2> QED
    BY <2>2, <2>3
<1>3. Conserved(s)
  BY <1>2 DEF WindowsAreConserved, Conserved
<1>4. \A b \in charged[s] \ {a} : attempt'[b] = attempt[b]
  BY <1>1 DEF WindowsTypeOK
<1>5. IsFiniteSet(charged[s]) /\ Cardinality(charged[s]) \in Nat
  BY ChargedIsFinite
<1>6. CASE s \notin attempt[a].scopes
  <2>1. window'[s] = window[s] /\ charged'[s] = charged[s] /\ strayed'[s] = strayed[s]
    BY <1>1, <1>6
  <2>2. a \notin charged[s]
    BY <1>3, <1>6 DEF Conserved
  <2> QED
    BY <1>3, <1>4, <2>1, <2>2 DEF Conserved
<1>7. CASE s \in attempt[a].scopes
  <2>1. window'[s].count = window[s].count - 1 /\ charged'[s] = charged[s] \ {a}
    BY <1>1, <1>2, <1>7 DEF WindowsTypeOK
  <2>2. strayed'[s] = IF a \in charged[s] THEN strayed[s] ELSE strayed[s] + 1
    BY <1>1, <1>2, <1>7
  <2>3. Cardinality(charged'[s]) = IF a \in charged[s] THEN Cardinality(charged[s]) - 1 ELSE Cardinality(charged[s])
    BY <1>5, <2>1, FS_RemoveElement
  <2>4. window'[s].count <= MaximumOf[s]
    BY <1>3, <2>1, WindowAssumption DEF Conserved, WindowsTypeOK
  <2>5. window'[s].count + strayed'[s] = Cardinality(charged'[s])
    BY <1>3, <1>5, <2>1, <2>2, <2>3 DEF Conserved, WindowsTypeOK
  <2>6. \A b \in charged'[s] : attempt'[b].does \in {"admitted", "kept"} /\ s \in attempt'[b].scopes
    BY <1>3, <1>4, <2>1 DEF Conserved
  <2> QED
    BY <2>4, <2>5, <2>6 DEF Conserved
<1> QED
  BY <1>6, <1>7

\* Nothing but a charge or a refund touches what is counted.
LEMMA OtherwiseConserved ==
  ASSUME WindowsTypeOK, WindowsAreConserved, UNCHANGED <<window, charged, strayed>>,
         clock' = clock \/ clock' = clock + 1,
         \A b \in Attempt : attempt[b].does \in {"admitted", "kept"} =>
           attempt'[b].does \in {"admitted", "kept"} /\ attempt'[b].scopes = attempt[b].scopes,
         NEW s \in Scope, Open(s)'
  PROVE Conserved(s)'
<1>1. Open(s)
  BY DEF Open, WindowsTypeOK
<1>2. Conserved(s) /\ charged[s] \subseteq Attempt
  BY <1>1 DEF WindowsAreConserved, Conserved, WindowsTypeOK
<1> QED
  BY <1>2 DEF Conserved

-----------------------------------------------------------------------------
(* The theorems. *)

\* Every reachable state is well typed, whatever the number of attempts and the
\* maximum and length of each window; no count falls below zero.
THEOREM WindowsTypeCorrect == WindowsSpec => []WindowsTypeOK
<1>1. WindowsInit => WindowsTypeOK
  BY WindowAssumption DEF WindowsInit, WindowsTypeOK
<1> QED
  BY <1>1, TypeNext, PTL DEF WindowsSpec

\* Windows are conserved: what an open window counts are the attempts charged to
\* it, less the refunds that strayed into it, and it never exceeds its maximum.
THEOREM WindowsConserve == WindowsSpec => []WindowsAreConserved
<1>1. WindowsInit => WindowsAreConserved
  BY DEF WindowsInit, WindowsAreConserved, Open
<1>2. WindowsTypeOK /\ WindowsAreConserved /\ [WindowsNext]_windows => WindowsAreConserved'
  <2> SUFFICES ASSUME WindowsTypeOK, WindowsAreConserved, [WindowsNext]_windows, NEW s \in Scope, Open(s)'
               PROVE Conserved(s)'
    BY DEF WindowsAreConserved, Conserved
  <2>1. ASSUME NEW a \in Attempt, NEW owner \in Owner, Admit(a, owner) PROVE Conserved(s)'
    BY <2>1, AdmitConserves
  <2>2. ASSUME NEW a \in Attempt, KeepCharge(a) PROVE Conserved(s)'
    <3>1. UNCHANGED <<window, charged, strayed, clock>>
      BY <2>2 DEF KeepCharge
    <3>2. \A b \in Attempt : attempt[b].does \in {"admitted", "kept"} =>
            attempt'[b].does \in {"admitted", "kept"} /\ attempt'[b].scopes = attempt[b].scopes
      BY <2>2 DEF KeepCharge, Moves, WindowsTypeOK
    <3> QED
      BY <3>1, <3>2, OtherwiseConserved
  <2>3. ASSUME NEW a \in Attempt, Refund(a) PROVE Conserved(s)'
    BY <2>3, RefundConserves
  <2>4. CASE Tick \/ UNCHANGED windows
    BY <2>4, OtherwiseConserved DEF Tick, windows
  <2> QED
    BY <2>1, <2>2, <2>3, <2>4 DEF WindowsNext
<1> QED
  BY <1>1, <1>2, WindowsTypeCorrect, PTL DEF WindowsSpec

-----------------------------------------------------------------------------
(* The installer. *)

\* What a resource the installation counts as its own is: created by it, or in
\* the windows of the attempts it recorded.
Ours(thing, within) == thing # Nothing /\ (thing.by = "us" \/ thing.at \subseteq within)

\* There is nothing to provide of a gateway, any more or at all.
GatewayDone(r) == "ai-gateway" \in r.phases \/ (r.transport # Gateway /\ "resources" \in r.phases)

\* The first phase that is not done.
FirstOf(r) ==
  IF "resources" \notin r.phases THEN "resources"
  ELSE IF ~GatewayDone(r) THEN "ai-gateway"
  ELSE IF "deploy-initial" \notin r.phases THEN "deploy-initial"
  ELSE IF "secrets" \notin r.phases THEN "secrets"
  ELSE IF "origin" \notin r.phases THEN "origin"
  ELSE IF "workspace-init" \notin r.phases THEN "workspace-init"
  ELSE IF "bootstrap-clear" \notin r.phases THEN "bootstrap-clear"
  ELSE IF "verify" \notin r.phases THEN "verify" ELSE "complete"

\* The least number of a set of phases, where it is known.
LEMMA Least ==
  ASSUME NEW S \in SUBSET (1..8), NEW i \in S, \A k \in S : i <= k
  PROVE  (CHOOSE n \in S : \A k \in S : n <= k) = i
<1> DEFINE n == CHOOSE n \in S : \A k \in S : n <= k
<1>1. \E j \in S : \A k \in S : j <= k
  OBVIOUS
<1>2. n \in S /\ \A k \in S : n <= k
  BY <1>1, Zenon
<1>3. n <= i /\ i <= n
  BY <1>2
<1>4. n \in 1..8 /\ i \in 1..8
  BY <1>2
<1> HIDE DEF n
<1>5. n = i
  BY <1>3, <1>4
<1> QED
  BY <1>5 DEF n

\* The phases, in their order.
LEMMA PhasesAre ==
  /\ DOMAIN Phases = 1..8
  /\ Phases[1] = "resources" /\ Phases[2] = "ai-gateway" /\ Phases[3] = "deploy-initial" /\ Phases[4] = "secrets"
  /\ Phases[5] = "origin" /\ Phases[6] = "workspace-init" /\ Phases[7] = "bootstrap-clear" /\ Phases[8] = "verify"
  /\ {Phases[n] : n \in DOMAIN Phases} =
       {"resources", "ai-gateway", "deploy-initial", "secrets", "origin", "workspace-init", "bootstrap-clear", "verify"}
BY DEF Phases

\* The first phase that is not done, without a choice of the least number.
LEMMA FirstIs ==
  ASSUME NEW r
  PROVE  FirstIncomplete(r) = FirstOf(r)
<1> DEFINE open == {n \in DOMAIN Phases : ~PhaseDone(r, Phases[n])}
<1>1. open \in SUBSET (1..8)
  BY PhasesAre
<1>2. \A n \in 1..8 : n \in open <=> ~PhaseDone(r, Phases[n])
  BY PhasesAre
<1>3. ASSUME NEW i \in open, \A k \in 1..8 : k < i => k \notin open
      PROVE  FirstIncomplete(r) = Phases[i]
  <2>1. \A k \in open : i <= k
    BY <1>1, <1>3
  <2>2. (CHOOSE n \in open : \A k \in open : n <= k) = i
    BY <1>1, <2>1, Least
  <2> QED
    BY <2>2, <1>3 DEF FirstIncomplete
<1>4. CASE open = {}
  <2>1. FirstIncomplete(r) = "complete"
    BY <1>4 DEF FirstIncomplete
  <2>2. \A n \in 1..8 : PhaseDone(r, Phases[n])
    BY <1>2, <1>4
  <2> QED
    BY <2>1, <2>2, PhasesAre DEF FirstOf, PhaseDone, GatewayDone
<1>5. CASE open # {}
  <2> HIDE DEF open
  <2>1. PICK i \in open : \A k \in 1..8 : k < i => k \notin open
    <3>1. SUFFICES ASSUME \A i \in open : \E k \in 1..8 : k < i /\ k \in open PROVE FALSE
      BY <1>1
    <3>2. 1 \notin open
      BY <3>1
    <3>3. 2 \notin open
      BY <3>1, <3>2
    <3>4. 3 \notin open
      BY <3>1, <3>2, <3>3
    <3>5. 4 \notin open
      BY <3>1, <3>2, <3>3, <3>4
    <3>6. 5 \notin open
      BY <3>1, <3>2, <3>3, <3>4, <3>5
    <3>7. 6 \notin open
      BY <3>1, <3>2, <3>3, <3>4, <3>5, <3>6
    <3>8. 7 \notin open
      BY <3>1, <3>2, <3>3, <3>4, <3>5, <3>6, <3>7
    <3>9. 8 \notin open
      BY <3>1, <3>2, <3>3, <3>4, <3>5, <3>6, <3>7, <3>8
    <3>10. \A n \in 1..8 : n \notin open
      BY <3>2, <3>3, <3>4, <3>5, <3>6, <3>7, <3>8, <3>9
    <3>11. open = {}
      BY <1>1, <3>10
    <3> QED
      BY <3>11, <1>5
  <2>2. FirstIncomplete(r) = Phases[i]
    BY <1>3, <2>1
  <2>3. ~PhaseDone(r, Phases[i]) /\ \A k \in 1..8 : k < i => PhaseDone(r, Phases[k])
    BY <1>1, <1>2, <2>1
  <2>4. i \in 1..8
    BY <1>1
  <2> QED
    BY <2>2, <2>3, <2>4, PhasesAre DEF FirstOf, PhaseDone, GatewayDone
<1> QED
  BY <1>4, <1>5

-----------------------------------------------------------------------------
(* The inductive invariant of the installer. *)

\* A run of `apply' at a phase: its start, or a call it makes of it.
WorksOn(s, phase) ==
  \/ s.does = phase
  \/ phase = "resources" /\ s.does \in {"creates queue", "reads queue"}
  \/ phase = "ai-gateway" /\ s.does \in {"creates gateway", "reads gateway"}
  \/ phase = "secrets" /\ s.does = "uploads secrets"

\* The receipt alone: phases are done in their order, each on what it needs; what
\* was seen of a gateway is of its attempts; bound secrets of the gateway's
\* transport have a Run token that was probed.
ReceiptInv(r) ==
  /\ "ai-gateway" \in r.phases => "resources" \in r.phases
  /\ "deploy-initial" \in r.phases => "resources" \in r.phases /\ GatewayDone(r) /\ r.last # Nothing
  /\ "secrets" \in r.phases => "deploy-initial" \in r.phases
  /\ "origin" \in r.phases => "secrets" \in r.phases /\ r.origin
  /\ "workspace-init" \in r.phases => "origin" \in r.phases
  /\ "bootstrap-clear" \in r.phases => "workspace-init" \in r.phases
  /\ "verify" \in r.phases => "bootstrap-clear" \in r.phases
  /\ r.last # Nothing /\ ~r.last.bootstrap => "workspace-init" \in r.phases
  /\ "default" \in r.keys
  /\ "bootstrap-clear" \notin r.phases => r.provider = "default" /\ r.pending = Nothing
  /\ "resources" \notin r.phases => r.observed["queue"] = Nothing
  /\ "deploy-initial" \notin r.phases => r.observed["worker"] = Nothing
  /\ r.observed["gateway"] # Nothing => Ours(r.observed["gateway"], r.attempts["gateway"])
  /\ r.attempted /\ r.transport = Gateway => r.probed

\* A run of `apply' or `resume' is at the first phase that is not done.
Applies(s, r) ==
  s.operation = "apply" =>
    /\ r.pending = Nothing
    /\ \/ /\ s.does = "deploys" /\ FirstOf(r) \in {"deploy-initial", "origin", "bootstrap-clear"}
          /\ FirstOf(r) = "origin" => r.origin
       \/ WorksOn(s, FirstOf(r))

\* A run of `update' has its change pending, and to the gateway goes on with a
\* token that was probed, or is given one.
Updates(s, r) ==
  /\ s.operation # "apply" => "bootstrap-clear" \in r.phases
  /\ s.operation = "deploy" => s.does = "deploys" /\ r.pending = Nothing
  /\ s.operation \notin {"apply", "deploy"} => r.pending # Nothing /\ r.pending.kind = s.operation
  /\ s.operation = "provider" => s.to \in Provider /\ s.does \in {"uploads key", "switches", "deploys"}
  /\ s.operation = "add-provider-key" => s.to = "other" /\ s.does \in {"uploads key", "records key"}
  /\ s.operation = "ai-transport" =>
       /\ s.to \in Transport
       /\ s.does \in {"ai-gateway", "creates gateway", "reads gateway", "token", "switches", "deploys"}
       /\ s.to = "direct" => s.does \in {"switches", "deploys"}
       /\ s.to = Gateway /\ (~s.token \/ s.does \in {"token", "switches", "deploys"}) => r.probed
  /\ s.operation = "rotate-ai-gateway-token" => s.does = "rotates token"

\* What a run holds in memory agrees with the receipt: one run at a time.
RunInv(s, r) ==
  s.does # "idle" =>
   /\ r # Nothing
   /\ Applies(s, r) /\ Updates(s, r)
   /\ s.does = "deploys" => s.config = ConfigOf(r, IF s.operation = "provider" THEN s.to ELSE r.provider,
                                                   IF s.operation = "ai-transport" THEN s.to ELSE r.transport)
   /\ s.does = "uploads secrets" => s.epoch = r.epoch /\ r.attempted
   /\ s.does = "creates gateway" => r.observed["gateway"] = Nothing

\* What is bound is of the epoch recorded, and of the providers; a Run token
\* bound by hand was not there when one was probed.
SecretsInv(r, sec, obj, s) ==
  /\ sec.epoch # 0 => r # Nothing /\ sec.epoch = r.epoch /\ r.attempted /\ "default" \in sec.keys
     /\ "deploy-initial" \in r.phases
  /\ sec.epoch = 0 => sec.token = "none"
  /\ obj \in {0, sec.epoch}
  /\ r # Nothing /\ "secrets" \in r.phases => sec.epoch # 0 /\ r.provider \in sec.keys
  /\ r # Nothing /\ "workspace-init" \in r.phases => obj # 0
  /\ sec.token = "by hand" => ~r.probed
  /\ s.does = "uploads secrets" => sec.epoch = 0
  /\ s.does \in {"switches", "deploys"} /\ s.operation = "provider" => s.to \in sec.keys
  /\ s.does # "idle" /\ s.operation = "ai-transport" /\ s.token => sec.token # "by hand"

\* What the Worker serves: its bootstrap is cleared after its workspace is
\* initialized, and its provider has a key.
ServingInv(r, sv, sec, obj) ==
  sv # Nothing =>
    /\ r # Nothing
    /\ ~sv.bootstrap => obj # 0
    /\ "secrets" \in r.phases => sv.provider \in sec.keys
    /\ "bootstrap-clear" \notin r.phases => sv.provider = r.provider /\ sv.transport = r.transport

\* What a finished installation serves.
Settled(r) == [bootstrap |-> FALSE, origin |-> TRUE, provider |-> r.provider, transport |-> r.transport]

\* It does, from the deployment recorded until a change of it is pending.
SettledInv(r, sv) ==
  r # Nothing =>
    /\ r.last # Nothing /\ ~r.last.bootstrap /\ "bootstrap-clear" \notin r.phases => sv = Settled(r)
    /\ "bootstrap-clear" \in r.phases /\ (r.pending = Nothing
       \/ r.pending.kind \in {"add-provider-key", "rotate-ai-gateway-token"})
         => sv = Settled(r)

\* The gateway is used, was provided for, or is about to be switched to.
UsesGateway(r, sv, s) ==
  \/ sv # Nothing /\ sv.transport = Gateway
  \/ r # Nothing /\ r.transport = Gateway /\ "ai-gateway" \in r.phases
  \/ s.operation = "ai-transport" /\ s.to = Gateway /\ s.does \in {"token", "switches", "deploys"}

\* What is in the account under the installation's names is ours, from the phase
\* that provided it on; a deployment on its way is in a recorded window.
AccountInv(r, h, cf, sv, sec, s) ==
  /\ r # Nothing /\ "resources" \in r.phases => Ours(cf["queue"], r.attempts["queue"])
  /\ r # Nothing /\ "deploy-initial" \in r.phases => Ours(cf["worker"], r.attempts["worker"])
  /\ s.does = "deploys" /\ "deploy-initial" \notin r.phases =>
       /\ h \in r.attempts["worker"]
       /\ cf["worker"] # Nothing => cf["worker"].at \subseteq r.attempts["worker"]
  /\ UsesGateway(r, sv, s) => Ours(cf["gateway"], r.attempts["gateway"]) /\ (sec.epoch = 0 \/ r.probed)
  /\ s.does = "creates gateway" => ~UsesGateway(r, sv, s)

\* The inductive invariant.
IInv ==
  /\ InstallerTypeOK
  /\ receiptFile # Nothing => ReceiptInv(receiptFile)
  /\ RunInv(setup, receiptFile)
  /\ SecretsInv(receiptFile, secrets, object, setup)
  /\ ServingInv(receiptFile, serving, secrets, object)
  /\ SettledInv(receiptFile, serving)
  /\ AccountInv(receiptFile, hour, cloudflare, serving, secrets, setup)

-----------------------------------------------------------------------------
(* Receipts and runs that change in some fields. *)

\* A receipt, or a run, that is another but for some fields.
Fields == {"phases", "attempts", "observed", "epoch", "attempted", "last", "origin", "explicit", "transport", "provider",
           "keys", "pending", "probed"}
But(q, r, F) == q \in Receipts /\ \A f \in Fields \ F : q[f] = r[f]
RunFields == {"does", "operation", "to", "epoch", "token", "only", "config"}
ButRun(t, s, F) == t \in Setups /\ \A f \in RunFields \ F : t[f] = s[f]

\* Nothing is no receipt, resource, configuration or change.
LEMMA NothingIs ==
  /\ \A x \in Receipts : x # Nothing
  /\ \A x \in Things : x # Nothing
  /\ \A x \in Configs : x # Nothing
  /\ \A x \in Changes : x # Nothing
BY NothingAssumption

\* No run.
LEMMA NoSetupIs ==
  /\ NoSetup \in Setups
  /\ NoSetup.does = "idle" /\ NoSetup.operation = "apply" /\ NoSetup.token = FALSE /\ NoSetup.epoch = 0
  /\ 0 \in 0..MaxMade
BY InstallerAssumption DEF NoSetup, Setups

\* The types of a receipt's fields.
LEMMA ReceiptTyped ==
  ASSUME NEW r \in Receipts
  PROVE  /\ r.phases \in SUBSET {Phases[n] : n \in DOMAIN Phases} /\ r.attempts \in [Resource -> SUBSET (0..MaxWindow)]
         /\ r.observed \in [Resource -> Things \cup {Nothing}] /\ r.epoch \in 1..MaxMade /\ r.attempted \in BOOLEAN
         /\ r.last \in Configs \cup {Nothing} /\ r.origin \in BOOLEAN /\ r.explicit \in BOOLEAN
         /\ r.transport \in Transport /\ r.provider \in Provider /\ r.keys \in SUBSET Provider
         /\ r.pending \in Changes \cup {Nothing} /\ r.probed \in BOOLEAN
BY DEF Receipts

\* The types of a run's fields.
LEMMA RunTyped ==
  ASSUME NEW s \in Setups
  PROVE  /\ s.to \in Provider \cup Transport \cup {""} /\ s.epoch \in 0..MaxMade /\ s.token \in BOOLEAN
  /\ s.only \in BOOLEAN
         /\ s.config \in Configs \cup {Nothing}
         /\ s.operation \in {"apply", "deploy", "provider", "add-provider-key", "ai-transport", "rotate-ai-gateway-token"}
         /\ s.does \in {"resources", "ai-gateway", "deploy-initial", "secrets", "origin", "workspace-init",
                        "bootstrap-clear", "verify", "idle", "creates queue", "creates gateway", "reads queue", "reads gateway", "deploys",
                        "uploads secrets", "switches", "uploads key", "records key", "token", "rotates token"}
BY PhasesAre DEF Setups

\* The configuration that is written: its type and its fields.
LEMMA ConfigIs ==
  ASSUME NEW r \in Receipts, NEW provider \in Provider, NEW transport \in Transport
  PROVE  /\ ConfigOf(r, provider, transport) \in Configs
         /\ ConfigOf(r, provider, transport).bootstrap = ("workspace-init" \notin r.phases)
         /\ ConfigOf(r, provider, transport).origin = r.origin
         /\ ConfigOf(r, provider, transport).provider = provider
            /\ ConfigOf(r, provider, transport).transport = transport
BY ReceiptTyped DEF ConfigOf, Configs

\* The run of `apply' goes on to what is open, or is over.
Follows(q) == setup' = IF FirstOf(q) = "complete" THEN NoSetup ELSE [setup EXCEPT !.does = FirstOf(q)]

\* It is one of the phases, or none is open.
LEMMA FirstTyped ==
  ASSUME NEW r
  PROVE  FirstOf(r) \in {"resources", "ai-gateway", "deploy-initial", "secrets", "origin", "workspace-init",
                         "bootstrap-clear", "verify", "complete"}
BY DEF FirstOf

\* MarkPhase: the phase is the receipt's, and the run goes on or is over.
LEMMA MarkIs ==
  ASSUME InstallerTypeOK, NEW r \in Receipts, NEW phase \in {Phases[n] : n \in DOMAIN Phases}, MarkPhase(phase, r)
  PROVE  But(receiptFile', r, {"phases"}) /\ receiptFile'.phases = r.phases \cup {phase} /\ Follows(receiptFile')
<1>1. receiptFile' = [r EXCEPT !.phases = @ \cup {phase}]
  BY DEF MarkPhase
<1>2. But(receiptFile', r, {"phases"}) /\ receiptFile'.phases = r.phases \cup {phase}
  BY <1>1 DEF Receipts, But, Fields
<1> QED
  BY <1>1, <1>2, FirstIs DEF MarkPhase, Follows

\* A run of `apply' that goes on is at the first phase that is not done.
LEMMA FollowsIs ==
  ASSUME InstallerTypeOK, NEW q, q.pending = Nothing, q # Nothing, Follows(q), setup.operation = "apply"
  PROVE  /\ setup' \in Setups /\ setup'.operation = "apply"
  /\ setup'.does \notin {"deploys", "uploads secrets", "switches"}
         /\ setup'.does \notin {"creates gateway", "token"}
         /\ RunInv(setup', q)
<1>1. CASE FirstOf(q) = "complete"
  BY <1>1, NoSetupIs DEF Follows, RunInv
<1>2. CASE FirstOf(q) # "complete"
  <2>1. setup' = [setup EXCEPT !.does = FirstOf(q)] /\ setup \in Setups
    BY <1>2 DEF Follows, InstallerTypeOK
  <2>2. FirstOf(q) \in {Phases[n] : n \in DOMAIN Phases}
    BY <1>2, FirstTyped, PhasesAre
  <2>3. ButRun(setup', setup, {"does"}) /\ setup'.does = FirstOf(q)
    BY <2>1, <2>2 DEF Setups, ButRun, RunFields
  <2>4. setup'.operation = "apply" /\ setup' \in Setups
    BY <2>3 DEF ButRun, RunFields
  <2>5. setup'.does \notin {"deploys", "uploads secrets", "switches", "creates gateway", "token"}
    BY <1>2, <2>3, FirstTyped
  <2>6. Applies(setup', q) /\ Updates(setup', q)
    BY <2>3, <2>4 DEF Applies, Updates, WorksOn
  <2> QED
    BY <2>4, <2>5, <2>6 DEF RunInv
<1> QED
  BY <1>1, <1>2

\* RecordAttempt: the window is the attempt's, and of the resource alone.
LEMMA AttemptIs ==
  ASSUME InstallerTypeOK, receiptFile \in Receipts, NEW res \in Resource, NEW q, q = RecordAttempt(res)
  PROVE  /\ But(q, receiptFile, {"attempts", "observed"}) /\ hour \in q.attempts[res]
         /\ \A o \in Resource \ {res} : q.attempts[o] = receiptFile.attempts[o]
            /\ q.observed[o] = receiptFile.observed[o]
         /\ res # "gateway" => /\ q.attempts[res] = receiptFile.attempts[res] \cup {hour}
                               /\ q.observed[res] = receiptFile.observed[res]
         /\ res = "gateway" => q.observed[res] = Nothing
<1>1. hour \in 0..MaxWindow
  BY DEF InstallerTypeOK
<1>2. CASE res = "gateway" /\ receiptFile.observed[res] # Nothing
  <2>1. q = [receiptFile EXCEPT !.attempts[res] = {hour}, !.observed[res] = Nothing]
    BY <1>2 DEF RecordAttempt
  <2> DEFINE p == [receiptFile EXCEPT !.attempts[res] = {hour}]
  <2>2. p \in Receipts /\ But(p, receiptFile, {"attempts"})
        /\ p.attempts = [receiptFile.attempts EXCEPT ![res] = {hour}]
    BY <1>1 DEF Receipts, But, Fields
  <2>3. q = [p EXCEPT !.observed[res] = Nothing]
    BY <2>1
  <2> HIDE DEF p
  <2>4. q \in Receipts /\ But(q, p, {"observed"}) /\ q.observed = [p.observed EXCEPT ![res] = Nothing]
    BY <2>2, <2>3 DEF Receipts, But, Fields
  <2>5. But(q, receiptFile, {"attempts", "observed"}) /\ q.attempts = p.attempts /\ p.observed = receiptFile.observed
    BY <2>2, <2>4 DEF But, Fields
  <2> QED
    BY <1>2, <2>2, <2>4, <2>5, ReceiptTyped
<1>3. CASE ~(res = "gateway" /\ receiptFile.observed[res] # Nothing)
  <2>1. q = [receiptFile EXCEPT !.attempts[res] = @ \cup {hour}]
    BY <1>3 DEF RecordAttempt
  <2>2. q \in Receipts
    BY <1>1, <2>1 DEF Receipts
  <2> QED
    BY <1>3, <2>1, <2>2 DEF Receipts, But, Fields
<1> QED
  BY <1>2, <1>3

\* DropAttempt: of the resource alone.
LEMMA DropIs ==
  ASSUME InstallerTypeOK, receiptFile \in Receipts, NEW res \in Resource, NEW q, q = DropAttempt(res)
  PROVE  /\ But(q, receiptFile, {"attempts"})
         /\ \A o \in Resource \ {res} : q.attempts[o] = receiptFile.attempts[o]
<1>1. CASE setup.only
  <2>1. q = [receiptFile EXCEPT !.attempts[res] = @ \ {hour}]
    BY <1>1 DEF DropAttempt
  <2>2. q \in Receipts
    BY <2>1 DEF Receipts
  <2> QED
    BY <2>1, <2>2 DEF Receipts, But, Fields
<1>2. CASE ~setup.only
  BY <1>2 DEF DropAttempt, But, Fields
<1> QED
  BY <1>1, <1>2

\* Observed: what is there, or what was seen of it before.
LEMMA ObservedIs ==
  ASSUME receiptFile \in Receipts, NEW res \in Resource, cloudflare[res] \in Things,
         NEW q, q = Observed(receiptFile, res)
  PROVE  /\ But(q, receiptFile, {"observed"})
         /\ \A o \in Resource \ {res} : q.observed[o] = receiptFile.observed[o]
         /\ q.observed[res] \in {cloudflare[res], receiptFile.observed[res]}
<1>1. q = [receiptFile EXCEPT !.observed[res] = IF res = "worker" \/ @ = Nothing THEN cloudflare[res] ELSE @]
  BY DEF Observed
<1>2. q \in Receipts
  BY <1>1 DEF Receipts
<1> QED
  BY <1>1, <1>2 DEF Receipts, But, Fields

-----------------------------------------------------------------------------
(* What the operators do where they are used. *)

\* Evidence of a resource's ownership.
LEMMA ShownIs ==
  ASSUME NEW res \in {"queue", "gateway"}, receiptFile \in Receipts, ReceiptInv(receiptFile), cloudflare[res] # Nothing,
         ShownOurs(res), res = "queue" => "resources" \notin receiptFile.phases
  PROVE  Ours(cloudflare[res], receiptFile.attempts[res])
BY DEF ShownOurs, WithinAttempt, ReceiptInv, Ours

\* Provisioned: a phase of `apply' is marked, or the switch goes on; a token that was given is probed.
LEMMA ProvisionedIs ==
  ASSUME InstallerTypeOK, NEW res \in {"queue", "gateway"}, NEW r \in Receipts, Provisioned(res, r)
  PROVE  /\ But(receiptFile', r, {"phases", "probed"})
         /\ r.probed => receiptFile'.probed
         /\ res = "gateway" /\ setup.token => receiptFile'.probed
         /\ receiptFile'.probed => r.probed \/ (res = "gateway" /\ setup.token)
         /\ setup.operation = "apply" => receiptFile'.phases = r.phases \cup {Provisions[res]} /\ Follows(receiptFile')
         /\ setup.operation # "apply" => receiptFile'.phases = r.phases /\ setup' = [setup EXCEPT !.does = "token"]
<1> DEFINE probed == IF res = "gateway" /\ setup.token THEN [r EXCEPT !.probed = TRUE] ELSE r
<1>1. /\ But(probed, r, {"probed"})
      /\ (r.probed => probed.probed) /\ (res = "gateway" /\ setup.token => probed.probed)
      /\ (probed.probed => r.probed \/ (res = "gateway" /\ setup.token))
  <2>2. CASE res = "gateway" /\ setup.token
    BY <2>2 DEF Receipts, But, Fields
  <2>3. CASE ~(res = "gateway" /\ setup.token)
    BY <2>3 DEF But, Fields
  <2> QED
    BY <2>2, <2>3
<1>2. Provisions[res] \in {Phases[n] : n \in DOMAIN Phases}
  BY PhasesAre DEF Provisions
<1>3. probed \in Receipts
  BY <1>1 DEF But
<1>4. IF setup.operation = "apply" THEN MarkPhase(Provisions[res], probed)
      ELSE receiptFile' = probed /\ setup' = [setup EXCEPT !.does = "token"]
  BY DEF Provisioned
<1> HIDE DEF probed
<1>5. CASE setup.operation = "apply"
  <2>1. MarkPhase(Provisions[res], probed)
    BY <1>4, <1>5
  <2>2. But(receiptFile', probed, {"phases"}) /\ receiptFile'.phases = probed.phases \cup {Provisions[res]}
        /\ Follows(receiptFile')
    BY <1>2, <1>3, <2>1, MarkIs
  <2> QED
    BY <1>1, <1>5, <2>2 DEF But, Fields
<1>6. CASE setup.operation # "apply"
  BY <1>1, <1>4, <1>6 DEF But, Fields
<1> QED
  BY <1>5, <1>6

\* Landed: what is served is the configuration written, and the Worker is ours.
LEMMA LandedIs ==
  ASSUME IInv, setup.does = "deploys", Landed
  PROVE  /\ receiptFile \in Receipts
         /\ serving' = setup.config /\ setup.config \in Configs
         /\ setup.config = ConfigOf(receiptFile, IF setup.operation = "provider" THEN setup.to ELSE receiptFile.provider,
                                                 IF setup.operation = "ai-transport" THEN setup.to ELSE receiptFile.transport)
         /\ cloudflare' \in [Resource -> Things \cup {Nothing}]
         /\ \A o \in Resource \ {"worker"} : cloudflare'[o] = cloudflare[o]
         /\ Ours(cloudflare'["worker"], receiptFile.attempts["worker"]) /\ cloudflare'["worker"] \in Things
<1>1. receiptFile \in Receipts
  BY DEF IInv, InstallerTypeOK, RunInv
<1>2. setup.config = ConfigOf(receiptFile, IF setup.operation = "provider" THEN setup.to ELSE receiptFile.provider,
                                           IF setup.operation = "ai-transport" THEN setup.to ELSE receiptFile.transport)
  BY DEF IInv, RunInv
<1>3. setup.config \in Configs
  <2>1. setup.operation = "provider" => setup.to \in Provider
    BY DEF IInv, RunInv, Updates
  <2>2. setup.operation = "ai-transport" => setup.to \in Transport
    BY DEF IInv, RunInv, Updates
  <2> QED
    BY <1>1, <1>2, <2>1, <2>2, ConfigIs, ReceiptTyped
<1> DEFINE was == cloudflare["worker"]
           now == IF was = Nothing THEN CreatedNow
                  ELSE IF Has("deploy-initial") THEN was ELSE [was EXCEPT !.at = @ \cup {hour}]
<1>4. cloudflare \in [Resource -> Things \cup {Nothing}] /\ hour \in 0..MaxWindow
  BY DEF IInv, InstallerTypeOK
<1>5. cloudflare' = [cloudflare EXCEPT !["worker"] = now]
  BY DEF Landed
<1>6. was \in Things \cup {Nothing}
  BY <1>4 DEF Resource
<1>7. now \in Things /\ Ours(now, receiptFile.attempts["worker"])
  <2>1. CreatedNow \in Things /\ CreatedNow.by = "us"
    BY <1>4 DEF CreatedNow, Things
  <2>2. CASE was = Nothing
    BY <2>1, <2>2, NothingIs DEF Ours
  <2>3. CASE was # Nothing /\ Has("deploy-initial")
    BY <1>1, <1>6, <2>3, NothingIs DEF IInv, AccountInv, Has
  <2>4. CASE was # Nothing /\ ~Has("deploy-initial")
    <3>1. now = [was EXCEPT !.at = @ \cup {hour}] /\ was \in Things
      BY <1>6, <2>4
    <3>2. now \in Things /\ now.at = was.at \cup {hour}
      BY <1>4, <3>1 DEF Things
    <3>3. hour \in receiptFile.attempts["worker"] /\ was.at \subseteq receiptFile.attempts["worker"]
      BY <1>1, <2>4, NothingIs DEF IInv, AccountInv, Has
    <3> QED
      BY <3>2, <3>3, NothingIs DEF Ours
  <2> QED
    BY <2>2, <2>3, <2>4
<1> HIDE DEF now
<1> QED
  BY <1>1, <1>2, <1>3, <1>4, <1>5, <1>7 DEF Landed, Resource

\* A run of `apply' is at the first phase that is not done, and nothing is pending.
LEMMA AtPhase ==
  ASSUME IInv,
         NEW phase \in {"resources", "deploy-initial", "secrets", "origin", "workspace-init", "bootstrap-clear", "verify"},
         \/ setup.does = phase
         \/ phase = "resources" /\ setup.does \in {"creates queue", "reads queue"}
         \/ phase = "secrets" /\ setup.does = "uploads secrets"
  PROVE  /\ receiptFile \in Receipts /\ receiptFile # Nothing /\ ReceiptInv(receiptFile)
         /\ setup.operation = "apply" /\ receiptFile.pending = Nothing /\ FirstOf(receiptFile) = phase
<1>1. setup.does # "idle"
  OBVIOUS
<1>2. receiptFile # Nothing /\ Applies(setup, receiptFile) /\ Updates(setup, receiptFile)
  BY <1>1 DEF IInv, RunInv
<1>3. receiptFile \in Receipts /\ ReceiptInv(receiptFile) /\ setup \in Setups
  BY <1>2 DEF IInv, InstallerTypeOK
<1>4. setup.operation = "apply"
  BY <1>2, <1>3, RunTyped DEF Updates
<1> QED
  BY <1>2, <1>3, <1>4, FirstTyped DEF Applies, WorksOn

\* MarkPhase, while nothing is pending.
LEMMA MarksAt ==
  ASSUME IInv, NEW phase \in {Phases[n] : n \in DOMAIN Phases}, NEW r \in Receipts, r.pending = Nothing,
         setup.operation = "apply", MarkPhase(phase, r)
  PROVE  /\ But(receiptFile', r, {"phases"}) /\ receiptFile'.phases = r.phases \cup {phase} /\ receiptFile' # Nothing
         /\ setup' \in Setups /\ setup'.operation = "apply"
         /\ setup'.does \notin {"deploys", "uploads secrets", "switches", "creates gateway", "token"}
         /\ RunInv(setup', receiptFile')
<1>1. InstallerTypeOK
  BY DEF IInv
<1>2. But(receiptFile', r, {"phases"}) /\ receiptFile'.phases = r.phases \cup {phase} /\ Follows(receiptFile')
  BY <1>1, MarkIs
<1>3. receiptFile'.pending = Nothing /\ receiptFile' # Nothing
  BY <1>2, NothingIs DEF But, Fields
<1> QED
  BY <1>1, <1>2, <1>3, FollowsIs

\* What is deployed, or switched to, is what the run and the receipt say.
LEMMA BeginsIs ==
  ASSUME InstallerTypeOK, NEW r \in Receipts, NEW provider \in Provider, NEW transport \in Transport,
         DeployBegins(r, provider, transport)
  PROVE  /\ receiptFile' = r /\ ButRun(setup', setup, {"does", "config"}) /\ setup'.does = "deploys"
         /\ setup'.config = ConfigOf(r, provider, transport)
<1> DEFINE config == ConfigOf(r, provider, transport)
<1>1. config \in Configs /\ setup \in Setups
  BY ConfigIs DEF InstallerTypeOK
<1>2. setup' = [setup EXCEPT !.does = "deploys", !.config = config] /\ receiptFile' = r
  BY DEF DeployBegins
<1> HIDE DEF config
<1>3. ButRun(setup', setup, {"does", "config"}) /\ setup'.does = "deploys" /\ setup'.config = config
  BY <1>1, <1>2 DEF Setups, ButRun, RunFields
<1> QED
  BY <1>2, <1>3 DEF config

\* A run that provides a queue or a gateway: for `apply', or for a switch to the gateway.
LEMMA Providing ==
  ASSUME IInv, NEW res \in {"queue", "gateway"}, setup.does \in {Provisions[res], Creation[res], Lookup[res]}
  PROVE  /\ receiptFile \in Receipts /\ receiptFile # Nothing /\ ReceiptInv(receiptFile)
         /\ \/ setup.operation = "apply" /\ receiptFile.pending = Nothing /\ FirstOf(receiptFile) = Provisions[res]
            \/ /\ res = "gateway" /\ setup.operation = "ai-transport" /\ setup.to = Gateway
               /\ receiptFile.pending # Nothing /\ receiptFile.pending.kind = "ai-transport"
               /\ "bootstrap-clear" \in receiptFile.phases /\ (~setup.token => receiptFile.probed)
<1>1. CASE res = "queue"
  <2>1. setup.does \in {"resources", "creates queue", "reads queue"} /\ Provisions[res] = "resources"
    BY <1>1 DEF Provisions, Creation, Lookup
  <2> QED
    BY <2>1, AtPhase
<1>2. CASE res = "gateway"
  <2>1. setup.does \in {"ai-gateway", "creates gateway", "reads gateway"} /\ Provisions[res] = "ai-gateway"
    BY <1>2 DEF Provisions, Creation, Lookup
  <2>2. receiptFile # Nothing /\ Applies(setup, receiptFile) /\ Updates(setup, receiptFile)
    BY <2>1 DEF IInv, RunInv
  <2>3. receiptFile \in Receipts /\ ReceiptInv(receiptFile) /\ setup \in Setups
    BY <2>2 DEF IInv, InstallerTypeOK
  <2>4. setup.operation \in {"apply", "ai-transport"}
    BY <2>1, <2>2, <2>3, RunTyped DEF Updates
  <2>5. CASE setup.operation = "apply"
    BY <2>1, <2>2, <2>3, <2>5, FirstTyped DEF Applies, WorksOn
  <2>6. CASE setup.operation = "ai-transport"
    BY <1>2, <2>1, <2>2, <2>3, <2>6 DEF Updates, Transport
  <2> QED
    BY <2>4, <2>5, <2>6
<1> QED
  BY <1>1, <1>2

\* A run that only moves on.
LEMMA MovesIs ==
  ASSUME InstallerTypeOK,
         NEW does, does \in {"creates queue", "creates gateway", "reads queue", "reads gateway", "token"},
         setup' = [setup EXCEPT !.does = does]
  PROVE  ButRun(setup', setup, {"does"}) /\ setup'.does = does
BY PhasesAre DEF InstallerTypeOK, Setups, ButRun, RunFields

\* What a run does of a queue and of a gateway.
LEMMA NamesAre ==
  /\ Provisions["queue"] = "resources" /\ Creation["queue"] = "creates queue" /\ Lookup["queue"] = "reads queue"
  /\ Provisions["gateway"] = "ai-gateway" /\ Creation["gateway"] = "creates gateway"
     /\ Lookup["gateway"] = "reads gateway"
BY DEF Provisions, Creation, Lookup

\* A deployment on its way: of `apply', or of an update.
LEMMA AtDeploy ==
  ASSUME IInv, setup.does = "deploys"
  PROVE  /\ receiptFile \in Receipts /\ receiptFile # Nothing /\ ReceiptInv(receiptFile)
         /\ \/ /\ setup.operation = "apply" /\ receiptFile.pending = Nothing
               /\ FirstOf(receiptFile) \in {"deploy-initial", "origin", "bootstrap-clear"}
               /\ FirstOf(receiptFile) = "origin" => receiptFile.origin
            \/ setup.operation = "deploy" /\ "bootstrap-clear" \in receiptFile.phases /\ receiptFile.pending = Nothing
            \/ /\ setup.operation = "provider" /\ "bootstrap-clear" \in receiptFile.phases
               /\ receiptFile.pending # Nothing /\ receiptFile.pending.kind = "provider"
               /\ setup.to \in Provider /\ setup.to \in secrets.keys
            \/ /\ setup.operation = "ai-transport" /\ "bootstrap-clear" \in receiptFile.phases
               /\ receiptFile.pending # Nothing /\ receiptFile.pending.kind = "ai-transport"
               /\ setup.to \in Transport /\ (setup.to = Gateway => receiptFile.probed)
<1>1. receiptFile # Nothing /\ Applies(setup, receiptFile) /\ Updates(setup, receiptFile)
  BY DEF IInv, RunInv
<1>2. receiptFile \in Receipts /\ ReceiptInv(receiptFile) /\ setup \in Setups
  BY <1>1 DEF IInv, InstallerTypeOK
<1>3. setup.operation \in {"apply", "deploy", "provider", "ai-transport"}
  BY <1>1, <1>2, RunTyped DEF Updates
<1>4. CASE setup.operation = "apply"
  BY <1>1, <1>2, <1>4, FirstTyped DEF Applies, WorksOn
<1>5. CASE setup.operation = "deploy"
  BY <1>1, <1>2, <1>5 DEF Updates
<1>6. CASE setup.operation = "provider"
  BY <1>1, <1>2, <1>6 DEF Updates, IInv, SecretsInv
<1>7. CASE setup.operation = "ai-transport"
  BY <1>1, <1>2, <1>7 DEF Updates
<1> QED
  BY <1>3, <1>4, <1>5, <1>6, <1>7

\* What is served once it landed.
LEMMA ServedIs ==
  ASSUME IInv, setup.does = "deploys", Landed
  PROVE  /\ serving' \in Configs /\ serving' # Nothing
         /\ serving'.bootstrap <=> "workspace-init" \notin receiptFile.phases
         /\ serving'.origin = receiptFile.origin
         /\ serving'.provider = IF setup.operation = "provider" THEN setup.to ELSE receiptFile.provider
         /\ serving'.transport = IF setup.operation = "ai-transport" THEN setup.to ELSE receiptFile.transport
         /\ serving' = [bootstrap |-> "workspace-init" \notin receiptFile.phases, origin |-> receiptFile.origin,
                        provider |-> serving'.provider, transport |-> serving'.transport]
<1> DEFINE provider == IF setup.operation = "provider" THEN setup.to ELSE receiptFile.provider
           transport == IF setup.operation = "ai-transport" THEN setup.to ELSE receiptFile.transport
<1>1. receiptFile \in Receipts /\ serving' = ConfigOf(receiptFile, provider, transport)
  BY LandedIs
<1>2. provider \in Provider /\ transport \in Transport
  BY <1>1, AtDeploy, ReceiptTyped
<1> HIDE DEF provider, transport
<1>3. /\ serving' \in Configs /\ (serving'.bootstrap <=> "workspace-init" \notin receiptFile.phases)
      /\ serving'.origin = receiptFile.origin /\ serving'.provider = provider /\ serving'.transport = transport
  BY <1>1, <1>2, ConfigIs
<1>4. serving' = [bootstrap |-> "workspace-init" \notin receiptFile.phases, origin |-> receiptFile.origin,
                  provider |-> provider, transport |-> transport]
  BY <1>1 DEF ConfigOf
<1> QED
  BY <1>3, <1>4, NothingIs DEF provider, transport

\* A generated epoch is an epoch, and is not none.
LEMMA EpochIs ==
  ASSUME NEW epoch \in 1..MaxMade
  PROVE  epoch # 0 /\ epoch \in 0..MaxMade
BY InstallerAssumption

\* Secrets on their way: none is bound yet.
LEMMA AtUpload ==
  ASSUME IInv, setup.does = "uploads secrets"
  PROVE  /\ secrets.epoch = 0 /\ object = 0 /\ secrets.token = "none"
         /\ setup.epoch = receiptFile.epoch /\ receiptFile.attempted /\ receiptFile.epoch # 0
         /\ AllBound \in Bound /\ AllBound.epoch = receiptFile.epoch /\ AllBound.keys = receiptFile.keys
         /\ AllBound.token \in {"installer", "none"}
<1>1. receiptFile \in Receipts
  BY AtPhase
<1>2. secrets.epoch = 0 /\ object = 0 /\ secrets.token = "none"
  BY DEF IInv, SecretsInv
<1>3. setup.epoch = receiptFile.epoch /\ receiptFile.attempted
  BY DEF IInv, RunInv
<1>4. receiptFile.epoch \in 1..MaxMade /\ receiptFile.keys \in SUBSET Provider
  BY <1>1, ReceiptTyped
<1> DEFINE token == IF receiptFile.transport = Gateway THEN "installer" ELSE secrets.token
<1>5. token \in {"installer", "none"}
  BY <1>2
<1>6. AllBound = [epoch |-> receiptFile.epoch, keys |-> receiptFile.keys, token |-> token]
  BY <1>3 DEF AllBound
<1> HIDE DEF token
<1>7. AllBound \in Bound /\ AllBound.epoch = receiptFile.epoch /\ AllBound.keys = receiptFile.keys
      /\ AllBound.token = token
  <2>1. receiptFile.epoch \in 0..MaxMade
    BY <1>4, EpochIs
  <2> QED
    BY <1>4, <1>5, <1>6, <2>1 DEF Bound
<1>8. receiptFile.epoch # 0
  BY <1>4, EpochIs
<1> QED
  BY <1>2, <1>3, <1>5, <1>7, <1>8

-----------------------------------------------------------------------------
(* Every step keeps the invariant. *)

\* A run that is over, or dies, leaves what it did.
LEMMA StopsKeeps ==
  ASSUME IInv, setup' = NoSetup, UNCHANGED <<hour, receiptFile, cloudflare, serving, secrets, object>>
  PROVE  IInv'
<1>1. InstallerTypeOK'
  BY NoSetupIs DEF IInv, InstallerTypeOK
<1>2. receiptFile' # Nothing => ReceiptInv(receiptFile')
  BY  DEF IInv, ReceiptInv, GatewayDone, Ours
<1>3. RunInv(setup', receiptFile')
  BY NoSetupIs DEF IInv, RunInv
<1>4. SecretsInv(receiptFile', secrets', object', setup')
  BY NoSetupIs DEF IInv, SecretsInv
<1>5. ServingInv(receiptFile', serving', secrets', object')
  BY  DEF IInv, ServingInv
<1>6. SettledInv(receiptFile', serving')
  BY  DEF IInv, SettledInv, Settled
<1>7. AccountInv(receiptFile', hour', cloudflare', serving', secrets', setup')
  BY NoSetupIs DEF IInv, AccountInv, UsesGateway
<1> QED
  BY <1>1, <1>2, <1>3, <1>4, <1>5, <1>6, <1>7 DEF IInv

\* WindowPasses: no call to deploy is on its way.
LEMMA WindowKeeps ==
  ASSUME IInv, WindowPasses
  PROVE  IInv'
<1>1. UNCHANGED <<receiptFile, cloudflare, serving, secrets, object, setup>>
  BY DEF WindowPasses, remote
<1>2. hour' \in 0..MaxWindow /\ setup.does # "deploys"
  BY InstallerAssumption DEF WindowPasses, IInv, InstallerTypeOK
<1>3. InstallerTypeOK'
  BY <1>1, <1>2 DEF IInv, InstallerTypeOK
<1>4. receiptFile' # Nothing => ReceiptInv(receiptFile')
  BY <1>1, <1>2 DEF IInv
<1>5. RunInv(setup', receiptFile')
  BY <1>1, <1>2 DEF IInv
<1>6. SecretsInv(receiptFile', secrets', object', setup')
  BY <1>1, <1>2 DEF IInv
<1>7. ServingInv(receiptFile', serving', secrets', object')
  BY <1>1, <1>2 DEF IInv
<1>8. SettledInv(receiptFile', serving')
  BY <1>1, <1>2 DEF IInv
<1>9. AccountInv(receiptFile', hour', cloudflare', serving', secrets', setup')
  BY <1>1, <1>2 DEF IInv, AccountInv
<1> QED
  BY <1>3, <1>4, <1>5, <1>6, <1>7, <1>8, <1>9 DEF IInv

\* Stranger: what is there is not replaced.
LEMMA StrangerKeeps ==
  ASSUME IInv, NEW res \in Resource, Stranger(res)
  PROVE  IInv'
<1>1. UNCHANGED <<hour, receiptFile, serving, secrets, object, setup>> /\ cloudflare[res] = Nothing
  BY DEF Stranger
<1>2. cloudflare' \in [Resource -> Things \cup {Nothing}] /\ cloudflare'[res].at = {hour}
      /\ \A o \in Resource \ {res} : cloudflare'[o] = cloudflare[o]
  <2> DEFINE theirs == [by |-> "a stranger", at |-> {hour}]
  <2>1. cloudflare' = [cloudflare EXCEPT ![res] = theirs] /\ hour \in 0..MaxWindow
        /\ cloudflare \in [Resource -> Things \cup {Nothing}]
    BY DEF Stranger, IInv, InstallerTypeOK
  <2>2. theirs \in Things /\ theirs.at = {hour}
    BY <2>1 DEF Things
  <2> HIDE DEF theirs
  <2> QED
    BY <2>1, <2>2
<1>3. cloudflare'[res].at = {hour} /\ \A o \in Resource : cloudflare[o] # Nothing => cloudflare'[o] = cloudflare[o]
  <2>1. \A o \in Resource \ {res} : cloudflare'[o] = cloudflare[o]
    BY <1>2
  <2>2. \A o \in Resource : cloudflare[o] # Nothing => cloudflare'[o] = cloudflare[o]
    BY <1>1, <2>1
  <2>3. cloudflare'[res].at = {hour}
    BY <1>2
  <2> QED
    BY <2>2, <2>3
<1>4. setup.does = "deploys" => receiptFile \in Receipts
  BY DEF IInv, RunInv, InstallerTypeOK
<1>5. InstallerTypeOK'
  BY <1>1, <1>2, <1>3, <1>4 DEF IInv, InstallerTypeOK
<1>6. receiptFile' # Nothing => ReceiptInv(receiptFile')
  BY <1>1, <1>2, <1>3, <1>4 DEF IInv
<1>7. RunInv(setup', receiptFile')
  BY <1>1, <1>2, <1>3, <1>4 DEF IInv
<1>8. SecretsInv(receiptFile', secrets', object', setup')
  BY <1>1, <1>2, <1>3, <1>4 DEF IInv
<1>9. ServingInv(receiptFile', serving', secrets', object')
  BY <1>1, <1>2, <1>3, <1>4 DEF IInv
<1>10. SettledInv(receiptFile', serving')
  BY <1>1, <1>2, <1>3, <1>4 DEF IInv
<1>11. AccountInv(receiptFile', hour', cloudflare', serving', secrets', setup')
  <2>1. \A o \in Resource : \A w : Ours(cloudflare[o], w) => Ours(cloudflare'[o], w)
    BY <1>3 DEF Ours
  <2>2. setup.does = "deploys" /\ "deploy-initial" \notin receiptFile.phases /\ cloudflare'["worker"] # Nothing
        => cloudflare'["worker"].at \subseteq receiptFile.attempts["worker"]
    <3>1. CASE res = "worker"
      BY <1>1, <1>3, <3>1 DEF IInv, AccountInv
    <3>2. CASE res # "worker"
      BY <1>2, <3>2 DEF IInv, AccountInv, Resource
    <3> QED
      BY <3>1, <3>2
  <2> QED
    BY <1>1, <2>1, <2>2 DEF IInv, AccountInv, UsesGateway, Resource
<1> QED
  BY <1>5, <1>6, <1>7, <1>8, <1>9, <1>10, <1>11 DEF IInv

\* ObjectInitializes: with the epoch that is bound.
LEMMA ObjectKeeps ==
  ASSUME IInv, ObjectInitializes
  PROVE  IInv'
<1>1. UNCHANGED <<hour, receiptFile, cloudflare, serving, secrets, setup>>
  BY DEF ObjectInitializes
<1>2. object = 0 /\ secrets.epoch # 0 /\ object' = secrets.epoch /\ secrets.epoch \in 0..MaxMade
  BY DEF ObjectInitializes, IInv, InstallerTypeOK, Bound
<1>3. InstallerTypeOK'
  BY <1>1, <1>2 DEF IInv, InstallerTypeOK
<1>4. receiptFile' # Nothing => ReceiptInv(receiptFile')
  BY <1>1, <1>2 DEF IInv
<1>5. RunInv(setup', receiptFile')
  BY <1>1, <1>2 DEF IInv
<1>6. SecretsInv(receiptFile', secrets', object', setup')
  BY <1>1, <1>2 DEF IInv, SecretsInv
<1>7. ServingInv(receiptFile', serving', secrets', object')
  BY <1>1, <1>2 DEF IInv, ServingInv
<1>8. SettledInv(receiptFile', serving')
  BY <1>1, <1>2 DEF IInv
<1>9. AccountInv(receiptFile', hour', cloudflare', serving', secrets', setup')
  BY <1>1, <1>2 DEF IInv
<1> QED
  BY <1>3, <1>4, <1>5, <1>6, <1>7, <1>8, <1>9 DEF IInv

\* HandBindsToken: while none was probed.
LEMMA HandTokenKeeps ==
  ASSUME IInv, HandBindsToken
  PROVE  IInv'
<1>1. UNCHANGED <<hour, receiptFile, cloudflare, serving, object, setup>> /\ setup = NoSetup /\ secrets.epoch # 0
      /\ (receiptFile # Nothing => ~receiptFile.probed)
  BY DEF HandBindsToken
<1>2. secrets' \in Bound /\ secrets'.token = "by hand" /\ secrets'.epoch = secrets.epoch /\ secrets'.keys = secrets.keys
  BY DEF HandBindsToken, IInv, InstallerTypeOK, Bound
<1>3. InstallerTypeOK'
  BY <1>1, <1>2 DEF IInv, InstallerTypeOK
<1>4. receiptFile' # Nothing => ReceiptInv(receiptFile')
  BY <1>1, <1>2 DEF IInv
<1>5. RunInv(setup', receiptFile')
  BY <1>1, <1>2 DEF IInv
<1>6. SecretsInv(receiptFile', secrets', object', setup')
  BY <1>1, <1>2, NoSetupIs DEF IInv, SecretsInv
<1>7. ServingInv(receiptFile', serving', secrets', object')
  BY <1>1, <1>2 DEF IInv, ServingInv
<1>8. SettledInv(receiptFile', serving')
  BY <1>1, <1>2 DEF IInv
<1>9. AccountInv(receiptFile', hour', cloudflare', serving', secrets', setup')
  BY <1>1, <1>2 DEF IInv, AccountInv
<1> QED
  BY <1>3, <1>4, <1>5, <1>6, <1>7, <1>8, <1>9 DEF IInv

\* HandDeletesKey: not one of a provider recorded, nor while a change is pending.
LEMMA HandKeyKeeps ==
  ASSUME IInv, HandDeletesKey
  PROVE  IInv'
<1>1. UNCHANGED <<hour, receiptFile, cloudflare, serving, object, setup>> /\ setup = NoSetup
      /\ receiptFile # Nothing /\ receiptFile.pending = Nothing /\ receiptFile.provider # "other"
  BY DEF HandDeletesKey
<1>2. secrets' \in Bound /\ secrets'.keys = secrets.keys \ {"other"} /\ secrets'.epoch = secrets.epoch
      /\ secrets'.token = secrets.token
  BY DEF HandDeletesKey, IInv, InstallerTypeOK, Bound
<1>3. receiptFile.provider = "default"
  BY <1>1, ReceiptTyped DEF IInv, InstallerTypeOK, Provider
<1>4. serving # Nothing => serving.provider = "default"
  BY <1>1, <1>3 DEF IInv, ServingInv, SettledInv, Settled
<1>5. InstallerTypeOK'
  BY <1>1, <1>2, <1>3, <1>4 DEF IInv, InstallerTypeOK
<1>6. receiptFile' # Nothing => ReceiptInv(receiptFile')
  BY <1>1, <1>2, <1>3, <1>4 DEF IInv
<1>7. RunInv(setup', receiptFile')
  BY <1>1, <1>2, <1>3, <1>4 DEF IInv
<1>8. SecretsInv(receiptFile', secrets', object', setup')
  BY <1>1, <1>2, <1>3, <1>4, NoSetupIs DEF IInv, SecretsInv
<1>9. ServingInv(receiptFile', serving', secrets', object')
  BY <1>1, <1>2, <1>3, <1>4 DEF IInv, ServingInv
<1>10. SettledInv(receiptFile', serving')
  BY <1>1, <1>2, <1>3, <1>4 DEF IInv
<1>11. AccountInv(receiptFile', hour', cloudflare', serving', secrets', setup')
  BY <1>1, <1>2, <1>3, <1>4 DEF IInv, AccountInv
<1> QED
  BY <1>5, <1>6, <1>7, <1>8, <1>9, <1>10, <1>11 DEF IInv

\* HandDeletesGateway: one that nothing uses.
LEMMA HandGatewayKeeps ==
  ASSUME IInv, HandDeletesGateway
  PROVE  IInv'
<1>1. UNCHANGED <<hour, receiptFile, serving, secrets, object, setup>> /\ setup = NoSetup
      /\ serving.transport # Gateway /\ receiptFile.transport # Gateway
  BY DEF HandDeletesGateway
<1>2. cloudflare' \in [Resource -> Things \cup {Nothing}]
      /\ \A o \in Resource \ {"gateway"} : cloudflare'[o] = cloudflare[o]
  BY DEF HandDeletesGateway, IInv, InstallerTypeOK
<1>3. InstallerTypeOK'
  BY <1>1, <1>2 DEF IInv, InstallerTypeOK
<1>4. receiptFile' # Nothing => ReceiptInv(receiptFile')
  BY <1>1, <1>2 DEF IInv
<1>5. RunInv(setup', receiptFile')
  BY <1>1, <1>2 DEF IInv
<1>6. SecretsInv(receiptFile', secrets', object', setup')
  BY <1>1, <1>2 DEF IInv
<1>7. ServingInv(receiptFile', serving', secrets', object')
  BY <1>1, <1>2 DEF IInv
<1>8. SettledInv(receiptFile', serving')
  BY <1>1, <1>2 DEF IInv
<1>9. AccountInv(receiptFile', hour', cloudflare', serving', secrets', setup')
  BY <1>1, <1>2, NoSetupIs DEF IInv, AccountInv, UsesGateway, Resource
<1> QED
  BY <1>3, <1>4, <1>5, <1>6, <1>7, <1>8, <1>9 DEF IInv

\* ApplyBegins: nothing has the names, and nothing is served.
LEMMA ApplyKeeps ==
  ASSUME IInv, NEW transport \in Transport, NEW explicit \in BOOLEAN, ApplyBegins(transport, explicit)
  PROVE  IInv'
<1>1. UNCHANGED <<hour, cloudflare, serving, secrets, object>> /\ receiptFile = Nothing /\ setup = NoSetup
  BY DEF ApplyBegins, remote
<1>2. receiptFile' \in Receipts
  BY InstallerAssumption DEF ApplyBegins, Receipts, Provider
<1>3. receiptFile'.phases = {} /\ receiptFile'.pending = Nothing /\ receiptFile'.last = Nothing
      /\ receiptFile'.keys = {"default"} /\ receiptFile'.provider = "default" /\ receiptFile'.attempted = FALSE
      /\ receiptFile'.observed = [o \in Resource |-> Nothing]
  BY DEF ApplyBegins
<1>4. setup' = [NoSetup EXCEPT !.does = "resources", !.epoch = 1, !.token = transport = Gateway]
  BY DEF ApplyBegins
<1>5. setup' \in Setups /\ setup'.does = "resources" /\ setup'.operation = "apply"
  <2> DEFINE given == transport = Gateway
  <2>1. given \in BOOLEAN /\ 1 \in 0..MaxMade /\ "resources" \in {Phases[n] : n \in DOMAIN Phases}
    BY InstallerAssumption, PhasesAre
  <2>2. setup' = [NoSetup EXCEPT !.does = "resources", !.epoch = 1, !.token = given]
    BY <1>4
  <2> HIDE DEF given
  <2>3. setup' = [does |-> "resources", operation |-> "apply", to |-> "", epoch |-> 1, token |-> given, only |-> TRUE,
                  config |-> Nothing]
    BY <2>2 DEF NoSetup
  <2> QED
    BY <2>1, <2>3 DEF Setups
<1>6. secrets.epoch = 0 /\ serving = Nothing /\ object = 0 /\ receiptFile' # Nothing
  BY <1>1, <1>2, NothingIs DEF IInv, SecretsInv, ServingInv
<1>7. InstallerTypeOK'
  BY <1>1, <1>2, <1>3, <1>4, <1>5, <1>6 DEF IInv, InstallerTypeOK
<1>8. receiptFile' # Nothing => ReceiptInv(receiptFile')
  BY <1>1, <1>2, <1>3, <1>4, <1>5, <1>6 DEF IInv, ReceiptInv, GatewayDone, Ours, Resource
<1>9. RunInv(setup', receiptFile')
  BY <1>1, <1>2, <1>3, <1>4, <1>5, <1>6 DEF IInv, RunInv, Applies, Updates, WorksOn, FirstOf, GatewayDone, ReceiptInv
<1>10. SecretsInv(receiptFile', secrets', object', setup')
  BY <1>1, <1>2, <1>3, <1>4, <1>5, <1>6 DEF IInv, SecretsInv
<1>11. ServingInv(receiptFile', serving', secrets', object')
  BY <1>1, <1>2, <1>3, <1>4, <1>5, <1>6 DEF IInv, ServingInv
<1>12. SettledInv(receiptFile', serving')
  BY <1>1, <1>2, <1>3, <1>4, <1>5, <1>6 DEF IInv, SettledInv, Settled
<1>13. AccountInv(receiptFile', hour', cloudflare', serving', secrets', setup')
  BY <1>1, <1>2, <1>3, <1>4, <1>5, <1>6 DEF IInv, AccountInv, UsesGateway, Ours
<1> QED
  BY <1>7, <1>8, <1>9, <1>10, <1>11, <1>12, <1>13 DEF IInv

\* ResumeBegins: from the first phase that is not done.
LEMMA ResumeKeeps ==
  ASSUME IInv, NEW explicit \in BOOLEAN, ResumeBegins(explicit)
  PROVE  IInv'
<1>1. UNCHANGED <<hour, cloudflare, serving, secrets, object>> /\ receiptFile \in Receipts /\ setup = NoSetup
      /\ receiptFile.pending = Nothing /\ (explicit => "origin" \notin receiptFile.phases)
  BY DEF ResumeBegins, remote, Has, IInv, InstallerTypeOK
<1>2. But(receiptFile', receiptFile, {"origin", "explicit"}) /\ receiptFile'.origin = (receiptFile.origin \/ explicit)
  BY <1>1 DEF ResumeBegins, Receipts, But, Fields
<1>3. FirstOf(receiptFile) # "complete" /\ setup' = [NoSetup EXCEPT !.does = FirstOf(receiptFile),
      !.token = receiptFile.transport = Gateway /\ secrets.epoch = 0]
  BY FirstIs DEF ResumeBegins
<1>4. FirstOf(receiptFile) \in {Phases[n] : n \in DOMAIN Phases}
  BY <1>3, FirstTyped, PhasesAre
<1>5. setup' \in Setups /\ setup'.does = FirstOf(receiptFile) /\ setup'.operation = "apply"
  BY <1>3, <1>4, NoSetupIs DEF NoSetup, Setups
<1>6. FirstOf(receiptFile') = FirstOf(receiptFile)
      /\ setup'.does \notin {"idle", "deploys", "uploads secrets", "switches", "creates gateway"}
  BY <1>2, <1>3, <1>4, <1>5, FirstTyped DEF FirstOf, GatewayDone, But, Fields
<1>7. receiptFile' # Nothing /\ receiptFile # Nothing
  BY <1>1, <1>2, NothingIs DEF But
<1>8. InstallerTypeOK'
  BY <1>1, <1>2, <1>3, <1>4, <1>5, <1>6, <1>7 DEF IInv, InstallerTypeOK, But, Fields
<1>9. receiptFile' # Nothing => ReceiptInv(receiptFile')
  BY <1>1, <1>2, <1>3, <1>4, <1>5, <1>6, <1>7 DEF IInv, ReceiptInv, GatewayDone, Ours, But, Fields
<1>10. RunInv(setup', receiptFile')
  BY <1>1, <1>2, <1>3, <1>4, <1>5, <1>6, <1>7 DEF IInv, RunInv, Applies, Updates, WorksOn, But, Fields
<1>11. SecretsInv(receiptFile', secrets', object', setup')
  BY <1>1, <1>2, <1>3, <1>4, <1>5, <1>6, <1>7 DEF IInv, SecretsInv, But, Fields
<1>12. ServingInv(receiptFile', serving', secrets', object')
  BY <1>1, <1>2, <1>3, <1>4, <1>5, <1>6, <1>7 DEF IInv, ServingInv, But, Fields
<1>13. SettledInv(receiptFile', serving')
  BY <1>1, <1>2, <1>3, <1>4, <1>5, <1>6, <1>7 DEF IInv, SettledInv, Settled, But, Fields
<1>14. AccountInv(receiptFile', hour', cloudflare', serving', secrets', setup')
  BY <1>1, <1>2, <1>3, <1>4, <1>5, <1>6, <1>7 DEF IInv, AccountInv, UsesGateway, Ours, But, Fields
<1> QED
  BY <1>8, <1>9, <1>10, <1>11, <1>12, <1>13, <1>14 DEF IInv

\* KeepSecrets: those an interrupted attempt bound are of the epoch recorded.
LEMMA KeepSecretsKeeps ==
  ASSUME IInv, KeepSecrets
  PROVE  IInv'
<1>1. UNCHANGED <<hour, cloudflare, serving, secrets, object>> /\ secrets.epoch # 0
  BY DEF KeepSecrets, remote
<1>2. receiptFile \in Receipts /\ receiptFile # Nothing /\ setup.operation = "apply"
      /\ receiptFile.pending = Nothing /\ FirstOf(receiptFile) = "secrets"
  BY AtPhase DEF KeepSecrets
<1>3. But(receiptFile', receiptFile, {"phases"}) /\ receiptFile'.phases = receiptFile.phases \cup {"secrets"}
      /\ receiptFile' # Nothing
     /\ setup' \in Setups /\ setup'.operation = "apply" /\ RunInv(setup', receiptFile')
     /\ setup'.does \notin {"deploys", "uploads secrets", "switches", "creates gateway", "token"}
  BY <1>2, PhasesAre, MarksAt DEF KeepSecrets
<1>4. InstallerTypeOK'
  BY <1>1, <1>2, <1>3 DEF IInv, InstallerTypeOK, But, Fields
<1>5. receiptFile' # Nothing => ReceiptInv(receiptFile')
  BY <1>1, <1>2, <1>3 DEF IInv, ReceiptInv, GatewayDone, Ours, FirstOf, But, Fields
<1>6. RunInv(setup', receiptFile')
  BY <1>1, <1>2, <1>3 DEF IInv
<1>7. SecretsInv(receiptFile', secrets', object', setup')
  BY <1>1, <1>2, <1>3 DEF IInv, SecretsInv, FirstOf, GatewayDone, ReceiptInv, But, Fields
<1>8. ServingInv(receiptFile', serving', secrets', object')
  BY <1>1, <1>2, <1>3 DEF IInv, ServingInv, SecretsInv, FirstOf, GatewayDone, ReceiptInv, But, Fields
<1>9. SettledInv(receiptFile', serving')
  BY <1>1, <1>2, <1>3 DEF IInv, SettledInv, Settled, FirstOf, GatewayDone, ReceiptInv, But, Fields
<1>10. AccountInv(receiptFile', hour', cloudflare', serving', secrets', setup')
  BY <1>1, <1>2, <1>3 DEF IInv, AccountInv, UsesGateway, Ours, FirstOf, GatewayDone, ReceiptInv, But, Fields
<1> QED
  BY <1>4, <1>5, <1>6, <1>7, <1>8, <1>9, <1>10 DEF IInv

\* WorkspaceInit: the workspace is initialized with the epoch that is bound.
LEMMA WorkspaceInitKeeps ==
  ASSUME IInv, WorkspaceInit
  PROVE  IInv'
<1>1. UNCHANGED <<hour, cloudflare, serving, secrets, object>> /\ object # 0
  BY DEF WorkspaceInit, remote, Initialized
<1>2. receiptFile \in Receipts /\ receiptFile # Nothing /\ setup.operation = "apply"
      /\ receiptFile.pending = Nothing /\ FirstOf(receiptFile) = "workspace-init"
  BY AtPhase DEF WorkspaceInit
<1>3. But(receiptFile', receiptFile, {"phases"})
      /\ receiptFile'.phases = receiptFile.phases \cup {"workspace-init"} /\ receiptFile' # Nothing
     /\ setup' \in Setups /\ setup'.operation = "apply" /\ RunInv(setup', receiptFile')
     /\ setup'.does \notin {"deploys", "uploads secrets", "switches", "creates gateway", "token"}
  BY <1>2, PhasesAre, MarksAt DEF WorkspaceInit
<1>4. InstallerTypeOK'
  BY <1>1, <1>2, <1>3 DEF IInv, InstallerTypeOK, But, Fields
<1>5. receiptFile' # Nothing => ReceiptInv(receiptFile')
  BY <1>1, <1>2, <1>3 DEF IInv, ReceiptInv, GatewayDone, Ours, FirstOf, But, Fields
<1>6. RunInv(setup', receiptFile')
  BY <1>1, <1>2, <1>3 DEF IInv
<1>7. SecretsInv(receiptFile', secrets', object', setup')
  BY <1>1, <1>2, <1>3 DEF IInv, SecretsInv, FirstOf, GatewayDone, ReceiptInv, But, Fields
<1>8. ServingInv(receiptFile', serving', secrets', object')
  BY <1>1, <1>2, <1>3 DEF IInv, ServingInv, FirstOf, GatewayDone, ReceiptInv, But, Fields
<1>9. SettledInv(receiptFile', serving')
  BY <1>1, <1>2, <1>3 DEF IInv, SettledInv, Settled, FirstOf, GatewayDone, ReceiptInv, But, Fields
<1>10. AccountInv(receiptFile', hour', cloudflare', serving', secrets', setup')
  BY <1>1, <1>2, <1>3 DEF IInv, AccountInv, UsesGateway, Ours, FirstOf, GatewayDone, ReceiptInv, But, Fields
<1> QED
  BY <1>4, <1>5, <1>6, <1>7, <1>8, <1>9, <1>10 DEF IInv

\* Verify: the last phase.
LEMMA VerifyKeeps ==
  ASSUME IInv, Verify
  PROVE  IInv'
<1>1. UNCHANGED <<hour, cloudflare, serving, secrets, object>>
  BY DEF Verify, remote
<1>2. receiptFile \in Receipts /\ receiptFile # Nothing /\ setup.operation = "apply"
      /\ receiptFile.pending = Nothing /\ FirstOf(receiptFile) = "verify"
  BY AtPhase DEF Verify
<1>3. But(receiptFile', receiptFile, {"phases"}) /\ receiptFile'.phases = receiptFile.phases \cup {"verify"}
      /\ receiptFile' # Nothing
     /\ setup' \in Setups /\ setup'.operation = "apply" /\ RunInv(setup', receiptFile')
     /\ setup'.does \notin {"deploys", "uploads secrets", "switches", "creates gateway", "token"}
  BY <1>2, PhasesAre, MarksAt DEF Verify
<1>4. InstallerTypeOK'
  BY <1>1, <1>2, <1>3 DEF IInv, InstallerTypeOK, But, Fields
<1>5. receiptFile' # Nothing => ReceiptInv(receiptFile')
  BY <1>1, <1>2, <1>3 DEF IInv, ReceiptInv, GatewayDone, Ours, FirstOf, But, Fields
<1>6. RunInv(setup', receiptFile')
  BY <1>1, <1>2, <1>3 DEF IInv
<1>7. SecretsInv(receiptFile', secrets', object', setup')
  BY <1>1, <1>2, <1>3 DEF IInv, SecretsInv, FirstOf, GatewayDone, ReceiptInv, But, Fields
<1>8. ServingInv(receiptFile', serving', secrets', object')
  BY <1>1, <1>2, <1>3 DEF IInv, ServingInv, FirstOf, GatewayDone, ReceiptInv, But, Fields
<1>9. SettledInv(receiptFile', serving')
  BY <1>1, <1>2, <1>3 DEF IInv, SettledInv, Settled, FirstOf, GatewayDone, ReceiptInv, But, Fields
<1>10. AccountInv(receiptFile', hour', cloudflare', serving', secrets', setup')
  BY <1>1, <1>2, <1>3 DEF IInv, AccountInv, UsesGateway, Ours, FirstOf, GatewayDone, ReceiptInv, But, Fields
<1> QED
  BY <1>4, <1>5, <1>6, <1>7, <1>8, <1>9, <1>10 DEF IInv

\* Origin: the one the last deployment was for is recorded.
LEMMA OriginRecordedKeeps ==
  ASSUME IInv, setup.does = "origin", receiptFile.last.origin, Origin
  PROVE  IInv'
<1>1. UNCHANGED <<hour, cloudflare, serving, secrets, object>>
  BY DEF Origin, remote
<1>2. receiptFile \in Receipts /\ receiptFile # Nothing /\ setup.operation = "apply"
      /\ receiptFile.pending = Nothing /\ FirstOf(receiptFile) = "origin"
  BY AtPhase
<1>3. [receiptFile EXCEPT !.origin = TRUE] \in Receipts
      /\ But([receiptFile EXCEPT !.origin = TRUE], receiptFile, {"origin"})
      /\ [receiptFile EXCEPT !.origin = TRUE].origin = TRUE
  BY <1>2 DEF Receipts, But, Fields
<1>4. But(receiptFile', [receiptFile EXCEPT !.origin = TRUE], {"phases"})
      /\ receiptFile'.phases = [receiptFile EXCEPT !.origin = TRUE].phases \cup {"origin"} /\ receiptFile' # Nothing
     /\ setup' \in Setups /\ setup'.operation = "apply" /\ RunInv(setup', receiptFile')
     /\ setup'.does \notin {"deploys", "uploads secrets", "switches", "creates gateway", "token"}
  <2>1. [receiptFile EXCEPT !.origin = TRUE].pending = Nothing
    BY <1>2, <1>3 DEF But, Fields
  <2> QED
    BY <1>2, <1>3, <2>1, PhasesAre, MarksAt DEF Origin, But, Fields
<1>5. But(receiptFile', receiptFile, {"phases", "origin"})
      /\ receiptFile'.phases = receiptFile.phases \cup {"origin"} /\ receiptFile'.origin = TRUE
  BY <1>3, <1>4 DEF But, Fields
<1>6. InstallerTypeOK'
  BY <1>1, <1>2, <1>4, <1>5 DEF IInv, InstallerTypeOK, But, Fields
<1>7. receiptFile' # Nothing => ReceiptInv(receiptFile')
  BY <1>1, <1>2, <1>4, <1>5 DEF IInv, ReceiptInv, GatewayDone, Ours, FirstOf, But, Fields
<1>8. RunInv(setup', receiptFile')
  BY <1>1, <1>2, <1>4, <1>5 DEF IInv
<1>9. SecretsInv(receiptFile', secrets', object', setup')
  BY <1>1, <1>2, <1>4, <1>5 DEF IInv, SecretsInv, FirstOf, GatewayDone, ReceiptInv, But, Fields
<1>10. ServingInv(receiptFile', serving', secrets', object')
  BY <1>1, <1>2, <1>4, <1>5 DEF IInv, ServingInv, FirstOf, GatewayDone, ReceiptInv, But, Fields
<1>11. SettledInv(receiptFile', serving')
  BY <1>1, <1>2, <1>4, <1>5 DEF IInv, SettledInv, Settled, FirstOf, GatewayDone, ReceiptInv, But, Fields
<1>12. AccountInv(receiptFile', hour', cloudflare', serving', secrets', setup')
  BY <1>1, <1>2, <1>4, <1>5 DEF IInv, AccountInv, UsesGateway, Ours, FirstOf, GatewayDone, ReceiptInv, But, Fields
<1> QED
  BY <1>6, <1>7, <1>8, <1>9, <1>10, <1>11, <1>12 DEF IInv

\* Origin: otherwise it is deployed first.
LEMMA OriginDeploysKeeps ==
  ASSUME IInv, setup.does = "origin", ~receiptFile.last.origin, Origin
  PROVE  IInv'
<1>1. UNCHANGED <<hour, cloudflare, serving, secrets, object>>
  BY DEF Origin, remote
<1>2. receiptFile \in Receipts /\ receiptFile # Nothing /\ setup.operation = "apply"
      /\ receiptFile.pending = Nothing /\ FirstOf(receiptFile) = "origin"
  BY AtPhase
<1>3. PICK r \in Receipts : r = [receiptFile EXCEPT !.origin = TRUE] /\ But(r, receiptFile, {"origin"})
      /\ r.origin = TRUE
  <2> DEFINE r == [receiptFile EXCEPT !.origin = TRUE]
  <2>1. r \in Receipts /\ But(r, receiptFile, {"origin"}) /\ r.origin = TRUE
    BY <1>2 DEF Receipts, But, Fields
  <2> HIDE DEF r
  <2>2. r = [receiptFile EXCEPT !.origin = TRUE]
    BY DEF r
  <2> QED
    BY <2>1, <2>2
<1>4. receiptFile' = r /\ ButRun(setup', setup, {"does", "config"}) /\ setup'.does = "deploys"
     /\ setup'.config = ConfigOf(r, r.provider, r.transport)
  BY <1>3, BeginsIs, ReceiptTyped DEF Origin, IInv, But, Fields
<1>5. receiptFile' # Nothing
  BY <1>3, <1>4, NothingIs
<1>6. InstallerTypeOK'
  BY <1>1, <1>2, <1>3, <1>4, <1>5 DEF IInv, InstallerTypeOK, But, Fields, ButRun, RunFields
<1>7. receiptFile' # Nothing => ReceiptInv(receiptFile')
  BY <1>1, <1>2, <1>3, <1>4, <1>5 DEF IInv, ReceiptInv, GatewayDone, Ours, FirstOf, But, Fields
<1>8. RunInv(setup', receiptFile')
  BY <1>1, <1>2, <1>3, <1>4, <1>5 DEF IInv, RunInv, Applies, Updates, FirstOf, GatewayDone, But, Fields, ButRun,
     RunFields
<1>9. SecretsInv(receiptFile', secrets', object', setup')
  BY <1>1, <1>2, <1>3, <1>4, <1>5 DEF IInv, SecretsInv, But, Fields, ButRun, RunFields
<1>10. ServingInv(receiptFile', serving', secrets', object')
  BY <1>1, <1>2, <1>3, <1>4, <1>5 DEF IInv, ServingInv, But, Fields
<1>11. SettledInv(receiptFile', serving')
  BY <1>1, <1>2, <1>3, <1>4, <1>5 DEF IInv, SettledInv, Settled, But, Fields
<1>12. AccountInv(receiptFile', hour', cloudflare', serving', secrets', setup')
  BY <1>1, <1>2, <1>3, <1>4, <1>5 DEF IInv, AccountInv, UsesGateway, Ours, FirstOf, GatewayDone, ReceiptInv, But,
     Fields, ButRun, RunFields
<1> QED
  BY <1>6, <1>7, <1>8, <1>9, <1>10, <1>11, <1>12 DEF IInv

\* BootstrapClear: the last deployment was without it.
LEMMA ClearRecordedKeeps ==
  ASSUME IInv, setup.does = "bootstrap-clear", ~receiptFile.last.bootstrap, BootstrapClear
  PROVE  IInv'
<1>1. UNCHANGED <<hour, cloudflare, serving, secrets, object>>
  BY DEF BootstrapClear, remote
<1>2. receiptFile \in Receipts /\ receiptFile # Nothing /\ setup.operation = "apply"
      /\ receiptFile.pending = Nothing /\ FirstOf(receiptFile) = "bootstrap-clear"
  BY AtPhase
<1>3. But(receiptFile', receiptFile, {"phases"})
      /\ receiptFile'.phases = receiptFile.phases \cup {"bootstrap-clear"} /\ receiptFile' # Nothing
     /\ setup' \in Setups /\ setup'.operation = "apply" /\ RunInv(setup', receiptFile')
     /\ setup'.does \notin {"deploys", "uploads secrets", "switches", "creates gateway", "token"}
  BY <1>2, PhasesAre, MarksAt DEF BootstrapClear
<1>4. InstallerTypeOK'
  BY <1>1, <1>2, <1>3 DEF IInv, InstallerTypeOK, But, Fields
<1>5. receiptFile' # Nothing => ReceiptInv(receiptFile')
  BY <1>1, <1>2, <1>3 DEF IInv, ReceiptInv, GatewayDone, Ours, FirstOf, But, Fields
<1>6. RunInv(setup', receiptFile')
  BY <1>1, <1>2, <1>3 DEF IInv
<1>7. SecretsInv(receiptFile', secrets', object', setup')
  BY <1>1, <1>2, <1>3 DEF IInv, SecretsInv, FirstOf, GatewayDone, ReceiptInv, But, Fields
<1>8. ServingInv(receiptFile', serving', secrets', object')
  BY <1>1, <1>2, <1>3 DEF IInv, ServingInv, FirstOf, GatewayDone, ReceiptInv, But, Fields
<1>9. SettledInv(receiptFile', serving')
  BY <1>1, <1>2, <1>3 DEF IInv, SettledInv, Settled, FirstOf, GatewayDone, ReceiptInv, But, Fields
<1>10. AccountInv(receiptFile', hour', cloudflare', serving', secrets', setup')
  BY <1>1, <1>2, <1>3 DEF IInv, AccountInv, UsesGateway, Ours, FirstOf, GatewayDone, ReceiptInv, But, Fields
<1> QED
  BY <1>4, <1>5, <1>6, <1>7, <1>8, <1>9, <1>10 DEF IInv

\* BootstrapClear: otherwise it is deployed without it.
LEMMA ClearDeploysKeeps ==
  ASSUME IInv, setup.does = "bootstrap-clear", receiptFile.last.bootstrap, BootstrapClear
  PROVE  IInv'
<1>1. UNCHANGED <<hour, cloudflare, serving, secrets, object>>
  BY DEF BootstrapClear, remote
<1>2. receiptFile \in Receipts /\ receiptFile # Nothing /\ setup.operation = "apply"
      /\ receiptFile.pending = Nothing /\ FirstOf(receiptFile) = "bootstrap-clear"
  BY AtPhase
<1>3. receiptFile' = receiptFile /\ ButRun(setup', setup, {"does", "config"}) /\ setup'.does = "deploys"
     /\ setup'.config = ConfigOf(receiptFile, receiptFile.provider, receiptFile.transport)
  BY <1>2, BeginsIs, ReceiptTyped DEF BootstrapClear, IInv
<1>4. InstallerTypeOK'
  BY <1>1, <1>2, <1>3 DEF IInv, InstallerTypeOK, But, Fields, ButRun, RunFields
<1>5. receiptFile' # Nothing => ReceiptInv(receiptFile')
  BY <1>1, <1>2, <1>3 DEF IInv, ReceiptInv, GatewayDone, Ours, FirstOf, But, Fields
<1>6. RunInv(setup', receiptFile')
  BY <1>1, <1>2, <1>3 DEF IInv, RunInv, Applies, Updates, FirstOf, GatewayDone, But, Fields, ButRun, RunFields
<1>7. SecretsInv(receiptFile', secrets', object', setup')
  BY <1>1, <1>2, <1>3 DEF IInv, SecretsInv, But, Fields, ButRun, RunFields
<1>8. ServingInv(receiptFile', serving', secrets', object')
  BY <1>1, <1>2, <1>3 DEF IInv, ServingInv, But, Fields
<1>9. SettledInv(receiptFile', serving')
  BY <1>1, <1>2, <1>3 DEF IInv, SettledInv, Settled, But, Fields
<1>10. AccountInv(receiptFile', hour', cloudflare', serving', secrets', setup')
  BY <1>1, <1>2, <1>3 DEF IInv, AccountInv, UsesGateway, Ours, FirstOf, GatewayDone, ReceiptInv, But, Fields,
     ButRun, RunFields
<1> QED
  BY <1>4, <1>5, <1>6, <1>7, <1>8, <1>9, <1>10 DEF IInv

\* Attempts: nothing of the name is there.
LEMMA AttemptsKeeps ==
  ASSUME IInv, NEW res \in {"queue", "gateway"}, Attempts(res)
  PROVE  IInv'
<1>1. UNCHANGED <<hour, cloudflare, serving, secrets, object>> /\ setup.does = Provisions[res]
      /\ cloudflare[res] = Nothing
  BY DEF Attempts, remote
<1>2. receiptFile \in Receipts /\ receiptFile # Nothing /\ ReceiptInv(receiptFile)
     /\ \/ setup.operation = "apply" /\ receiptFile.pending = Nothing /\ FirstOf(receiptFile) = Provisions[res]
        \/ /\ res = "gateway" /\ setup.operation = "ai-transport" /\ setup.to = Gateway
           /\ receiptFile.pending # Nothing /\ receiptFile.pending.kind = "ai-transport"
           /\ "bootstrap-clear" \in receiptFile.phases /\ (~setup.token => receiptFile.probed)
  BY <1>1, Providing
<1>3. But(receiptFile', receiptFile, {"attempts", "observed"})
     /\ (\A o \in Resource \ {res} : receiptFile'.attempts[o] = receiptFile.attempts[o]
        /\ receiptFile'.observed[o] = receiptFile.observed[o])
     /\ (res # "gateway" => receiptFile'.observed[res] = receiptFile.observed[res])
     /\ (res = "gateway" => receiptFile'.observed[res] = Nothing)
  BY <1>2, AttemptIs DEF Attempts, Resource, IInv
<1>4. ButRun(setup', setup, {"does", "only"}) /\ setup'.does = Creation[res]
  <2>1. Creation[res] \in {"creates queue", "creates gateway"} /\ Only(res) \in BOOLEAN
    BY NamesAre DEF Only
  <2>2. setup' = [setup EXCEPT !.does = Creation[res], !.only = Only(res)] /\ setup \in Setups
    BY DEF Attempts, IInv, InstallerTypeOK
  <2> QED
    BY <2>1, <2>2, PhasesAre DEF Setups, ButRun, RunFields
<1>5. receiptFile' # Nothing
  BY <1>3, NothingIs DEF But
<1>6. res = "gateway" => ~UsesGateway(receiptFile, serving, setup)
  BY <1>1 DEF IInv, AccountInv, Ours
<1>7. Applies(setup, receiptFile) /\ Updates(setup, receiptFile) /\ FirstOf(receiptFile') = FirstOf(receiptFile)
  BY <1>1, <1>2, <1>3, NamesAre DEF IInv, RunInv, FirstOf, GatewayDone, But, Fields
<1>8. receiptFile'.phases = receiptFile.phases /\ receiptFile'.epoch = receiptFile.epoch
      /\ receiptFile'.attempted = receiptFile.attempted /\ receiptFile'.last = receiptFile.last
      /\ receiptFile'.origin = receiptFile.origin /\ receiptFile'.transport = receiptFile.transport
      /\ receiptFile'.provider = receiptFile.provider /\ receiptFile'.keys = receiptFile.keys
      /\ receiptFile'.pending = receiptFile.pending /\ receiptFile'.probed = receiptFile.probed
      /\ setup'.operation = setup.operation /\ setup'.to = setup.to /\ setup'.epoch = setup.epoch
      /\ setup'.token = setup.token /\ setup'.config = setup.config /\ setup' \in Setups
  BY <1>3, <1>4 DEF But, Fields, ButRun, RunFields
<1>9. InstallerTypeOK'
  BY <1>1, <1>2, <1>3, <1>4, <1>5, <1>6, <1>7, <1>8 DEF IInv, InstallerTypeOK, But, Fields, ButRun, RunFields
<1>10. receiptFile' # Nothing => ReceiptInv(receiptFile')
  BY <1>1, <1>2, <1>3, <1>4, <1>5, <1>6, <1>7, <1>8 DEF IInv, ReceiptInv, GatewayDone, Ours, FirstOf, Resource,
     But, Fields
<1>11. RunInv(setup', receiptFile')
  <2>1. CASE res = "queue"
    <3>1. setup'.does = "creates queue" /\ setup.does = "resources" /\ setup.operation = "apply"
      BY <1>1, <1>2, <1>4, <2>1, NamesAre
    <3>2. Applies(setup', receiptFile') /\ Updates(setup', receiptFile')
      BY <1>2, <1>7, <1>8, <2>1, <3>1, NamesAre DEF Applies, Updates, WorksOn
    <3> QED
      BY <1>5, <3>1, <3>2 DEF RunInv
  <2>2. CASE res = "gateway"
    <3>1. setup'.does = "creates gateway" /\ setup.does = "ai-gateway" /\ receiptFile'.observed["gateway"] = Nothing
      BY <1>1, <1>3, <1>4, <2>2, NamesAre
    <3>2. Applies(setup', receiptFile')
      BY <1>2, <1>7, <1>8, <2>2, <3>1, NamesAre DEF Applies, WorksOn
    <3>3. Updates(setup', receiptFile')
      BY <1>7, <1>8, <3>1 DEF Updates
    <3> QED
      BY <1>5, <3>1, <3>2, <3>3 DEF RunInv
  <2> QED
    BY <2>1, <2>2
<1>12. SecretsInv(receiptFile', secrets', object', setup')
  BY <1>1, <1>2, <1>3, <1>4, <1>5, <1>6, <1>7, <1>8, NamesAre DEF IInv, SecretsInv, But, Fields, ButRun, RunFields
<1>13. ServingInv(receiptFile', serving', secrets', object')
  BY <1>1, <1>2, <1>3, <1>4, <1>5, <1>6, <1>7, <1>8 DEF IInv, ServingInv, But, Fields
<1>14. SettledInv(receiptFile', serving')
  BY <1>1, <1>2, <1>3, <1>4, <1>5, <1>6, <1>7, <1>8 DEF IInv, SettledInv, Settled, But, Fields
<1>15. AccountInv(receiptFile', hour', cloudflare', serving', secrets', setup')
  BY <1>1, <1>2, <1>3, <1>4, <1>5, <1>6, <1>7, <1>8, NamesAre DEF IInv, AccountInv, UsesGateway, Ours, FirstOf,
     Resource, But, Fields, ButRun, RunFields
<1> QED
  BY <1>9, <1>10, <1>11, <1>12, <1>13, <1>14, <1>15 DEF IInv

\* The queue is there, and shown to be ours.
LEMMA QueueProvided ==
  ASSUME IInv, NEW r, receiptFile \in Receipts,
         setup.operation = "apply", receiptFile.pending = Nothing, FirstOf(receiptFile) = "resources",
         UNCHANGED <<hour, serving, secrets, object>>,
         But(r, receiptFile, {"observed"}), \A o \in Resource \ {"queue"} : r.observed[o] = receiptFile.observed[o],
         r.observed["queue"] # Nothing => Ours(r.observed["queue"], receiptFile.attempts["queue"]),
         cloudflare' \in [Resource -> Things \cup {Nothing}],
         \A o \in Resource \ {"queue"} : cloudflare'[o] = cloudflare[o],
         Ours(cloudflare'["queue"], receiptFile.attempts["queue"]), Provisioned("queue", r)
  PROVE  IInv'
<1>1. But(receiptFile', receiptFile, {"phases", "observed", "probed"}) /\ receiptFile'.observed = r.observed
     /\ (receiptFile.probed => receiptFile'.probed) /\ (receiptFile'.probed => receiptFile.probed)
  BY ProvisionedIs DEF IInv, But, Fields
<1>2. receiptFile # Nothing /\ receiptFile' # Nothing /\ receiptFile'.pending = receiptFile.pending
  BY <1>1, NothingIs DEF But, Fields
<1>3. receiptFile'.observed["worker"] = receiptFile.observed["worker"]
     /\ receiptFile'.observed["gateway"] = receiptFile.observed["gateway"]
  BY <1>1 DEF Resource
<1>4. receiptFile'.attempts = receiptFile.attempts /\ receiptFile'.last = receiptFile.last
      /\ receiptFile'.origin = receiptFile.origin
     /\ receiptFile'.transport = receiptFile.transport /\ receiptFile'.provider = receiptFile.provider
     /\ receiptFile'.keys = receiptFile.keys /\ receiptFile'.attempted = receiptFile.attempted
        /\ receiptFile'.epoch = receiptFile.epoch
     /\ receiptFile' \in Receipts
  BY <1>1 DEF But, Fields
<1>5. cloudflare'["worker"] = cloudflare["worker"] /\ cloudflare'["gateway"] = cloudflare["gateway"]
  BY DEF Resource
<1>6. receiptFile'.phases = receiptFile.phases \cup {"resources"} /\ Follows(receiptFile')
  BY ProvisionedIs, NamesAre DEF IInv, But, Fields
<1>7. setup' \in Setups /\ setup'.operation = "apply" /\ RunInv(setup', receiptFile')
     /\ setup'.does \notin {"deploys", "uploads secrets", "switches", "creates gateway", "token"}
  BY <1>2, <1>6, FollowsIs DEF IInv
<1>8. InstallerTypeOK'
  BY <1>1, <1>2, <1>3, <1>4, <1>5, <1>6, <1>7 DEF IInv, InstallerTypeOK, ButRun
<1>9. receiptFile' # Nothing => ReceiptInv(receiptFile')
  <2>2. receiptFile'.observed["gateway"] # Nothing
        => Ours(receiptFile'.observed["gateway"], receiptFile'.attempts["gateway"])
    BY <1>1, <1>2, <1>3, <1>4 DEF IInv, ReceiptInv
  <2> QED
    BY <1>1, <1>2, <1>3, <1>4, <1>6, <2>2 DEF IInv, ReceiptInv, GatewayDone, FirstOf
<1>10. RunInv(setup', receiptFile')
  BY <1>1, <1>2, <1>3, <1>4, <1>5, <1>6, <1>7 DEF IInv
<1>11. SecretsInv(receiptFile', secrets', object', setup')
  BY <1>1, <1>2, <1>3, <1>4, <1>5, <1>6, <1>7 DEF IInv, SecretsInv, FirstOf, GatewayDone, ReceiptInv
<1>12. ServingInv(receiptFile', serving', secrets', object')
  BY <1>1, <1>2, <1>3, <1>4, <1>5, <1>6, <1>7 DEF IInv, ServingInv, FirstOf, GatewayDone, ReceiptInv
<1>13. SettledInv(receiptFile', serving')
  BY <1>1, <1>2, <1>3, <1>4, <1>5, <1>6, <1>7 DEF IInv, SettledInv, Settled, FirstOf, GatewayDone, ReceiptInv
<1>14. AccountInv(receiptFile', hour', cloudflare', serving', secrets', setup')
  BY <1>1, <1>2, <1>3, <1>4, <1>5, <1>6, <1>7 DEF IInv, AccountInv, UsesGateway, Ours, FirstOf, GatewayDone,
     ReceiptInv, SecretsInv
<1> QED
  BY <1>8, <1>9, <1>10, <1>11, <1>12, <1>13, <1>14 DEF IInv

\* The gateway is, while `apply' is at it.
LEMMA GatewayProvided ==
  ASSUME IInv, NEW r, receiptFile \in Receipts,
         setup.operation = "apply", receiptFile.pending = Nothing, FirstOf(receiptFile) = "ai-gateway",
         UNCHANGED <<hour, serving, secrets, object>>,
         But(r, receiptFile, {"observed"}), \A o \in Resource \ {"gateway"} : r.observed[o] = receiptFile.observed[o],
         r.observed["gateway"] # Nothing => Ours(r.observed["gateway"], receiptFile.attempts["gateway"]),
         cloudflare' \in [Resource -> Things \cup {Nothing}],
         \A o \in Resource \ {"gateway"} : cloudflare'[o] = cloudflare[o],
         Ours(cloudflare'["gateway"], receiptFile.attempts["gateway"]), Provisioned("gateway", r)
  PROVE  IInv'
<1>1. But(receiptFile', receiptFile, {"phases", "observed", "probed"}) /\ receiptFile'.observed = r.observed
     /\ (receiptFile.probed => receiptFile'.probed)
     /\ (setup.token => receiptFile'.probed) /\ (receiptFile'.probed => receiptFile.probed \/ setup.token)
  BY ProvisionedIs DEF IInv, But, Fields
<1>2. receiptFile # Nothing /\ receiptFile' # Nothing /\ receiptFile'.pending = receiptFile.pending
  BY <1>1, NothingIs DEF But, Fields
<1>3. receiptFile'.observed["worker"] = receiptFile.observed["worker"]
     /\ receiptFile'.observed["queue"] = receiptFile.observed["queue"]
  BY <1>1 DEF Resource
<1>4. receiptFile'.attempts = receiptFile.attempts /\ receiptFile'.last = receiptFile.last
      /\ receiptFile'.origin = receiptFile.origin
     /\ receiptFile'.transport = receiptFile.transport /\ receiptFile'.provider = receiptFile.provider
     /\ receiptFile'.keys = receiptFile.keys /\ receiptFile'.attempted = receiptFile.attempted
        /\ receiptFile'.epoch = receiptFile.epoch
     /\ receiptFile' \in Receipts
  BY <1>1 DEF But, Fields
<1>5. cloudflare'["worker"] = cloudflare["worker"] /\ cloudflare'["queue"] = cloudflare["queue"]
  BY DEF Resource
<1>6. receiptFile'.phases = receiptFile.phases \cup {"ai-gateway"} /\ Follows(receiptFile')
  BY ProvisionedIs, NamesAre DEF IInv, But, Fields
<1>7. setup' \in Setups /\ setup'.operation = "apply" /\ RunInv(setup', receiptFile')
     /\ setup'.does \notin {"deploys", "uploads secrets", "switches", "creates gateway", "token"}
  BY <1>2, <1>6, FollowsIs DEF IInv
<1>8. InstallerTypeOK'
  BY <1>1, <1>2, <1>3, <1>4, <1>5, <1>6, <1>7 DEF IInv, InstallerTypeOK, ButRun
<1>9. receiptFile' # Nothing => ReceiptInv(receiptFile')
  <2>2. receiptFile'.observed["gateway"] # Nothing
        => Ours(receiptFile'.observed["gateway"], receiptFile'.attempts["gateway"])
    BY <1>1, <1>2, <1>3, <1>4 DEF IInv, ReceiptInv
  <2> QED
    BY <1>1, <1>2, <1>3, <1>4, <1>6, <2>2 DEF IInv, ReceiptInv, GatewayDone, FirstOf
<1>10. RunInv(setup', receiptFile')
  BY <1>1, <1>2, <1>3, <1>4, <1>5, <1>6, <1>7 DEF IInv
<1>11. SecretsInv(receiptFile', secrets', object', setup')
  BY <1>1, <1>2, <1>3, <1>4, <1>5, <1>6, <1>7 DEF IInv, SecretsInv, FirstOf, GatewayDone, ReceiptInv
<1>12. ServingInv(receiptFile', serving', secrets', object')
  BY <1>1, <1>2, <1>3, <1>4, <1>5, <1>6, <1>7 DEF IInv, ServingInv, FirstOf, GatewayDone, ReceiptInv
<1>13. SettledInv(receiptFile', serving')
  BY <1>1, <1>2, <1>3, <1>4, <1>5, <1>6, <1>7 DEF IInv, SettledInv, Settled, FirstOf, GatewayDone, ReceiptInv
<1>14. AccountInv(receiptFile', hour', cloudflare', serving', secrets', setup')
  BY <1>1, <1>2, <1>3, <1>4, <1>5, <1>6, <1>7 DEF IInv, AccountInv, UsesGateway, Ours, FirstOf, GatewayDone,
     ReceiptInv, SecretsInv
<1> QED
  BY <1>8, <1>9, <1>10, <1>11, <1>12, <1>13, <1>14 DEF IInv

\* The gateway is, where a switch to it goes on.
LEMMA SwitchProvided ==
  ASSUME IInv, NEW r, receiptFile \in Receipts, setup.operation = "ai-transport", setup.to = Gateway,
         receiptFile.pending # Nothing, receiptFile.pending.kind = "ai-transport", "bootstrap-clear" \in receiptFile.phases,
         setup.does # "idle", ~setup.token => receiptFile.probed, UNCHANGED <<hour, serving, secrets, object>>,
         But(r, receiptFile, {"observed"}), \A o \in Resource \ {"gateway"} : r.observed[o] = receiptFile.observed[o],
         r.observed["gateway"] # Nothing => Ours(r.observed["gateway"], receiptFile.attempts["gateway"]),
         cloudflare' \in [Resource -> Things \cup {Nothing}],
         \A o \in Resource \ {"gateway"} : cloudflare'[o] = cloudflare[o],
         Ours(cloudflare'["gateway"], receiptFile.attempts["gateway"]), Provisioned("gateway", r)
  PROVE  IInv'
<1>1. But(receiptFile', receiptFile, {"phases", "observed", "probed"}) /\ receiptFile'.observed = r.observed
     /\ (receiptFile.probed => receiptFile'.probed)
     /\ (setup.token => receiptFile'.probed) /\ (receiptFile'.probed => receiptFile.probed \/ setup.token)
  BY ProvisionedIs DEF IInv, But, Fields
<1>2. receiptFile # Nothing /\ receiptFile' # Nothing /\ receiptFile'.pending = receiptFile.pending
  BY <1>1, NothingIs DEF But, Fields
<1>3. receiptFile'.observed["worker"] = receiptFile.observed["worker"]
     /\ receiptFile'.observed["queue"] = receiptFile.observed["queue"]
  BY <1>1 DEF Resource
<1>4. receiptFile'.attempts = receiptFile.attempts /\ receiptFile'.last = receiptFile.last
      /\ receiptFile'.origin = receiptFile.origin
     /\ receiptFile'.transport = receiptFile.transport /\ receiptFile'.provider = receiptFile.provider
     /\ receiptFile'.keys = receiptFile.keys /\ receiptFile'.attempted = receiptFile.attempted
        /\ receiptFile'.epoch = receiptFile.epoch
     /\ receiptFile' \in Receipts
  BY <1>1 DEF But, Fields
<1>5. cloudflare'["worker"] = cloudflare["worker"] /\ cloudflare'["queue"] = cloudflare["queue"]
  BY DEF Resource
<1>6. receiptFile'.phases = receiptFile.phases /\ ButRun(setup', setup, {"does"}) /\ setup'.does = "token"
      /\ setup' \in Setups
  <2>1. receiptFile'.phases = receiptFile.phases /\ setup' = [setup EXCEPT !.does = "token"]
    BY ProvisionedIs DEF IInv, But, Fields
  <2> QED
    BY <2>1, MovesIs DEF IInv, ButRun
<1>7. setup.token \in BOOLEAN /\ receiptFile.probed \in BOOLEAN
  BY ReceiptTyped, RunTyped DEF IInv, InstallerTypeOK
<1>8. InstallerTypeOK'
  BY <1>1, <1>2, <1>3, <1>4, <1>5, <1>6, <1>7 DEF IInv, InstallerTypeOK, But, Fields, ButRun, RunFields
<1>9. receiptFile' # Nothing => ReceiptInv(receiptFile')
  <2>2. receiptFile'.observed["gateway"] # Nothing
        => Ours(receiptFile'.observed["gateway"], receiptFile'.attempts["gateway"])
    BY <1>1, <1>2, <1>3, <1>4 DEF IInv, ReceiptInv
  <2> QED
    BY <1>1, <1>2, <1>3, <1>4, <1>6, <2>2 DEF IInv, ReceiptInv, GatewayDone, FirstOf
<1>10. RunInv(setup', receiptFile')
  BY <1>1, <1>2, <1>3, <1>4, <1>5, <1>6, <1>7 DEF IInv, RunInv, Applies, Updates, But, Fields, ButRun, RunFields,
     Transport, Gateway
<1>11. SecretsInv(receiptFile', secrets', object', setup')
  BY <1>1, <1>2, <1>3, <1>4, <1>5, <1>6, <1>7 DEF IInv, SecretsInv, ButRun, RunFields
<1>12. ServingInv(receiptFile', serving', secrets', object')
  BY <1>1, <1>2, <1>3, <1>4, <1>5, <1>6, <1>7 DEF IInv, ServingInv
<1>13. SettledInv(receiptFile', serving')
  BY <1>1, <1>2, <1>3, <1>4, <1>5, <1>6, <1>7 DEF IInv, SettledInv, Settled
<1>14. AccountInv(receiptFile', hour', cloudflare', serving', secrets', setup')
  BY <1>1, <1>2, <1>3, <1>4, <1>5, <1>6, <1>7 DEF IInv, AccountInv, UsesGateway, Ours, ReceiptInv, SecretsInv,
     ButRun, RunFields
<1> QED
  BY <1>8, <1>9, <1>10, <1>11, <1>12, <1>13, <1>14 DEF IInv

\* Whichever it is.
LEMMA ProvidesKeeps ==
  ASSUME IInv, NEW res \in {"queue", "gateway"}, NEW r, setup.does \in {Provisions[res], Creation[res], Lookup[res]},
         UNCHANGED <<hour, serving, secrets, object>>,
         But(r, receiptFile, {"observed"}), \A o \in Resource \ {res} : r.observed[o] = receiptFile.observed[o],
         r.observed[res] # Nothing => Ours(r.observed[res], receiptFile.attempts[res]),
         cloudflare' \in [Resource -> Things \cup {Nothing}],
         \A o \in Resource \ {res} : cloudflare'[o] = cloudflare[o],
         Ours(cloudflare'[res], receiptFile.attempts[res]), Provisioned(res, r)
  PROVE  IInv'
BY Providing, NamesAre, QueueProvided, GatewayProvided, SwitchProvided

\* Creates: what this call created is ours.
LEMMA CreatesKeeps ==
  ASSUME IInv, NEW res \in {"queue", "gateway"}, Creates(res)
  PROVE  IInv'
<1>1. setup.does = Creation[res] /\ UNCHANGED <<hour, serving, secrets, object>>
  BY DEF Creates
<1>2. CreatedNow \in Things /\ \A w : Ours(CreatedNow, w)
  BY NothingIs DEF IInv, InstallerTypeOK, CreatedNow, Things, Ours
<1>3. /\ cloudflare' \in [Resource -> Things \cup {Nothing}] /\ cloudflare'[res] = CreatedNow
      /\ \A o \in Resource \ {res} : cloudflare'[o] = cloudflare[o]
  BY <1>2 DEF Creates, IInv, InstallerTypeOK, Resource
<1>4. receiptFile \in Receipts
  BY <1>1, Providing
<1> DEFINE r == [receiptFile EXCEPT !.observed[res] = cloudflare'[res]]
<1>5. /\ But(r, receiptFile, {"observed"}) /\ r.observed[res] = CreatedNow
      /\ \A o \in Resource \ {res} : r.observed[o] = receiptFile.observed[o]
  <2>1. r = [receiptFile EXCEPT !.observed[res] = CreatedNow]
    BY <1>3
  <2>2. r \in Receipts
    BY <1>2, <1>4, <2>1 DEF Receipts, Resource
  <2> QED
    BY <1>4, <2>1, <2>2 DEF Receipts, But, Fields, Resource
<1>6. Provisioned(res, r)
  BY DEF Creates
<1> HIDE DEF r
<1> QED
  BY <1>1, <1>2, <1>3, <1>5, <1>6, ProvidesKeeps

\* Adopts: on evidence.
LEMMA AdoptsKeeps ==
  ASSUME IInv, NEW res \in {"queue", "gateway"}, Adopts(res)
  PROVE  IInv'
<1>1. /\ setup.does \in {Provisions[res], Creation[res], Lookup[res]}
         /\ UNCHANGED <<hour, cloudflare, serving, secrets, object>>
      /\ cloudflare[res] # Nothing /\ ShownOurs(res)
  BY DEF Adopts, remote
<1>2. /\ receiptFile \in Receipts /\ receiptFile # Nothing /\ ReceiptInv(receiptFile)
      /\ res = "queue" => FirstOf(receiptFile) = "resources"
  BY <1>1, Providing, NamesAre
<1>3. Ours(cloudflare[res], receiptFile.attempts[res])
  BY <1>1, <1>2, ShownIs DEF FirstOf
<1>4. cloudflare \in [Resource -> Things \cup {Nothing}] /\ cloudflare[res] \in Things
  BY <1>1 DEF IInv, InstallerTypeOK, Resource
<1>5. /\ But(Observed(receiptFile, res), receiptFile, {"observed"})
      /\ \A o \in Resource \ {res} : Observed(receiptFile, res).observed[o] = receiptFile.observed[o]
      /\ Observed(receiptFile, res).observed[res] \in {cloudflare[res], receiptFile.observed[res]}
  BY <1>2, <1>4, ObservedIs DEF Resource
<1>6. receiptFile.observed[res] # Nothing => Ours(receiptFile.observed[res], receiptFile.attempts[res])
  BY <1>2 DEF ReceiptInv, FirstOf
<1>7. Provisioned(res, Observed(receiptFile, res))
  BY DEF Adopts
<1>8. Observed(receiptFile, res).observed[res] # Nothing
      => Ours(Observed(receiptFile, res).observed[res], receiptFile.attempts[res])
  BY <1>3, <1>5, <1>6
<1> QED
  BY <1>1, <1>3, <1>4, <1>5, <1>7, <1>8, ProvidesKeeps

\* CreateLost: whether it landed or not, nothing counts as ours yet.
LEMMA CreateLostKeeps ==
  ASSUME IInv, NEW res \in {"queue", "gateway"}, NEW landed \in BOOLEAN, CreateLost(res, landed)
  PROVE  IInv'
<1>1. UNCHANGED <<hour, receiptFile, serving, secrets, object>> /\ setup.does = Creation[res]
  BY DEF CreateLost
<1>2. receiptFile \in Receipts /\ receiptFile # Nothing /\ ReceiptInv(receiptFile)
     /\ \/ setup.operation = "apply" /\ receiptFile.pending = Nothing /\ FirstOf(receiptFile) = Provisions[res]
        \/ /\ res = "gateway" /\ setup.operation = "ai-transport" /\ setup.to = Gateway
           /\ receiptFile.pending # Nothing /\ receiptFile.pending.kind = "ai-transport"
           /\ "bootstrap-clear" \in receiptFile.phases /\ (~setup.token => receiptFile.probed)
  BY <1>1, Providing
<1>3. ButRun(setup', setup, {"does"}) /\ setup'.does = Lookup[res]
  BY NamesAre, MovesIs DEF CreateLost, IInv
<1>4. setup'.operation = setup.operation /\ setup'.to = setup.to /\ setup'.epoch = setup.epoch
      /\ setup'.token = setup.token /\ setup'.only = setup.only /\ setup'.config = setup.config /\ setup' \in Setups
  BY <1>3 DEF ButRun, RunFields
<1>5. /\ cloudflare' \in [Resource -> Things \cup {Nothing}]
      /\ \A o \in Resource \ {res} : cloudflare'[o] = cloudflare[o]
  <2>1. CreatedNow \in Things
    BY DEF IInv, InstallerTypeOK, CreatedNow, Things
  <2> QED
    BY <2>1 DEF CreateLost, IInv, InstallerTypeOK
<1>6. /\ res = "gateway" => ~UsesGateway(receiptFile, serving, setup)
      /\ res = "queue" => "resources" \notin receiptFile.phases
  BY <1>1, <1>2, NamesAre DEF IInv, AccountInv, FirstOf
<1>7. Applies(setup, receiptFile) /\ Updates(setup, receiptFile)
  BY <1>1, <1>2, NamesAre DEF IInv, RunInv
<1>8. InstallerTypeOK'
  BY <1>1, <1>2, <1>3, <1>4, <1>5, <1>6, <1>7 DEF IInv, InstallerTypeOK
<1>9. receiptFile' # Nothing => ReceiptInv(receiptFile')
  BY <1>1, <1>2, <1>3, <1>4, <1>5, <1>6, <1>7 DEF IInv
<1>10. RunInv(setup', receiptFile')
  BY <1>1, <1>2, <1>3, <1>4, <1>5, <1>6, <1>7, NamesAre DEF IInv, RunInv, Applies, Updates, WorksOn
<1>11. SecretsInv(receiptFile', secrets', object', setup')
  BY <1>1, <1>2, <1>3, <1>4, <1>5, <1>6, <1>7, NamesAre DEF IInv, SecretsInv
<1>12. ServingInv(receiptFile', serving', secrets', object')
  BY <1>1, <1>2, <1>3, <1>4, <1>5, <1>6, <1>7 DEF IInv
<1>13. SettledInv(receiptFile', serving')
  BY <1>1, <1>2, <1>3, <1>4, <1>5, <1>6, <1>7 DEF IInv
<1>14. AccountInv(receiptFile', hour', cloudflare', serving', secrets', setup')
  BY <1>1, <1>2, <1>3, <1>4, <1>5, <1>6, <1>7, NamesAre DEF IInv, AccountInv, UsesGateway, Ours, ReceiptInv, Resource
<1> QED
  BY <1>8, <1>9, <1>10, <1>11, <1>12, <1>13, <1>14 DEF IInv

\* NameTaken: the attempt may be forgotten, and vouches for nothing.
LEMMA NameTakenKeeps ==
  ASSUME IInv, NEW res \in {"queue", "gateway"}, NameTaken(res)
  PROVE  IInv'
<1>1. UNCHANGED <<hour, cloudflare, serving, secrets, object>> /\ setup.does = Creation[res]
  BY DEF NameTaken, remote
<1>2. receiptFile \in Receipts /\ receiptFile # Nothing /\ ReceiptInv(receiptFile)
     /\ \/ setup.operation = "apply" /\ receiptFile.pending = Nothing /\ FirstOf(receiptFile) = Provisions[res]
        \/ /\ res = "gateway" /\ setup.operation = "ai-transport" /\ setup.to = Gateway
           /\ receiptFile.pending # Nothing /\ receiptFile.pending.kind = "ai-transport"
           /\ "bootstrap-clear" \in receiptFile.phases /\ (~setup.token => receiptFile.probed)
  BY <1>1, Providing
<1>3. ButRun(setup', setup, {"does"}) /\ setup'.does = Lookup[res]
  BY NamesAre, MovesIs DEF NameTaken, IInv
<1>4. setup'.operation = setup.operation /\ setup'.to = setup.to /\ setup'.epoch = setup.epoch
      /\ setup'.token = setup.token /\ setup'.only = setup.only /\ setup'.config = setup.config /\ setup' \in Setups
  BY <1>3 DEF ButRun, RunFields
<1>5. But(receiptFile', receiptFile, {"attempts"})
      /\ \A o \in Resource \ {res} : receiptFile'.attempts[o] = receiptFile.attempts[o]
  BY <1>2, DropIs DEF NameTaken, IInv, Resource
<1>6. receiptFile'.phases = receiptFile.phases /\ receiptFile'.observed = receiptFile.observed
      /\ receiptFile'.epoch = receiptFile.epoch /\ receiptFile'.attempted = receiptFile.attempted
      /\ receiptFile'.last = receiptFile.last /\ receiptFile'.origin = receiptFile.origin
      /\ receiptFile'.transport = receiptFile.transport /\ receiptFile'.provider = receiptFile.provider
      /\ receiptFile'.keys = receiptFile.keys /\ receiptFile'.pending = receiptFile.pending
      /\ receiptFile'.probed = receiptFile.probed /\ receiptFile' \in Receipts /\ receiptFile' # Nothing
  BY <1>5, NothingIs DEF But, Fields
<1>7. /\ res = "gateway" => ~UsesGateway(receiptFile, serving, setup) /\ receiptFile.observed["gateway"] = Nothing
      /\ res = "queue" => "resources" \notin receiptFile.phases
  BY <1>1, <1>2, NamesAre DEF IInv, AccountInv, FirstOf, RunInv
<1>8. Applies(setup, receiptFile) /\ Updates(setup, receiptFile)
  BY <1>1, <1>2, NamesAre DEF IInv, RunInv
<1>9. receiptFile'.attempts["worker"] = receiptFile.attempts["worker"]
      /\ (res = "queue" => receiptFile'.attempts["gateway"] = receiptFile.attempts["gateway"])
      /\ (res = "gateway" => receiptFile'.attempts["queue"] = receiptFile.attempts["queue"])
  BY <1>5 DEF Resource
<1>10. InstallerTypeOK'
  BY <1>1, <1>2, <1>3, <1>4, <1>5, <1>6, <1>7, <1>8, <1>9 DEF IInv, InstallerTypeOK
<1>11. receiptFile' # Nothing => ReceiptInv(receiptFile')
  BY <1>1, <1>2, <1>3, <1>4, <1>5, <1>6, <1>7, <1>8, <1>9 DEF IInv, ReceiptInv, GatewayDone, Ours
<1>12. RunInv(setup', receiptFile')
  BY <1>1, <1>2, <1>3, <1>4, <1>5, <1>6, <1>7, <1>8, <1>9, NamesAre DEF IInv, RunInv, Applies, Updates, WorksOn,
     FirstOf, GatewayDone
<1>13. SecretsInv(receiptFile', secrets', object', setup')
  BY <1>1, <1>2, <1>3, <1>4, <1>5, <1>6, <1>7, <1>8, <1>9, NamesAre DEF IInv, SecretsInv
<1>14. ServingInv(receiptFile', serving', secrets', object')
  BY <1>1, <1>2, <1>3, <1>4, <1>5, <1>6, <1>7, <1>8, <1>9 DEF IInv, ServingInv
<1>15. SettledInv(receiptFile', serving')
  BY <1>1, <1>2, <1>3, <1>4, <1>5, <1>6, <1>7, <1>8, <1>9 DEF IInv, SettledInv, Settled
<1>16. AccountInv(receiptFile', hour', cloudflare', serving', secrets', setup')
  BY <1>1, <1>2, <1>3, <1>4, <1>5, <1>6, <1>7, <1>8, <1>9, NamesAre DEF IInv, AccountInv, UsesGateway, Ours
<1> QED
  BY <1>10, <1>11, <1>12, <1>13, <1>14, <1>15, <1>16 DEF IInv

\* GatewayRefused: what was seen is recorded, and is ours.
LEMMA RefusedKeeps ==
  ASSUME IInv, GatewayRefused
  PROVE  IInv'
<1>1. UNCHANGED <<hour, cloudflare, serving, secrets, object>> /\ setup' = NoSetup
      /\ setup.does \in {"ai-gateway", "reads gateway"}
     /\ cloudflare["gateway"] # Nothing /\ ShownOurs("gateway")
  BY DEF GatewayRefused, remote
<1>2. receiptFile \in Receipts /\ receiptFile # Nothing /\ ReceiptInv(receiptFile)
  BY <1>1, Providing, NamesAre
<1>3. Ours(cloudflare["gateway"], receiptFile.attempts["gateway"])
  BY <1>1, <1>2, ShownIs
<1>4. /\ But(receiptFile', receiptFile, {"observed"})
      /\ \A o \in Resource \ {"gateway"} : receiptFile'.observed[o] = receiptFile.observed[o]
      /\ receiptFile'.observed["gateway"] \in {cloudflare["gateway"], receiptFile.observed["gateway"]}
  <2>1. cloudflare["gateway"] \in Things
    BY <1>1 DEF IInv, InstallerTypeOK, Resource
  <2> QED
    BY <1>2, <2>1, ObservedIs DEF GatewayRefused, Resource
<1>5. receiptFile'.phases = receiptFile.phases /\ receiptFile'.attempts = receiptFile.attempts
      /\ receiptFile'.epoch = receiptFile.epoch /\ receiptFile'.attempted = receiptFile.attempted
      /\ receiptFile'.last = receiptFile.last /\ receiptFile'.origin = receiptFile.origin
      /\ receiptFile'.transport = receiptFile.transport /\ receiptFile'.provider = receiptFile.provider
      /\ receiptFile'.keys = receiptFile.keys /\ receiptFile'.pending = receiptFile.pending
      /\ receiptFile'.probed = receiptFile.probed /\ receiptFile' \in Receipts /\ receiptFile' # Nothing
  BY <1>4, NothingIs DEF But, Fields
<1>6. receiptFile'.observed["queue"] = receiptFile.observed["queue"]
      /\ receiptFile'.observed["worker"] = receiptFile.observed["worker"]
     /\ (receiptFile'.observed["gateway"] # Nothing
        => Ours(receiptFile'.observed["gateway"], receiptFile.attempts["gateway"]))
  BY <1>2, <1>3, <1>4 DEF Resource, ReceiptInv
<1>7. InstallerTypeOK'
  BY <1>1, <1>2, <1>3, <1>4, <1>5, <1>6, NoSetupIs DEF IInv, InstallerTypeOK
<1>8. receiptFile' # Nothing => ReceiptInv(receiptFile')
  BY <1>1, <1>2, <1>3, <1>4, <1>5, <1>6 DEF IInv, ReceiptInv, GatewayDone
<1>9. RunInv(setup', receiptFile')
  BY <1>1, <1>2, <1>3, <1>4, <1>5, <1>6, NoSetupIs DEF IInv, RunInv
<1>10. SecretsInv(receiptFile', secrets', object', setup')
  BY <1>1, <1>2, <1>3, <1>4, <1>5, <1>6, NoSetupIs DEF IInv, SecretsInv
<1>11. ServingInv(receiptFile', serving', secrets', object')
  BY <1>1, <1>2, <1>3, <1>4, <1>5, <1>6 DEF IInv, ServingInv
<1>12. SettledInv(receiptFile', serving')
  BY <1>1, <1>2, <1>3, <1>4, <1>5, <1>6 DEF IInv, SettledInv, Settled
<1>13. AccountInv(receiptFile', hour', cloudflare', serving', secrets', setup')
  BY <1>1, <1>2, <1>3, <1>4, <1>5, <1>6, NoSetupIs DEF IInv, AccountInv, UsesGateway
<1> QED
  BY <1>7, <1>8, <1>9, <1>10, <1>11, <1>12, <1>13 DEF IInv

\* DeployInitial: the attempt is recorded, and whatever has the name is of recorded attempts.
LEMMA DeployInitialKeeps ==
  ASSUME IInv, DeployInitial
  PROVE  IInv'
<1>1. UNCHANGED <<hour, cloudflare, serving, secrets, object>> /\ setup.does = "deploy-initial"
      /\ (cloudflare["worker"] # Nothing => ShownOurs("worker"))
  BY DEF DeployInitial, remote
<1>2. receiptFile \in Receipts /\ receiptFile # Nothing /\ setup.operation = "apply"
      /\ receiptFile.pending = Nothing /\ FirstOf(receiptFile) = "deploy-initial" /\ ReceiptInv(receiptFile)
  BY <1>1, AtPhase
<1>3. But(receiptFile', receiptFile, {"attempts", "observed"}) /\ hour \in receiptFile'.attempts["worker"]
     /\ (\A o \in Resource \ {"worker"} : receiptFile'.attempts[o] = receiptFile.attempts[o]
        /\ receiptFile'.observed[o] = receiptFile.observed[o])
     /\ receiptFile'.observed["worker"] = receiptFile.observed["worker"]
     /\ receiptFile'.attempts["worker"] = receiptFile.attempts["worker"] \cup {hour}
  BY <1>2, AttemptIs DEF DeployInitial, Resource, IInv
<1>4. receiptFile'.phases = receiptFile.phases /\ receiptFile'.epoch = receiptFile.epoch
      /\ receiptFile'.attempted = receiptFile.attempted /\ receiptFile'.last = receiptFile.last
      /\ receiptFile'.origin = receiptFile.origin /\ receiptFile'.transport = receiptFile.transport
      /\ receiptFile'.provider = receiptFile.provider /\ receiptFile'.keys = receiptFile.keys
      /\ receiptFile'.pending = receiptFile.pending /\ receiptFile'.probed = receiptFile.probed
      /\ receiptFile' \in Receipts /\ receiptFile' # Nothing
  BY <1>3, NothingIs DEF But, Fields
<1>5. receiptFile'.observed["queue"] = receiptFile.observed["queue"]
      /\ receiptFile'.observed["gateway"] = receiptFile.observed["gateway"]
     /\ receiptFile'.attempts["queue"] = receiptFile.attempts["queue"]
        /\ receiptFile'.attempts["gateway"] = receiptFile.attempts["gateway"]
  BY <1>3 DEF Resource
<1>6. cloudflare["worker"] # Nothing => cloudflare["worker"].at \subseteq receiptFile'.attempts["worker"]
  BY <1>1, <1>2, <1>3 DEF ReceiptInv, FirstOf, ShownOurs, WithinAttempt
<1>7. ButRun(setup', setup, {"does", "only", "config"}) /\ setup'.does = "deploys"
     /\ setup'.config = ConfigOf(receiptFile, receiptFile.provider, receiptFile.transport)
  <2> DEFINE config == ConfigOf(receiptFile, receiptFile.provider, receiptFile.transport)
             only == Only("worker")
  <2>1. config \in Configs /\ only \in BOOLEAN
    BY <1>2, ConfigIs, ReceiptTyped DEF Only
  <2>2. setup' = [setup EXCEPT !.does = "deploys", !.only = only, !.config = config] /\ setup \in Setups
    BY DEF DeployInitial, IInv, InstallerTypeOK
  <2> HIDE DEF config, only
  <2>3. ButRun(setup', setup, {"does", "only", "config"}) /\ setup'.does = "deploys" /\ setup'.config = config
    BY <2>1, <2>2 DEF Setups, ButRun, RunFields
  <2> QED
    BY <2>3 DEF config
<1>8. setup'.operation = setup.operation /\ setup'.to = setup.to /\ setup'.epoch = setup.epoch
      /\ setup'.token = setup.token /\ setup' \in Setups
  BY <1>7 DEF ButRun, RunFields
<1>9. InstallerTypeOK'
  BY <1>1, <1>2, <1>3, <1>4, <1>5, <1>6, <1>7, <1>8 DEF IInv, InstallerTypeOK
<1>10. receiptFile' # Nothing => ReceiptInv(receiptFile')
  BY <1>1, <1>2, <1>3, <1>4, <1>5, <1>6, <1>7, <1>8 DEF IInv, ReceiptInv, GatewayDone, Ours
<1>11. RunInv(setup', receiptFile')
  BY <1>1, <1>2, <1>3, <1>4, <1>5, <1>6, <1>7, <1>8 DEF IInv, RunInv, Applies, Updates, FirstOf, GatewayDone, ConfigOf
<1>12. SecretsInv(receiptFile', secrets', object', setup')
  BY <1>1, <1>2, <1>3, <1>4, <1>5, <1>6, <1>7, <1>8 DEF IInv, SecretsInv
<1>13. ServingInv(receiptFile', serving', secrets', object')
  BY <1>1, <1>2, <1>3, <1>4, <1>5, <1>6, <1>7, <1>8 DEF IInv, ServingInv
<1>14. SettledInv(receiptFile', serving')
  BY <1>1, <1>2, <1>3, <1>4, <1>5, <1>6, <1>7, <1>8 DEF IInv, SettledInv, Settled
<1>15. AccountInv(receiptFile', hour', cloudflare', serving', secrets', setup')
  BY <1>1, <1>2, <1>3, <1>4, <1>5, <1>6, <1>7, <1>8 DEF IInv, AccountInv, UsesGateway, Ours, ReceiptInv, FirstOf
<1> QED
  BY <1>9, <1>10, <1>11, <1>12, <1>13, <1>14, <1>15 DEF IInv

\* SetSecrets: the epoch is recorded before any is bound.
LEMMA SetSecretsKeeps ==
  ASSUME IInv, SetSecrets
  PROVE  IInv'
<1>1. UNCHANGED <<hour, cloudflare, serving, secrets, object>> /\ secrets.epoch = 0
  BY DEF SetSecrets, remote
<1>2. receiptFile \in Receipts /\ receiptFile # Nothing /\ setup.operation = "apply"
      /\ receiptFile.pending = Nothing /\ FirstOf(receiptFile) = "secrets" /\ ReceiptInv(receiptFile)
  BY AtPhase DEF SetSecrets
<1>3. PICK epoch \in 1..MaxMade : receiptFile' = [receiptFile EXCEPT !.epoch = epoch, !.attempted = TRUE,
      !.probed = @ \/ receiptFile.transport = Gateway]
      /\ setup' = [setup EXCEPT !.does = "uploads secrets", !.epoch = epoch]
  <2> DEFINE epoch == IF setup.epoch # 0 THEN setup.epoch ELSE receiptFile.epoch + 1
  <2>1. setup.epoch \in 0..MaxMade /\ receiptFile.epoch \in 1..MaxMade
    BY <1>2, ReceiptTyped, RunTyped DEF IInv, InstallerTypeOK
  <2>2. epoch <= MaxMade
    BY DEF SetSecrets
  <2>3. epoch \in 1..MaxMade
    BY <2>1, <2>2, InstallerAssumption
  <2> QED
    BY <2>3 DEF SetSecrets
<1>4. But(receiptFile', receiptFile, {"epoch", "attempted", "probed"}) /\ receiptFile'.epoch = epoch
      /\ receiptFile'.attempted
     /\ (receiptFile.probed => receiptFile'.probed) /\ (receiptFile.transport = Gateway => receiptFile'.probed)
  <2> DEFINE probed == receiptFile.probed \/ receiptFile.transport = Gateway
  <2>1. probed \in BOOLEAN
    OBVIOUS
  <2>2. receiptFile' = [receiptFile EXCEPT !.epoch = epoch, !.attempted = TRUE, !.probed = probed]
    BY <1>3
  <2> HIDE DEF probed
  <2>3. But(receiptFile', receiptFile, {"epoch", "attempted", "probed"}) /\ receiptFile'.epoch = epoch
        /\ receiptFile'.attempted = TRUE
        /\ receiptFile'.probed = probed
    BY <1>2, <2>1, <2>2 DEF Receipts, But, Fields
  <2> QED
    BY <2>3 DEF probed
<1>5. receiptFile'.phases = receiptFile.phases /\ receiptFile'.attempts = receiptFile.attempts
      /\ receiptFile'.observed = receiptFile.observed /\ receiptFile'.last = receiptFile.last
      /\ receiptFile'.origin = receiptFile.origin /\ receiptFile'.transport = receiptFile.transport
      /\ receiptFile'.provider = receiptFile.provider /\ receiptFile'.keys = receiptFile.keys
      /\ receiptFile'.pending = receiptFile.pending /\ receiptFile' \in Receipts /\ receiptFile' # Nothing
  BY <1>4, NothingIs DEF But, Fields
<1>6. setup' \in Setups /\ setup'.does = "uploads secrets" /\ setup'.epoch = epoch
      /\ setup'.operation = setup.operation /\ setup'.to = setup.to
     /\ setup'.token = setup.token
  <2>1. epoch \in 0..MaxMade /\ setup \in Setups
    BY InstallerAssumption DEF IInv, InstallerTypeOK
  <2>2. ButRun(setup', setup, {"does", "epoch"}) /\ setup'.does = "uploads secrets" /\ setup'.epoch = epoch
    BY <1>3, <2>1, PhasesAre DEF Setups, ButRun, RunFields
  <2> QED
    BY <2>2 DEF ButRun, RunFields
<1>7. InstallerTypeOK'
  BY <1>1, <1>2, <1>3, <1>4, <1>5, <1>6 DEF IInv, InstallerTypeOK
<1>8. receiptFile' # Nothing => ReceiptInv(receiptFile')
  BY <1>1, <1>2, <1>3, <1>4, <1>5, <1>6 DEF IInv, ReceiptInv, GatewayDone, Ours
<1>9. RunInv(setup', receiptFile')
  BY <1>1, <1>2, <1>3, <1>4, <1>5, <1>6 DEF IInv, RunInv, Applies, Updates, WorksOn, FirstOf, GatewayDone
<1>10. SecretsInv(receiptFile', secrets', object', setup')
  BY <1>1, <1>2, <1>3, <1>4, <1>5, <1>6 DEF IInv, SecretsInv, FirstOf, GatewayDone, ReceiptInv
<1>11. ServingInv(receiptFile', serving', secrets', object')
  BY <1>1, <1>2, <1>3, <1>4, <1>5, <1>6 DEF IInv, ServingInv
<1>12. SettledInv(receiptFile', serving')
  BY <1>1, <1>2, <1>3, <1>4, <1>5, <1>6 DEF IInv, SettledInv, Settled
<1>13. AccountInv(receiptFile', hour', cloudflare', serving', secrets', setup')
  BY <1>1, <1>2, <1>3, <1>4, <1>5, <1>6 DEF IInv, AccountInv, UsesGateway, Ours, FirstOf, GatewayDone, ReceiptInv
<1> QED
  BY <1>7, <1>8, <1>9, <1>10, <1>11, <1>12, <1>13 DEF IInv

\* UploadsSecrets: it landed, and the answer came.
LEMMA UploadsHeardKeeps ==
  ASSUME IInv, UploadsSecrets(TRUE, TRUE)
  PROVE  IInv'
<1>1. UNCHANGED <<hour, cloudflare, serving, object>> /\ secrets' = AllBound /\ MarkPhase("secrets", receiptFile)
      /\ setup.does = "uploads secrets"
  BY DEF UploadsSecrets
<1>2. receiptFile \in Receipts /\ receiptFile # Nothing /\ setup.operation = "apply"
      /\ receiptFile.pending = Nothing /\ FirstOf(receiptFile) = "secrets" /\ ReceiptInv(receiptFile)
  BY <1>1, AtPhase
<1>3. But(receiptFile', receiptFile, {"phases"}) /\ receiptFile'.phases = receiptFile.phases \cup {"secrets"}
      /\ receiptFile' # Nothing
     /\ setup' \in Setups /\ setup'.operation = "apply" /\ RunInv(setup', receiptFile')
     /\ setup'.does \notin {"deploys", "uploads secrets", "switches", "creates gateway", "token"}
  BY <1>1, <1>2, PhasesAre, MarksAt
<1>4. secrets.epoch = 0 /\ object = 0 /\ secrets.token = "none" /\ receiptFile.attempted /\ receiptFile.epoch # 0
  BY <1>1, AtUpload
<1>5. secrets' \in Bound /\ secrets'.epoch = receiptFile.epoch /\ secrets'.keys = receiptFile.keys
      /\ secrets'.token \in {"installer", "none"}
  BY <1>1, AtUpload
<1>6. receiptFile'.attempts = receiptFile.attempts /\ receiptFile'.observed = receiptFile.observed
      /\ receiptFile'.epoch = receiptFile.epoch /\ receiptFile'.attempted = receiptFile.attempted
      /\ receiptFile'.last = receiptFile.last /\ receiptFile'.origin = receiptFile.origin
      /\ receiptFile'.transport = receiptFile.transport /\ receiptFile'.provider = receiptFile.provider
      /\ receiptFile'.keys = receiptFile.keys /\ receiptFile'.pending = receiptFile.pending
      /\ receiptFile'.probed = receiptFile.probed /\ receiptFile' \in Receipts
  BY <1>3 DEF But, Fields
<1>7. InstallerTypeOK'
  BY <1>1, <1>2, <1>3, <1>4, <1>5, <1>6 DEF IInv, InstallerTypeOK
<1>8. receiptFile' # Nothing => ReceiptInv(receiptFile')
  BY <1>1, <1>2, <1>3, <1>4, <1>5, <1>6 DEF IInv, ReceiptInv, GatewayDone, Ours, FirstOf
<1>9. RunInv(setup', receiptFile')
  BY <1>1, <1>2, <1>3, <1>4, <1>5, <1>6 DEF IInv
<1>10. SecretsInv(receiptFile', secrets', object', setup')
  BY <1>1, <1>2, <1>3, <1>4, <1>5, <1>6 DEF IInv, SecretsInv, FirstOf, GatewayDone, ReceiptInv
<1>11. ServingInv(receiptFile', serving', secrets', object')
  BY <1>1, <1>2, <1>3, <1>4, <1>5, <1>6 DEF IInv, ServingInv, FirstOf, GatewayDone, ReceiptInv
<1>12. SettledInv(receiptFile', serving')
  BY <1>1, <1>2, <1>3, <1>4, <1>5, <1>6 DEF IInv, SettledInv, Settled, FirstOf, GatewayDone, ReceiptInv
<1>13. AccountInv(receiptFile', hour', cloudflare', serving', secrets', setup')
  BY <1>1, <1>2, <1>3, <1>4, <1>5, <1>6 DEF IInv, AccountInv, UsesGateway, Ours, ServingInv, FirstOf, GatewayDone,
     ReceiptInv
<1> QED
  BY <1>7, <1>8, <1>9, <1>10, <1>11, <1>12, <1>13 DEF IInv

\* UploadsSecrets: it landed, and the answer is lost.
LEMMA UploadsLostKeeps ==
  ASSUME IInv, UploadsSecrets(TRUE, FALSE)
  PROVE  IInv'
<1>1. UNCHANGED <<hour, receiptFile, cloudflare, serving, object>> /\ secrets' = AllBound /\ setup' = NoSetup
      /\ setup.does = "uploads secrets"
  BY DEF UploadsSecrets
<1>2. receiptFile \in Receipts /\ receiptFile # Nothing /\ setup.operation = "apply"
      /\ receiptFile.pending = Nothing /\ FirstOf(receiptFile) = "secrets" /\ ReceiptInv(receiptFile)
  BY <1>1, AtPhase
<1>3. secrets.epoch = 0 /\ object = 0 /\ secrets.token = "none" /\ receiptFile.attempted /\ receiptFile.epoch # 0
  BY <1>1, AtUpload
<1>4. secrets' \in Bound /\ secrets'.epoch = receiptFile.epoch /\ secrets'.keys = receiptFile.keys
      /\ secrets'.token \in {"installer", "none"}
  BY <1>1, AtUpload
<1>5. InstallerTypeOK'
  BY <1>1, <1>2, <1>3, <1>4, NoSetupIs DEF IInv, InstallerTypeOK
<1>6. receiptFile' # Nothing => ReceiptInv(receiptFile')
  BY <1>1, <1>2, <1>3, <1>4 DEF IInv
<1>7. RunInv(setup', receiptFile')
  BY <1>1, <1>2, <1>3, <1>4, NoSetupIs DEF IInv, RunInv
<1>8. SecretsInv(receiptFile', secrets', object', setup')
  BY <1>1, <1>2, <1>3, <1>4, NoSetupIs DEF IInv, SecretsInv, FirstOf, GatewayDone, ReceiptInv
<1>9. ServingInv(receiptFile', serving', secrets', object')
  BY <1>1, <1>2, <1>3, <1>4 DEF IInv, ServingInv, FirstOf, GatewayDone, ReceiptInv
<1>10. SettledInv(receiptFile', serving')
  BY <1>1, <1>2, <1>3, <1>4 DEF IInv
<1>11. AccountInv(receiptFile', hour', cloudflare', serving', secrets', setup')
  BY <1>1, <1>2, <1>3, <1>4, NoSetupIs DEF IInv, AccountInv, UsesGateway, ServingInv, FirstOf, GatewayDone, ReceiptInv
<1> QED
  BY <1>5, <1>6, <1>7, <1>8, <1>9, <1>10, <1>11 DEF IInv

\* UploadsSecrets.
LEMMA UploadsSecretsKeeps ==
  ASSUME IInv, NEW landed \in BOOLEAN, NEW heard \in BOOLEAN, UploadsSecrets(landed, heard)
  PROVE  IInv'
<1>1. CASE landed = TRUE /\ heard = TRUE
  BY <1>1, UploadsHeardKeeps
<1>2. CASE landed = TRUE /\ heard = FALSE
  BY <1>2, UploadsLostKeeps
<1>3. CASE landed = FALSE
  BY <1>3, StopsKeeps DEF UploadsSecrets
<1> QED
  BY <1>1, <1>2, <1>3

\* NothingUploaded: the attempt may be forgotten.
LEMMA NothingUploadedKeeps ==
  ASSUME IInv, NothingUploaded
  PROVE  IInv'
<1>1. UNCHANGED <<hour, cloudflare, serving, secrets, object>> /\ setup' = NoSetup /\ setup.does = "deploys"
  BY DEF NothingUploaded, remote
<1>2. receiptFile \in Receipts /\ receiptFile # Nothing /\ ReceiptInv(receiptFile)
  BY <1>1, AtDeploy
<1>3. /\ But(receiptFile', receiptFile, {"attempts"})
         /\ \A o \in Resource \ {"worker"} : receiptFile'.attempts[o] = receiptFile.attempts[o]
      /\ "deploy-initial" \in receiptFile.phases => receiptFile' = receiptFile
  <2>1. CASE setup.operation = "apply" /\ ~Has("deploy-initial")
    BY <1>2, <2>1, DropIs DEF NothingUploaded, IInv, Resource, Has
  <2>2. CASE ~(setup.operation = "apply" /\ ~Has("deploy-initial"))
    BY <1>2, <2>2 DEF NothingUploaded, But, Fields
  <2> QED
    BY <2>1, <2>2
<1>4. receiptFile'.phases = receiptFile.phases /\ receiptFile'.observed = receiptFile.observed
      /\ receiptFile'.epoch = receiptFile.epoch /\ receiptFile'.attempted = receiptFile.attempted
      /\ receiptFile'.last = receiptFile.last /\ receiptFile'.origin = receiptFile.origin
      /\ receiptFile'.transport = receiptFile.transport /\ receiptFile'.provider = receiptFile.provider
      /\ receiptFile'.keys = receiptFile.keys /\ receiptFile'.pending = receiptFile.pending
      /\ receiptFile'.probed = receiptFile.probed /\ receiptFile' \in Receipts /\ receiptFile' # Nothing
  BY <1>3, NothingIs DEF But, Fields
<1>5. receiptFile'.attempts["queue"] = receiptFile.attempts["queue"]
      /\ receiptFile'.attempts["gateway"] = receiptFile.attempts["gateway"]
  BY <1>3 DEF Resource
<1>6. InstallerTypeOK'
  BY <1>1, <1>2, <1>3, <1>4, <1>5, NoSetupIs DEF IInv, InstallerTypeOK
<1>7. receiptFile' # Nothing => ReceiptInv(receiptFile')
  BY <1>1, <1>2, <1>3, <1>4, <1>5 DEF IInv, ReceiptInv, GatewayDone, Ours
<1>8. RunInv(setup', receiptFile')
  BY <1>1, <1>2, <1>3, <1>4, <1>5, NoSetupIs DEF IInv, RunInv
<1>9. SecretsInv(receiptFile', secrets', object', setup')
  BY <1>1, <1>2, <1>3, <1>4, <1>5, NoSetupIs DEF IInv, SecretsInv
<1>10. ServingInv(receiptFile', serving', secrets', object')
  BY <1>1, <1>2, <1>3, <1>4, <1>5 DEF IInv, ServingInv
<1>11. SettledInv(receiptFile', serving')
  BY <1>1, <1>2, <1>3, <1>4, <1>5 DEF IInv, SettledInv, Settled
<1>12. AccountInv(receiptFile', hour', cloudflare', serving', secrets', setup')
  BY <1>1, <1>2, <1>3, <1>4, <1>5, NoSetupIs DEF IInv, AccountInv, UsesGateway
<1> QED
  BY <1>6, <1>7, <1>8, <1>9, <1>10, <1>11, <1>12 DEF IInv

\* The first deployment: recorded with the Worker it made.
LEMMA DeployedFirst ==
  ASSUME IInv, setup.does = "deploys", setup.operation = "apply", FirstOf(receiptFile) = "deploy-initial",
         Deploys
  PROVE  IInv'
<1>1. UNCHANGED <<hour, secrets, object>> /\ Landed
  BY DEF Deploys
<1>2. cloudflare' \in [Resource -> Things \cup {Nothing}] /\ Ours(cloudflare'["worker"], receiptFile.attempts["worker"])
     /\ cloudflare'["worker"] \in Things /\ cloudflare'["queue"] = cloudflare["queue"]
        /\ cloudflare'["gateway"] = cloudflare["gateway"]
  BY <1>1, LandedIs DEF Resource
<1>3. serving' \in Configs /\ serving' # Nothing /\ (serving'.bootstrap <=> "workspace-init" \notin receiptFile.phases)
     /\ serving'.origin = receiptFile.origin
     /\ serving'.provider = receiptFile.provider /\ serving'.transport = receiptFile.transport
  BY <1>1, ServedIs
<1>4. receiptFile \in Receipts /\ receiptFile # Nothing /\ ReceiptInv(receiptFile) /\ receiptFile.pending = Nothing
  BY AtDeploy
<1>5. PICK r \in Receipts : /\ But(r, receiptFile, {"last", "observed"}) /\ r.last = serving'
      /\ MarkPhase("deploy-initial", r)
                      /\ \A o \in Resource \ {"worker"} : r.observed[o] = receiptFile.observed[o]
  <2> DEFINE q == [receiptFile EXCEPT !.last = serving']
             r == [q EXCEPT !.observed["worker"] = cloudflare'["worker"]]
  <2>1. But(q, receiptFile, {"last"}) /\ q.last = serving' /\ q \in Receipts
    BY <1>3, <1>4 DEF Receipts, But, Fields
  <2>2. MarkPhase("deploy-initial", r)
    <3>1. ~Has("deploy-initial") /\ serving' = setup.config
      BY <1>1 DEF FirstOf, Has, Landed
    <3> QED
      BY <3>1 DEF Deploys, Deployed
  <2> HIDE DEF q
  <2>3. But(r, q, {"observed"}) /\ r \in Receipts /\ \A o \in Resource \ {"worker"} : r.observed[o] = q.observed[o]
    BY <1>2, <2>1 DEF Receipts, But, Fields, Resource
  <2> HIDE DEF r
  <2> QED
    BY <2>1, <2>2, <2>3 DEF But, Fields
<1>6. But(receiptFile', r, {"phases"}) /\ receiptFile'.phases = r.phases \cup {"deploy-initial"}
      /\ receiptFile' # Nothing
     /\ setup' \in Setups /\ setup'.operation = "apply" /\ RunInv(setup', receiptFile')
     /\ setup'.does \notin {"deploys", "uploads secrets", "switches", "creates gateway", "token"}
  <2>1. r.pending = Nothing
    BY <1>4, <1>5 DEF But, Fields
  <2> QED
    BY <1>5, <2>1, PhasesAre, MarksAt
<1>7. receiptFile'.attempts = receiptFile.attempts /\ receiptFile'.epoch = receiptFile.epoch
      /\ receiptFile'.attempted = receiptFile.attempted /\ receiptFile'.origin = receiptFile.origin
      /\ receiptFile'.transport = receiptFile.transport /\ receiptFile'.provider = receiptFile.provider
      /\ receiptFile'.keys = receiptFile.keys /\ receiptFile'.pending = receiptFile.pending
      /\ receiptFile'.probed = receiptFile.probed
     /\ receiptFile'.phases = receiptFile.phases \cup {"deploy-initial"} /\ receiptFile'.last = serving'
        /\ receiptFile' \in Receipts
     /\ receiptFile'.observed["queue"] = receiptFile.observed["queue"]
        /\ receiptFile'.observed["gateway"] = receiptFile.observed["gateway"]
  <2>1. r.observed["queue"] = receiptFile.observed["queue"] /\ r.observed["gateway"] = receiptFile.observed["gateway"]
    BY <1>5 DEF Resource
  <2> QED
    BY <1>5, <1>6, <2>1 DEF But, Fields
<1>8. InstallerTypeOK'
  BY <1>1, <1>2, <1>3, <1>4, <1>5, <1>6, <1>7 DEF IInv, InstallerTypeOK
<1>9. receiptFile' # Nothing => ReceiptInv(receiptFile')
  BY <1>1, <1>2, <1>3, <1>4, <1>5, <1>6, <1>7 DEF IInv, ReceiptInv, GatewayDone, Ours, FirstOf
<1>10. RunInv(setup', receiptFile')
  BY <1>1, <1>2, <1>3, <1>4, <1>5, <1>6, <1>7 DEF IInv
<1>11. SecretsInv(receiptFile', secrets', object', setup')
  BY <1>1, <1>2, <1>3, <1>4, <1>5, <1>6, <1>7 DEF IInv, SecretsInv, FirstOf
<1>12. ServingInv(receiptFile', serving', secrets', object')
  BY <1>1, <1>2, <1>3, <1>4, <1>5, <1>6, <1>7 DEF IInv, ServingInv, FirstOf, ReceiptInv, GatewayDone
<1>13. SettledInv(receiptFile', serving')
  BY <1>1, <1>2, <1>3, <1>4, <1>5, <1>6, <1>7 DEF IInv, SettledInv, Settled, FirstOf, ReceiptInv, GatewayDone
<1>14. AccountInv(receiptFile', hour', cloudflare', serving', secrets', setup')
  BY <1>1, <1>2, <1>3, <1>4, <1>5, <1>6, <1>7 DEF IInv, AccountInv, UsesGateway, Ours, FirstOf, ReceiptInv, GatewayDone
<1> QED
  BY <1>8, <1>9, <1>10, <1>11, <1>12, <1>13, <1>14 DEF IInv

\* The origin reached the Worker.
LEMMA DeployedOrigin ==
  ASSUME IInv, setup.does = "deploys", setup.operation = "apply", FirstOf(receiptFile) = "origin", Deploys
  PROVE  IInv'
<1>1. UNCHANGED <<hour, secrets, object>> /\ Landed
  BY DEF Deploys
<1>2. cloudflare' \in [Resource -> Things \cup {Nothing}] /\ Ours(cloudflare'["worker"], receiptFile.attempts["worker"])
     /\ cloudflare'["worker"] \in Things /\ cloudflare'["queue"] = cloudflare["queue"]
        /\ cloudflare'["gateway"] = cloudflare["gateway"]
  BY <1>1, LandedIs DEF Resource
<1>3. serving' \in Configs /\ serving' # Nothing /\ (serving'.bootstrap <=> "workspace-init" \notin receiptFile.phases)
     /\ serving'.origin = receiptFile.origin
     /\ serving'.provider = receiptFile.provider /\ serving'.transport = receiptFile.transport
     /\ serving' = [bootstrap |-> "workspace-init" \notin receiptFile.phases, origin |-> receiptFile.origin,
                    provider |-> serving'.provider, transport |-> serving'.transport]
  BY <1>1, ServedIs
<1>4. receiptFile \in Receipts /\ receiptFile # Nothing /\ ReceiptInv(receiptFile) /\ receiptFile.pending = Nothing
      /\ receiptFile.origin
  BY AtDeploy
<1>5. PICK r \in Receipts : But(r, receiptFile, {"last"}) /\ r.last = serving' /\ MarkPhase("origin", r)
  <2> DEFINE r == [receiptFile EXCEPT !.last = serving']
  <2>1. But(r, receiptFile, {"last"}) /\ r.last = serving' /\ r \in Receipts
    BY <1>3, <1>4 DEF Receipts, But, Fields
  <2>2. Has("deploy-initial") /\ serving' = setup.config /\ FirstIncomplete(receiptFile) = "origin"
    BY <1>1, FirstIs DEF FirstOf, Has, Landed
  <2>3. MarkPhase("origin", r)
    BY <2>2 DEF Deploys, Deployed
  <2> HIDE DEF r
  <2> QED
    BY <2>1, <2>3
<1>6. But(receiptFile', r, {"phases"}) /\ receiptFile'.phases = r.phases \cup {"origin"} /\ receiptFile' # Nothing
     /\ setup' \in Setups /\ setup'.operation = "apply" /\ RunInv(setup', receiptFile')
     /\ setup'.does \notin {"deploys", "uploads secrets", "switches", "creates gateway", "token"}
  <2>1. r.pending = Nothing
    BY <1>4, <1>5 DEF But, Fields
  <2> QED
    BY <1>5, <2>1, PhasesAre, MarksAt
<1>7. receiptFile'.attempts = receiptFile.attempts /\ receiptFile'.observed = receiptFile.observed
      /\ receiptFile'.epoch = receiptFile.epoch /\ receiptFile'.attempted = receiptFile.attempted
      /\ receiptFile'.origin = receiptFile.origin /\ receiptFile'.transport = receiptFile.transport
      /\ receiptFile'.provider = receiptFile.provider /\ receiptFile'.keys = receiptFile.keys
      /\ receiptFile'.pending = receiptFile.pending /\ receiptFile'.probed = receiptFile.probed
     /\ receiptFile'.phases = receiptFile.phases \cup {"origin"} /\ receiptFile'.last = serving'
        /\ receiptFile' \in Receipts
  BY <1>5, <1>6 DEF But, Fields
<1>8. InstallerTypeOK'
  BY <1>1, <1>2, <1>3, <1>4, <1>5, <1>6, <1>7 DEF IInv, InstallerTypeOK
<1>9. receiptFile' # Nothing => ReceiptInv(receiptFile')
  BY <1>1, <1>2, <1>3, <1>4, <1>5, <1>6, <1>7 DEF IInv, ReceiptInv, GatewayDone, Ours, FirstOf
<1>10. RunInv(setup', receiptFile')
  BY <1>1, <1>2, <1>3, <1>4, <1>5, <1>6, <1>7 DEF IInv
<1>11. SecretsInv(receiptFile', secrets', object', setup')
  BY <1>1, <1>2, <1>3, <1>4, <1>5, <1>6, <1>7 DEF IInv, SecretsInv, FirstOf
<1>12. ServingInv(receiptFile', serving', secrets', object')
  BY <1>1, <1>2, <1>3, <1>4, <1>5, <1>6, <1>7 DEF IInv, ServingInv, FirstOf, SecretsInv, ReceiptInv
<1>13. SettledInv(receiptFile', serving')
  BY <1>1, <1>2, <1>3, <1>4, <1>5, <1>6, <1>7 DEF IInv, SettledInv, Settled, FirstOf, ReceiptInv
<1>14. AccountInv(receiptFile', hour', cloudflare', serving', secrets', setup')
  BY <1>1, <1>2, <1>3, <1>4, <1>5, <1>6, <1>7 DEF IInv, AccountInv, UsesGateway, Ours, FirstOf, ReceiptInv, GatewayDone
<1> QED
  BY <1>8, <1>9, <1>10, <1>11, <1>12, <1>13, <1>14 DEF IInv

\* The Worker runs without its bootstrap.
LEMMA DeployedCleared ==
  ASSUME IInv, setup.does = "deploys", setup.operation = "apply", FirstOf(receiptFile) = "bootstrap-clear", Deploys
  PROVE  IInv'
<1>1. UNCHANGED <<hour, secrets, object>> /\ Landed
  BY DEF Deploys
<1>2. cloudflare' \in [Resource -> Things \cup {Nothing}] /\ Ours(cloudflare'["worker"], receiptFile.attempts["worker"])
     /\ cloudflare'["worker"] \in Things /\ cloudflare'["queue"] = cloudflare["queue"]
        /\ cloudflare'["gateway"] = cloudflare["gateway"]
  BY <1>1, LandedIs DEF Resource
<1>3. serving' \in Configs /\ serving' # Nothing /\ (serving'.bootstrap <=> "workspace-init" \notin receiptFile.phases)
     /\ serving'.origin = receiptFile.origin
     /\ serving'.provider = receiptFile.provider /\ serving'.transport = receiptFile.transport
     /\ serving' = [bootstrap |-> "workspace-init" \notin receiptFile.phases, origin |-> receiptFile.origin,
                    provider |-> serving'.provider, transport |-> serving'.transport]
  BY <1>1, ServedIs
<1>4. receiptFile \in Receipts /\ receiptFile # Nothing /\ ReceiptInv(receiptFile) /\ receiptFile.pending = Nothing
  BY AtDeploy
<1>5. PICK r \in Receipts : But(r, receiptFile, {"last"}) /\ r.last = serving' /\ MarkPhase("bootstrap-clear", r)
  <2> DEFINE r == [receiptFile EXCEPT !.last = serving']
  <2>1. But(r, receiptFile, {"last"}) /\ r.last = serving' /\ r \in Receipts
    BY <1>3, <1>4 DEF Receipts, But, Fields
  <2>2. Has("deploy-initial") /\ serving' = setup.config /\ FirstIncomplete(receiptFile) = "bootstrap-clear"
    BY <1>1, FirstIs DEF FirstOf, Has, Landed
  <2>3. MarkPhase("bootstrap-clear", r)
    BY <2>2 DEF Deploys, Deployed
  <2> HIDE DEF r
  <2> QED
    BY <2>1, <2>3
<1>6. But(receiptFile', r, {"phases"}) /\ receiptFile'.phases = r.phases \cup {"bootstrap-clear"}
      /\ receiptFile' # Nothing
     /\ setup' \in Setups /\ setup'.operation = "apply" /\ RunInv(setup', receiptFile')
     /\ setup'.does \notin {"deploys", "uploads secrets", "switches", "creates gateway", "token"}
  <2>1. r.pending = Nothing
    BY <1>4, <1>5 DEF But, Fields
  <2> QED
    BY <1>5, <2>1, PhasesAre, MarksAt
<1>7. receiptFile'.attempts = receiptFile.attempts /\ receiptFile'.observed = receiptFile.observed
      /\ receiptFile'.epoch = receiptFile.epoch /\ receiptFile'.attempted = receiptFile.attempted
      /\ receiptFile'.origin = receiptFile.origin /\ receiptFile'.transport = receiptFile.transport
      /\ receiptFile'.provider = receiptFile.provider /\ receiptFile'.keys = receiptFile.keys
      /\ receiptFile'.pending = receiptFile.pending /\ receiptFile'.probed = receiptFile.probed
     /\ receiptFile'.phases = receiptFile.phases \cup {"bootstrap-clear"} /\ receiptFile'.last = serving'
        /\ receiptFile' \in Receipts
  BY <1>5, <1>6 DEF But, Fields
<1>8. InstallerTypeOK'
  BY <1>1, <1>2, <1>3, <1>4, <1>5, <1>6, <1>7 DEF IInv, InstallerTypeOK
<1>9. receiptFile' # Nothing => ReceiptInv(receiptFile')
  BY <1>1, <1>2, <1>3, <1>4, <1>5, <1>6, <1>7 DEF IInv, ReceiptInv, GatewayDone, Ours, FirstOf
<1>10. RunInv(setup', receiptFile')
  BY <1>1, <1>2, <1>3, <1>4, <1>5, <1>6, <1>7 DEF IInv
<1>11. SecretsInv(receiptFile', secrets', object', setup')
  BY <1>1, <1>2, <1>3, <1>4, <1>5, <1>6, <1>7 DEF IInv, SecretsInv, FirstOf
<1>12. ServingInv(receiptFile', serving', secrets', object')
  BY <1>1, <1>2, <1>3, <1>4, <1>5, <1>6, <1>7 DEF IInv, ServingInv, FirstOf, SecretsInv, ReceiptInv
<1>13. SettledInv(receiptFile', serving')
  BY <1>1, <1>2, <1>3, <1>4, <1>5, <1>6, <1>7 DEF IInv, SettledInv, Settled, FirstOf, ReceiptInv
<1>14. AccountInv(receiptFile', hour', cloudflare', serving', secrets', setup')
  BY <1>1, <1>2, <1>3, <1>4, <1>5, <1>6, <1>7 DEF IInv, AccountInv, UsesGateway, Ours, FirstOf, ReceiptInv, GatewayDone
<1> QED
  BY <1>8, <1>9, <1>10, <1>11, <1>12, <1>13, <1>14 DEF IInv

\* update: the same, deployed again.
LEMMA DeployedAgain ==
  ASSUME IInv, setup.does = "deploys", setup.operation = "deploy", Deploys
  PROVE  IInv'
<1>1. UNCHANGED <<hour, secrets, object>> /\ Landed
  BY DEF Deploys
<1>2. cloudflare' \in [Resource -> Things \cup {Nothing}] /\ Ours(cloudflare'["worker"], receiptFile.attempts["worker"])
     /\ cloudflare'["worker"] \in Things /\ cloudflare'["queue"] = cloudflare["queue"]
        /\ cloudflare'["gateway"] = cloudflare["gateway"]
  BY <1>1, LandedIs DEF Resource
<1>3. serving' \in Configs /\ serving' # Nothing /\ (serving'.bootstrap <=> "workspace-init" \notin receiptFile.phases)
     /\ serving'.origin = receiptFile.origin
     /\ serving'.provider = receiptFile.provider /\ serving'.transport = receiptFile.transport
     /\ serving' = [bootstrap |-> "workspace-init" \notin receiptFile.phases, origin |-> receiptFile.origin,
                    provider |-> serving'.provider, transport |-> serving'.transport]
  BY <1>1, ServedIs
<1>4. receiptFile \in Receipts /\ receiptFile # Nothing /\ ReceiptInv(receiptFile)
      /\ "bootstrap-clear" \in receiptFile.phases /\ receiptFile.pending = Nothing
  BY AtDeploy
<1>5. setup' = NoSetup /\ receiptFile' = [receiptFile EXCEPT !.last = serving']
  <2>1. serving' = setup.config
    BY <1>1 DEF Landed
  <2> QED
    BY <2>1 DEF Deploys, Deployed
<1>6. But(receiptFile', receiptFile, {"last"}) /\ receiptFile'.last = serving'
  BY <1>3, <1>4, <1>5 DEF Receipts, But, Fields
<1>7. receiptFile'.phases = receiptFile.phases /\ receiptFile'.attempts = receiptFile.attempts
      /\ receiptFile'.observed = receiptFile.observed /\ receiptFile'.epoch = receiptFile.epoch
      /\ receiptFile'.attempted = receiptFile.attempted /\ receiptFile'.origin = receiptFile.origin
      /\ receiptFile'.transport = receiptFile.transport /\ receiptFile'.provider = receiptFile.provider
      /\ receiptFile'.keys = receiptFile.keys /\ receiptFile'.pending = receiptFile.pending
      /\ receiptFile'.probed = receiptFile.probed /\ receiptFile' \in Receipts /\ receiptFile' # Nothing
  BY <1>6, NothingIs DEF But, Fields
<1>8. InstallerTypeOK'
  BY <1>1, <1>2, <1>3, <1>4, <1>5, <1>6, <1>7, NoSetupIs DEF IInv, InstallerTypeOK
<1>9. receiptFile' # Nothing => ReceiptInv(receiptFile')
  BY <1>1, <1>2, <1>3, <1>4, <1>5, <1>6, <1>7 DEF IInv, ReceiptInv, GatewayDone, Ours
<1>10. RunInv(setup', receiptFile')
  BY <1>1, <1>2, <1>3, <1>4, <1>5, <1>6, <1>7, NoSetupIs DEF IInv, RunInv
<1>11. SecretsInv(receiptFile', secrets', object', setup')
  BY <1>1, <1>2, <1>3, <1>4, <1>5, <1>6, <1>7, NoSetupIs DEF IInv, SecretsInv
<1>12. ServingInv(receiptFile', serving', secrets', object')
  BY <1>1, <1>2, <1>3, <1>4, <1>5, <1>6, <1>7 DEF IInv, ServingInv, SecretsInv, ReceiptInv
<1>13. SettledInv(receiptFile', serving')
  BY <1>1, <1>2, <1>3, <1>4, <1>5, <1>6, <1>7 DEF IInv, SettledInv, Settled, ReceiptInv
<1>14. AccountInv(receiptFile', hour', cloudflare', serving', secrets', setup')
  BY <1>1, <1>2, <1>3, <1>4, <1>5, <1>6, <1>7, NoSetupIs DEF IInv, AccountInv, UsesGateway, Ours, ReceiptInv,
     GatewayDone
<1> QED
  BY <1>8, <1>9, <1>10, <1>11, <1>12, <1>13, <1>14 DEF IInv

\* update: another provider, whose key is bound.
LEMMA DeployedProvider ==
  ASSUME IInv, setup.does = "deploys", setup.operation = "provider", Deploys
  PROVE  IInv'
<1>1. UNCHANGED <<hour, secrets, object>> /\ Landed
  BY DEF Deploys
<1>2. cloudflare' \in [Resource -> Things \cup {Nothing}] /\ Ours(cloudflare'["worker"], receiptFile.attempts["worker"])
     /\ cloudflare'["worker"] \in Things /\ cloudflare'["queue"] = cloudflare["queue"]
        /\ cloudflare'["gateway"] = cloudflare["gateway"]
  BY <1>1, LandedIs DEF Resource
<1>3. serving' \in Configs /\ serving' # Nothing /\ (serving'.bootstrap <=> "workspace-init" \notin receiptFile.phases)
     /\ serving'.origin = receiptFile.origin
     /\ serving'.provider = setup.to /\ serving'.transport = receiptFile.transport
     /\ serving' = [bootstrap |-> "workspace-init" \notin receiptFile.phases, origin |-> receiptFile.origin,
                    provider |-> serving'.provider, transport |-> serving'.transport]
  BY <1>1, ServedIs
<1>4. receiptFile \in Receipts /\ receiptFile # Nothing /\ ReceiptInv(receiptFile)
      /\ "bootstrap-clear" \in receiptFile.phases /\ setup.to \in Provider /\ setup.to \in secrets.keys
  BY AtDeploy
<1>5. setup' = NoSetup /\ receiptFile' = [[receiptFile EXCEPT !.last = serving'] EXCEPT !.provider = setup.to,
      !.keys = @ \cup {setup.to}, !.pending = Nothing]
  <2>1. serving' = setup.config
    BY <1>1 DEF Landed
  <2> QED
    BY <2>1 DEF Deploys, Deployed
<1>6. But(receiptFile', receiptFile, {"last", "provider", "keys", "pending"}) /\ receiptFile'.last = serving'
      /\ receiptFile'.provider = setup.to /\ receiptFile'.pending = Nothing
     /\ receiptFile'.keys = receiptFile.keys \cup {setup.to}
  <2> DEFINE q == [receiptFile EXCEPT !.last = serving']
  <2>1. But(q, receiptFile, {"last"}) /\ q.last = serving' /\ q \in Receipts
    BY <1>3, <1>4 DEF Receipts, But, Fields
  <2> HIDE DEF q
  <2>2. receiptFile' = [q EXCEPT !.provider = setup.to, !.keys = @ \cup {setup.to}, !.pending = Nothing]
    BY <1>5 DEF q
  <2>3. But(receiptFile', q, {"provider", "keys", "pending"}) /\ receiptFile'.provider = setup.to
        /\ receiptFile'.pending = Nothing
        /\ receiptFile'.keys = q.keys \cup {setup.to}
    BY <1>4, <2>1, <2>2 DEF Receipts, But, Fields
  <2> QED
    BY <2>1, <2>3 DEF But, Fields
<1>7. receiptFile'.phases = receiptFile.phases /\ receiptFile'.attempts = receiptFile.attempts
      /\ receiptFile'.observed = receiptFile.observed /\ receiptFile'.epoch = receiptFile.epoch
      /\ receiptFile'.attempted = receiptFile.attempted /\ receiptFile'.origin = receiptFile.origin
      /\ receiptFile'.transport = receiptFile.transport /\ receiptFile'.probed = receiptFile.probed
      /\ receiptFile' \in Receipts /\ receiptFile' # Nothing
  BY <1>6, NothingIs DEF But, Fields
<1>8. InstallerTypeOK'
  BY <1>1, <1>2, <1>3, <1>4, <1>5, <1>6, <1>7, NoSetupIs DEF IInv, InstallerTypeOK
<1>9. receiptFile' # Nothing => ReceiptInv(receiptFile')
  BY <1>1, <1>2, <1>3, <1>4, <1>5, <1>6, <1>7 DEF IInv, ReceiptInv, GatewayDone, Ours
<1>10. RunInv(setup', receiptFile')
  BY <1>1, <1>2, <1>3, <1>4, <1>5, <1>6, <1>7, NoSetupIs DEF IInv, RunInv
<1>11. SecretsInv(receiptFile', secrets', object', setup')
  BY <1>1, <1>2, <1>3, <1>4, <1>5, <1>6, <1>7, NoSetupIs DEF IInv, SecretsInv
<1>12. ServingInv(receiptFile', serving', secrets', object')
  BY <1>1, <1>2, <1>3, <1>4, <1>5, <1>6, <1>7 DEF IInv, ServingInv, SecretsInv, ReceiptInv
<1>13. SettledInv(receiptFile', serving')
  BY <1>1, <1>2, <1>3, <1>4, <1>5, <1>6, <1>7 DEF IInv, SettledInv, Settled, ReceiptInv
<1>14. AccountInv(receiptFile', hour', cloudflare', serving', secrets', setup')
  BY <1>1, <1>2, <1>3, <1>4, <1>5, <1>6, <1>7, NoSetupIs DEF IInv, AccountInv, UsesGateway, Ours, ReceiptInv,
     GatewayDone
<1> QED
  BY <1>8, <1>9, <1>10, <1>11, <1>12, <1>13, <1>14 DEF IInv

\* update: another transport; a gateway it uses is ours, and its token probed.
LEMMA DeployedTransport ==
  ASSUME IInv, setup.does = "deploys", setup.operation = "ai-transport", Deploys
  PROVE  IInv'
<1>1. UNCHANGED <<hour, secrets, object>> /\ Landed
  BY DEF Deploys
<1>2. cloudflare' \in [Resource -> Things \cup {Nothing}] /\ Ours(cloudflare'["worker"], receiptFile.attempts["worker"])
     /\ cloudflare'["worker"] \in Things /\ cloudflare'["queue"] = cloudflare["queue"]
        /\ cloudflare'["gateway"] = cloudflare["gateway"]
  BY <1>1, LandedIs DEF Resource
<1>3. serving' \in Configs /\ serving' # Nothing /\ (serving'.bootstrap <=> "workspace-init" \notin receiptFile.phases)
     /\ serving'.origin = receiptFile.origin
     /\ serving'.provider = receiptFile.provider /\ serving'.transport = setup.to
     /\ serving' = [bootstrap |-> "workspace-init" \notin receiptFile.phases, origin |-> receiptFile.origin,
                    provider |-> serving'.provider, transport |-> serving'.transport]
  BY <1>1, ServedIs
<1>4. receiptFile \in Receipts /\ receiptFile # Nothing /\ ReceiptInv(receiptFile)
      /\ "bootstrap-clear" \in receiptFile.phases /\ setup.to \in Transport /\ (setup.to = Gateway
      => receiptFile.probed)
  BY AtDeploy
<1>5. setup' = NoSetup /\ receiptFile' = [[receiptFile EXCEPT !.last = serving'] EXCEPT !.transport = setup.to,
      !.pending = Nothing,
         !.phases = @ \cup IF setup.to = Gateway THEN {"ai-gateway"} ELSE {}]
  <2>1. serving' = setup.config
    BY <1>1 DEF Landed
  <2> QED
    BY <2>1 DEF Deploys, Deployed
<1>6. But(receiptFile', receiptFile, {"last", "transport", "phases", "pending"}) /\ receiptFile'.last = serving'
      /\ receiptFile'.transport = setup.to /\ receiptFile'.pending = Nothing
     /\ receiptFile'.phases = receiptFile.phases \cup IF setup.to = Gateway THEN {"ai-gateway"} ELSE {}
  <2> DEFINE q == [receiptFile EXCEPT !.last = serving']
             more == IF setup.to = Gateway THEN {"ai-gateway"} ELSE {}
  <2>1. But(q, receiptFile, {"last"}) /\ q.last = serving' /\ q \in Receipts
    BY <1>3, <1>4 DEF Receipts, But, Fields
  <2>2. more \subseteq {Phases[n] : n \in DOMAIN Phases}
    BY PhasesAre
  <2> HIDE DEF q, more
  <2>3. receiptFile' = [q EXCEPT !.transport = setup.to, !.pending = Nothing, !.phases = @ \cup more]
    BY <1>5 DEF q, more
  <2>4. But(receiptFile', q, {"transport", "phases", "pending"}) /\ receiptFile'.transport = setup.to
        /\ receiptFile'.pending = Nothing
        /\ receiptFile'.phases = q.phases \cup more
    BY <1>4, <2>1, <2>2, <2>3 DEF Receipts, But, Fields
  <2> QED
    BY <2>1, <2>4 DEF But, Fields, more
<1>7. receiptFile'.attempts = receiptFile.attempts /\ receiptFile'.observed = receiptFile.observed
      /\ receiptFile'.epoch = receiptFile.epoch /\ receiptFile'.attempted = receiptFile.attempted
      /\ receiptFile'.origin = receiptFile.origin /\ receiptFile'.provider = receiptFile.provider
      /\ receiptFile'.keys = receiptFile.keys /\ receiptFile'.probed = receiptFile.probed
      /\ receiptFile' \in Receipts /\ receiptFile' # Nothing
  BY <1>6, NothingIs DEF But, Fields
<1>8. InstallerTypeOK'
  BY <1>1, <1>2, <1>3, <1>4, <1>5, <1>6, <1>7, NoSetupIs DEF IInv, InstallerTypeOK
<1>9. receiptFile' # Nothing => ReceiptInv(receiptFile')
  BY <1>1, <1>2, <1>3, <1>4, <1>5, <1>6, <1>7 DEF IInv, ReceiptInv, GatewayDone, Ours
<1>10. RunInv(setup', receiptFile')
  BY <1>1, <1>2, <1>3, <1>4, <1>5, <1>6, <1>7, NoSetupIs DEF IInv, RunInv
<1>11. SecretsInv(receiptFile', secrets', object', setup')
  BY <1>1, <1>2, <1>3, <1>4, <1>5, <1>6, <1>7, NoSetupIs DEF IInv, SecretsInv
<1>12. ServingInv(receiptFile', serving', secrets', object')
  BY <1>1, <1>2, <1>3, <1>4, <1>5, <1>6, <1>7 DEF IInv, ServingInv, SecretsInv, ReceiptInv
<1>13. SettledInv(receiptFile', serving')
  BY <1>1, <1>2, <1>3, <1>4, <1>5, <1>6, <1>7 DEF IInv, SettledInv, Settled, ReceiptInv
<1>14. AccountInv(receiptFile', hour', cloudflare', serving', secrets', setup')
  BY <1>1, <1>2, <1>3, <1>4, <1>5, <1>6, <1>7, NoSetupIs DEF IInv, AccountInv, UsesGateway, Ours, ReceiptInv,
     GatewayDone
<1> QED
  BY <1>8, <1>9, <1>10, <1>11, <1>12, <1>13, <1>14 DEF IInv

\* Deploys.
LEMMA DeploysKeeps ==
  ASSUME IInv, Deploys
  PROVE  IInv'
<1>1. setup.does = "deploys"
  BY DEF Deploys
<1> QED
  BY <1>1, AtDeploy, DeployedFirst, DeployedOrigin, DeployedCleared, DeployedAgain, DeployedProvider, DeployedTransport

\* A deployment that landed and was not recorded, or was before the run died.
LEMMA LandedKeeps ==
  ASSUME IInv, NEW recorded \in BOOLEAN, setup.does = "deploys", Landed,
         setup' = NoSetup, UNCHANGED <<hour, secrets, object>>,
         receiptFile' = IF recorded THEN [receiptFile EXCEPT !.last = setup.config] ELSE receiptFile
  PROVE  IInv'
<1>1. serving' = setup.config
  BY DEF Landed
<1>2. cloudflare' \in [Resource -> Things \cup {Nothing}] /\ Ours(cloudflare'["worker"], receiptFile.attempts["worker"])
     /\ cloudflare'["worker"] \in Things /\ cloudflare'["queue"] = cloudflare["queue"]
        /\ cloudflare'["gateway"] = cloudflare["gateway"]
  BY LandedIs DEF Resource
<1>3. serving' \in Configs /\ serving' # Nothing /\ (serving'.bootstrap <=> "workspace-init" \notin receiptFile.phases)
     /\ serving'.origin = receiptFile.origin
     /\ serving'.provider = (IF setup.operation = "provider" THEN setup.to ELSE receiptFile.provider)
     /\ serving'.transport = (IF setup.operation = "ai-transport" THEN setup.to ELSE receiptFile.transport)
     /\ serving' = [bootstrap |-> "workspace-init" \notin receiptFile.phases, origin |-> receiptFile.origin,
                    provider |-> serving'.provider, transport |-> serving'.transport]
  BY ServedIs
<1>4. receiptFile \in Receipts /\ receiptFile # Nothing /\ ReceiptInv(receiptFile)
     /\ \/ /\ setup.operation = "apply" /\ receiptFile.pending = Nothing
           /\ FirstOf(receiptFile) \in {"deploy-initial", "origin", "bootstrap-clear"}
        \/ setup.operation = "deploy" /\ "bootstrap-clear" \in receiptFile.phases /\ receiptFile.pending = Nothing
        \/ /\ setup.operation = "provider" /\ "bootstrap-clear" \in receiptFile.phases
           /\ receiptFile.pending # Nothing /\ receiptFile.pending.kind = "provider" /\ setup.to \in secrets.keys
        \/ /\ setup.operation = "ai-transport" /\ "bootstrap-clear" \in receiptFile.phases
           /\ receiptFile.pending # Nothing /\ receiptFile.pending.kind = "ai-transport" 
  BY AtDeploy
<1>5. But(receiptFile', receiptFile, {"last"}) /\ receiptFile'.last \in {serving', receiptFile.last}
  BY <1>1, <1>3, <1>4 DEF Receipts, But, Fields
<1>6. receiptFile'.phases = receiptFile.phases /\ receiptFile'.attempts = receiptFile.attempts
      /\ receiptFile'.observed = receiptFile.observed /\ receiptFile'.epoch = receiptFile.epoch
      /\ receiptFile'.attempted = receiptFile.attempted /\ receiptFile'.origin = receiptFile.origin
      /\ receiptFile'.transport = receiptFile.transport /\ receiptFile'.provider = receiptFile.provider
      /\ receiptFile'.keys = receiptFile.keys /\ receiptFile'.pending = receiptFile.pending
      /\ receiptFile'.probed = receiptFile.probed /\ receiptFile' \in Receipts /\ receiptFile' # Nothing
  BY <1>5, NothingIs DEF But, Fields
<1>7. \/ setup.operation = "apply" /\ "bootstrap-clear" \notin receiptFile.phases /\ receiptFile.pending = Nothing
        /\ ("secrets" \in receiptFile.phases => receiptFile.provider \in secrets.keys)
     \/ "bootstrap-clear" \in receiptFile.phases
  BY <1>4 DEF FirstOf, IInv, SecretsInv
<1>8. InstallerTypeOK'
  BY <1>1, <1>2, <1>3, <1>4, <1>5, <1>6, <1>7, NoSetupIs DEF IInv, InstallerTypeOK
<1>9. receiptFile' # Nothing => ReceiptInv(receiptFile')
  BY <1>1, <1>2, <1>3, <1>4, <1>5, <1>6, <1>7 DEF IInv, ReceiptInv, GatewayDone, Ours, FirstOf
<1>10. RunInv(setup', receiptFile')
  BY <1>1, <1>2, <1>3, <1>4, <1>5, <1>6, <1>7, NoSetupIs DEF IInv, RunInv
<1>11. SecretsInv(receiptFile', secrets', object', setup')
  BY <1>1, <1>2, <1>3, <1>4, <1>5, <1>6, <1>7, NoSetupIs DEF IInv, SecretsInv
<1>12. ServingInv(receiptFile', serving', secrets', object')
  BY <1>1, <1>2, <1>3, <1>4, <1>5, <1>6, <1>7 DEF IInv, ServingInv, SecretsInv, ReceiptInv
<1>13. SettledInv(receiptFile', serving')
  BY <1>1, <1>2, <1>3, <1>4, <1>5, <1>6, <1>7 DEF IInv, SettledInv, Settled, FirstOf, ReceiptInv
<1>14. AccountInv(receiptFile', hour', cloudflare', serving', secrets', setup')
  BY <1>1, <1>2, <1>3, <1>4, <1>5, <1>6, <1>7, NoSetupIs DEF IInv, AccountInv, UsesGateway, Ours, ReceiptInv,
     GatewayDone, FirstOf
<1> QED
  BY <1>8, <1>9, <1>10, <1>11, <1>12, <1>13, <1>14 DEF IInv

\* DeployLost.
LEMMA DeployLostKeeps ==
  ASSUME IInv, NEW landed \in BOOLEAN, NEW recorded \in BOOLEAN, DeployLost(landed, recorded)
  PROVE  IInv'
<1>1. CASE landed
  BY <1>1, LandedKeeps DEF DeployLost
<1>2. CASE ~landed
  BY <1>2, StopsKeeps DEF DeployLost
<1> QED
  BY <1>1, <1>2

\* The change a run makes is recorded as pending before it makes any.
LEMMA PendingIs ==
  ASSUME InstallerTypeOK, receiptFile \in Receipts,
         NEW operation \in {"provider", "ai-transport", "add-provider-key", "rotate-ai-gateway-token"},
         NEW from \in Provider \cup Transport \cup {""}, NEW to \in Provider \cup Transport \cup {""},
         NEW does \in {"ai-gateway", "switches", "uploads key", "records key", "rotates token"},
         receiptFile.pending # Nothing => receiptFile.pending.kind = operation,
         PendingBegins(operation, from, to, does)
  PROVE  /\ But(receiptFile', receiptFile, {"pending"})
         /\ receiptFile'.pending # Nothing /\ receiptFile'.pending.kind = operation
         /\ setup' \in Setups /\ setup'.does = does /\ setup'.operation = operation /\ setup'.to = to
         /\ setup'.token = (to = Gateway /\ secrets.token = "none")
<1> DEFINE given == to = Gateway /\ secrets.token = "none"
           change == IF receiptFile.pending = Nothing THEN [kind |-> operation, from |-> from,
           to |-> to] ELSE receiptFile.pending
<1>1. change \in Changes /\ change.kind = operation
  <2>1. [kind |-> operation, from |-> from, to |-> to] \in Changes
    BY DEF Changes
  <2> QED
    BY <2>1, ReceiptTyped
<1>2. given \in BOOLEAN
  OBVIOUS
<1>3. receiptFile' = [receiptFile EXCEPT !.pending = change]
  BY DEF PendingBegins
<1>4. setup' = [NoSetup EXCEPT !.does = does, !.operation = operation, !.to = to, !.token = given]
  BY DEF PendingBegins
<1> HIDE DEF change, given
<1>5. But(receiptFile', receiptFile, {"pending"}) /\ receiptFile'.pending = change
  BY <1>1, <1>3 DEF Receipts, But, Fields
<1>6. does \in {Phases[n] : n \in DOMAIN Phases} \cup {"switches", "uploads key", "records key", "rotates token"}
  BY PhasesAre
<1>7. setup' = [does |-> does, operation |-> operation, to |-> to, epoch |-> 0, token |-> given, only |-> TRUE,
      config |-> Nothing]
  BY <1>4 DEF NoSetup
<1>8. setup' \in Setups
  <2>1. 0 \in 0..MaxMade
    BY NoSetupIs
  <2> QED
    BY <1>2, <1>6, <1>7, <2>1 DEF Setups
<1> QED
  BY <1>1, <1>5, <1>7, <1>8, NothingIs DEF given

\* ChangeProvider: to one whose key is bound, or is uploaded first.
LEMMA ChangeProviderKeeps ==
  ASSUME IInv, NEW to \in Provider, ChangeProvider(to)
  PROVE  IInv'
<1>1. UNCHANGED <<hour, cloudflare, serving, secrets, object>>
     /\ setup = NoSetup /\ receiptFile # Nothing /\ "bootstrap-clear" \in receiptFile.phases
  BY DEF ChangeProvider, UpdateBegins, remote, Has
<1>2. receiptFile \in Receipts /\ receiptFile # Nothing /\ ReceiptInv(receiptFile)
  BY <1>1 DEF IInv, InstallerTypeOK
<1>3. But(receiptFile', receiptFile, {"pending"}) /\ receiptFile'.pending # Nothing
      /\ receiptFile'.pending.kind = "provider"
     /\ setup' \in Setups /\ setup'.does = (IF to \in secrets.keys THEN "switches" ELSE "uploads key")
        /\ setup'.operation = "provider" /\ setup'.to = to
     /\ setup'.token = (to = Gateway /\ secrets.token = "none")
     /\ (receiptFile.pending # Nothing => receiptFile.pending.kind = "provider")
  <2>1. receiptFile.pending # Nothing => receiptFile.pending.kind = "provider"
    BY <1>1 DEF ChangeProvider, UpdateBegins, Finishes
  <2>2. receiptFile.provider \in Provider /\ receiptFile.transport \in Transport
    BY <1>2, ReceiptTyped
  <2>3. PendingBegins("provider", receiptFile.provider, to, (IF to \in secrets.keys THEN "switches" ELSE "uploads key"))
    BY DEF ChangeProvider
  <2> QED
    BY <1>2, <2>1, <2>2, <2>3, PendingIs DEF IInv, Provider, Transport
<1>4. receiptFile'.phases = receiptFile.phases /\ receiptFile'.attempts = receiptFile.attempts
      /\ receiptFile'.observed = receiptFile.observed /\ receiptFile'.epoch = receiptFile.epoch
      /\ receiptFile'.attempted = receiptFile.attempted /\ receiptFile'.last = receiptFile.last
      /\ receiptFile'.origin = receiptFile.origin /\ receiptFile'.transport = receiptFile.transport
      /\ receiptFile'.provider = receiptFile.provider /\ receiptFile'.keys = receiptFile.keys
      /\ receiptFile'.probed = receiptFile.probed /\ receiptFile' \in Receipts /\ receiptFile' # Nothing
  BY <1>3, NothingIs DEF But, Fields
<1>5. InstallerTypeOK'
  BY <1>1, <1>2, <1>3, <1>4 DEF IInv, InstallerTypeOK
<1>6. receiptFile' # Nothing => ReceiptInv(receiptFile')
  BY <1>1, <1>2, <1>3, <1>4 DEF IInv, ReceiptInv, GatewayDone, Ours
<1>7. RunInv(setup', receiptFile')
  BY <1>1, <1>2, <1>3, <1>4, NoSetupIs DEF IInv, RunInv, Applies, Updates, Transport, Gateway
<1>8. SecretsInv(receiptFile', secrets', object', setup')
  BY <1>1, <1>2, <1>3, <1>4, NoSetupIs DEF IInv, SecretsInv
<1>9. ServingInv(receiptFile', serving', secrets', object')
  BY <1>1, <1>2, <1>3, <1>4 DEF IInv, ServingInv
<1>10. SettledInv(receiptFile', serving')
  BY <1>1, <1>2, <1>3, <1>4 DEF IInv, SettledInv, Settled
<1>11. AccountInv(receiptFile', hour', cloudflare', serving', secrets', setup')
  BY <1>1, <1>2, <1>3, <1>4, NoSetupIs DEF IInv, AccountInv, UsesGateway, Ours, ReceiptInv
<1> QED
  BY <1>5, <1>6, <1>7, <1>8, <1>9, <1>10, <1>11 DEF IInv

\* AddKey: the key of the other provider.
LEMMA AddKeyKeeps ==
  ASSUME IInv, AddKey
  PROVE  IInv'
<1>1. UNCHANGED <<hour, cloudflare, serving, secrets, object>>
     /\ setup = NoSetup /\ receiptFile # Nothing /\ "bootstrap-clear" \in receiptFile.phases
  BY DEF AddKey, UpdateBegins, remote, Has
<1>2. receiptFile \in Receipts /\ receiptFile # Nothing /\ ReceiptInv(receiptFile)
  BY <1>1 DEF IInv, InstallerTypeOK
<1>3. But(receiptFile', receiptFile, {"pending"}) /\ receiptFile'.pending # Nothing
      /\ receiptFile'.pending.kind = "add-provider-key"
     /\ setup' \in Setups /\ setup'.does = (IF "other" \in secrets.keys THEN "records key" ELSE "uploads key")
        /\ setup'.operation = "add-provider-key" /\ setup'.to = "other"
     /\ setup'.token = ("other" = Gateway /\ secrets.token = "none")
     /\ (receiptFile.pending # Nothing => receiptFile.pending.kind = "add-provider-key")
  <2>1. receiptFile.pending # Nothing => receiptFile.pending.kind = "add-provider-key"
    BY <1>1 DEF AddKey, UpdateBegins, Finishes
  <2>2. receiptFile.provider \in Provider /\ receiptFile.transport \in Transport
    BY <1>2, ReceiptTyped
  <2>3. PendingBegins("add-provider-key", "", "other", (IF "other" \in secrets.keys THEN "records key" ELSE "uploads key"))
    BY DEF AddKey
  <2> QED
    BY <1>2, <2>1, <2>2, <2>3, PendingIs DEF IInv, Provider, Transport
<1>4. receiptFile'.phases = receiptFile.phases /\ receiptFile'.attempts = receiptFile.attempts
      /\ receiptFile'.observed = receiptFile.observed /\ receiptFile'.epoch = receiptFile.epoch
      /\ receiptFile'.attempted = receiptFile.attempted /\ receiptFile'.last = receiptFile.last
      /\ receiptFile'.origin = receiptFile.origin /\ receiptFile'.transport = receiptFile.transport
      /\ receiptFile'.provider = receiptFile.provider /\ receiptFile'.keys = receiptFile.keys
      /\ receiptFile'.probed = receiptFile.probed /\ receiptFile' \in Receipts /\ receiptFile' # Nothing
  BY <1>3, NothingIs DEF But, Fields
<1>5. InstallerTypeOK'
  BY <1>1, <1>2, <1>3, <1>4 DEF IInv, InstallerTypeOK
<1>6. receiptFile' # Nothing => ReceiptInv(receiptFile')
  BY <1>1, <1>2, <1>3, <1>4 DEF IInv, ReceiptInv, GatewayDone, Ours
<1>7. RunInv(setup', receiptFile')
  BY <1>1, <1>2, <1>3, <1>4, NoSetupIs DEF IInv, RunInv, Applies, Updates, Transport, Gateway
<1>8. SecretsInv(receiptFile', secrets', object', setup')
  BY <1>1, <1>2, <1>3, <1>4, NoSetupIs DEF IInv, SecretsInv
<1>9. ServingInv(receiptFile', serving', secrets', object')
  BY <1>1, <1>2, <1>3, <1>4 DEF IInv, ServingInv
<1>10. SettledInv(receiptFile', serving')
  BY <1>1, <1>2, <1>3, <1>4 DEF IInv, SettledInv, Settled
<1>11. AccountInv(receiptFile', hour', cloudflare', serving', secrets', setup')
  BY <1>1, <1>2, <1>3, <1>4, NoSetupIs DEF IInv, AccountInv, UsesGateway, Ours, ReceiptInv
<1> QED
  BY <1>5, <1>6, <1>7, <1>8, <1>9, <1>10, <1>11 DEF IInv

\* RotateToken: with the transport and the provider as they are.
LEMMA RotateTokenKeeps ==
  ASSUME IInv, RotateToken
  PROVE  IInv'
<1>1. UNCHANGED <<hour, cloudflare, serving, secrets, object>>
     /\ setup = NoSetup /\ receiptFile # Nothing /\ "bootstrap-clear" \in receiptFile.phases
  BY DEF RotateToken, UpdateBegins, remote, Has
<1>2. receiptFile \in Receipts /\ receiptFile # Nothing /\ ReceiptInv(receiptFile)
  BY <1>1 DEF IInv, InstallerTypeOK
<1>3. But(receiptFile', receiptFile, {"pending"}) /\ receiptFile'.pending # Nothing
      /\ receiptFile'.pending.kind = "rotate-ai-gateway-token"
     /\ setup' \in Setups /\ setup'.does = "rotates token" /\ setup'.operation = "rotate-ai-gateway-token"
        /\ setup'.to = ""
     /\ setup'.token = ("" = Gateway /\ secrets.token = "none")
     /\ (receiptFile.pending # Nothing => receiptFile.pending.kind = "rotate-ai-gateway-token")
  <2>1. receiptFile.pending # Nothing => receiptFile.pending.kind = "rotate-ai-gateway-token"
    BY <1>1 DEF RotateToken, UpdateBegins, Finishes
  <2>2. receiptFile.provider \in Provider /\ receiptFile.transport \in Transport
    BY <1>2, ReceiptTyped
  <2>3. PendingBegins("rotate-ai-gateway-token", "", "", "rotates token")
    BY DEF RotateToken
  <2> QED
    BY <1>2, <2>1, <2>2, <2>3, PendingIs DEF IInv, Provider, Transport
<1>4. receiptFile'.phases = receiptFile.phases /\ receiptFile'.attempts = receiptFile.attempts
      /\ receiptFile'.observed = receiptFile.observed /\ receiptFile'.epoch = receiptFile.epoch
      /\ receiptFile'.attempted = receiptFile.attempted /\ receiptFile'.last = receiptFile.last
      /\ receiptFile'.origin = receiptFile.origin /\ receiptFile'.transport = receiptFile.transport
      /\ receiptFile'.provider = receiptFile.provider /\ receiptFile'.keys = receiptFile.keys
      /\ receiptFile'.probed = receiptFile.probed /\ receiptFile' \in Receipts /\ receiptFile' # Nothing
  BY <1>3, NothingIs DEF But, Fields
<1>5. InstallerTypeOK'
  BY <1>1, <1>2, <1>3, <1>4 DEF IInv, InstallerTypeOK
<1>6. receiptFile' # Nothing => ReceiptInv(receiptFile')
  BY <1>1, <1>2, <1>3, <1>4 DEF IInv, ReceiptInv, GatewayDone, Ours
<1>7. RunInv(setup', receiptFile')
  BY <1>1, <1>2, <1>3, <1>4, NoSetupIs DEF IInv, RunInv, Applies, Updates, Transport, Gateway
<1>8. SecretsInv(receiptFile', secrets', object', setup')
  BY <1>1, <1>2, <1>3, <1>4, NoSetupIs DEF IInv, SecretsInv
<1>9. ServingInv(receiptFile', serving', secrets', object')
  BY <1>1, <1>2, <1>3, <1>4 DEF IInv, ServingInv
<1>10. SettledInv(receiptFile', serving')
  BY <1>1, <1>2, <1>3, <1>4 DEF IInv, SettledInv, Settled
<1>11. AccountInv(receiptFile', hour', cloudflare', serving', secrets', setup')
  BY <1>1, <1>2, <1>3, <1>4, NoSetupIs DEF IInv, AccountInv, UsesGateway, Ours, ReceiptInv
<1> QED
  BY <1>5, <1>6, <1>7, <1>8, <1>9, <1>10, <1>11 DEF IInv

\* ChangeTransport: to the gateway with a Run token that was probed, or one that is given.
LEMMA ChangeTransportKeeps ==
  ASSUME IInv, NEW to \in Transport, ChangeTransport(to)
  PROVE  IInv'
<1>1. UNCHANGED <<hour, cloudflare, serving, secrets, object>>
     /\ setup = NoSetup /\ receiptFile # Nothing /\ "bootstrap-clear" \in receiptFile.phases /\ (to = Gateway
        => secrets.token = "none" \/ receiptFile.probed)
  BY DEF ChangeTransport, UpdateBegins, remote, Has, TokenRecorded
<1>2. receiptFile \in Receipts /\ receiptFile # Nothing /\ ReceiptInv(receiptFile)
  BY <1>1 DEF IInv, InstallerTypeOK
<1>3. But(receiptFile', receiptFile, {"pending"}) /\ receiptFile'.pending # Nothing
      /\ receiptFile'.pending.kind = "ai-transport"
     /\ setup' \in Setups /\ setup'.does = (IF to = Gateway THEN "ai-gateway" ELSE "switches")
        /\ setup'.operation = "ai-transport" /\ setup'.to = to
     /\ setup'.token = (to = Gateway /\ secrets.token = "none")
     /\ (receiptFile.pending # Nothing => receiptFile.pending.kind = "ai-transport")
  <2>1. receiptFile.pending # Nothing => receiptFile.pending.kind = "ai-transport"
    BY <1>1 DEF ChangeTransport, UpdateBegins, Finishes
  <2>2. receiptFile.provider \in Provider /\ receiptFile.transport \in Transport
    BY <1>2, ReceiptTyped
  <2>3. PendingBegins("ai-transport", receiptFile.transport, to, (IF to = Gateway THEN "ai-gateway" ELSE "switches"))
    BY DEF ChangeTransport
  <2> QED
    BY <1>2, <2>1, <2>2, <2>3, PendingIs DEF IInv, Provider, Transport
<1>4. receiptFile'.phases = receiptFile.phases /\ receiptFile'.attempts = receiptFile.attempts
      /\ receiptFile'.observed = receiptFile.observed /\ receiptFile'.epoch = receiptFile.epoch
      /\ receiptFile'.attempted = receiptFile.attempted /\ receiptFile'.last = receiptFile.last
      /\ receiptFile'.origin = receiptFile.origin /\ receiptFile'.transport = receiptFile.transport
      /\ receiptFile'.provider = receiptFile.provider /\ receiptFile'.keys = receiptFile.keys
      /\ receiptFile'.probed = receiptFile.probed /\ receiptFile' \in Receipts /\ receiptFile' # Nothing
  BY <1>3, NothingIs DEF But, Fields
<1>5. receiptFile.probed \in BOOLEAN /\ receiptFile'.probed \in BOOLEAN
  BY <1>2, <1>4, ReceiptTyped
<1>6. InstallerTypeOK'
  BY <1>1, <1>2, <1>3, <1>4, <1>5 DEF IInv, InstallerTypeOK
<1>7. receiptFile' # Nothing => ReceiptInv(receiptFile')
  BY <1>1, <1>2, <1>3, <1>4, <1>5 DEF IInv, ReceiptInv, GatewayDone, Ours
<1>8. RunInv(setup', receiptFile')
  BY <1>1, <1>2, <1>3, <1>4, <1>5, NoSetupIs DEF IInv, RunInv, Applies, Updates, Transport, Gateway
<1>9. SecretsInv(receiptFile', secrets', object', setup')
  BY <1>1, <1>2, <1>3, <1>4, <1>5, NoSetupIs DEF IInv, SecretsInv
<1>10. ServingInv(receiptFile', serving', secrets', object')
  BY <1>1, <1>2, <1>3, <1>4, <1>5 DEF IInv, ServingInv
<1>11. SettledInv(receiptFile', serving')
  BY <1>1, <1>2, <1>3, <1>4, <1>5 DEF IInv, SettledInv, Settled
<1>12. AccountInv(receiptFile', hour', cloudflare', serving', secrets', setup')
  BY <1>1, <1>2, <1>3, <1>4, <1>5, NoSetupIs DEF IInv, AccountInv, UsesGateway, Ours, ReceiptInv
<1> QED
  BY <1>6, <1>7, <1>8, <1>9, <1>10, <1>11, <1>12 DEF IInv

\* UpdateDeploys: what the receipt says.
LEMMA UpdateDeploysKeeps ==
  ASSUME IInv, UpdateDeploys
  PROVE  IInv'
<1>1. UNCHANGED <<hour, receiptFile, cloudflare, serving, secrets, object>> /\ receiptFile # Nothing
      /\ "bootstrap-clear" \in receiptFile.phases /\ receiptFile.pending = Nothing
  BY DEF UpdateDeploys, UpdateBegins, remote, Has
<1>2. receiptFile \in Receipts /\ receiptFile # Nothing /\ ReceiptInv(receiptFile)
  BY <1>1 DEF IInv, InstallerTypeOK
<1>3. setup' \in Setups /\ setup'.does = "deploys" /\ setup'.operation = "deploy"
     /\ setup'.config = ConfigOf(receiptFile, receiptFile.provider, receiptFile.transport)
  <2> DEFINE config == ConfigOf(receiptFile, receiptFile.provider, receiptFile.transport)
  <2>1. config \in Configs
    BY <1>2, ConfigIs, ReceiptTyped
  <2>2. setup' = [NoSetup EXCEPT !.does = "deploys", !.operation = "deploy", !.config = config]
    BY DEF UpdateDeploys
  <2> HIDE DEF config
  <2>3. setup' = [does |-> "deploys", operation |-> "deploy", to |-> "", epoch |-> 0, token |-> FALSE,
        only |-> TRUE, config |-> config]
    BY <2>2 DEF NoSetup
  <2>4. setup' \in Setups
    <3>1. 0 \in 0..MaxMade
      BY InstallerAssumption
    <3> QED
      BY <2>1, <2>3, <3>1 DEF Setups
  <2> QED
    BY <2>3, <2>4 DEF config
<1>4. InstallerTypeOK'
  BY <1>1, <1>2, <1>3 DEF IInv, InstallerTypeOK
<1>5. receiptFile' # Nothing => ReceiptInv(receiptFile')
  BY <1>1, <1>2, <1>3 DEF IInv, ReceiptInv, GatewayDone, Ours
<1>6. RunInv(setup', receiptFile')
  BY <1>1, <1>2, <1>3 DEF IInv, RunInv, Applies, Updates
<1>7. SecretsInv(receiptFile', secrets', object', setup')
  BY <1>1, <1>2, <1>3 DEF IInv, SecretsInv
<1>8. ServingInv(receiptFile', serving', secrets', object')
  BY <1>1, <1>2, <1>3 DEF IInv, ServingInv
<1>9. SettledInv(receiptFile', serving')
  BY <1>1, <1>2, <1>3 DEF IInv, SettledInv, Settled
<1>10. AccountInv(receiptFile', hour', cloudflare', serving', secrets', setup')
  BY <1>1, <1>2, <1>3 DEF IInv, AccountInv, UsesGateway, Ours, ReceiptInv
<1> QED
  BY <1>4, <1>5, <1>6, <1>7, <1>8, <1>9, <1>10 DEF IInv

\* What a run of `update' does, it does for one operation.
LEMMA AtUpdate ==
  ASSUME IInv, setup.does \in {"switches", "uploads key", "records key", "token", "rotates token"}
  PROVE  /\ receiptFile \in Receipts /\ receiptFile # Nothing /\ ReceiptInv(receiptFile) /\ Updates(setup, receiptFile)
         /\ "bootstrap-clear" \in receiptFile.phases /\ receiptFile.pending # Nothing
            /\ receiptFile.pending.kind = setup.operation
         /\ setup.does = "switches" => setup.operation \in {"provider", "ai-transport"}
         /\ setup.does = "uploads key" => setup.operation \in {"provider", "add-provider-key"}
         /\ setup.does = "records key" => setup.operation = "add-provider-key" /\ setup.to = "other"
         /\ setup.does = "token" => setup.operation = "ai-transport" /\ setup.to = Gateway
         /\ setup.does = "rotates token" => setup.operation = "rotate-ai-gateway-token"
<1>1. receiptFile # Nothing /\ Applies(setup, receiptFile) /\ Updates(setup, receiptFile)
  BY DEF IInv, RunInv
<1>2. receiptFile \in Receipts /\ ReceiptInv(receiptFile) /\ setup \in Setups
  BY <1>1 DEF IInv, InstallerTypeOK
<1>3. setup.operation \in {"provider", "add-provider-key", "ai-transport", "rotate-ai-gateway-token"}
  BY <1>1, <1>2, RunTyped, FirstTyped DEF Updates, Applies, WorksOn
<1>4. "bootstrap-clear" \in receiptFile.phases /\ receiptFile.pending # Nothing
      /\ receiptFile.pending.kind = setup.operation
  BY <1>1, <1>3 DEF Updates
<1>5. setup.operation = "ai-transport" => setup.to \in {"direct", Gateway} /\ (setup.does = "token"
      => setup.to = Gateway)
  BY <1>1 DEF Updates, Transport
<1> QED
  BY <1>1, <1>2, <1>3, <1>4, <1>5 DEF Updates

\* A run of `update' goes on to what comes next.
LEMMA GoesOn ==
  ASSUME InstallerTypeOK, NEW does \in {"switches", "records key"}, setup' = [setup EXCEPT !.does = does]
  PROVE  ButRun(setup', setup, {"does"}) /\ setup'.does = does
BY DEF InstallerTypeOK, Setups, ButRun, RunFields

\* UploadsKey: it landed, and the answer came.
LEMMA UploadsKeyHeard ==
  ASSUME IInv, UploadsKey(TRUE, TRUE)
  PROVE  IInv'
<1>1. UNCHANGED <<hour, receiptFile, cloudflare, serving, object>> /\ setup.does = "uploads key"
  BY DEF UploadsKey
<1>2. receiptFile \in Receipts /\ receiptFile # Nothing /\ ReceiptInv(receiptFile) /\ Updates(setup, receiptFile)
      /\ setup.operation \in {"provider", "add-provider-key"}
     /\ "bootstrap-clear" \in receiptFile.phases /\ receiptFile.pending # Nothing
  BY <1>1, AtUpdate
<1>3. secrets' \in Bound /\ secrets'.epoch = secrets.epoch /\ secrets'.token = secrets.token
      /\ secrets'.keys = secrets.keys \cup {setup.to}
  <2>1. setup.to \in Provider /\ secrets \in Bound
    BY <1>2 DEF Updates, Provider, IInv, InstallerTypeOK
  <2>2. secrets' = [secrets EXCEPT !.keys = @ \cup {setup.to}]
    BY DEF UploadsKey
  <2> QED
    BY <2>1, <2>2 DEF Bound
<1>4. ButRun(setup', setup, {"does"}) /\ setup'.does = AfterKey
  <2>1. AfterKey \in {"switches", "records key"}
    BY DEF AfterKey
  <2>2. setup' = [setup EXCEPT !.does = AfterKey]
    BY DEF UploadsKey
  <2> QED
    BY <2>1, <2>2, GoesOn DEF IInv
<1>5. setup'.operation = setup.operation /\ setup'.to = setup.to /\ setup'.epoch = setup.epoch
      /\ setup'.token = setup.token /\ setup'.only = setup.only /\ setup'.config = setup.config
      /\ setup' \in Setups /\ setup'.does = IF setup.operation = "provider" THEN "switches" ELSE "records key"
  BY <1>4 DEF ButRun, RunFields, AfterKey
<1>6. InstallerTypeOK'
  BY <1>1, <1>2, <1>3, <1>4, <1>5, NoSetupIs DEF IInv, InstallerTypeOK
<1>7. receiptFile' # Nothing => ReceiptInv(receiptFile')
  BY <1>1, <1>2, <1>3, <1>4, <1>5 DEF IInv
<1>8. RunInv(setup', receiptFile')
  BY <1>1, <1>2, <1>3, <1>4, <1>5, NoSetupIs DEF IInv, RunInv, Applies, Updates, Transport, Gateway
<1>9. SecretsInv(receiptFile', secrets', object', setup')
  BY <1>1, <1>2, <1>3, <1>4, <1>5, NoSetupIs DEF IInv, SecretsInv
<1>10. ServingInv(receiptFile', serving', secrets', object')
  BY <1>1, <1>2, <1>3, <1>4, <1>5 DEF IInv, ServingInv
<1>11. SettledInv(receiptFile', serving')
  BY <1>1, <1>2, <1>3, <1>4, <1>5 DEF IInv
<1>12. AccountInv(receiptFile', hour', cloudflare', serving', secrets', setup')
  BY <1>1, <1>2, <1>3, <1>4, <1>5, NoSetupIs DEF IInv, AccountInv, UsesGateway
<1> QED
  BY <1>6, <1>7, <1>8, <1>9, <1>10, <1>11, <1>12 DEF IInv

\* UploadsKey: it landed, and the answer is lost.
LEMMA UploadsKeyLost ==
  ASSUME IInv, UploadsKey(TRUE, FALSE)
  PROVE  IInv'
<1>1. UNCHANGED <<hour, receiptFile, cloudflare, serving, object>> /\ setup.does = "uploads key"
  BY DEF UploadsKey
<1>2. receiptFile \in Receipts /\ receiptFile # Nothing /\ ReceiptInv(receiptFile) /\ Updates(setup, receiptFile)
      /\ setup.operation \in {"provider", "add-provider-key"}
     /\ "bootstrap-clear" \in receiptFile.phases /\ receiptFile.pending # Nothing
  BY <1>1, AtUpdate
<1>3. secrets' \in Bound /\ secrets'.epoch = secrets.epoch /\ secrets'.token = secrets.token
      /\ secrets'.keys = secrets.keys \cup {setup.to}
  <2>1. setup.to \in Provider /\ secrets \in Bound
    BY <1>2 DEF Updates, Provider, IInv, InstallerTypeOK
  <2>2. secrets' = [secrets EXCEPT !.keys = @ \cup {setup.to}]
    BY DEF UploadsKey
  <2> QED
    BY <2>1, <2>2 DEF Bound
<1>4. setup' = NoSetup
  BY DEF UploadsKey
<1>5. InstallerTypeOK'
  BY <1>1, <1>2, <1>3, <1>4, NoSetupIs DEF IInv, InstallerTypeOK
<1>6. receiptFile' # Nothing => ReceiptInv(receiptFile')
  BY <1>1, <1>2, <1>3, <1>4 DEF IInv
<1>7. RunInv(setup', receiptFile')
  BY <1>1, <1>2, <1>3, <1>4, NoSetupIs DEF IInv, RunInv, Applies, Updates, Transport, Gateway
<1>8. SecretsInv(receiptFile', secrets', object', setup')
  BY <1>1, <1>2, <1>3, <1>4, NoSetupIs DEF IInv, SecretsInv
<1>9. ServingInv(receiptFile', serving', secrets', object')
  BY <1>1, <1>2, <1>3, <1>4 DEF IInv, ServingInv
<1>10. SettledInv(receiptFile', serving')
  BY <1>1, <1>2, <1>3, <1>4 DEF IInv
<1>11. AccountInv(receiptFile', hour', cloudflare', serving', secrets', setup')
  BY <1>1, <1>2, <1>3, <1>4, NoSetupIs DEF IInv, AccountInv, UsesGateway
<1> QED
  BY <1>5, <1>6, <1>7, <1>8, <1>9, <1>10, <1>11 DEF IInv

\* UploadsKey.
LEMMA UploadsKeyKeeps ==
  ASSUME IInv, NEW landed \in BOOLEAN, NEW heard \in BOOLEAN, UploadsKey(landed, heard)
  PROVE  IInv'
<1>1. CASE landed = TRUE /\ heard = TRUE
  BY <1>1, UploadsKeyHeard
<1>2. CASE landed = TRUE /\ heard = FALSE
  BY <1>2, UploadsKeyLost
<1>3. CASE landed = FALSE
  BY <1>3, StopsKeeps DEF UploadsKey
<1> QED
  BY <1>1, <1>2, <1>3

\* RecordsKey: a key that was added.
LEMMA RecordsKeyKeeps ==
  ASSUME IInv, RecordsKey
  PROVE  IInv'
<1>1. UNCHANGED <<hour, cloudflare, serving, secrets, object>> /\ setup' = NoSetup /\ setup.does = "records key"
  BY DEF RecordsKey, remote
<1>2. receiptFile \in Receipts /\ receiptFile # Nothing /\ ReceiptInv(receiptFile)
      /\ "bootstrap-clear" \in receiptFile.phases /\ receiptFile.pending # Nothing
      /\ receiptFile.pending.kind = "add-provider-key" /\ setup.to = "other"
  BY <1>1, AtUpdate
<1>3. But(receiptFile', receiptFile, {"keys", "pending"}) /\ receiptFile'.pending = Nothing
      /\ receiptFile'.keys = receiptFile.keys \cup {"other"}
  BY <1>2 DEF RecordsKey, Receipts, But, Fields, Provider
<1>4. receiptFile'.phases = receiptFile.phases /\ receiptFile'.attempts = receiptFile.attempts
      /\ receiptFile'.observed = receiptFile.observed /\ receiptFile'.epoch = receiptFile.epoch
      /\ receiptFile'.attempted = receiptFile.attempted /\ receiptFile'.last = receiptFile.last
      /\ receiptFile'.origin = receiptFile.origin /\ receiptFile'.transport = receiptFile.transport
      /\ receiptFile'.provider = receiptFile.provider /\ receiptFile'.probed = receiptFile.probed
      /\ receiptFile' \in Receipts /\ receiptFile' # Nothing
  BY <1>3, NothingIs DEF But, Fields
<1>5. InstallerTypeOK'
  BY <1>1, <1>2, <1>3, <1>4, NoSetupIs DEF IInv, InstallerTypeOK
<1>6. receiptFile' # Nothing => ReceiptInv(receiptFile')
  BY <1>1, <1>2, <1>3, <1>4 DEF IInv, ReceiptInv, GatewayDone, Ours
<1>7. RunInv(setup', receiptFile')
  BY <1>1, <1>2, <1>3, <1>4, NoSetupIs DEF IInv, RunInv
<1>8. SecretsInv(receiptFile', secrets', object', setup')
  BY <1>1, <1>2, <1>3, <1>4, NoSetupIs DEF IInv, SecretsInv
<1>9. ServingInv(receiptFile', serving', secrets', object')
  BY <1>1, <1>2, <1>3, <1>4 DEF IInv, ServingInv
<1>10. SettledInv(receiptFile', serving')
  BY <1>1, <1>2, <1>3, <1>4 DEF IInv, SettledInv, Settled
<1>11. AccountInv(receiptFile', hour', cloudflare', serving', secrets', setup')
  BY <1>1, <1>2, <1>3, <1>4, NoSetupIs DEF IInv, AccountInv, UsesGateway
<1> QED
  BY <1>5, <1>6, <1>7, <1>8, <1>9, <1>10, <1>11 DEF IInv

\* ForgetKey: one that is not of the provider recorded.
LEMMA ForgetKeyKeeps ==
  ASSUME IInv, ForgetKey
  PROVE  IInv'
<1>1. UNCHANGED <<hour, cloudflare, serving, secrets, object, setup>> /\ setup = NoSetup /\ receiptFile # Nothing
      /\ "bootstrap-clear" \in receiptFile.phases /\ receiptFile.pending = Nothing
  BY DEF ForgetKey, UpdateBegins, remote, Has
<1>2. receiptFile \in Receipts /\ receiptFile # Nothing /\ ReceiptInv(receiptFile)
  BY <1>1 DEF IInv, InstallerTypeOK
<1>3. But(receiptFile', receiptFile, {"keys"}) /\ receiptFile'.keys = receiptFile.keys \ {"other"}
  BY <1>2 DEF ForgetKey, Receipts, But, Fields
<1>4. receiptFile'.phases = receiptFile.phases /\ receiptFile'.attempts = receiptFile.attempts
      /\ receiptFile'.observed = receiptFile.observed /\ receiptFile'.epoch = receiptFile.epoch
      /\ receiptFile'.attempted = receiptFile.attempted /\ receiptFile'.last = receiptFile.last
      /\ receiptFile'.origin = receiptFile.origin /\ receiptFile'.transport = receiptFile.transport
      /\ receiptFile'.provider = receiptFile.provider /\ receiptFile'.pending = receiptFile.pending
      /\ receiptFile'.probed = receiptFile.probed /\ receiptFile' \in Receipts /\ receiptFile' # Nothing
  BY <1>3, NothingIs DEF But, Fields
<1>5. InstallerTypeOK'
  BY <1>1, <1>2, <1>3, <1>4 DEF IInv, InstallerTypeOK
<1>6. receiptFile' # Nothing => ReceiptInv(receiptFile')
  BY <1>1, <1>2, <1>3, <1>4 DEF IInv, ReceiptInv, GatewayDone, Ours
<1>7. RunInv(setup', receiptFile')
  BY <1>1, <1>2, <1>3, <1>4, NoSetupIs DEF IInv, RunInv
<1>8. SecretsInv(receiptFile', secrets', object', setup')
  BY <1>1, <1>2, <1>3, <1>4, NoSetupIs DEF IInv, SecretsInv
<1>9. ServingInv(receiptFile', serving', secrets', object')
  BY <1>1, <1>2, <1>3, <1>4 DEF IInv, ServingInv
<1>10. SettledInv(receiptFile', serving')
  BY <1>1, <1>2, <1>3, <1>4 DEF IInv, SettledInv, Settled
<1>11. AccountInv(receiptFile', hour', cloudflare', serving', secrets', setup')
  BY <1>1, <1>2, <1>3, <1>4, NoSetupIs DEF IInv, AccountInv, UsesGateway
<1> QED
  BY <1>5, <1>6, <1>7, <1>8, <1>9, <1>10, <1>11 DEF IInv

\* UploadsToken: the token of a run is probed, and bound by now or before.
LEMMA UploadsTokenGoesOn ==
  ASSUME IInv, NEW landed \in BOOLEAN, NEW heard \in BOOLEAN, UploadsToken(landed, heard), setup' # NoSetup
  PROVE  IInv'
<1>1. UNCHANGED <<hour, receiptFile, cloudflare, serving, object>> /\ setup.does = "token"
  BY DEF UploadsToken
<1>2. receiptFile \in Receipts /\ receiptFile # Nothing /\ ReceiptInv(receiptFile) /\ Updates(setup, receiptFile)
      /\ setup.operation = "ai-transport" /\ setup.to = Gateway
     /\ "bootstrap-clear" \in receiptFile.phases /\ receiptFile.pending # Nothing /\ receiptFile.probed
  BY <1>1, AtUpdate DEF Updates
<1>3. secrets' \in Bound /\ secrets'.epoch = secrets.epoch /\ secrets'.keys = secrets.keys
      /\ secrets'.token \in {secrets.token, "installer"} /\ secrets.epoch # 0 /\ (setup.token
      => secrets'.token = "installer")
  <2>1. secrets \in Bound /\ secrets.epoch # 0
    BY <1>2 DEF IInv, InstallerTypeOK, SecretsInv, ReceiptInv
  <2>2. secrets' = (IF setup.token THEN [secrets EXCEPT !.token = "installer"] ELSE secrets)
    BY DEF UploadsToken
  <2> QED
    BY <2>1, <2>2 DEF Bound
<1>4. ButRun(setup', setup, {"does"}) /\ setup'.does = "switches"
  <2>1. setup' = [setup EXCEPT !.does = "switches"]
    BY DEF UploadsToken
  <2> QED
    BY <2>1, GoesOn DEF IInv
<1>5. setup'.operation = setup.operation /\ setup'.to = setup.to /\ setup'.epoch = setup.epoch
      /\ setup'.token = setup.token /\ setup'.only = setup.only /\ setup'.config = setup.config /\ setup' \in Setups
  BY <1>4 DEF ButRun, RunFields
<1>6. InstallerTypeOK'
  BY <1>1, <1>2, <1>3, <1>4, <1>5, NoSetupIs DEF IInv, InstallerTypeOK
<1>7. receiptFile' # Nothing => ReceiptInv(receiptFile')
  BY <1>1, <1>2, <1>3, <1>4, <1>5 DEF IInv
<1>8. RunInv(setup', receiptFile')
  BY <1>1, <1>2, <1>3, <1>4, <1>5, NoSetupIs DEF IInv, RunInv, Applies, Updates, Transport, Gateway
<1>9. SecretsInv(receiptFile', secrets', object', setup')
  BY <1>1, <1>2, <1>3, <1>4, <1>5, NoSetupIs DEF IInv, SecretsInv
<1>10. ServingInv(receiptFile', serving', secrets', object')
  BY <1>1, <1>2, <1>3, <1>4, <1>5 DEF IInv, ServingInv
<1>11. SettledInv(receiptFile', serving')
  BY <1>1, <1>2, <1>3, <1>4, <1>5 DEF IInv
<1>12. AccountInv(receiptFile', hour', cloudflare', serving', secrets', setup')
  BY <1>1, <1>2, <1>3, <1>4, <1>5, NoSetupIs DEF IInv, AccountInv, UsesGateway
<1> QED
  BY <1>6, <1>7, <1>8, <1>9, <1>10, <1>11, <1>12 DEF IInv

\* UploadsToken: the answer is lost, whether it landed or not.
LEMMA UploadsTokenStops ==
  ASSUME IInv, NEW landed \in BOOLEAN, NEW heard \in BOOLEAN, UploadsToken(landed, heard), setup' = NoSetup
  PROVE  IInv'
<1>1. UNCHANGED <<hour, receiptFile, cloudflare, serving, object>> /\ setup.does = "token"
  BY DEF UploadsToken
<1>2. receiptFile \in Receipts /\ receiptFile # Nothing /\ ReceiptInv(receiptFile) /\ Updates(setup, receiptFile)
      /\ setup.operation = "ai-transport" /\ setup.to = Gateway
     /\ "bootstrap-clear" \in receiptFile.phases /\ receiptFile.pending # Nothing /\ receiptFile.probed
  BY <1>1, AtUpdate DEF Updates
<1>3. secrets' \in Bound /\ secrets'.epoch = secrets.epoch /\ secrets'.keys = secrets.keys
      /\ secrets'.token \in {secrets.token, "installer"} /\ secrets.epoch # 0
  <2>1. secrets \in Bound /\ secrets.epoch # 0
    BY <1>2 DEF IInv, InstallerTypeOK, SecretsInv, ReceiptInv
  <2>2. secrets' = [secrets EXCEPT !.token = "installer"] \/ secrets' = secrets
    BY DEF UploadsToken
  <2> QED
    BY <2>1, <2>2 DEF Bound
<1>4. InstallerTypeOK'
  BY <1>1, <1>2, <1>3, NoSetupIs DEF IInv, InstallerTypeOK
<1>5. receiptFile' # Nothing => ReceiptInv(receiptFile')
  BY <1>1, <1>2, <1>3 DEF IInv
<1>6. RunInv(setup', receiptFile')
  BY <1>1, <1>2, <1>3, NoSetupIs DEF IInv, RunInv, Applies, Updates, Transport, Gateway
<1>7. SecretsInv(receiptFile', secrets', object', setup')
  BY <1>1, <1>2, <1>3, NoSetupIs DEF IInv, SecretsInv
<1>8. ServingInv(receiptFile', serving', secrets', object')
  BY <1>1, <1>2, <1>3 DEF IInv, ServingInv
<1>9. SettledInv(receiptFile', serving')
  BY <1>1, <1>2, <1>3 DEF IInv
<1>10. AccountInv(receiptFile', hour', cloudflare', serving', secrets', setup')
  BY <1>1, <1>2, <1>3, NoSetupIs DEF IInv, AccountInv, UsesGateway
<1> QED
  BY <1>4, <1>5, <1>6, <1>7, <1>8, <1>9, <1>10 DEF IInv

\* UploadsToken.
LEMMA UploadsTokenKeeps ==
  ASSUME IInv, NEW landed \in BOOLEAN, NEW heard \in BOOLEAN, UploadsToken(landed, heard)
  PROVE  IInv'
BY UploadsTokenGoesOn, UploadsTokenStops

\* RotatesToken: the new token was probed.
LEMMA RotatesTokenKeeps ==
  ASSUME IInv, NEW landed \in BOOLEAN, NEW heard \in BOOLEAN, RotatesToken(landed, heard)
  PROVE  IInv'
<1>1. UNCHANGED <<hour, cloudflare, serving, object>> /\ setup' = NoSetup /\ setup.does = "rotates token"
  BY DEF RotatesToken
<1>2. receiptFile \in Receipts /\ receiptFile # Nothing /\ ReceiptInv(receiptFile)
      /\ "bootstrap-clear" \in receiptFile.phases /\ receiptFile.pending # Nothing
      /\ receiptFile.pending.kind = "rotate-ai-gateway-token"
  BY <1>1, AtUpdate
<1>3. secrets' \in Bound /\ secrets'.epoch = secrets.epoch /\ secrets'.keys = secrets.keys
      /\ secrets'.token \in {secrets.token, "installer"} /\ secrets.epoch # 0
  <2>1. secrets \in Bound /\ secrets.epoch # 0
    BY <1>2 DEF IInv, InstallerTypeOK, SecretsInv, ReceiptInv
  <2>2. secrets' = [secrets EXCEPT !.token = "installer"] \/ secrets' = secrets
    BY DEF RotatesToken
  <2> QED
    BY <2>1, <2>2 DEF Bound
<1>4. But(receiptFile', receiptFile, {"probed", "pending"}) /\ (receiptFile.probed => receiptFile'.probed)
     /\ (receiptFile'.pending = Nothing \/ receiptFile'.pending = receiptFile.pending)
     /\ (receiptFile'.probed => receiptFile.probed \/ secrets'.token = "installer")
  <2>1. CASE landed /\ heard
    <3>1. receiptFile' = [receiptFile EXCEPT !.probed = TRUE, !.pending = Nothing]
      BY <2>1 DEF RotatesToken
    <3>2. secrets' = [secrets EXCEPT !.token = "installer"]
      BY <2>1 DEF RotatesToken
    <3>3. secrets'.token = "installer"
      BY <3>2 DEF IInv, InstallerTypeOK, Bound
    <3>4. But(receiptFile', receiptFile, {"probed", "pending"}) /\ receiptFile'.probed = TRUE
          /\ receiptFile'.pending = Nothing
      BY <1>2, <3>1 DEF Receipts, But, Fields
    <3> QED
      BY <3>3, <3>4
  <2>2. CASE ~(landed /\ heard)
    BY <1>2, <2>2 DEF RotatesToken, But, Fields
  <2> QED
    BY <2>1, <2>2
<1>5. receiptFile'.phases = receiptFile.phases /\ receiptFile'.attempts = receiptFile.attempts
      /\ receiptFile'.observed = receiptFile.observed /\ receiptFile'.epoch = receiptFile.epoch
      /\ receiptFile'.attempted = receiptFile.attempted /\ receiptFile'.last = receiptFile.last
      /\ receiptFile'.origin = receiptFile.origin /\ receiptFile'.transport = receiptFile.transport
      /\ receiptFile'.provider = receiptFile.provider /\ receiptFile'.keys = receiptFile.keys
      /\ receiptFile' \in Receipts /\ receiptFile' # Nothing
  BY <1>4, NothingIs DEF But, Fields
<1>6. InstallerTypeOK'
  BY <1>1, <1>2, <1>3, <1>4, <1>5, NoSetupIs DEF IInv, InstallerTypeOK
<1>7. receiptFile' # Nothing => ReceiptInv(receiptFile')
  BY <1>1, <1>2, <1>3, <1>4, <1>5 DEF IInv, ReceiptInv, GatewayDone, Ours
<1>8. RunInv(setup', receiptFile')
  BY <1>1, <1>2, <1>3, <1>4, <1>5, NoSetupIs DEF IInv, RunInv
<1>9. SecretsInv(receiptFile', secrets', object', setup')
  BY <1>1, <1>2, <1>3, <1>4, <1>5, NoSetupIs DEF IInv, SecretsInv
<1>10. ServingInv(receiptFile', serving', secrets', object')
  BY <1>1, <1>2, <1>3, <1>4, <1>5 DEF IInv, ServingInv
<1>11. SettledInv(receiptFile', serving')
  BY <1>1, <1>2, <1>3, <1>4, <1>5 DEF IInv, SettledInv, Settled
<1>12. AccountInv(receiptFile', hour', cloudflare', serving', secrets', setup')
  BY <1>1, <1>2, <1>3, <1>4, <1>5, NoSetupIs DEF IInv, AccountInv, UsesGateway
<1> QED
  BY <1>6, <1>7, <1>8, <1>9, <1>10, <1>11, <1>12 DEF IInv

\* Switches: the deployment that makes the change.
LEMMA SwitchesKeeps ==
  ASSUME IInv, Switches
  PROVE  IInv'
<1>1. UNCHANGED <<hour, cloudflare, serving, secrets, object>> /\ setup.does = "switches"
  BY DEF Switches, remote
<1>2. receiptFile \in Receipts /\ receiptFile # Nothing /\ ReceiptInv(receiptFile) /\ Updates(setup, receiptFile)
      /\ setup.operation \in {"provider", "ai-transport"}
     /\ "bootstrap-clear" \in receiptFile.phases
  BY <1>1, AtUpdate
<1>3. receiptFile' = receiptFile /\ ButRun(setup', setup, {"does", "config"}) /\ setup'.does = "deploys"
     /\ setup'.config = ConfigOf(receiptFile, IF setup.operation = "provider" THEN setup.to ELSE receiptFile.provider,
                                              IF setup.operation = "ai-transport" THEN setup.to ELSE receiptFile.transport)
  <2> DEFINE provider == IF setup.operation = "provider" THEN setup.to ELSE receiptFile.provider
             transport == IF setup.operation = "ai-transport" THEN setup.to ELSE receiptFile.transport
  <2>1. provider \in Provider /\ transport \in Transport
    BY <1>2, ReceiptTyped DEF Updates
  <2>2. DeployBegins(receiptFile, provider, transport)
    BY DEF Switches
  <2> HIDE DEF provider, transport
  <2>3. receiptFile' = receiptFile /\ ButRun(setup', setup, {"does", "config"}) /\ setup'.does = "deploys"
        /\ setup'.config = ConfigOf(receiptFile, provider, transport)
    BY <1>2, <2>1, <2>2, BeginsIs DEF IInv
  <2> QED
    BY <2>3 DEF provider, transport
<1>4. setup'.operation = setup.operation /\ setup'.to = setup.to /\ setup'.epoch = setup.epoch
      /\ setup'.token = setup.token /\ setup'.only = setup.only /\ setup' \in Setups
  BY <1>3 DEF ButRun, RunFields
<1>5. InstallerTypeOK'
  BY <1>1, <1>2, <1>3, <1>4 DEF IInv, InstallerTypeOK
<1>6. receiptFile' # Nothing => ReceiptInv(receiptFile')
  BY <1>1, <1>2, <1>3, <1>4 DEF IInv, ReceiptInv, GatewayDone, Ours
<1>7. RunInv(setup', receiptFile')
  BY <1>1, <1>2, <1>3, <1>4 DEF IInv, RunInv, Applies, Updates
<1>8. SecretsInv(receiptFile', secrets', object', setup')
  BY <1>1, <1>2, <1>3, <1>4 DEF IInv, SecretsInv
<1>9. ServingInv(receiptFile', serving', secrets', object')
  BY <1>1, <1>2, <1>3, <1>4 DEF IInv, ServingInv
<1>10. SettledInv(receiptFile', serving')
  BY <1>1, <1>2, <1>3, <1>4 DEF IInv, SettledInv, Settled
<1>11. AccountInv(receiptFile', hour', cloudflare', serving', secrets', setup')
  BY <1>1, <1>2, <1>3, <1>4 DEF IInv, AccountInv, UsesGateway, Ours, ReceiptInv
<1> QED
  BY <1>5, <1>6, <1>7, <1>8, <1>9, <1>10, <1>11 DEF IInv

-----------------------------------------------------------------------------
(* The theorems. *)

\* What there is at first.
LEMMA InstallerInitial ==
  ASSUME InstallerInit
  PROVE  IInv
<1>1. /\ hour = 0 /\ receiptFile = Nothing /\ serving = Nothing /\ object = 0 /\ setup = NoSetup
      /\ cloudflare = [res \in Resource |-> Nothing]
      /\ secrets = [epoch |-> 0, keys |-> {}, token |-> "none"]
  BY DEF InstallerInit
<1>2. secrets \in Bound /\ secrets.epoch = 0 /\ secrets.token = "none" /\ secrets.keys = {}
  BY <1>1, NoSetupIs DEF Bound
<1>3. hour \in 0..MaxWindow
  BY <1>1, InstallerAssumption
<1>4. InstallerTypeOK
  BY <1>1, <1>2, <1>3, NoSetupIs DEF InstallerTypeOK
<1>5. RunInv(setup, receiptFile)
  BY <1>1, NoSetupIs DEF RunInv
<1>6. SecretsInv(receiptFile, secrets, object, setup)
  BY <1>1, <1>2, NoSetupIs DEF SecretsInv
<1>7. ServingInv(receiptFile, serving, secrets, object) /\ SettledInv(receiptFile, serving)
  BY <1>1 DEF ServingInv, SettledInv
<1>8. AccountInv(receiptFile, hour, cloudflare, serving, secrets, setup)
  BY <1>1, NoSetupIs DEF AccountInv, UsesGateway
<1> QED
  BY <1>1, <1>4, <1>5, <1>6, <1>7, <1>8 DEF IInv

\* Origin and BootstrapClear: recorded, or deployed first.
LEMMA DeploysAgainKeeps ==
  ASSUME IInv, Origin \/ BootstrapClear
  PROVE  IInv'
<1>1. CASE Origin
  <2>1. setup.does = "origin"
    BY <1>1 DEF Origin
  <2> QED
    BY <1>1, <2>1, OriginRecordedKeeps, OriginDeploysKeeps
<1>2. CASE BootstrapClear
  <2>1. setup.does = "bootstrap-clear"
    BY <1>2 DEF BootstrapClear
  <2> QED
    BY <1>2, <2>1, ClearRecordedKeeps, ClearDeploysKeeps
<1> QED
  BY <1>1, <1>2

\* Every step keeps the invariant.
LEMMA InstallerStep ==
  ASSUME IInv, [InstallerNext]_installer
  PROVE  IInv'
<1>1. CASE UNCHANGED installer
  BY <1>1 DEF installer, remote, IInv, InstallerTypeOK
<1>2. CASE \E transport \in Transport, explicit \in BOOLEAN : ApplyBegins(transport, explicit)
  BY <1>2, ApplyKeeps
<1>3. CASE \E explicit \in BOOLEAN : ResumeBegins(explicit)
  BY <1>3, ResumeKeeps
<1>4. ASSUME NEW res \in {"queue", "gateway"},
             Attempts(res) \/ Creates(res) \/ NameTaken(res) \/ Adopts(res)
             \/ \E landed \in BOOLEAN : CreateLost(res, landed)
      PROVE  IInv'
  BY <1>4, AttemptsKeeps, CreatesKeeps, NameTakenKeeps, AdoptsKeeps, CreateLostKeeps
<1>5. CASE GatewayRefused \/ DeployInitial \/ Origin \/ BootstrapClear \/ Deploys \/ NothingUploaded
  BY <1>5, RefusedKeeps, DeployInitialKeeps, DeploysAgainKeeps, DeploysKeeps, NothingUploadedKeeps
<1>6. CASE KeepSecrets \/ SetSecrets \/ WorkspaceInit \/ Verify
  BY <1>6, KeepSecretsKeeps, SetSecretsKeeps, WorkspaceInitKeeps, VerifyKeeps
<1>7. ASSUME NEW landed \in BOOLEAN, NEW heard \in BOOLEAN,
             \/ DeployLost(landed, heard) \/ UploadsSecrets(landed, heard)
             \/ UploadsKey(landed, heard) \/ UploadsToken(landed, heard) \/ RotatesToken(landed, heard)
      PROVE  IInv'
  BY <1>7, DeployLostKeeps, UploadsSecretsKeeps, UploadsKeyKeeps, UploadsTokenKeeps, RotatesTokenKeeps
<1>8. CASE UpdateDeploys \/ AddKey \/ RecordsKey \/ ForgetKey \/ RotateToken \/ Switches
  BY <1>8, UpdateDeploysKeeps, AddKeyKeeps, RecordsKeyKeeps, ForgetKeyKeeps, RotateTokenKeeps, SwitchesKeeps
<1>9. CASE \/ \E to \in Provider : ChangeProvider(to)
           \/ \E to \in Transport : ChangeTransport(to)
  BY <1>9, ChangeProviderKeeps, ChangeTransportKeeps
<1>10. CASE Dies
  BY <1>10, StopsKeeps DEF Dies, remote
<1>11. CASE ObjectInitializes \/ WindowPasses \/ \E res \in Resource : Stranger(res)
  BY <1>11, ObjectKeeps, WindowKeeps, StrangerKeeps
<1>12. CASE HandBindsToken \/ HandDeletesKey \/ HandDeletesGateway
  BY <1>12, HandTokenKeeps, HandKeyKeeps, HandGatewayKeeps
<1> QED
  BY <1>1, <1>2, <1>3, <1>4, <1>5, <1>6, <1>7, <1>8, <1>9, <1>10, <1>11, <1>12 DEF InstallerNext

\* The invariant says of the receipt what it must be true of.
LEMMA ReceiptFromInv ==
  ASSUME IInv
  PROVE  ReceiptIsTrue
<1> SUFFICES ASSUME receiptFile # Nothing PROVE ReceiptIsTrue
  BY DEF ReceiptIsTrue
<1>1. receiptFile \in Receipts /\ ReceiptInv(receiptFile)
  BY DEF IInv, InstallerTypeOK
<1>2. Has("resources") => IsOurs("queue")
  BY DEF IInv, AccountInv, Has, Ours, IsOurs
<1>3. Has("deploy-initial") => IsOurs("worker")
  BY DEF IInv, AccountInv, Has, Ours, IsOurs
<1>4. serving # Nothing /\ serving.transport = Gateway => IsOurs("gateway") /\ secrets.token # "by hand"
  BY DEF IInv, AccountInv, UsesGateway, SecretsInv, Ours, IsOurs
<1>5. Has("secrets") => secrets.epoch = receiptFile.epoch /\ object \in {0, receiptFile.epoch}
  BY DEF IInv, SecretsInv, Has
<1>6. serving # Nothing /\ ~serving.bootstrap => object # 0
  BY DEF IInv, ServingInv
<1>7. serving # Nothing /\ Has("secrets") => serving.provider \in secrets.keys
  BY DEF IInv, ServingInv, Has
<1>8. Has("bootstrap-clear") /\ receiptFile.pending = Nothing =>
        serving = [bootstrap |-> FALSE, origin |-> TRUE,
                   provider |-> receiptFile.provider, transport |-> receiptFile.transport]
  BY DEF IInv, SettledInv, Settled, Has
<1> QED
  BY <1>2, <1>3, <1>4, <1>5, <1>6, <1>7, <1>8 DEF ReceiptIsTrue

\* The inductive invariant of the installer.
LEMMA InstallerInductive == InstallerSpec => []IInv
BY InstallerInitial, InstallerStep, PTL DEF InstallerSpec

\* The receipt, the run and the account are of their types.
THEOREM InstallerTyped == InstallerSpec => []InstallerTypeOK
<1>1. IInv => InstallerTypeOK
  BY DEF IInv
<1> QED
  BY <1>1, InstallerInductive, PTL

\* Whatever is lost, dies or is meddled with, the receipt is true of the account.
THEOREM ReceiptsAreTrue == InstallerSpec => []ReceiptIsTrue
BY InstallerInductive, ReceiptFromInv, PTL
=============================================================================
