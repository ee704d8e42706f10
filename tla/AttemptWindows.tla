--------------------------- MODULE AttemptWindows ---------------------------
(***************************************************************************)
(* Counted windows: sign-in attempts and paid AI requests.                  *)
(*                                                                         *)
(* An attempt is charged to two scopes, its owner's (the client of a        *)
(* sign-in, the session of an AI request) and one shared by all, in one     *)
(* transaction that checks both before it charges either.  A window opens   *)
(* at its first charge and never slides.  A sign-in is admitted before the  *)
(* password is compared, and a correct password gives its attempt back by a *)
(* second call, which may come late or never; an AI request keeps its       *)
(* charge.  Sign-ins and AI requests are counted apart, by the same rules.  *)
(***************************************************************************)
EXTENDS Naturals, FiniteSets

CONSTANTS
  Attempt,         \* sign-ins or AI requests
  Owner,           \* clients or sessions
  Shared,          \* the scope shared by all
  MaximumOf,       \* of each scope: LOGIN_*_MAX_FAILURES, BudgetCounter.maximum
  LengthOf,        \* of each scope: the length of its windows
  Horizon          \* bound: the clock

Scope == Owner \cup {Shared}

ASSUME WindowAssumption ==
  /\ Shared \notin Owner /\ IsFiniteSet(Attempt) /\ Horizon \in Nat
  /\ MaximumOf \in [Scope -> Nat] /\ LengthOf \in [Scope -> Nat \ {0}]

VARIABLES
  clock,        \* now
  window,       \* of each scope: its row, or what is left of one that ended
  attempt,      \* each: whose it is and how far it got
  charged,      \* history: attempts the window was charged for and has not given back
  strayed       \* history: refunds the window gave to attempts it was not charged for

windows == <<clock, window, attempt, charged, strayed>>

WindowsInit ==
  /\ clock = 0 /\ window = [s \in Scope |-> [count |-> 0, until |-> 0]]
  /\ attempt = [a \in Attempt |-> [does |-> "idle", scopes |-> {}]]
  /\ charged = [s \in Scope |-> {}] /\ strayed = [s \in Scope |-> 0]

Open(s) == window[s].count > 0 /\ window[s].until > clock
Taken(s) == IF Open(s) THEN window[s].count ELSE 0

\* Moves an attempt on.
Moves(a, does, scopes) == attempt' = [attempt EXCEPT ![a] = [does |-> does, scopes |-> scopes]]

\* One more in each of the scopes, whose windows open where none is.
Charge(a, scopes) ==
  /\ window' = [s \in Scope |-> IF s \notin scopes THEN window[s]
                  ELSE IF Open(s) THEN [window[s] EXCEPT !.count = @ + 1]
                  ELSE [count |-> 1, until |-> clock + LengthOf[s]]]
  /\ charged' = [s \in Scope |-> IF s \notin scopes THEN charged[s]
                   ELSE IF Open(s) THEN charged[s] \cup {a} ELSE {a}]
  /\ strayed' = [s \in Scope |-> IF s \in scopes /\ ~Open(s) THEN 0 ELSE strayed[s]]

ChargesEachAlone(scopes) == {s \in scopes : Taken(s) < MaximumOf[s]}   \* mutant: a refusal charges the other scope

\* Nothing is charged unless everything can be.
Chargeable(scopes) == IF \A s \in scopes : Taken(s) < MaximumOf[s] THEN scopes ELSE {}

\* admitLoginAttempt; chargeBudgetWindows in admitResearcherAiRequest.
Admit(a, owner) ==
  LET scopes == {owner, Shared} IN
  /\ attempt[a].does = "idle"
  /\ Charge(a, Chargeable(scopes))
  /\ Moves(a, IF Chargeable(scopes) = scopes THEN "admitted" ELSE "refused", scopes)
  /\ UNCHANGED clock

\* The wrong password, or an AI request: the charge stays.
KeepCharge(a) ==
  /\ attempt[a].does = "admitted" /\ Moves(a, "kept", attempt[a].scopes)
  /\ UNCHANGED <<clock, window, charged, strayed>>

\* Given back to whatever window of the scope is open; one left at zero is removed.
GiveBack(a) ==
  window' = [s \in Scope |-> IF s \in attempt[a].scopes /\ Open(s) THEN [window[s] EXCEPT !.count = @ - 1] ELSE window[s]]

\* refundLoginAttempt, once, after the right password.  (Where it is lost, or
\* the request dies, the attempt stays admitted.)
Refund(a) ==
  /\ attempt[a].does = "admitted" /\ GiveBack(a)
  /\ charged' = [s \in Scope |-> IF s \in attempt[a].scopes /\ Open(s) THEN charged[s] \ {a} ELSE charged[s]]
  /\ strayed' = [s \in Scope |-> IF s \in attempt[a].scopes /\ Open(s) /\ a \notin charged[s]
                                  THEN strayed[s] + 1 ELSE strayed[s]]
  /\ Moves(a, "refunded", attempt[a].scopes)
  /\ UNCHANGED clock

Tick ==
  /\ clock < Horizon /\ clock' = clock + 1
  /\ UNCHANGED <<window, attempt, charged, strayed>>

WindowsNext ==
  \/ \E a \in Attempt : \/ \E owner \in Owner : Admit(a, owner)
                        \/ KeepCharge(a) \/ Refund(a)
  \/ Tick

WindowsSpec == WindowsInit /\ [][WindowsNext]_windows

-----------------------------------------------------------------------------
(* Properties. *)

WindowsTypeOK ==
  /\ clock \in 0..Horizon /\ window \in [Scope -> [count : Nat, until : Nat]]
  /\ attempt \in [Attempt -> [does : {"idle", "admitted", "refused", "kept", "refunded"}, scopes : SUBSET Scope]]
  /\ charged \in [Scope -> SUBSET Attempt] /\ strayed \in [Scope -> Nat]

\* An open window counts the attempts it was charged for and has not given back,
\* within its maximum and none of them refused, short of the refunds that came
\* from attempts of an earlier window.  So as many attempts as the maximum fail
\* in a window, and as many more as refunds strayed into it.
WindowsAreConserved ==
  \A s \in Scope : Open(s) =>
    /\ window[s].count <= MaximumOf[s]
    /\ window[s].count + strayed[s] = Cardinality(charged[s])
    /\ \A a \in charged[s] : attempt[a].does \in {"admitted", "kept"} /\ s \in attempt[a].scopes
=============================================================================
