------------------------------ MODULE PagePromise ------------------------------
(***************************************************************************)
(* What the pages over an interview's analysis promise a researcher,        *)
(* without requests, keys, timers, budgets or records.                      *)
(*                                                                         *)
(* The work is done again only where somebody who saw how it ended asked    *)
(* for it.  A page shows states the work has been in, and only moves on.    *)
(* While it shows unfinished work it looks again by itself, when it is back *)
(* if it is away, or says that it stopped looking.                          *)
(***************************************************************************)
EXTENDS Naturals

CONSTANTS View, Blank

VARIABLES
  work,     \* the work's generation and how far it is
  shown,    \* what each view shows: a state of the work, or nothing
  watch,    \* what keeps it up to date
  pressed   \* the states somebody saw and asked to have replaced

vars == <<work, shown, watch, pressed>>

Unfinished(s) == s # Blank /\ s.kind \in {"queued", "running"}
Ended(s) == s # Blank /\ s.kind \in {"complete", "failed"}

\* The work has been there: what was replaced had not completed.
Reached(s, w) ==
  \/ s = w
  \/ s.generation < w.generation /\ s.kind # "complete"
  \/ s.generation = w.generation /\ ~Ended(s)

MovesOn(s, t) == t.generation > s.generation \/ (t.generation = s.generation /\ (Ended(s) => t = s))

Init ==
  /\ work \in {[generation |-> 0, kind |-> "not-scheduled"], [generation |-> 1, kind |-> "queued"]}
  /\ shown = [v \in View |-> Blank] /\ watch = [v \in View |-> "nothing"] /\ pressed = {}

Work ==
  /\ Unfinished(work) /\ work'.generation = work.generation
  /\ work'.kind \in IF work.kind = "queued" THEN {"running"} ELSE {"complete", "failed"}
  /\ UNCHANGED <<shown, watch, pressed>>

Again ==
  /\ work \in pressed /\ ~Unfinished(work) /\ work.kind # "complete"
  /\ work' = [generation |-> work.generation + 1, kind |-> "queued"]
  /\ UNCHANGED <<shown, watch, pressed>>

\* A view opens, closes, learns of a later state, or its reader asks for more;
\* `settled' is a view that was told of newer work once it had stopped looking.
Look(v) ==
  /\ \A u \in View \ {v} : shown'[u] = shown[u] /\ watch'[u] = watch[u]
  /\ shown'[v] # Blank => Reached(shown'[v], work) /\ (shown[v] # Blank => MovesOn(shown[v], shown'[v]))
  /\ Unfinished(shown'[v]) => watch'[v] \in {"looks", "away", "stopped", "settled"}
  /\ pressed \subseteq pressed' /\ pressed' \subseteq pressed \cup {shown'[v]}
  /\ work' = work

Next == Work \/ Again \/ \E v \in View : Look(v)

Spec == Init /\ [][Next]_vars
=============================================================================
