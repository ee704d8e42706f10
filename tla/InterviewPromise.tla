-------------------------- MODULE InterviewPromise --------------------------
(***************************************************************************)
(* What a workspace promises a participant about a finished interview: it   *)
(* is kept as it was when first saved, it leaves only with its study and    *)
(* then for good, and a participant is told "saved" only of what is kept.   *)
(***************************************************************************)
CONSTANTS Session, Content, None

VARIABLES kept,     \* the content kept for each session, or None
          closed,   \* sessions whose study is gone
          told      \* the contents each session was told are saved

vars == <<kept, closed, told>>

Init == /\ kept = [s \in Session |-> None]
        /\ closed = {}
        /\ told = [s \in Session |-> {}]

Keep(s, c) == /\ s \notin closed
              /\ kept[s] = None
              /\ kept' = [kept EXCEPT ![s] = c]
              /\ closed' = closed

Tell(s, c) == /\ kept'[s] = c
              /\ told' = [told EXCEPT ![s] = @ \cup {c}]

\* A save is kept and confirmed in one commit; the confirmation may be lost, and
\* a repeated save is confirmed again.
Save(s, c) == Keep(s, c) /\ (Tell(s, c) \/ told' = told)
Repeat(s, c) == UNCHANGED <<kept, closed>> /\ Tell(s, c)

Close(S) == /\ S # {}
            /\ closed' = closed \cup S
            /\ kept' = [s \in Session |-> IF s \in S THEN None ELSE kept[s]]
            /\ told' = told

Next == \/ \E s \in Session, c \in Content : Save(s, c) \/ Repeat(s, c)
        \/ \E S \in SUBSET Session : Close(S)

Spec == Init /\ [][Next]_vars

=============================================================================
