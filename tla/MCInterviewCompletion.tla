----------------------- MODULE MCInterviewCompletion -----------------------
(***************************************************************************)
(* Instances of InterviewCompletion for TLC.  The code's durations range    *)
(* from an hour to thirty days; here they are one to three ticks that keep  *)
(* their order where a configuration lets time pass.                        *)
(***************************************************************************)
EXTENDS InterviewCompletion, TLC

CONSTANTS ClientWindow, StudyWindow, ClientMaximum, StudyMaximum

MCWindow == [c \in Scope |-> IF c = "client" THEN ClientWindow ELSE StudyWindow]
MCMaximum == [c \in Scope |-> IF c = "client" THEN ClientMaximum ELSE StudyMaximum]

\* Ids are compared for equality only and no choice depends on them.
IdSymmetry == UNION {Permutations(S) : S \in {Session, Link, Request, Editor, Key, Content, Language,
                                              Study \ Existing}}

=============================================================================
