---------------------------- MODULE MCPublication ----------------------------
(* Studies created and deleted again, for what becomes of their receipts. *)
EXTENDS HostedStudies

MCOf == [i \in Interview |-> CHOOSE st \in Study : TRUE]
=============================================================================
