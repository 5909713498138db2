----------------------------- MODULE MCReports ------------------------------
(* Small instances of Reports for TLC: the first order is stuck. *)
EXTENDS Reports

MCLimit == [t \in Topics |-> 2]
MCStuck == [t \in Topics |-> {1}]
=============================================================================
