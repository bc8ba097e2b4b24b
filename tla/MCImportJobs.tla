----------------------------- MODULE MCImportJobs -----------------------------
(* Instances of ImportJobs for TLC. *)
EXTENDS ImportJobs, TLC

CONSTANTS j1, r1, r2, c1, c2

MCOneFile == [r \in Row |-> j1]
================================================================================
