---------------------------- MODULE MCJobClient ----------------------------
(* A small instance of JobClient: a batch that fits one page of the list,  *)
(* and one that does not.                                                  *)
EXTENDS JobClient

CONSTANTS c1, small, large
MCJobs == 1 .. 5
MCBatch == [j \in MCJobs |-> IF j <= 2 THEN small ELSE large]
=============================================================================
