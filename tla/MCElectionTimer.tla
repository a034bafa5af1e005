-------------------------- MODULE MCElectionTimer ---------------------------
(* ElectionTimer with one unit of time for 50 ms: 150 ms and 500 ms.       *)
EXTENDS ElectionTimer
=============================================================================
