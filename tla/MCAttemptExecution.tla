------------------------- MODULE MCAttemptExecution -------------------------
(* Constants for AttemptExecution: one ClickHouse side, or none.           *)
EXTENDS AttemptExecution

CONSTANTS c1, c2
=============================================================================
