----------------------- MODULE MCCommitReconciliation -----------------------
(* Model values for CommitReconciliation: two calls that claim one         *)
(* request, with equal payloads or different ones.  Identity 9 is the      *)
(* request UUID; the others are a call's own operation.                    *)
EXTENDS CommitReconciliation

CONSTANTS c1, c2, q1, p1, p2

MCRequestOf == [c \in Clients |-> q1]
MCPayloads == {[c \in Clients |-> p1], [c \in Clients |-> IF c = c1 THEN p1 ELSE p2]}
MCIdentities == [c \in Clients |-> IF c = c1 THEN {1, 9} ELSE {2, 9}]
=============================================================================
