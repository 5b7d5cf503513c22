--------------------------- MODULE MCRunLifecycle ---------------------------
(* Model values for RunLifecycle: two invocations started for one request  *)
(* with the same payload and, in Claims, a third whose payload differs.    *)
EXTENDS RunLifecycle, TLC

CONSTANTS i1, i2, i3, q1, p1, p2

MCRequestOf == [i \in Invocations |-> q1]
MCPayloadOf == [i \in Invocations |-> IF i = i3 THEN p2 ELSE p1]
MCSymmetry == Permutations(Sessions) \cup Permutations(Cuts)
=============================================================================
