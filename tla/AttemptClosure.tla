--------------------------- MODULE AttemptClosure ---------------------------
(***************************************************************************)
(* What must be stored for an attempt before the metadata store accepts an *)
(* outcome of it (persistence/lifecycle.py).  RunLifecycle guards its      *)
(* publications with these conditions; AttemptExecution shows that the     *)
(* application establishes them before it publishes.                       *)
(*                                                                         *)
(* A run has the field bound_cut; an attempt has contexts, observations,   *)
(* input_cut and closure_evidence (the sides with a stored ClickHouse      *)
(* final confirmation).  clickhouse is the set of sides read through       *)
(* ClickHouse.  A definition X_Fault before a definition X is a faulty     *)
(* variant that shows a property to be sensitive to X; no behaviour of the *)
(* models uses it.                                                         *)
(***************************************************************************)
CONSTANT None

Sides == {"reference", "target"}
ContextStates == {"absent", "active", "closed", "lost"}
StableReads == {"unknown", "asserted", "verified"}

(* _require_stored_attempt_closure                                         *)
StoredAttemptClosure_LeavesContexts(run, a) ==
    a.input_cut # None => a.observations = Sides /\ run.bound_cut = a.input_cut
StoredAttemptClosure(run, a) ==
    /\ \A d \in Sides : a.contexts[d] # "active"
    /\ IF a.input_cut = None
       THEN a.observations = {}
       ELSE a.observations = Sides /\ run.bound_cut = a.input_cut

(* _require_verified_non_clickhouse_contexts and                           *)
(* _require_asserted_clickhouse_closure                                    *)
StableReadClosure(clickhouse, a, level) ==
    CASE level = "verified" -> clickhouse = {}
      [] level = "asserted" ->
           /\ \A d \in Sides : a.contexts[d] = "closed"
           /\ \E d \in Sides : clickhouse = {d} /\ d \in a.closure_evidence
      [] OTHER -> TRUE

BoundCutClosure_Unbound(run, a) == TRUE
BoundCutClosure(run, a) ==
    /\ a.observations = Sides
    /\ a.input_cut # None
    /\ run.bound_cut = a.input_cut

(* _require_completed_closure_rows                                         *)
CompletedClosure(clickhouse, run, a, level) ==
    /\ level \in {"asserted", "verified"}
    /\ \A d \in Sides : a.contexts[d] = "closed"
    /\ StableReadClosure(clickhouse, a, level)
    /\ BoundCutClosure(run, a)

(* _require_partial_closure_rows                                           *)
PartialClosure(clickhouse, run, a, level) ==
    /\ \A d \in Sides : a.contexts[d] \in {"closed", "lost"}
    /\ StableReadClosure(clickhouse, a, level)
    /\ BoundCutClosure(run, a)
=============================================================================
