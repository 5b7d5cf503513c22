--------------------------- MODULE AttemptFailure ---------------------------
(***************************************************************************)
(* How the application turns what went wrong in an attempt, and what went  *)
(* wrong again while it released its contexts, into one failure            *)
(* (application.py), and what the metadata store and the result model ask  *)
(* of the publication of such a failure (persistence/lifecycle.py,         *)
(* result.py).                                                             *)
(*                                                                         *)
(* A reason is its code and its operation; operations are kept apart only  *)
(* where the code tests them.  A partial comparison is what the checks     *)
(* tell apart: whether its frontier is the empty one of a structural       *)
(* violation, whether stored fingerprints or counts prove a difference,    *)
(* the codes of its unresolved segments (at least one is left when rows    *)
(* were being read), and its totals, which are lower bounds or unavailable *)
(* for a reason code.                                                      *)
(***************************************************************************)
EXTENDS AttemptClosure

IncompleteCodes ==
    {"not_ready", "cut_mismatch", "snapshot_lost", "budget_exhausted", "cancelled",
     "cancellation_unconfirmed"}
ErrorCodes ==
    {"unsupported_capability", "lossy_transport", "query_error", "protocol_violation"}
CompletedCodes == {"data_mismatch", "contract_violation"}
ReasonCodes == IncompleteCodes \cup ErrorCodes \cup CompletedCodes
RetryableCodes == {"not_ready", "cut_mismatch", "snapshot_lost", "query_error"}

CodesForStatus(status) ==
    CASE status = "error" -> ErrorCodes
      [] status = "incomplete" -> IncompleteCodes
      [] OTHER -> CompletedCodes

Operations == {"read", "compare", "close_read_context", "confirm", "cancel_query"}
Reasons == [code : ReasonCodes, operation : Operations]
Reason(code, operation) == [code |-> code, operation |-> operation]
CodesOf(reasons) == {x.code : x \in reasons}

Verdicts == {"match", "mismatch", "inconclusive"}

Partials ==
    [verdict : Verdicts, stable_reads : StableReads, structural : BOOLEAN,
     proven : BOOLEAN, unresolved : SUBSET ReasonCodes,
     totals : ReasonCodes \cup {"lower_bound"}]

Failures ==
    [status : {"incomplete", "error"}, verdict : Verdicts, reason : Reasons,
     additional : SUBSET Reasons, retryable : BOOLEAN, stable_reads : StableReads,
     partial : Partials \cup {None}]

CleanupFailures == [reason : Reasons, additional : SUBSET Reasons]

ExecutionStatusForFailureReason(code) ==
    IF code \in ErrorCodes THEN "error" ELSE "incomplete"

-----------------------------------------------------------------------------
(* Failures of the attempt itself                                          *)

(* An early outcome or an error before comparison: _failure_from_early_    *)
(* outcome and _failure_from_attempt_error.  In both, the status and the   *)
(* decision to retry follow from the code.                                 *)
FailureFromError(code) ==
    [status |-> ExecutionStatusForFailureReason(code), verdict |-> "inconclusive",
     reason |-> Reason(code, "read"), additional |-> {},
     retryable |-> code \in RetryableCodes, stable_reads |-> "unknown", partial |-> None]

(* Rows observed without established stable reads prove nothing.           *)
UnknownRows(partial) == partial.stable_reads = "unknown" /\ ~partial.structural

WithoutDataMismatch(reasons) == {x \in reasons : x.code # "data_mismatch"}

(* _partial_failure_publication_values                                     *)
PublicationVerdict(partial, verdict) ==
    IF partial # None /\ UnknownRows(partial) THEN "inconclusive" ELSE verdict
PublicationReasons(partial, additional) ==
    IF partial # None /\ UnknownRows(partial)
    THEN WithoutDataMismatch(additional) ELSE additional

(* _partial_comparison_artifact: what an interrupted comparison has        *)
(* established.  progress is how far it came: summaries not yet read, read *)
(* ("summarised"), a fingerprint mismatch witnessed, an exact leaf read.   *)
InterruptedPartial(progress, level, unresolved, contract) ==
    LET proven == progress \in {"witnessed", "exact"} IN
    [verdict |-> IF proven \/ contract THEN "mismatch" ELSE "inconclusive",
     stable_reads |-> IF progress = "unread" THEN "unknown" ELSE level,
     structural |-> FALSE, proven |-> proven, unresolved |-> {unresolved},
     totals |-> IF progress = "exact" THEN "lower_bound" ELSE unresolved]

FailureFromComparisonInterruption(code, partial, contract) ==
    LET proofs ==
            (IF contract THEN {Reason("contract_violation", "compare")} ELSE {})
            \cup (IF partial.verdict = "mismatch" /\ ~contract
                  THEN {Reason("data_mismatch", "compare")} ELSE {})
    IN  [status |-> ExecutionStatusForFailureReason(code),
         verdict |-> PublicationVerdict(partial, partial.verdict),
         reason |-> Reason(code, "read"),
         additional |-> PublicationReasons(partial, proofs),
         retryable |-> code \in RetryableCodes,
         stable_reads |-> partial.stable_reads, partial |-> partial]

-----------------------------------------------------------------------------
(* Failures of the release of contexts                                     *)

AllReasons(f) == {f.reason} \cup f.additional

ExecutionStatusForCleanupFailure(cleanup) ==
    IF CodesOf(AllReasons(cleanup)) \cap ErrorCodes # {} THEN "error" ELSE "incomplete"

CleanupFailureIsRetryable(cleanup) == CodesOf(AllReasons(cleanup)) \subseteq RetryableCodes

CleanupFailureDominates(candidate, current) ==
    \/ /\ candidate.reason.code = "cancellation_unconfirmed"
       /\ current.reason.code = "snapshot_lost"
    \/ /\ candidate.reason = Reason("snapshot_lost", "confirm")
       /\ current.reason = Reason("snapshot_lost", "close_read_context")
    \/ /\ ExecutionStatusForCleanupFailure(candidate) = "error"
       /\ ExecutionStatusForCleanupFailure(current) = "incomplete"

CombineCleanupFailures(current, candidate) ==
    LET Led(first, second) ==
            [reason |-> first.reason, additional |-> first.additional \cup AllReasons(second)]
    IN  CASE current = None -> candidate
          [] current # None /\ CleanupFailureDominates(candidate, current) ->
               Led(candidate, current)
          [] OTHER -> Led(current, candidate)

DegradedStableReads_Kept(level) == level
DegradedStableReads_Always(level) == "unknown"
DegradedStableReads(level) == IF level = "verified" THEN "verified" ELSE "unknown"

Degraded(partial) == [partial EXCEPT !.stable_reads = DegradedStableReads(@)]

(* _failure_with_secondary_context_loss: a cleanup error takes the place   *)
(* of an incomplete failure as the primary reason.                         *)
FailureWithSecondaryContextLoss(f, cleanup) ==
    LET escalates == /\ f.status = "incomplete"
                     /\ ExecutionStatusForFailureReason(cleanup.reason.code) = "error"
        partial == IF f.partial = None THEN None ELSE Degraded(f.partial)
        additional == f.additional \cup cleanup.additional
                        \cup {IF escalates THEN f.reason ELSE cleanup.reason}
    IN  [status |-> IF "error" \in {f.status, ExecutionStatusForCleanupFailure(cleanup)}
                    THEN "error" ELSE "incomplete",
         verdict |-> PublicationVerdict(partial, f.verdict),
         reason |-> IF escalates THEN cleanup.reason ELSE f.reason,
         additional |-> PublicationReasons(partial, additional),
         retryable |-> f.retryable /\ CleanupFailureIsRetryable(cleanup),
         stable_reads |-> DegradedStableReads(f.stable_reads), partial |-> partial]

(* partial_comparison_artifact_from_completed                              *)
PartialFromCompleted(artifact, code) ==
    [verdict |-> IF artifact.verdict = "mismatch" THEN "mismatch" ELSE "inconclusive",
     stable_reads |-> artifact.stable_reads, structural |-> artifact.structural,
     proven |-> artifact.verdict = "mismatch" /\ ~artifact.structural,
     unresolved |-> {},
     totals |-> IF artifact.structural THEN "contract_violation"
                ELSE IF artifact.verdict = "mismatch" THEN "lower_bound" ELSE code]

ArtifactReasons(artifact) ==
    IF artifact.structural THEN {Reason("contract_violation", "compare")}
    ELSE IF artifact.verdict = "mismatch" THEN {Reason("data_mismatch", "compare")} ELSE {}

(* _failure_from_artifact_context_loss: a completed comparison whose       *)
(* contexts did not end cleanly is only a partial one.                     *)
FailureFromArtifactContextLoss_Retried(artifact, cleanup) ==
    LET partial == Degraded(PartialFromCompleted(artifact, cleanup.reason.code)) IN
    [status |-> ExecutionStatusForCleanupFailure(cleanup),
     verdict |-> PublicationVerdict(partial, partial.verdict),
     reason |-> cleanup.reason,
     additional |-> PublicationReasons(partial, ArtifactReasons(artifact) \cup cleanup.additional),
     retryable |-> CleanupFailureIsRetryable(cleanup),
     stable_reads |-> partial.stable_reads, partial |-> partial]
FailureFromArtifactContextLoss(artifact, cleanup) ==
    LET partial == Degraded(PartialFromCompleted(artifact, cleanup.reason.code)) IN
    [status |-> ExecutionStatusForCleanupFailure(cleanup),
     verdict |-> PublicationVerdict(partial, partial.verdict),
     reason |-> cleanup.reason,
     additional |-> PublicationReasons(partial, ArtifactReasons(artifact) \cup cleanup.additional),
     retryable |-> artifact.verdict # "mismatch" /\ CleanupFailureIsRetryable(cleanup),
     stable_reads |-> partial.stable_reads, partial |-> partial]

-----------------------------------------------------------------------------
(* What a publication must satisfy                                         *)

PostComparisonContextLossCodes ==
    {"snapshot_lost", "budget_exhausted", "cancellation_unconfirmed",
     "unsupported_capability", "query_error", "protocol_violation"}

(* _is_degraded_structural_context_loss                                    *)
DegradedStructuralContextLoss(f) ==
    /\ f.partial.stable_reads = "unknown"
    /\ f.partial.structural
    /\ f.reason.code \in PostComparisonContextLossCodes
    /\ f.reason.operation \in {"close_read_context", "confirm"}

(* _partial_publication_values: the verdict and the totals a partial       *)
(* comparison is stored with.                                              *)
StoredVerdict(f) ==
    CASE f.partial = None -> f.verdict
      [] f.partial # None /\ UnknownRows(f.partial) -> "inconclusive"
      [] OTHER -> f.partial.verdict
StoredTotals(f) ==
    IF f.partial = None \/ UnknownRows(f.partial) THEN f.reason.code ELSE f.partial.totals
StoredCodes(f) ==
    CodesOf({f.reason} \cup
            IF f.partial # None /\ UnknownRows(f.partial)
            THEN WithoutDataMismatch(f.additional) ELSE f.additional)

(* _validate_partial_frontier_closure                                      *)
PartialFrontierClosure(f) ==
    LET codes == StoredCodes(f)
        contract == "contract_violation" \in codes
    IN  /\ contract => f.partial.stable_reads # "unknown" \/ DegradedStructuralContextLoss(f)
        /\ ~UnknownRows(f.partial) =>
              /\ "data_mismatch" \in codes <=> f.partial.proven
              /\ StoredVerdict(f) = "mismatch" <=> f.partial.proven \/ contract
        /\ f.partial.structural => contract

HighestReasonStatus(codes) ==
    CASE codes \cap ErrorCodes # {} -> "error"
      [] codes \cap ErrorCodes = {} /\ codes \cap IncompleteCodes # {} -> "incomplete"
      [] OTHER -> "completed"

(* RunResult.validate_outcome for a result without a guarantee.            *)
ResultIsValid(f) ==
    LET top == StoredCodes(f)
        totals == StoredTotals(f)
        bounds == totals = "lower_bound"
        codes == top \cup (IF f.partial = None THEN {} ELSE f.partial.unresolved)
                     \cup (IF bounds THEN {} ELSE {totals})
        verdict == StoredVerdict(f)
        level == IF f.partial = None THEN f.stable_reads ELSE f.partial.stable_reads
    IN  /\ verdict \in {"inconclusive", "mismatch"}
        /\ HighestReasonStatus(codes) = f.status
        /\ top \cap CodesForStatus(f.status) # {}
        /\ bounds \/ "data_mismatch" \in codes => level # "unknown"
        /\ verdict = "mismatch" <=> bounds \/ codes \cap CompletedCodes # {}
        /\ "contract_violation" \in codes => ~bounds

(* Everything asked of the publication of failure f of attempt a.          *)
FailureAccepted(clickhouse, run, a, f) ==
    /\ f.reason.code \in CodesForStatus(f.status)
    /\ ResultIsValid(f)
    /\ IF f.partial = None
       THEN StoredAttemptClosure(run, a)
       ELSE PartialClosure(clickhouse, run, a, f.partial.stable_reads) /\ PartialFrontierClosure(f)
=============================================================================
