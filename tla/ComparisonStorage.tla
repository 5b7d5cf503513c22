-------------------------- MODULE ComparisonStorage --------------------------
(***************************************************************************)
(* What the lifecycle store demands of a comparison's artifact before it   *)
(* writes it: persistence/lifecycle.py's *_persistence_from_artifact and   *)
(* the validators they call, applied to the artifacts the comparison       *)
(* produces.  A refusal is a ValueError that nobody catches: the attempt   *)
(* keeps running in the store and its work is lost.                        *)
(*                                                                         *)
(* The attempt's usage is what the ledger has counted since its baseline.  *)
(* The reads before the comparison charge queries and records but no full  *)
(* scan, so the comparison's own charges bound the usage from below and    *)
(* the ledger bounds it from above.                                        *)
(***************************************************************************)
EXTENDS IntegerKeyComparison

FullScans(s) == ledger.full_scans[s] - input.charged.full_scans[s]
OwnQueries == ledger.queries - input.charged.queries
OwnRecords == ledger.fetched_records - input.charged.fetched_records

-----------------------------------------------------------------------------
(* What is published of an artifact *)

\* Only a structural result has neither ranges nor pending ones.
IsStructural(a) == a.segments = {} /\ a.unresolved = {}

\* A database error or a lost transaction leaves its context inactive; before
\* the summaries nothing has been read under either context.
StableReads(a) ==
    IF ~ progress.summaries_verified
        \/ a.cause \in {"PostgresQueryError", "PostgresContextLostError"}
    THEN "unknown" ELSE "verified"

UnknownRows(a) == StableReads(a) = "unknown" /\ ~ IsStructural(a)

HasContractProof(a) ==
    /\ ~ ContractHolds
    /\ IsStructural(a) \/ a.cause = "ComparisonKeyMappingError"

\* The reasons that accompany the primary one.
AdditionalReasons(a) ==
    CASE HasContractProof(a) -> {"contract_violation"}
      [] a.verdict = "mismatch" /\ ~ HasContractProof(a) -> {"data_mismatch"}
      [] OTHER -> {}

Published_AsObserved(a) ==
    [verdict |-> a.verdict, totals |-> a.totals, reasons |-> AdditionalReasons(a)]

\* Rows read under an unknown consistency are published without a verdict,
\* without totals and without data_mismatch.
Published(a) ==
    IF UnknownRows(a)
    THEN [verdict |-> "inconclusive",
          totals |-> [precision |-> InterruptionReasonCode[a.cause], counts |-> NoCounts],
          reasons |-> AdditionalReasons(a) \ {"data_mismatch"}]
    ELSE [verdict |-> a.verdict, totals |-> a.totals, reasons |-> AdditionalReasons(a)]

-----------------------------------------------------------------------------
(* The tree of ranges *)

\* A pending range has the fingerprints of its witness, or none.
UnresolvedNodes(a) ==
    {[segment |-> g, state |-> "unresolved",
      fingerprint |-> IF g \in {w.segment : w \in a.witnesses}
                      THEN (CHOOSE w \in a.witnesses : w.segment = g).fingerprint
                      ELSE None] : g \in a.unresolved}

FrontierNodes(a) == a.segments \cup UnresolvedNodes(a)

Children(tree, node) ==
    {n \in tree : n.segment.parent = node.segment.segment_sequence}

CombineFingerprints(left, right) ==
    [s \in Sides |-> [count |-> left[s].count + right[s].count,
                      limb_sum |-> left[s].limb_sum + right[s].limb_sum]]

\* The children of a split range halve it, and their fingerprints, when both
\* are known, add up to its own.
SplitIsValid(parent, children) ==
    /\ Cardinality(children) = 2
    /\ \E left, right \in children :
          /\ left.segment.lower_inclusive < right.segment.lower_inclusive
          /\ {left.segment.depth, right.segment.depth} = {parent.segment.depth + 1}
          /\ left.segment.lower_inclusive = parent.segment.lower_inclusive
          /\ left.segment.upper_exclusive # None
          /\ right.segment.lower_inclusive = left.segment.upper_exclusive
          /\ right.segment.upper_exclusive = parent.segment.upper_exclusive
          /\ None \notin {left.fingerprint, right.fingerprint} =>
                CombineFingerprints(left.fingerprint, right.fingerprint) = parent.fingerprint

\* One root, known parents, valid splits and leaves without children.
TreeIsValid(tree) ==
    /\ SequenceNumbers(tree) = 0 .. Cardinality(tree) - 1
    /\ \A node \in tree :
          /\ IF node.segment.segment_sequence = 0
             THEN node.segment.parent = None /\ node.segment.depth = 0
             ELSE node.segment.parent \in SequenceNumbers(tree)
          /\ IF node.state = "split" THEN SplitIsValid(node, Children(tree, node))
                                     ELSE Children(tree, node) = {}
          /\ node.state \in {"fingerprint_match", "exact_match"} => Matches(node)

\* A partial topology says of every range whether its fingerprints differ.
PartialFrontierTree(a) ==
    /\ TreeIsValid(FrontierNodes(a))
    /\ \A node \in a.segments : node.state \in {"split", "exact_mismatch"} => Mismatches(node)
    /\ \A g \in a.unresolved : g.parent # None => g.parent \in SequenceNumbers(a.segments)

LeavesOf(a, states) == Cardinality({t \in a.segments : t.state \in states})

-----------------------------------------------------------------------------
(* Evidence, budgets and summaries *)

AnomaliesAreCovered(a) ==
    /\ \A i \in DOMAIN a.anomalies : a.anomalies[i].sequence = i - 1
    /\ a.retained_bytes = Bytes(a.anomalies)
    /\ \A i \in DOMAIN a.anomalies :
          \E t \in a.segments :
             /\ t.segment.segment_sequence = a.anomalies[i].segment_sequence
             /\ t.state = "exact_mismatch"

\* The immutable budgets of the attempt; records are not among those of a
\* partial result.
WithinAttemptBudgets(a) ==
    /\ \A s \in Sides : FullScans(s) <= budgets.max_full_scans_per_side
    /\ ledger.queries <= budgets.max_queries
    /\ a.fingerprint_nodes <= budgets.max_fingerprint_nodes
    /\ Len(a.anomalies) <= budgets.max_evidence_rows
    /\ a.retained_bytes <= budgets.max_evidence_bytes
    /\ \A g \in {t.segment : t \in a.segments} \cup a.unresolved : g.depth <= budgets.max_depth

CompletedWithinBudgets(a) ==
    /\ WithinAttemptBudgets(a)
    /\ ledger.fetched_records <= budgets.max_fetched_records

\* The key summaries in a contract reason partition the rows and show a null
\* or duplicate key.
SummaryShowsViolation ==
    /\ \A s \in Sides :
          /\ Summary(s).row_count = Summary(s).null_key_count
                + Summary(s).invalid_key_count + Summary(s).valid_key_count
          /\ Summary(s).distinct_key_count <= Summary(s).valid_key_count
    /\ \E s \in Sides :
          \/ Summary(s).null_key_count > 0
          \/ Summary(s).valid_key_count # Summary(s).distinct_key_count

StructuralSummary == SummaryShowsViolation /\ \A s \in Sides : Summary(s).invalid_key_count = 0

-----------------------------------------------------------------------------
(* The three artifacts the store takes *)

\* Every row has a key of its own and the root range holds them all.
SummariesClose(root) ==
    \A s \in Sides :
        /\ Summary(s).null_key_count = 0
        /\ Summary(s).invalid_key_count = 0
        /\ Summary(s).valid_key_count = Summary(s).row_count
        /\ Summary(s).distinct_key_count = Summary(s).row_count
        /\ Summary(s).row_count = root.fingerprint[s].count

\* Totals close to the root's row counts, coverage to the terminal ranges, and
\* the verdict to the exact mismatches; the summaries repeat the root.
CompletedCloses(a) ==
    LET root == CHOOSE t \in a.segments : t.segment.segment_sequence = 0
        counts == a.totals.counts
    IN  /\ a.segments # {}
        /\ TreeIsValid(a.segments)
        /\ counts["matched"] + counts["missing"] + counts["modified"]
              = root.fingerprint["reference"].count
        /\ counts["matched"] + counts["extra"] + counts["modified"]
              = root.fingerprint["target"].count
        /\ a.covered_partitions = 1
        /\ a.pruned_segments = LeavesOf(a, {"fingerprint_match"})
        /\ a.exact_segments = LeavesOf(a, ExactStates)
        /\ a.unresolved = {}
        /\ a.fingerprint_nodes = Cardinality(a.segments)
        /\ a.verdict = "mismatch" <=> LeavesOf(a, {"exact_mismatch"}) > 0
        /\ SummariesClose(root)

\* One resolved logical partition, no row evidence and the receipts of both
\* summary reads.
StructuralCloses(a) ==
    /\ a.segments = {}
    /\ a.verdict = "mismatch"
    /\ a.guarantee = "structural"
    /\ <<a.covered_partitions, a.pruned_segments, a.exact_segments>> = <<1, 0, 1>>
    /\ a.unresolved = {}
    /\ a.totals.precision = "contract_violation"
    /\ a.found_records = 0
    /\ a.anomalies = <<>>
    /\ OwnQueries >= 2
    /\ OwnRecords >= 2
    /\ a.fingerprint_nodes = 0
    /\ StructuralSummary

\* The store expects one summary scan on each side.
OneScanPerSide == \A s \in Sides : FullScans(s) = 1

NodesAreCounted_AsAllocated(a) == a.fingerprint_nodes = Cardinality(FrontierNodes(a))

\* The fingerprinted ranges include every resolved one and every witness.
NodesAreCounted(a) ==
    /\ Cardinality(a.segments) + Cardinality(a.witnesses) <= a.fingerprint_nodes
    /\ a.fingerprint_nodes <= Cardinality(FrontierNodes(a))

HasProvenMismatch(a) ==
    \/ \E t \in a.segments : Mismatches(t)
    \/ a.witnesses # {}
    \/ Published(a).totals.precision = "lower_bound"
          /\ DifferenceCount(Published(a).totals.counts) > 0

\* Coverage, totals, reasons and verdict say what the frontier shows.
PartialCloses(a) ==
    LET published == Published(a)
        pruned == LeavesOf(a, {"fingerprint_match"})
        exact == LeavesOf(a, ExactStates)
        contract_proof == "contract_violation" \in published.reasons
    IN  /\ IF IsStructural(a)
           THEN /\ <<a.covered_partitions, a.pruned_segments, a.exact_segments>> = <<1, 0, 1>>
                /\ a.fingerprint_nodes = 0
                /\ contract_proof
           ELSE /\ PartialFrontierTree(a)
                /\ NodesAreCounted(a)
                /\ a.pruned_segments = pruned /\ a.exact_segments = exact
                /\ a.covered_partitions =
                      IF a.unresolved = {} /\ pruned + exact > 0 THEN 1 ELSE 0
        /\ published.totals.precision \notin {"exact", "inferred_under_fingerprint"}
        /\ published.totals.precision = "lower_bound" => exact > 0
        /\ contract_proof => /\ StableReads(a) = "verified"
                             /\ IF IsStructural(a) THEN StructuralSummary
                                                   ELSE SummaryShowsViolation
        /\ IF UnknownRows(a)
           THEN /\ published.verdict = "inconclusive"
                /\ "data_mismatch" \notin published.reasons
                /\ published.totals.precision = InterruptionReasonCode[a.cause]
           ELSE /\ "data_mismatch" \in published.reasons <=> HasProvenMismatch(a)
                /\ published.verdict = "mismatch" <=> HasProvenMismatch(a) \/ contract_proof

StoreAcceptsCompleted(a) ==
    CompletedCloses(a) /\ CompletedWithinBudgets(a) /\ AnomaliesAreCovered(a)

StoreAcceptsStructural(a) ==
    StructuralCloses(a) /\ CompletedWithinBudgets(a) /\ OneScanPerSide

StoreAcceptsPartial(a) ==
    AnomaliesAreCovered(a) /\ PartialCloses(a) /\ WithinAttemptBudgets(a)

StoreAccepts(a) ==
    CASE a.kind = "completed" -> StoreAcceptsCompleted(a)
      [] a.kind = "structural" -> StoreAcceptsStructural(a)
      [] OTHER -> StoreAcceptsPartial(a)

-----------------------------------------------------------------------------
(* What must hold *)

\* The work of a comparison is never refused: wherever it ends, completed,
\* interrupted, out of budget, or demoted on closing, its artifact passes
\* every validator of the store (lifecycle.py:5166, :5621).  Structural
\* results of relations with several physical members are left out, see
\* StructuralIsStored.
ArtifactIsStored ==
    artifact # None /\ (artifact.kind = "structural" =>
                            \A s \in Sides : relation[s].physical_scans = 1) =>
        StoreAccepts(artifact)

\* A structural result is stored whatever the relations' physical shape: a
\* side of C members is summarised with C scans (guides/postgresql.md).
StructuralIsStored ==
    artifact # None /\ artifact.kind = "structural" => StoreAccepts(artifact)

=============================================================================
