--------------------- MODULE IntegerKeyComparisonProofs ---------------------
(***************************************************************************)
(* Proofs about IntegerKeyComparison and ComparisonStorage: what a         *)
(* comparison reports is true, wherever it ends and whatever fingerprints  *)
(* collide, and the lifecycle store accepts it, for any relations,         *)
(* budgets, ranges and read failures.                                      *)
(*                                                                         *)
(* The comparison's invariant has four parts. ProgressIsTrue               *)
(* (IntegerKeyComparisonLemmas) is of the progress alone, so that an       *)
(* exception may turn it into a partial artifact anywhere. Standing ties   *)
(* it to the place: which ranges the level holds, which of them are still  *)
(* to be pruned, and that all that is pending differs once they were.      *)
(* Reservation says that the reads a phase has still to make fit the       *)
(* ledger, so that what was admitted is never refused. Ends says which     *)
(* artifact was made of which progress.                                    *)
(*                                                                         *)
(* Each step is then a lemma about the progress it yields; the theorems    *)
(* read the artifact off the progress, and the progress off the rows.      *)
(*                                                                         *)
(* StoreInvariance adds, on top of it, what the store's validators need    *)
(* and the report does not: the ranges are a tree whose split ones have    *)
(* exactly their two halves as children (IsTree), the retained bytes are   *)
(* those of the evidence, every fingerprinted range is counted once, the   *)
(* summaries were charged as a structural result says they were, and which *)
(* artifact was made where (EndsStorable).                                 *)
(***************************************************************************)
EXTENDS IntegerKeyComparisonLemmas, ComparisonStorage

-----------------------------------------------------------------------------
(* What is reported *)

\* A comparison with nothing left to compare.
IsComplete(p) ==
    /\ p.pending = {} /\ p.summaries_verified
    /\ p.fingerprint_nodes = Cardinality(p.topology)

\* The artifact a of a comparison that ended with progress p: it was
\* interrupted, it completed, the keys break their contract, or one of the
\* last two lost its context.
IsInterrupted(p, a) ==
    \E cause :
        /\ a = PartialComparisonArtifact(p, cause)
        /\ p.summaries_verified => cause # "ComparisonProtocolError"
IsCompleted(p, a) == a = CompletedComparisonArtifact(p) /\ IsComplete(p)
IsStructuralResult(p, a) == a = CompletedStructuralArtifact(p) /\ ~ ContractHolds
IsDemoted(p, a) ==
    \E b : /\ IsCompleted(p, b) \/ IsStructuralResult(p, b)
           /\ a = PartialFromCompleted(b, "snapshot_lost")

\* The artifact a may be reported of the progress p.
IsArtifact(p, a) ==
    \/ IsInterrupted(p, a)
    \/ IsCompleted(p, a)
    \/ IsStructuralResult(p, a)
    \/ IsDemoted(p, a)

(* The fields of an interrupted comparison's artifact.                     *)
LEMMA PartialFields ==
    ASSUME NEW p, ProgressIsTrue(p), NEW cause, NEW a, a = PartialComparisonArtifact(p, cause)
    PROVE  /\ a.kind = "partial" /\ a.cause = cause
           /\ a.segments = p.topology /\ a.unresolved = p.pending
           /\ a.anomalies = p.anomalies
           /\ a.covered_partitions = 1 => a.unresolved = {}
           /\ a.verdict \in {"mismatch", "inconclusive"}
           /\ Shows(p) => a.verdict = "mismatch"
           /\ a.verdict = "mismatch" => Shows(p) \/ ~ ContractHolds
           /\ a.totals.counts =
                 IF Cardinality(Terminal(p, ExactStates)) > 0 THEN p.exact_counts ELSE NoCounts
<1>1. UnresolvedPending(p) = p.pending
  BY ShownIsShown
<1> DEFINE violation == cause = "ComparisonKeyMappingError" /\ ~ ContractHolds
<1>2. /\ PartialVerdict(p, violation) \in {"mismatch", "inconclusive"}
      /\ Shows(p) => PartialVerdict(p, violation) = "mismatch"
      /\ PartialVerdict(p, violation) = "mismatch" => Shows(p) \/ ~ ContractHolds
  <2>1. CASE violation
    BY <2>1 DEF PartialVerdict
  <2>2. CASE ~ violation
    <3>1. PartialVerdict(p, violation) = PartialVerdict(p, FALSE)
      <4> HIDE DEF violation
      <4> QED
        BY <2>2 DEF PartialVerdict
    <3> HIDE DEF violation
    <3> QED
      BY <3>1, ShownIsShown
  <2> QED
    BY <2>1, <2>2
<1>3. a.verdict = PartialVerdict(p, violation)
  BY DEF PartialComparisonArtifact
<1>4. /\ a.kind = "partial" /\ a.cause = cause
      /\ a.segments = p.topology /\ a.unresolved = UnresolvedPending(p)
      /\ a.anomalies = p.anomalies
  BY DEF PartialComparisonArtifact
<1>5. a.covered_partitions = 1 => UnresolvedPending(p) = {}
  BY DEF PartialComparisonArtifact
<1>6. a.totals = PartialTotals(p.exact_counts, Cardinality(Terminal(p, ExactStates)),
                               InterruptionReasonCode[cause])
  BY DEF PartialComparisonArtifact
<1>7. a.totals.counts =
         IF Cardinality(Terminal(p, ExactStates)) > 0 THEN p.exact_counts ELSE NoCounts
  BY <1>6 DEF PartialTotals
<1> QED
  BY <1>1, <1>2, <1>3, <1>4, <1>5, <1>7

(* The counts of a completed comparison.                                   *)
LEMMA CompletedCounts ==
    ASSUME NEW p, ProgressIsTrue(p)
    PROVE  /\ CompletedTotals(p) \in Counts
           /\ \A kind \in Kinds : CompletedTotals(p)[kind] = p.exact_counts[kind]
           /\ CompletedTotals(p)["matched"] = p.exact_counts["matched"] + p.pruned_matched
           /\ DifferenceCount(CompletedTotals(p)) = DifferenceCount(p.exact_counts)
<1>1. p.exact_counts \in Counts /\ p.pruned_matched \in Nat
  BY DEF ProgressIsTrue, ProgressType
<1>2. CompletedTotals(p) = [p.exact_counts EXCEPT !["matched"] = @ + p.pruned_matched]
  BY DEF CompletedTotals
<1> QED
  BY <1>1, <1>2 DEF Counts, Kinds, DifferenceCount

(* The fields of a completed comparison's artifact.                        *)
LEMMA CompletedFields ==
    ASSUME NEW p, ProgressIsTrue(p), NEW a, a = CompletedComparisonArtifact(p)
    PROVE  /\ a.kind = "completed" /\ a.cause = None
           /\ a.segments = p.topology /\ a.unresolved = {}
           /\ a.anomalies = p.anomalies
           /\ a.fingerprint_nodes = p.fingerprint_nodes
           /\ a.exact_segments = p.exact_segments
           /\ a.verdict = IF DifferenceCount(p.exact_counts) = 0 THEN "match" ELSE "mismatch"
           /\ a.totals.counts = CompletedTotals(p)
           /\ a.guarantee = IF p.pruned_segments > 0 THEN "fingerprint" ELSE "exact"
<1>1. DifferenceCount(CompletedTotals(p)) = DifferenceCount(p.exact_counts)
  BY CompletedCounts
<1> QED
  BY <1>1 DEF CompletedComparisonArtifact, CompletedGuarantee

\* A completed artifact b that lost its context becomes a.
LosesContext(p, b, a) ==
    /\ b = CompletedComparisonArtifact(p) \/ b = CompletedStructuralArtifact(p)
    /\ a = PartialFromCompleted(b, "snapshot_lost")

\* The totals of b once it is partial.
DemotedTotals(b) ==
    IF b.kind = "structural" THEN b.totals
    ELSE PartialTotals(
            [b.totals.counts EXCEPT !["matched"] =
                RowCount("reference", {t \in b.segments : t.state \in ExactStates})
                    - b.totals.counts["missing"] - b.totals.counts["modified"]],
            b.exact_segments, "snapshot_lost")

(* The fields of an artifact that lost its context.                        *)
LEMMA DemotedFields ==
    ASSUME NEW p, NEW b, NEW a, LosesContext(p, b, a)
    PROVE  /\ a.kind = "demoted" /\ a.cause = b.cause
           /\ a.segments = b.segments /\ a.unresolved = b.unresolved
           /\ a.anomalies = b.anomalies
           /\ a.verdict = IF b.verdict = "mismatch" THEN "mismatch" ELSE "inconclusive"
           /\ a.covered_partitions = b.covered_partitions
           /\ a.totals = DemotedTotals(b)
<1> DEFINE verdict == IF b.verdict = "mismatch" THEN "mismatch" ELSE "inconclusive"
<1>1. {"kind", "cause", "verdict", "guarantee", "covered_partitions", "unresolved", "totals",
       "segments", "anomalies"} \subseteq DOMAIN b
  BY DEF LosesContext, CompletedComparisonArtifact, CompletedStructuralArtifact
<1>2. a = [b EXCEPT !.kind = "demoted", !.verdict = verdict,
                    !.guarantee = "not_established", !.totals = DemotedTotals(b)]
  BY DEF LosesContext, PartialFromCompleted, DemotedTotals
<1> HIDE DEF verdict
<1>3. /\ a.kind = "demoted" /\ a.cause = b.cause
      /\ a.segments = b.segments /\ a.unresolved = b.unresolved
      /\ a.anomalies = b.anomalies /\ a.covered_partitions = b.covered_partitions
      /\ a.verdict = verdict /\ a.totals = DemotedTotals(b)
  BY ONLY <1>1, <1>2
<1> QED
  BY <1>3 DEF verdict

(* A difference that was shown is reported.                                *)
LEMMA ShownIsReported ==
    ASSUME input \in Inputs, NEW p, ProgressIsTrue(p), NEW a, IsArtifact(p, a), Shows(p)
    PROVE  a.verdict = "mismatch"
<1>1. CASE IsInterrupted(p, a)
  BY <1>1, PartialFields DEF IsInterrupted
<1>2. ASSUME NEW b, IsCompleted(p, b)
      PROVE  b.verdict = "mismatch" /\ b = CompletedComparisonArtifact(p)
  <2>1. /\ p.pending = {} /\ p.summaries_verified /\ p.exact_counts \in Counts
        /\ b = CompletedComparisonArtifact(p)
    BY <1>2 DEF IsCompleted, IsComplete, ProgressIsTrue, ProgressType
  <2>2. p.mismatch_witnesses = {}
    BY <2>1 DEF ProgressIsTrue, RecordsAreTrue
  <2>3. DifferenceCount(p.exact_counts) > 0
    BY <2>1, <2>2 DEF Shows, ProgressIsTrue, DifferenceIsKept
  <2> QED
    BY <2>1, <2>3, CompletedFields
<1>3. ASSUME NEW b, IsStructuralResult(p, b)
      PROVE  b.verdict = "mismatch" /\ b = CompletedStructuralArtifact(p)
  BY <1>3 DEF IsStructuralResult, CompletedStructuralArtifact
<1>4. CASE IsDemoted(p, a)
  <2>1. PICK b : /\ IsCompleted(p, b) \/ IsStructuralResult(p, b)
                 /\ a = PartialFromCompleted(b, "snapshot_lost")
    BY <1>4 DEF IsDemoted
  <2>2. /\ b.verdict = "mismatch"
        /\ LosesContext(p, b, a)
    BY <1>2, <1>3, <2>1 DEF LosesContext
  <2> QED
    BY <2>1, <2>2, DemotedFields
<1> QED
  BY <1>1, <1>2, <1>3, <1>4 DEF IsArtifact

\* What an artifact takes over from a progress.
TakesOver(p, a) ==
    /\ a.segments = p.topology /\ a.anomalies = p.anomalies
    /\ a.unresolved = {} \/ a.unresolved = p.pending
    /\ a.covered_partitions = 1 => a.unresolved = {}
    /\ a.kind = "completed" => a.fingerprint_nodes = Cardinality(p.topology)

(* Such an artifact is well formed.                                        *)
LEMMA TakenOverIsWellFormed ==
    ASSUME NEW p, ProgressIsTrue(p), NEW a, TakesOver(p, a)
    PROVE  ArtifactIsWellFormed(a)
<1>1. /\ a.segments = p.topology /\ a.anomalies = p.anomalies
      /\ a.unresolved = {} \/ a.unresolved = p.pending
      /\ a.covered_partitions = 1 => a.unresolved = {}
      /\ a.kind = "completed" => a.fingerprint_nodes = Cardinality(p.topology)
  BY DEF TakesOver
<1>2. /\ TreeIsSound(p) /\ RecordsAreTrue(p) /\ EvidenceIsTrue(p)
      /\ p.topology \subseteq RecordType /\ p.anomalies \in Seq(AnomalyType)
  BY DEF ProgressIsTrue, ProgressType
<1>3. ASSUME NEW t \in a.segments
      PROVE  /\ t.state \in {"fingerprint_match", "exact_match"} <=> Matches(t)
             /\ t.segment.parent = None <=> t.segment.depth = 0
             /\ t.segment.parent # None => t.segment.parent < t.segment.segment_sequence
             /\ t.segment.lower_inclusive < MathematicalUpper(t.segment)
  <2>1. t \in p.topology
    BY <1>1
  <2>2. SoundSegment(t.segment)
    BY <1>2, <2>1 DEF TreeIsSound, Segments
  <2> QED
    BY <1>2, <2>1, <2>2 DEF RecordsAreTrue, SoundSegment
<1>4. SequenceNumbers(a.segments) \cap {g.segment_sequence : g \in a.unresolved} = {}
  BY <1>1, <1>2 DEF TreeIsSound, SequenceNumbers
<1>5. Cardinality(SequenceNumbers(a.segments)) = Cardinality(a.segments)
  <2> DEFINE S == p.topology
             T == SequenceNumbers(S)
             f == [t \in S |-> t.segment.segment_sequence]
  <2>1. IsFiniteSet(S)
    BY <1>2 DEF TreeIsSound
  <2>2. f \in [S -> T] /\ \A z \in T : \E t \in S : f[t] = z
    BY DEF SequenceNumbers
  <2>3. \A t, u \in S : f[t] = f[u] => t = u
    BY <1>2 DEF TreeIsSound
  <2> HIDE DEF S, T, f
  <2>4. Cardinality(T) = Cardinality(S)
    BY ONLY <2>1, <2>2, <2>3, SameSize
  <2> QED
    BY <1>1, <2>4 DEF S, T
<1>6. ASSUME NEW i \in DOMAIN a.anomalies
      PROVE  \E t \in a.segments : /\ t.segment.segment_sequence = a.anomalies[i].segment_sequence
                                   /\ t.state = "exact_mismatch"
  <2>1. i \in 1 .. Len(p.anomalies)
    BY <1>1, <1>2
  <2> QED
    BY <1>1, <1>2, <2>1 DEF EvidenceIsTrue
<1> QED
  BY <1>1, <1>3, <1>4, <1>5, <1>6 DEF ArtifactIsWellFormed

(* Every artifact passes its constructor's validation, and none is caused  *)
(* by an assertion of the comparison once the summaries are verified.      *)
LEMMA ArtifactPassesItsChecks ==
    ASSUME input \in Inputs, NEW p, ProgressIsTrue(p), NEW a, IsArtifact(p, a)
    PROVE  /\ p.summaries_verified => a.cause # "ComparisonProtocolError"
           /\ ArtifactIsWellFormed(a)
<1>1. None # "ComparisonProtocolError"
  BY CauseAssumption DEF InterruptionReasonCode
<1>2. ASSUME IsInterrupted(p, a)
      PROVE  (p.summaries_verified => a.cause # "ComparisonProtocolError") /\ TakesOver(p, a)
  <2>1. PICK cause : /\ a = PartialComparisonArtifact(p, cause)
                     /\ p.summaries_verified => cause # "ComparisonProtocolError"
    BY <1>2 DEF IsInterrupted
  <2> QED
    BY <2>1, PartialFields DEF TakesOver
<1>3. ASSUME NEW b, IsCompleted(p, b)
      PROVE  /\ b = CompletedComparisonArtifact(p) /\ b.cause = None
             /\ b.kind = "completed"
             /\ b.segments = p.topology /\ b.anomalies = p.anomalies /\ b.unresolved = {}
             /\ b.fingerprint_nodes = Cardinality(p.topology)
  BY <1>3, CompletedFields DEF IsCompleted, IsComplete
<1>4. ASSUME NEW b, IsStructuralResult(p, b)
      PROVE  /\ b = CompletedStructuralArtifact(p) /\ b.cause = None /\ b.kind = "structural"
             /\ b.segments = {} /\ b.anomalies = <<>> /\ b.unresolved = {}
  BY <1>4 DEF IsStructuralResult, CompletedStructuralArtifact
<1>5. ASSUME NEW c, c.segments = {}, c.anomalies = <<>>, c.unresolved = {}, c.kind # "completed"
      PROVE  ArtifactIsWellFormed(c)
  <2>1. SequenceNumbers({}) = {} /\ Cardinality({}) = 0
    BY FS_EmptySet DEF SequenceNumbers
  <2>2. DOMAIN c.anomalies = {}
    BY <1>5
  <2> QED
    BY <1>5, <2>1, <2>2 DEF ArtifactIsWellFormed
<1>6. CASE IsInterrupted(p, a)
  BY <1>2, <1>6, TakenOverIsWellFormed
<1>7. CASE IsCompleted(p, a)
  <2>1. TakesOver(p, a)
    BY <1>3, <1>7 DEF TakesOver
  <2> QED
    BY <1>1, <1>3, <1>7, <2>1, TakenOverIsWellFormed
<1>8. CASE IsStructuralResult(p, a)
  BY <1>1, <1>4, <1>5, <1>8
<1>9. CASE IsDemoted(p, a)
  <2>1. PICK b : /\ IsCompleted(p, b) \/ IsStructuralResult(p, b)
                 /\ a = PartialFromCompleted(b, "snapshot_lost")
    BY <1>9 DEF IsDemoted
  <2>2. LosesContext(p, b, a)
    BY <1>3, <1>4, <2>1 DEF LosesContext
  <2>3. /\ a.kind = "demoted" /\ a.cause = b.cause
        /\ a.segments = b.segments /\ a.unresolved = b.unresolved
        /\ a.anomalies = b.anomalies
        /\ a.covered_partitions = b.covered_partitions
    BY <2>2, DemotedFields
  <2>4. CASE IsCompleted(p, b)
    <3>1. TakesOver(p, a)
      BY <1>3, <2>3, <2>4 DEF TakesOver
    <3> QED
      BY <1>1, <1>3, <2>3, <2>4, <3>1, TakenOverIsWellFormed
  <2>5. CASE IsStructuralResult(p, b)
    BY <1>1, <1>4, <1>5, <2>3, <2>5
  <2> QED
    BY <2>1, <2>4, <2>5
<1> QED
  BY <1>6, <1>7, <1>8, <1>9 DEF IsArtifact

(* Equal rows are matched, and have equal fingerprints.                    *)
LEMMA EqualRowsMatch ==
    ASSUME input \in Inputs, ReferenceRows = TargetRows
    PROVE  /\ \A k \in AllKeys : TrueKind(k) = "matched"
           /\ \A g : Matches(FingerprintNode(g))
<1>1. \A k \in AllKeys : k \in DOMAIN ReferenceRows /\ k \in DOMAIN TargetRows
  BY DEF AllKeys
<1>2. \A k \in AllKeys : TrueKind(k) = "matched"
  BY <1>1, KeysOfBoth
<1>3. relation["reference"].rows = relation["target"].rows
  BY DEF ReferenceRows, TargetRows
<1>4. ASSUME NEW g
      PROVE  Matches(FingerprintNode(g))
  <2>1. KeysIn("reference", g) = KeysIn("target", g)
    BY <1>3 DEF KeysIn
  <2>2. Digest("reference") = Digest("target")
    BY <1>3 DEF Digest
  <2>3. Fingerprint("reference", g) = Fingerprint("target", g)
    BY <2>1, <2>2 DEF Fingerprint
  <2> QED
    BY <2>3 DEF Matches, FingerprintNode, Sides
<1> QED
  BY <1>2, <1>4

(* Only relations that differ show a mismatch.                             *)
LEMMA OnlyDifferencesShow ==
    ASSUME input \in Inputs, NEW p, ProgressIsTrue(p), Shows(p)
    PROVE  ReferenceRows # TargetRows
<1> SUFFICES ASSUME ReferenceRows = TargetRows
             PROVE  FALSE
  OBVIOUS
<1>1. /\ \A k \in AllKeys : TrueKind(k) = "matched"
      /\ \A g : Matches(FingerprintNode(g))
  BY EqualRowsMatch
<1>2. RecordsAreTrue(p) /\ CountsAreTrue(p)
  BY DEF ProgressIsTrue
<1>3. ASSUME NEW t \in p.topology
      PROVE  ~ Mismatches(t)
  <2>1. t = SegmentRecord(FingerprintNode(t.segment), t.state)
    BY <1>2 DEF RecordsAreTrue
  <2>2. t.fingerprint = FingerprintNode(t.segment).fingerprint
    BY <2>1 DEF SegmentRecord
  <2>3. Matches(FingerprintNode(t.segment))
    BY <1>1
  <2> QED
    BY <2>2, <2>3 DEF Mismatches, Matches
<1>4. p.mismatch_witnesses = {}
  <2> SUFFICES ASSUME NEW w \in p.mismatch_witnesses
               PROVE  FALSE
    OBVIOUS
  <2>1. w = FingerprintNode(w.segment) /\ ~ Matches(w)
    BY <1>2 DEF RecordsAreTrue, Mismatches
  <2>2. Matches(FingerprintNode(w.segment))
    BY <1>1
  <2> QED
    BY <2>1, <2>2
<1>5. \A kind \in Kinds : p.exact_counts[kind] = 0
  <2> SUFFICES ASSUME NEW kind \in Kinds
               PROVE  p.exact_counts[kind] = 0
    OBVIOUS
  <2>1. ExactKeys(p, kind) = {}
    BY <1>1 DEF ExactKeys, Kinds
  <2> QED
    BY <1>2, <2>1, FS_EmptySet DEF CountsAreTrue
<1>6. DifferenceCount(p.exact_counts) = 0
  BY <1>5 DEF DifferenceCount, Kinds
<1> QED
  BY <1>3, <1>4, <1>6 DEF Shows

(* Without an exact leaf nothing is counted.                               *)
LEMMA LeavesAreCounted ==
    ASSUME input \in Inputs, NEW p, ProgressIsTrue(p), NEW kind \in Kinds \cup {"matched"}
    PROVE  (IF Cardinality(Terminal(p, ExactStates)) > 0 THEN p.exact_counts ELSE NoCounts)[kind]
              = Cardinality(ExactKeys(p, kind))
<1>1. p.exact_counts[kind] = Cardinality(ExactKeys(p, kind))
  BY DEF ProgressIsTrue, CountsAreTrue
<1>2. IsFiniteSet(Terminal(p, ExactStates))
  <2>1. IsFiniteSet(p.topology) /\ Terminal(p, ExactStates) \subseteq p.topology
    BY DEF ProgressIsTrue, TreeIsSound, Terminal
  <2> QED
    BY <2>1, FS_Subset
<1>3. CASE Cardinality(Terminal(p, ExactStates)) > 0
  BY <1>1, <1>3
<1>4. CASE ~ Cardinality(Terminal(p, ExactStates)) > 0
  <2>1. Cardinality(Terminal(p, ExactStates)) = 0
    BY <1>2, <1>4, FS_CardinalityType
  <2>2. Terminal(p, ExactStates) = {}
    BY <1>2, <2>1, FS_EmptySet
  <2>3. ExactKeys(p, kind) = {}
    BY <2>2 DEF ExactKeys
  <2>4. NoCounts[kind] = 0
    BY DEF NoCounts
  <2> QED
    BY <1>4, <2>3, <2>4, FS_EmptySet
<1> QED
  BY <1>3, <1>4

(* The kinds of the rows of the reference side.                            *)
LEMMA ReferenceKinds ==
    ASSUME input \in Inputs, NEW k \in AllKeys
    PROVE  /\ k \in DOMAIN ReferenceRows <=> TrueKind(k) \in {"matched", "missing", "modified"}
           /\ k \in Int
<1>1. TrueKind(k) = IF k \notin DOMAIN TargetRows THEN "missing"
                    ELSE IF k \notin DOMAIN ReferenceRows THEN "extra"
                    ELSE IF ReferenceRows[k] = TargetRows[k] THEN "matched"
                    ELSE "modified"
  BY KeysOfBoth
<1>2. k \in DOMAIN ReferenceRows \/ k \in DOMAIN TargetRows
  BY DEF AllKeys
<1>3. k \in Int
  BY KeysOfBoth
<1> QED
  BY <1>1, <1>2, <1>3

\* The keys of one side in the resolved ranges with one of some states, and
\* the kind of difference that only that side has a row of.
RowsIn(s, p, states) ==
    {k \in DOMAIN relation[s].rows : \E t \in Terminal(p, states) : InRange(k, t.segment)}
OnlyOn(s) == IF s = "reference" THEN "missing" ELSE "extra"

(* The rows that resolved ranges count are those they hold.                *)
LEMMA RowsOfLeaves ==
    ASSUME input \in Inputs, NEW p, ProgressIsTrue(p), NEW s \in Sides,
           NEW states, states \subseteq TerminalStates
    PROVE  RowCount(s, Terminal(p, states)) = Cardinality(RowsIn(s, p, states))
<1> DEFINE L == Terminal(p, states)
           K == [t \in L |-> KeysIn(s, t.segment)]
           w == [t \in L |-> t.fingerprint[s].count]
           U == UNION {K[t] : t \in L}
<1>1. /\ IsFiniteSet(p.topology) /\ p.topology \subseteq RecordType /\ TreeIsSound(p)
      /\ RecordsAreTrue(p) /\ CountsAreTrue(p)
  BY DEF ProgressIsTrue, TreeIsSound, ProgressType
<1>2. IsFiniteSet(L)
  <2>1. L \subseteq p.topology
    BY DEF Terminal
  <2> QED
    BY <1>1, <2>1, FS_Subset
<1>3. \A t \in L : IsFiniteSet(K[t]) /\ w[t] = Cardinality(K[t])
  <2> SUFFICES ASSUME NEW t \in L
               PROVE  /\ IsFiniteSet(KeysIn(s, t.segment))
                      /\ t.fingerprint[s].count
                            = Cardinality(KeysIn(s, t.segment))
    OBVIOUS
  <2>1. t \in p.topology /\ t.segment \in SegmentType
    BY <1>1 DEF Terminal, RecordType
  <2>2. t = SegmentRecord(FingerprintNode(t.segment), t.state)
    BY <1>1, <2>1 DEF RecordsAreTrue
  <2>3. t.fingerprint = FingerprintNode(t.segment).fingerprint
    BY <2>2 DEF SegmentRecord
  <2>4. FingerprintNode(t.segment).fingerprint[s].count
           = Cardinality(KeysIn(s, t.segment))
    BY <2>1, NodeOfRange
  <2> QED
    BY <2>3, <2>4, KeysOfRange
<1>4. \A t, u \in L : t # u => K[t] \cap K[u] = {}
  <2> SUFFICES ASSUME NEW t \in L, NEW u \in L, t # u,
                      NEW k, k \in KeysIn(s, t.segment),
                      k \in KeysIn(s, u.segment)
               PROVE  FALSE
    OBVIOUS
  <2>1. /\ t \in p.topology /\ u \in p.topology
        /\ t.state \in TerminalStates /\ u.state \in TerminalStates
        /\ t.segment \in SegmentType /\ u.segment \in SegmentType
    BY <1>1 DEF Terminal, RecordType
  <2>2. t.segment # u.segment /\ t.segment \in Frontier(p) /\ u.segment \in Frontier(p)
    BY <1>1, <2>1 DEF TreeIsSound, Frontier, Resolved
  <2>3. Apart(t.segment, u.segment)
    BY <1>1, <2>2 DEF TreeIsSound
  <2>4. k \in Int /\ InRange(k, t.segment) /\ InRange(k, u.segment)
    BY KeysOfRange DEF KeysIn
  <2> QED
    BY <2>1, <2>3, <2>4, ApartMeans
<1>5. RowCount(s, L) = SumFunctionOnSet(w, L)
  BY DEF RowCount
<1>6. RowCount(s, L) = Cardinality(U)
  <2> HIDE DEF L, K, w
  <2> QED
    BY <1>2, <1>3, <1>4, <1>5, SumOfSizes DEF CountsDisjoint, UnionOf
<1>7. U = RowsIn(s, p, states)
  <2>1. \A k : k \in U <=> /\ k \in DOMAIN relation[s].rows
                           /\ \E t \in L : InRange(k, t.segment)
    BY DEF KeysIn
  <2> HIDE DEF U, L
  <2> QED
    BY <2>1 DEF RowsIn, L
<1> QED
  BY ONLY <1>6, <1>7

(* The kinds of the rows of one side.                                      *)
LEMMA KindsOfSide ==
    ASSUME input \in Inputs, NEW s \in Sides, NEW k
    PROVE  k \in DOMAIN relation[s].rows <=>
              k \in AllKeys /\ TrueKind(k) \in {"matched", OnlyOn(s), "modified"}
<1>1. k \in AllKeys =>
         TrueKind(k) = IF k \notin DOMAIN TargetRows THEN "missing"
                       ELSE IF k \notin DOMAIN ReferenceRows THEN "extra"
                       ELSE IF ReferenceRows[k] = TargetRows[k] THEN "matched"
                       ELSE "modified"
  BY KeysOfBoth
<1>2. k \in AllKeys <=> k \in DOMAIN ReferenceRows \/ k \in DOMAIN TargetRows
  BY DEF AllKeys
<1>3. CASE s = "reference"
  BY <1>1, <1>2, <1>3 DEF OnlyOn, ReferenceRows
<1>4. CASE s = "target"
  BY <1>1, <1>2, <1>4 DEF OnlyOn, TargetRows
<1> QED
  BY <1>3, <1>4 DEF Sides

(* The rows of the exact leaves are those of their kinds.                  *)
LEMMA LeavesAddUp ==
    ASSUME input \in Inputs, NEW p, ProgressIsTrue(p), NEW s \in Sides
    PROVE  /\ RowCount(s, Terminal(p, ExactStates)) =
                 p.exact_counts["matched"] + p.exact_counts[OnlyOn(s)] + p.exact_counts["modified"]
           /\ Cardinality(RowsIn(s, p, ExactStates)) =
                 p.exact_counts["matched"] + p.exact_counts[OnlyOn(s)] + p.exact_counts["modified"]
<1> DEFINE A == ExactKeys(p, "matched")
           B == ExactKeys(p, OnlyOn(s))
           U == RowsIn(s, p, ExactStates)
           C == ExactKeys(p, "modified")
<1>1. CountsAreTrue(p)
  BY DEF ProgressIsTrue
<1>2. OnlyOn(s) \in {"missing", "extra"}
  BY DEF OnlyOn
<1>3. ExactStates \subseteq TerminalStates
  BY DEF ExactStates, TerminalStates
<1>4. RowCount(s, Terminal(p, ExactStates)) = Cardinality(U)
  BY <1>3, RowsOfLeaves
<1>5. U = (A \cup B) \cup C
  <2>1. \A k : k \in DOMAIN relation[s].rows <=>
                  k \in AllKeys /\ TrueKind(k) \in {"matched", OnlyOn(s), "modified"}
    BY KindsOfSide
  <2>2. \A k : k \in U <=> /\ k \in DOMAIN relation[s].rows
                           /\ \E t \in Terminal(p, ExactStates) : InRange(k, t.segment)
    BY DEF RowsIn
  <2>3. \A k : k \in (A \cup B) \cup C <=>
                  /\ k \in AllKeys /\ TrueKind(k) \in {"matched", OnlyOn(s), "modified"}
                  /\ \E t \in Terminal(p, ExactStates) : InRange(k, t.segment)
    BY DEF ExactKeys
  <2> HIDE DEF U, A, B, C
  <2> QED
    BY ONLY <2>1, <2>2, <2>3
<1>6. /\ IsFiniteSet(A) /\ IsFiniteSet(B) /\ IsFiniteSet(C)
      /\ A \cap B = {} /\ (A \cup B) \cap C = {}
  <2>1. A \subseteq AllKeys /\ B \subseteq AllKeys /\ C \subseteq AllKeys
    BY DEF ExactKeys
  <2>2. A \cap B = {} /\ (A \cup B) \cap C = {}
    BY <1>2 DEF ExactKeys
  <2> HIDE DEF A, B, C
  <2> QED
    BY <2>1, <2>2, KeysOfBoth, FS_Subset
<1>7. /\ p.exact_counts["matched"] = Cardinality(A) /\ p.exact_counts[OnlyOn(s)] = Cardinality(B)
      /\ p.exact_counts["modified"] = Cardinality(C)
  BY <1>1, <1>2 DEF CountsAreTrue, Kinds
<1> HIDE DEF A, B, C, U
<1>8. /\ IsFiniteSet(A \cup B)
       /\ Cardinality((A \cup B) \cup C) = (Cardinality(A) + Cardinality(B)) + Cardinality(C)
  <2>1. IsFiniteSet(A \cup B) /\ Cardinality(A \cup B) = Cardinality(A) + Cardinality(B)
    BY <1>6, SizeOfUnion
  <2> DEFINE D == A \cup B
  <2>2. IsFiniteSet(D) /\ D \cap C = {}
    BY <1>6, <2>1
  <2> HIDE DEF D
  <2>3. Cardinality(D \cup C) = Cardinality(D) + Cardinality(C)
    BY <1>6, <2>2, SizeOfUnion
  <2> QED
    BY <2>1, <2>3 DEF D
<1> QED
  BY <1>4, <1>5, <1>7, <1>8 DEF U

\* The keys of a kind.
TrueOf(kind) == {k \in AllKeys : TrueKind(k) = kind}

(* Relations differ exactly if a key is not matched.                       *)
LEMMA DifferentRows ==
    ASSUME input \in Inputs
    PROVE  /\ IsFiniteSet(AllKeys)
           /\ ReferenceRows = TargetRows <=> \A k \in AllKeys : TrueKind(k) = "matched"
<1>1. IsFiniteSet(AllKeys)
  BY KeysOfBoth
<1>2. ASSUME \A k \in AllKeys : TrueKind(k) = "matched"
      PROVE  ReferenceRows = TargetRows
  <2>1. \A k \in AllKeys : /\ k \in DOMAIN ReferenceRows /\ k \in DOMAIN TargetRows
                           /\ ReferenceRows[k] = TargetRows[k]
    BY <1>2, KeysOfBoth
  <2>2. DOMAIN ReferenceRows = DOMAIN TargetRows
    BY <2>1 DEF AllKeys
  <2>3. \A k \in DOMAIN ReferenceRows : ReferenceRows[k] = TargetRows[k]
    BY <2>1 DEF AllKeys
  <2>4. /\ ReferenceRows = [k \in DOMAIN ReferenceRows |-> ReferenceRows[k]]
        /\ TargetRows = [k \in DOMAIN TargetRows |-> TargetRows[k]]
    <3>1. \A s \in Sides : IsRelation(relation[s])
      BY ComparisonInputs DEF relation
    <3>2. \A s \in Sides : relation[s].rows = [k \in DOMAIN relation[s].rows |-> relation[s].rows[k]]
      <4> SUFFICES ASSUME NEW s \in Sides
                   PROVE  relation[s].rows = [k \in DOMAIN relation[s].rows |-> relation[s].rows[k]]
        OBVIOUS
      <4>1. PICK keys \in SUBSET Key : relation[s].rows \in [keys -> Values]
        BY <3>1 DEF IsRelation
      <4> QED
        BY <4>1
    <3> QED
      BY <3>2 DEF ReferenceRows, TargetRows, Sides
  <2> QED
    BY <2>2, <2>3, <2>4
<1> QED
  BY <1>1, <1>2, EqualRowsMatch

(* Nothing pending: every key is in a resolved range.                      *)
LEMMA EveryKeyIsResolved ==
    ASSUME NEW p, ProgressIsTrue(p), p.pending = {}, NEW k \in AllKeys
    PROVE  \E t \in p.topology : t.state \in TerminalStates /\ InRange(k, t.segment)
  BY DEF ProgressIsTrue, HoldsEveryKey, Frontier, Resolved

\* No pruned range hides a difference.
NothingIsHidden(p) ==
    \A t \in Terminal(p, {"fingerprint_match"}) : \A k \in AllKeys :
        InRange(k, t.segment) => TrueKind(k) = "matched"

(* Without collisions nothing is hidden.                                   *)
LEMMA CollisionsHide ==
    ASSUME input \in Inputs, NEW p, ProgressIsTrue(p), NoCollision
    PROVE  NothingIsHidden(p)
<1> SUFFICES ASSUME NEW t \in Terminal(p, {"fingerprint_match"}), NEW k \in AllKeys,
                    InRange(k, t.segment)
             PROVE  TrueKind(k) = "matched"
  BY DEF NothingIsHidden
<1>1. /\ t \in p.topology /\ t.state = "fingerprint_match"
      /\ t.segment \in SegmentType
      /\ t = SegmentRecord(FingerprintNode(t.segment), t.state)
      /\ Matches(t)
  BY DEF Terminal, ProgressIsTrue, ProgressType, RecordType, RecordsAreTrue
<1> DEFINE lower == t.segment.lower_inclusive
           upper == t.segment.upper_exclusive
           g == [lower_inclusive |-> lower, upper_exclusive |-> upper]
<1>2. lower \in Key /\ upper \in Key \cup {None}
  BY <1>1 DEF SegmentType
<1>3. \A n : InRange(n, g) <=> InRange(n, t.segment)
  BY DEF InRange, MathematicalUpper
<1>4. \A s : KeysIn(s, g) = KeysIn(s, t.segment)
  <2> HIDE DEF g
  <2> QED
    BY <1>3 DEF KeysIn
<1>5. \A s : Fingerprint(s, g) = Fingerprint(s, t.segment)
  <2> HIDE DEF g
  <2> QED
    BY <1>4 DEF Fingerprint
<1>6. Fingerprint("reference", t.segment) = Fingerprint("target", t.segment)
  <2>1. t.fingerprint = FingerprintNode(t.segment).fingerprint
    BY <1>1 DEF SegmentRecord
  <2>2. /\ FingerprintNode(t.segment).fingerprint["reference"] = Fingerprint("reference", t.segment)
        /\ FingerprintNode(t.segment).fingerprint["target"] = Fingerprint("target", t.segment)
    BY DEF FingerprintNode, Sides
  <2> QED
    BY <1>1, <2>1, <2>2 DEF Matches
<1>7. \A n \in KeysIn("reference", g) \cup KeysIn("target", g) : TrueKind(n) = "matched"
  <2>1. Fingerprint("reference", g) = Fingerprint("target", g)
    BY <1>5, <1>6
  <2> HIDE DEF lower, upper
  <2> QED
    BY <1>2, <2>1 DEF NoCollision
<1>8. k \in KeysIn("reference", g) \cup KeysIn("target", g)
  <2>1. k \in DOMAIN ReferenceRows \/ k \in DOMAIN TargetRows
    BY DEF AllKeys
  <2> HIDE DEF g
  <2> QED
    BY <1>3, <2>1 DEF KeysIn, ReferenceRows, TargetRows
<1> QED
  BY <1>7, <1>8

(* What is hidden apart, a completed comparison counts every key.          *)
LEMMA EveryKeyIsCounted ==
    ASSUME input \in Inputs, NEW p, ProgressIsTrue(p), p.pending = {}, NothingIsHidden(p)
    PROVE  CompletedTotals(p) = TrueCounts
<1>1. CountsAreTrue(p) /\ TreeIsSound(p) /\ p.topology \subseteq RecordType
  BY DEF ProgressIsTrue, ProgressType
<1>2. ASSUME NEW k \in AllKeys
      PROVE  (\E t \in Terminal(p, ExactStates) : InRange(k, t.segment))
             \/ (TrueKind(k) = "matched" /\ k \in PrunedKeys(p))
  <2>1. PICK t \in p.topology : t.state \in TerminalStates /\ InRange(k, t.segment)
    BY EveryKeyIsResolved
  <2>2. CASE t.state \in ExactStates
    BY <2>1, <2>2 DEF Terminal
  <2>3. CASE t.state \notin ExactStates
    <3>1. t \in Terminal(p, {"fingerprint_match"})
      BY <2>1, <2>3 DEF Terminal, TerminalStates, ExactStates
    <3>2. TrueKind(k) = "matched"
      BY <2>1, <3>1 DEF NothingIsHidden
    <3>3. k \in DOMAIN ReferenceRows
      BY <3>2, ReferenceKinds
    <3> QED
      BY <2>1, <3>1, <3>2, <3>3 DEF PrunedKeys
  <2> QED
    BY <2>2, <2>3
<1>3. \A kind \in Kinds : ExactKeys(p, kind) = TrueOf(kind)
  BY <1>2 DEF ExactKeys, TrueOf, Kinds
<1>4. ASSUME NEW k \in PrunedKeys(p)
      PROVE  /\ k \in AllKeys /\ TrueKind(k) = "matched"
             /\ ~ \E t \in Terminal(p, ExactStates) : InRange(k, t.segment)
  <2>1. PICK t \in Terminal(p, {"fingerprint_match"}) : InRange(k, t.segment)
    BY DEF PrunedKeys
  <2>2. k \in AllKeys
    BY DEF PrunedKeys, AllKeys
  <2>3. ASSUME NEW u \in Terminal(p, ExactStates), InRange(k, u.segment)
        PROVE  FALSE
    <3>1. /\ t \in p.topology /\ u \in p.topology /\ t # u
          /\ t.state \in TerminalStates /\ u.state \in TerminalStates
          /\ t.segment \in SegmentType /\ u.segment \in SegmentType
      BY <1>1 DEF Terminal, RecordType, ExactStates, TerminalStates
    <3>2. t.segment # u.segment /\ t.segment \in Frontier(p) /\ u.segment \in Frontier(p)
      BY <1>1, <3>1 DEF TreeIsSound, Frontier, Resolved
    <3>3. Apart(t.segment, u.segment)
      BY <1>1, <3>2 DEF TreeIsSound
    <3>4. k \in Int
      BY <2>2, ReferenceKinds
    <3> QED
      BY <2>1, <2>3, <3>1, <3>3, <3>4, ApartMeans
  <2> QED
    BY <2>1, <2>2, <2>3 DEF NothingIsHidden
<1> DEFINE A == ExactKeys(p, "matched")
           B == PrunedKeys(p)
<1>5. TrueOf("matched") = A \cup B /\ A \cap B = {}
  BY <1>2, <1>4 DEF ExactKeys, TrueOf
<1>6. IsFiniteSet(A) /\ IsFiniteSet(B)
  <2>1. A \subseteq AllKeys /\ B \subseteq AllKeys
    BY <1>4 DEF ExactKeys
  <2> HIDE DEF A, B
  <2> QED
    BY <2>1, KeysOfBoth, FS_Subset
<1>7. /\ p.exact_counts["matched"] = Cardinality(A) /\ p.pruned_matched = Cardinality(B)
      /\ \A kind \in Kinds : p.exact_counts[kind] = Cardinality(ExactKeys(p, kind))
  BY <1>1 DEF CountsAreTrue
<1> HIDE DEF A, B
<1>8. Cardinality(A \cup B) = Cardinality(A) + Cardinality(B)
  BY <1>5, <1>6, SizeOfUnion
<1>9. \A kind \in Kinds \cup {"matched"} : CompletedTotals(p)[kind] = Cardinality(TrueOf(kind))
  <2>1. CompletedTotals(p)["matched"] = Cardinality(TrueOf("matched"))
    BY <1>5, <1>7, <1>8, CompletedCounts
  <2>2. \A kind \in Kinds : CompletedTotals(p)[kind] = Cardinality(TrueOf(kind))
    BY <1>3, <1>7, CompletedCounts
  <2> QED
    BY <2>1, <2>2
<1>10. CompletedTotals(p) \in Counts
  BY CompletedCounts
<1> QED
  BY <1>9, <1>10 DEF Counts, TrueCounts, TrueOf

(* The kind of an artifact tells how the comparison ended.                 *)
LEMMA KindOfArtifact ==
    ASSUME NEW p, ProgressIsTrue(p), NEW a, IsArtifact(p, a)
    PROVE  /\ a.kind = "completed" => IsCompleted(p, a)
           /\ a.kind = "partial" => IsInterrupted(p, a)
           /\ a.kind = "demoted" => IsDemoted(p, a)
<1>1. IsInterrupted(p, a) => a.kind = "partial"
  BY PartialFields DEF IsInterrupted
<1>2. \A b : IsCompleted(p, b) => b = CompletedComparisonArtifact(p) /\ b.kind = "completed"
  BY CompletedFields DEF IsCompleted
<1>3. \A b : IsStructuralResult(p, b) =>
         b = CompletedStructuralArtifact(p) /\ b.kind = "structural"
  BY DEF IsStructuralResult, CompletedStructuralArtifact
<1>4. ASSUME IsDemoted(p, a)
      PROVE  a.kind = "demoted"
  <2>1. PICK b : /\ IsCompleted(p, b) \/ IsStructuralResult(p, b)
                 /\ a = PartialFromCompleted(b, "snapshot_lost")
    BY <1>4 DEF IsDemoted
  <2>2. LosesContext(p, b, a)
    BY <1>2, <1>3, <2>1 DEF LosesContext
  <2> QED
    BY <2>2, DemotedFields
<1> QED
  BY <1>1, <1>2, <1>3, <1>4 DEF IsArtifact

(* Relations are equal if no kind of difference has a key.                 *)
LEMMA NoDifference ==
    ASSUME input \in Inputs
    PROVE  DifferenceCount(TrueCounts) = 0 <=> ReferenceRows = TargetRows
<1>1. \A kind \in Kinds : /\ TrueCounts[kind] = Cardinality(TrueOf(kind))
                          /\ TrueCounts[kind] \in Nat
                          /\ TrueCounts[kind] = 0 <=> TrueOf(kind) = {}
  <2> SUFFICES ASSUME NEW kind \in Kinds
               PROVE  /\ TrueCounts[kind] = Cardinality(TrueOf(kind))
                      /\ TrueCounts[kind] \in Nat
                      /\ TrueCounts[kind] = 0 <=> TrueOf(kind) = {}
    OBVIOUS
  <2>1. TrueCounts[kind] = Cardinality(TrueOf(kind))
    BY DEF TrueCounts, TrueOf
  <2>2. IsFiniteSet(TrueOf(kind))
    <3>1. TrueOf(kind) \subseteq AllKeys
      BY DEF TrueOf
    <3> QED
      BY <3>1, KeysOfBoth, FS_Subset
  <2> QED
    BY <2>1, <2>2, FS_CardinalityType, FS_EmptySet
<1>2. DifferenceCount(TrueCounts) = 0 <=> \A kind \in Kinds : TrueCounts[kind] = 0
  BY <1>1 DEF DifferenceCount, Kinds
<1>3. (\A kind \in Kinds : TrueOf(kind) = {}) <=> \A k \in AllKeys : TrueKind(k) = "matched"
  <2>1. \A k \in AllKeys : TrueKind(k) \in Kinds \cup {"matched"}
    BY KeysOfBoth
  <2>2. "matched" \notin Kinds
    BY DEF Kinds
  <2> QED
    BY <2>1, <2>2 DEF TrueOf
<1> QED
  BY <1>1, <1>2, <1>3, DifferentRows

(* A completed comparison is exact if no range collides.                   *)
LEMMA CompletedIsTrue ==
    ASSUME input \in Inputs, NEW p, ProgressIsTrue(p), NEW a, IsArtifact(p, a),
           a.kind = "completed", NoCollision
    PROVE  /\ a.totals.counts = TrueCounts
           /\ a.verdict = "match" <=> ReferenceRows = TargetRows
<1>1. a = CompletedComparisonArtifact(p) /\ p.pending = {}
  BY KindOfArtifact DEF IsCompleted, IsComplete
<1>2. /\ a.totals.counts = CompletedTotals(p)
      /\ a.verdict = IF DifferenceCount(p.exact_counts) = 0 THEN "match" ELSE "mismatch"
  BY <1>1, CompletedFields
<1>3. CompletedTotals(p) = TrueCounts
  BY <1>1, CollisionsHide, EveryKeyIsCounted
<1>4. DifferenceCount(p.exact_counts) = 0 <=> ReferenceRows = TargetRows
  BY <1>3, CompletedCounts, NoDifference
<1> QED
  BY <1>2, <1>3, <1>4

(* Whatever collides, the exact guarantee holds and no difference is       *)
(* invented.                                                               *)
LEMMA ClaimIsTrue ==
    ASSUME input \in Inputs, NEW p, ProgressIsTrue(p), NEW a, IsArtifact(p, a),
           a.kind = "completed"
    PROVE  /\ a.guarantee = "exact" => a.totals.counts = TrueCounts
           /\ \A kind \in Kinds : a.totals.counts[kind] <= TrueCounts[kind]
<1>1. a = CompletedComparisonArtifact(p) /\ p.pending = {}
  BY KindOfArtifact DEF IsCompleted, IsComplete
<1>2. /\ a.totals.counts = CompletedTotals(p)
      /\ a.guarantee = IF p.pruned_segments > 0 THEN "fingerprint" ELSE "exact"
  BY <1>1, CompletedFields
<1>3. ASSUME a.guarantee = "exact"
      PROVE  CompletedTotals(p) = TrueCounts
  <2>1. p.pruned_segments = Cardinality(Terminal(p, {"fingerprint_match"}))
    BY DEF ProgressIsTrue, CountsAreTrue
  <2>2. IsFiniteSet(Terminal(p, {"fingerprint_match"}))
    <3>1. IsFiniteSet(p.topology) /\ Terminal(p, {"fingerprint_match"}) \subseteq p.topology
      BY DEF ProgressIsTrue, TreeIsSound, Terminal
    <3> QED
      BY <3>1, FS_Subset
  <2>3. ~ p.pruned_segments > 0
    BY <1>2, <1>3
  <2>4. Cardinality(Terminal(p, {"fingerprint_match"})) = 0
    BY <2>1, <2>2, <2>3, FS_CardinalityType
  <2>5. Terminal(p, {"fingerprint_match"}) = {}
    BY <2>2, <2>4, FS_EmptySet
  <2>6. NothingIsHidden(p)
    BY <2>5 DEF NothingIsHidden
  <2> QED
    BY <1>1, <2>6, EveryKeyIsCounted
<1>4. ASSUME NEW kind \in Kinds
      PROVE  CompletedTotals(p)[kind] <= TrueCounts[kind]
  <2>1. CompletedTotals(p)[kind] = Cardinality(ExactKeys(p, kind))
    BY CompletedCounts DEF ProgressIsTrue, CountsAreTrue
  <2>2. TrueCounts[kind] = Cardinality(TrueOf(kind))
    BY DEF TrueCounts, TrueOf
  <2>3. ExactKeys(p, kind) \subseteq TrueOf(kind) /\ TrueOf(kind) \subseteq AllKeys
    BY DEF ExactKeys, TrueOf
  <2>4. IsFiniteSet(TrueOf(kind))
    BY <2>3, KeysOfBoth, FS_Subset
  <2> QED
    BY <2>1, <2>2, <2>3, <2>4, FS_Subset
<1> QED
  BY <1>2, <1>3, <1>4

(* The fingerprints of the root decide the verdict.                        *)
LEMMA RootDecides ==
    ASSUME input \in Inputs, NEW p, ProgressIsTrue(p), NEW a, IsArtifact(p, a),
           a.kind = "completed"
    PROVE  a.verdict = "match" <=>
              Fingerprint("reference", RootSegment) = Fingerprint("target", RootSegment)
<1>1. a = CompletedComparisonArtifact(p) /\ p.pending = {} /\ p.summaries_verified
  BY KindOfArtifact DEF IsCompleted, IsComplete
<1>2. a.verdict = IF DifferenceCount(p.exact_counts) = 0 THEN "match" ELSE "mismatch"
  BY <1>1, CompletedFields
<1>3. Matches(FingerprintNode(RootSegment)) <=>
         Fingerprint("reference", RootSegment) = Fingerprint("target", RootSegment)
  BY DEF Matches, FingerprintNode, Sides
<1>4. ASSUME Matches(FingerprintNode(RootSegment))
      PROVE  DifferenceCount(p.exact_counts) = 0
  <2>1. Segments(p) = {RootSegment}
    BY <1>1, <1>4 DEF ProgressIsTrue, DifferenceIsKept
  <2>2. ASSUME NEW t \in p.topology
        PROVE  t.state \notin ExactStates
    <3>1. /\ t = SegmentRecord(FingerprintNode(t.segment), t.state)
          /\ t.state \in {"fingerprint_match", "exact_match"} <=> Matches(t)
          /\ t.state # "exact_match"
      BY DEF ProgressIsTrue, RecordsAreTrue
    <3>2. t.segment = RootSegment
      BY <2>1 DEF Segments
    <3>3. t.fingerprint = FingerprintNode(RootSegment).fingerprint
      BY <3>1, <3>2 DEF SegmentRecord
    <3>4. Matches(t)
      BY <1>4, <3>3 DEF Matches
    <3> QED
      BY <3>1, <3>4 DEF ExactStates
  <2>3. \A kind \in Kinds : p.exact_counts[kind] = 0
    <3>1. \A kind : ExactKeys(p, kind) = {}
      BY <2>2 DEF ExactKeys, Terminal
    <3> QED
      BY <3>1, FS_EmptySet DEF ProgressIsTrue, CountsAreTrue
  <2> QED
    BY <2>3 DEF DifferenceCount, Kinds
<1>5. ASSUME ~ Matches(FingerprintNode(RootSegment))
      PROVE  DifferenceCount(p.exact_counts) > 0
  BY <1>1, <1>5 DEF ProgressIsTrue, DifferenceIsKept, Mismatches
<1> QED
  BY <1>2, <1>3, <1>4, <1>5

(* The totals of an artifact that lost its context count the exact leaves. *)
LEMMA DemotedCounts ==
    ASSUME input \in Inputs, NEW p, ProgressIsTrue(p), NEW b, b = CompletedComparisonArtifact(p)
    PROVE  /\ DemotedTotals(b).counts =
                 IF Cardinality(Terminal(p, ExactStates)) > 0 THEN p.exact_counts ELSE NoCounts
           /\ DemotedTotals(b) =
                 PartialTotals(p.exact_counts, Cardinality(Terminal(p, ExactStates)),
                               "snapshot_lost")
<1> DEFINE rows == RowCount("reference", {t \in b.segments : t.state \in ExactStates})
           matched == rows - b.totals.counts["missing"] - b.totals.counts["modified"]
           counts == [b.totals.counts EXCEPT !["matched"] = matched]
<1>1. /\ b.kind = "completed" /\ b.segments = p.topology
      /\ b.totals.counts = CompletedTotals(p) /\ b.exact_segments = p.exact_segments
  BY CompletedFields
<1>2. rows = RowCount("reference", Terminal(p, ExactStates))
  BY <1>1 DEF Terminal
<1>3. p.exact_counts \in Counts /\ p.exact_segments = Cardinality(Terminal(p, ExactStates))
  BY DEF ProgressIsTrue, ProgressType, CountsAreTrue
<1>4. matched = p.exact_counts["matched"]
  <2>1. /\ b.totals.counts["missing"] = p.exact_counts["missing"]
        /\ b.totals.counts["modified"] = p.exact_counts["modified"]
    BY <1>1, CompletedCounts DEF Kinds
  <2>2. rows = p.exact_counts["matched"] + p.exact_counts["missing"] + p.exact_counts["modified"]
    BY <1>2, LeavesAddUp DEF OnlyOn, Sides
  <2>3. /\ p.exact_counts["matched"] \in Nat /\ p.exact_counts["missing"] \in Nat
        /\ p.exact_counts["modified"] \in Nat
    BY <1>3 DEF Counts, Kinds
  <2> HIDE DEF rows
  <2> QED
    BY <2>1, <2>2, <2>3
<1>5. counts = p.exact_counts
  <2> HIDE DEF matched
  <2>1. /\ CompletedTotals(p) \in Counts
        /\ \A kind \in Kinds : CompletedTotals(p)[kind] = p.exact_counts[kind]
    BY CompletedCounts
  <2>2. counts \in Counts
    BY <1>1, <1>3, <1>4, <2>1 DEF Counts
  <2>3. \A kind \in Kinds \cup {"matched"} : counts[kind] = p.exact_counts[kind]
    BY <1>1, <1>4, <2>1 DEF Counts, Kinds
  <2> HIDE DEF counts
  <2> QED
    BY <1>3, <2>2, <2>3 DEF Counts
<1>6. DemotedTotals(b) = PartialTotals(counts, b.exact_segments, "snapshot_lost")
  BY <1>1 DEF DemotedTotals
<1> HIDE DEF counts
<1> QED
  BY <1>1, <1>3, <1>5, <1>6 DEF PartialTotals

(* A partial artifact reports what its exact leaves hold.                  *)
LEMMA PartialIsTrue ==
    ASSUME input \in Inputs, NEW p, ProgressIsTrue(p), NEW a, IsArtifact(p, a),
           a.kind \in {"partial", "demoted"}
    PROVE  /\ a.verdict # "match"
           /\ \A kind \in Kinds \cup {"matched"} :
                 a.totals.counts[kind] =
                    Cardinality({k \in AllKeys :
                        /\ TrueKind(k) = kind
                        /\ \E t \in a.segments :
                              t.state \in ExactStates /\ InRange(k, t.segment)})
           /\ a.verdict = "mismatch" => ReferenceRows # TargetRows \/ ~ ContractHolds
<1> DEFINE found(kind) == {k \in AllKeys :
                              /\ TrueKind(k) = kind
                              /\ \E t \in a.segments :
                                    t.state \in ExactStates /\ InRange(k, t.segment)}
           leaves == IF Cardinality(Terminal(p, ExactStates)) > 0 THEN p.exact_counts
                                                                  ELSE NoCounts
<1>1. ASSUME a.segments = p.topology
      PROVE  \A kind : found(kind) = ExactKeys(p, kind)
  BY <1>1 DEF ExactKeys, Terminal
<1>2. ASSUME a.segments = {}
      PROVE  \A kind : Cardinality(found(kind)) = 0
  <2>1. \A kind : found(kind) = {}
    BY <1>2
  <2> HIDE DEF found
  <2> QED
    BY <2>1, FS_EmptySet
<1>3. \A kind \in Kinds \cup {"matched"} : leaves[kind] = Cardinality(ExactKeys(p, kind))
  BY LeavesAreCounted
<1> HIDE DEF found, leaves
<1>4. CASE IsInterrupted(p, a)
  <2>1. PICK cause : a = PartialComparisonArtifact(p, cause)
    BY <1>4 DEF IsInterrupted
  <2>2. /\ a.segments = p.topology
        /\ a.verdict \in {"mismatch", "inconclusive"}
        /\ a.verdict = "mismatch" => Shows(p) \/ ~ ContractHolds
        /\ a.totals.counts = leaves
    BY <2>1, PartialFields DEF leaves
  <2>3. \A kind \in Kinds \cup {"matched"} : a.totals.counts[kind] = Cardinality(found(kind))
    BY <1>1, <1>3, <2>2
  <2>4. a.verdict = "mismatch" => ReferenceRows # TargetRows \/ ~ ContractHolds
    BY <2>2, OnlyDifferencesShow
  <2> QED
    BY <2>2, <2>3, <2>4 DEF found
<1>5. CASE IsDemoted(p, a)
  <2>1. PICK b : /\ IsCompleted(p, b) \/ IsStructuralResult(p, b)
                 /\ a = PartialFromCompleted(b, "snapshot_lost")
    BY <1>5 DEF IsDemoted
  <2>2. LosesContext(p, b, a)
    BY <2>1 DEF LosesContext, IsCompleted, IsStructuralResult
  <2>3. /\ a.segments = b.segments
        /\ a.verdict = IF b.verdict = "mismatch" THEN "mismatch" ELSE "inconclusive"
        /\ a.totals = DemotedTotals(b)
    BY <2>2, DemotedFields
  <2>4. CASE IsCompleted(p, b)
    <3>1. b = CompletedComparisonArtifact(p)
      BY <2>4 DEF IsCompleted
    <3>2. /\ b.segments = p.topology
          /\ b.verdict = IF DifferenceCount(p.exact_counts) = 0 THEN "match" ELSE "mismatch"
      BY <3>1, CompletedFields
    <3>3. a.totals.counts = leaves
      BY <2>3, <3>1, DemotedCounts DEF leaves
    <3>4. \A kind \in Kinds \cup {"matched"} : a.totals.counts[kind] = Cardinality(found(kind))
      BY <1>1, <1>3, <2>3, <3>2, <3>3
    <3>5. ASSUME a.verdict = "mismatch"
          PROVE  ReferenceRows # TargetRows
      <4>1. DifferenceCount(p.exact_counts) # 0
        BY <2>3, <3>2, <3>5
      <4>2. DifferenceCount(p.exact_counts) > 0
        BY <4>1 DEF ProgressIsTrue, ProgressType, Counts, Kinds, DifferenceCount
      <4> QED
        BY <4>2, OnlyDifferencesShow DEF Shows
    <3> QED
      BY <2>3, <3>4, <3>5 DEF found
  <2>5. CASE IsStructuralResult(p, b)
    <3>1. b = CompletedStructuralArtifact(p) /\ ~ ContractHolds
      BY <2>5 DEF IsStructuralResult
    <3>2. b.kind = "structural" /\ b.segments = {} /\ b.totals.counts = NoCounts
      BY <3>1 DEF CompletedStructuralArtifact
    <3>3. a.totals.counts = NoCounts /\ a.segments = {}
      BY <2>3, <3>2 DEF DemotedTotals
    <3>4. \A kind \in Kinds \cup {"matched"} : NoCounts[kind] = 0
      BY DEF NoCounts
    <3>5. \A kind \in Kinds \cup {"matched"} : a.totals.counts[kind] = Cardinality(found(kind))
      BY <1>2, <3>3, <3>4
    <3> QED
      BY <2>3, <3>1, <3>5 DEF found
  <2> QED
    BY <2>1, <2>4, <2>5
<1> QED
  BY <1>4, <1>5, KindOfArtifact

-----------------------------------------------------------------------------
(* The inductive invariant *)

\* Where the comparison may be, and where it reads.
Locations ==
    {"start", "read_summaries", "contract", "plan", "read_fingerprints", "match", "prune",
     "read_exact", "classify", "finish", "done"}
Reads == {"read_summaries", "read_fingerprints", "read_exact"}

\* What was charged is within the budgets.
LedgerFits(l) ==
    l \in [queries : 0 .. budgets.max_queries,
           fetched_records : 0 .. budgets.max_fetched_records,
           full_scans : [Sides -> 0 .. budgets.max_full_scans_per_side]]

\* The level lv that the loop of p is about to fingerprint.
StartsLevel(p, lv) ==
    /\ lv = p.pending
    /\ ContractHolds /\ ~ InvalidKeys
    /\ p.summaries_verified
    /\ Terminal(p, ExactStates) = {}

\* The level lv of p and its fingerprint nodes nd.
HoldsLevel(p, lv, nd) ==
    /\ nd = {FingerprintNode(g) : g \in lv}
    /\ p.pending \subseteq lv
    /\ ContractHolds /\ ~ InvalidKeys
    /\ p.summaries_verified
    /\ p.fingerprint_nodes = Cardinality(p.topology) + Cardinality(p.pending)

\* All that differs in a level is pending, and all that is pending differs.
DifferencesArePending(p, lv) ==
    \A g \in lv : Mismatches(FingerprintNode(g)) => g \in p.pending
PendingDiffers(p) == \A g \in p.pending : Mismatches(FingerprintNode(g))

\* What is known of progress, level and nodes at each place.
Standing(c, s, p, lv, nd) ==
    /\ c \in Locations
    /\ s \in Sides
    /\ c \notin Reads \cup {"done"} => s = "reference"
    /\ lv \subseteq SegmentType /\ IsFiniteSet(lv)
    /\ nd \subseteq NodeType /\ IsFiniteSet(nd)
    /\ p.fingerprint_nodes <= budgets.max_fingerprint_nodes
    /\ c \in {"start", "read_summaries"} => p = InitialProgress
    /\ c = "contract" => /\ p.pending = {RootSegment} /\ p.topology = {}
                         /\ p.summaries_verified /\ p.fingerprint_nodes = 0
    /\ c \in {"plan", "read_fingerprints", "match"} => StartsLevel(p, lv)
    /\ c \in {"plan", "read_fingerprints"} => p.fingerprint_nodes = Cardinality(p.topology)
    /\ c = "read_fingerprints" =>
          p.fingerprint_nodes + Cardinality(lv) <= budgets.max_fingerprint_nodes
    /\ c = "match" => p.fingerprint_nodes = Cardinality(p.topology) + Cardinality(p.pending)
    /\ c \in {"prune", "read_exact", "classify"} => HoldsLevel(p, lv, nd)
    /\ c \in {"prune", "read_exact"} =>
          DifferencesArePending(p, lv) /\ Terminal(p, ExactStates) = {}
    /\ c \in {"read_exact", "classify"} => PendingDiffers(p)
    /\ c = "finish" => IsComplete(p)

\* While a phase reads, the ledger has room for what it still has to read.
Reservation ==
    pc \in Reads =>
        /\ side = "reference" =>
              /\ ledger.queries + 4 <= budgets.max_queries
              /\ ledger.fetched_records + 2 + ReadRecords("reference") + ReadRecords("target")
                    <= budgets.max_fetched_records
              /\ \A s \in Sides :
                    ledger.full_scans[s] + ReadScans(s) <= budgets.max_full_scans_per_side
        /\ side = "target" =>
              LedgerAccepts("target", ReadScans("target"), ReadRecords("target"))

\* There is an artifact once the comparison is done.
Ends(c, p, a) == IF c = "done" THEN IsArtifact(p, a) ELSE a = None

\* The invariant: the progress is true, the place and the work agree with it.
Invariance ==
    /\ input \in Inputs
    /\ LedgerFits(ledger)
    /\ ProgressIsTrue(progress)
    /\ Standing(pc, side, progress, level, nodes)
    /\ Reservation
    /\ Ends(pc, progress, artifact)

(* What a step has to show for the invariant to hold after it.             *)
LEMMA InvariantAfter ==
    ASSUME input \in Inputs, input' = input, LedgerFits(ledger'), ProgressIsTrue(progress'),
           Standing(pc', side', progress', level', nodes'), Reservation',
           Ends(pc', progress', artifact')
    PROVE  Invariance'
<1>1. /\ relation' = relation /\ budgets' = budgets
      /\ \A g : FingerprintNode(g)' = FingerprintNode(g)
      /\ RootSegment' = RootSegment
      /\ (ContractHolds' <=> ContractHolds)
      /\ \A s : Summary(s)' = Summary(s)
  BY ArgumentsStay
<1>2. (input \in Inputs)' /\ ProgressIsTrue(progress)'
  BY ProgressStays
<1>3. LedgerFits(ledger)'
  BY <1>1 DEF LedgerFits
<1>4. InvalidKeys' <=> InvalidKeys
  BY <1>1 DEF InvalidKeys
<1>5. /\ StartsLevel(progress, level)' <=> StartsLevel(progress', level')
      /\ HoldsLevel(progress, level, nodes)' <=> HoldsLevel(progress', level', nodes')
      /\ DifferencesArePending(progress, level)' <=> DifferencesArePending(progress', level')
      /\ PendingDiffers(progress)' <=> PendingDiffers(progress')
      /\ IsComplete(progress)' <=> IsComplete(progress')
  <2>1. StartsLevel(progress, level)' <=> StartsLevel(progress', level')
    BY <1>1, <1>4 DEF StartsLevel
  <2>2. HoldsLevel(progress, level, nodes)' <=> HoldsLevel(progress', level', nodes')
    BY <1>1, <1>4 DEF HoldsLevel
  <2>3. DifferencesArePending(progress, level)' <=> DifferencesArePending(progress', level')
    BY <1>1 DEF DifferencesArePending
  <2>4. PendingDiffers(progress)' <=> PendingDiffers(progress')
    BY <1>1 DEF PendingDiffers
  <2>5. IsComplete(progress)' <=> IsComplete(progress')
    BY DEF IsComplete
  <2> QED
    BY <2>1, <2>2, <2>3, <2>4, <2>5
<1>6. Standing(pc, side, progress, level, nodes)'
  BY <1>1, <1>5 DEF Standing
<1>7. Ends(pc, progress, artifact)'
  <2>1. \A cause : PartialComparisonArtifact(progress, cause)'
                      = PartialComparisonArtifact(progress', cause)
    BY <1>1 DEF PartialComparisonArtifact
  <2>2. IsInterrupted(progress, artifact)' <=> IsInterrupted(progress', artifact')
    BY <2>1 DEF IsInterrupted
  <2>3. IsCompleted(progress, artifact)' <=> IsCompleted(progress', artifact')
    BY DEF IsCompleted, IsComplete
  <2>4. IsStructuralResult(progress, artifact)' <=> IsStructuralResult(progress', artifact')
    BY <1>1 DEF IsStructuralResult
  <2>5. IsDemoted(progress, artifact)' <=> IsDemoted(progress', artifact')
    BY <1>1 DEF IsDemoted, IsCompleted, IsComplete, IsStructuralResult
  <2> QED
    BY <2>2, <2>3, <2>4, <2>5 DEF Ends, IsArtifact
<1> QED
  BY <1>2, <1>3, <1>6, <1>7 DEF Invariance

(* The first state is as it should be.                                     *)
LEMMA InvariantAtStart ==
    ASSUME Init
    PROVE  Invariance
<1>1. /\ input \in Inputs /\ ledger = input.charged /\ pc = "start" /\ side = "reference"
      /\ level = {} /\ nodes = {} /\ progress = InitialProgress /\ artifact = None
  BY DEF Init
<1>2. LedgerFits(ledger) /\ 0 <= budgets.max_fingerprint_nodes
  BY <1>1, Arguments DEF LedgerFits
<1>3. ProgressIsTrue(progress) /\ progress.fingerprint_nodes = 0
  BY <1>1, InitialIsTrue
<1>4. Standing(pc, side, progress, level, nodes)
  <2>1. IsFiniteSet({})
    BY FS_EmptySet
  <2> QED
    BY <1>1, <1>2, <1>3, <2>1 DEF Standing, Locations, Reads, Sides
<1>5. Reservation
  BY <1>1 DEF Reservation, Reads
<1>6. Ends(pc, progress, artifact)
  BY <1>1 DEF Ends
<1> QED
  BY <1>1, <1>2, <1>3, <1>4, <1>5, <1>6 DEF Invariance

(* An exception leaves a partial artifact of the progress yielded last.    *)
LEMMA RaiseKeeps ==
    ASSUME Invariance, NEW cause, Raise(cause), LedgerFits(ledger'),
           progress.summaries_verified => cause # "ComparisonProtocolError"
    PROVE  Invariance' /\ progress' = progress
<1>1. /\ input \in Inputs /\ ProgressIsTrue(progress)
      /\ Standing(pc, side, progress, level, nodes)
  BY DEF Invariance
<1>2. /\ pc' = "done" /\ artifact' = PartialComparisonArtifact(progress, cause)
      /\ input' = input /\ side' = side /\ level' = level /\ nodes' = nodes
      /\ progress' = progress
  BY DEF Raise
<1>3. Standing(pc', side', progress', level', nodes')
  BY <1>1, <1>2 DEF Standing, Locations, Reads
<1>4. Reservation'
  BY <1>2 DEF Reservation, Reads
<1>5. Ends(pc', progress', artifact')
  BY <1>2 DEF Ends, IsArtifact, IsInterrupted
<1> QED
  BY <1>1, <1>2, <1>3, <1>4, <1>5, InvariantAfter

(* What a read scans and returns in each phase, before a step and after it. *)
LEMMA ReadSizes ==
    /\ \A s : /\ pc = "read_summaries" =>
                    ReadScans(s) = relation[s].physical_scans * 1 /\ ReadRecords(s) = 1
              /\ pc = "read_fingerprints" =>
                    /\ ReadScans(s) = relation[s].physical_scans * Cardinality(level)
                    /\ ReadRecords(s) = Cardinality(level)
              /\ pc = "read_exact" =>
                    /\ ReadScans(s) =
                          relation[s].physical_scans * Max({1, Cardinality(Mismatching)})
                    /\ ReadRecords(s) = RawRecords(s)
    /\ \A s : /\ pc' = "read_summaries" =>
                    ReadScans(s)' = relation'[s].physical_scans * 1 /\ ReadRecords(s)' = 1
              /\ pc' = "read_fingerprints" =>
                    /\ ReadScans(s)' = relation'[s].physical_scans * Cardinality(level')
                    /\ ReadRecords(s)' = Cardinality(level')
              /\ pc' = "read_exact" =>
                    /\ ReadScans(s)' =
                          relation'[s].physical_scans * Max({1, Cardinality(Mismatching')})
                    /\ ReadRecords(s)' = RawRecords(s)'
<1>1. ASSUME NEW s, pc = "read_summaries"
      PROVE  ReadScans(s) = relation[s].physical_scans * 1 /\ ReadRecords(s) = 1
  BY <1>1, Zenon DEF ReadScans, ReadRecords
<1>2. ASSUME NEW s, pc = "read_fingerprints"
      PROVE  /\ ReadScans(s) = relation[s].physical_scans * Cardinality(level)
             /\ ReadRecords(s) = Cardinality(level)
  BY <1>2, Zenon DEF ReadScans, ReadRecords
<1>3. ASSUME NEW s, pc = "read_exact"
      PROVE  /\ ReadScans(s) = relation[s].physical_scans * Max({1, Cardinality(Mismatching)})
             /\ ReadRecords(s) = RawRecords(s)
  BY <1>3, Zenon DEF ReadScans, ReadRecords
<1>4. ASSUME NEW s, pc' = "read_summaries"
      PROVE  ReadScans(s)' = relation'[s].physical_scans * 1 /\ ReadRecords(s)' = 1
  BY <1>4, Zenon DEF ReadScans, ReadRecords
<1>5. ASSUME NEW s, pc' = "read_fingerprints"
      PROVE  /\ ReadScans(s)' = relation'[s].physical_scans * Cardinality(level')
             /\ ReadRecords(s)' = Cardinality(level')
  BY <1>5, Zenon DEF ReadScans, ReadRecords
<1>6. ASSUME NEW s, pc' = "read_exact"
      PROVE  /\ ReadScans(s)' = relation'[s].physical_scans * Max({1, Cardinality(Mismatching')})
             /\ ReadRecords(s)' = RawRecords(s)'
  BY <1>6, Zenon DEF ReadScans, ReadRecords
<1> QED
  BY <1>1, <1>2, <1>3, <1>4, <1>5, <1>6

(* They are natural numbers.                                               *)
LEMMA SizesAreNatural ==
    ASSUME Invariance
    PROVE  /\ Cardinality(level) \in Nat /\ Cardinality(Mismatching) \in Nat
           /\ Max({1, Cardinality(Mismatching)}) \in Nat
           /\ \A s \in Sides : RawRecords(s) \in Nat
           /\ \A s \in Sides : relation[s].physical_scans \in Nat
           /\ pc \in Reads => \A s \in Sides : ReadScans(s) \in Nat /\ ReadRecords(s) \in Nat
<1>1. /\ input \in Inputs /\ IsFiniteSet(level) /\ IsFiniteSet(nodes) /\ nodes \subseteq NodeType
  BY DEF Invariance, Standing
<1>2. Mismatching \subseteq nodes /\ IsFiniteSet(Mismatching)
  <2>1. Mismatching \subseteq nodes
    BY DEF Mismatching
  <2> QED
    BY <1>1, <2>1, FS_Subset
<1>3. Cardinality(level) \in Nat /\ Cardinality(Mismatching) \in Nat
  BY <1>1, <1>2, FS_CardinalityType
<1>4. Max({1, Cardinality(Mismatching)}) \in Nat
  <2> DEFINE c == Cardinality(Mismatching)
  <2>1. c \in Int
    BY <1>3
  <2> HIDE DEF c
  <2>2. Max({1, c}) \in Int /\ Max({1, c}) >= 1
    BY <2>1, LargerOfTwo
  <2> QED
    BY <2>2 DEF c
<1>5. ASSUME NEW s \in Sides
      PROVE  RawRecords(s) \in Nat /\ relation[s].physical_scans \in Nat
  <2> DEFINE w == [n \in Mismatching |-> n.fingerprint[s].count]
  <2>1. \A n \in Mismatching : w[n] \in Nat
    BY <1>1, <1>2 DEF NodeType
  <2>2. RowCount(s, Mismatching) = SumFunctionOnSet(w, Mismatching)
    BY DEF RowCount
  <2> HIDE DEF w
  <2>3. RowCount(s, Mismatching) \in Nat
    BY <1>2, <2>1, <2>2, SumIsNatural
  <2>4. Max({1, RowCount(s, Mismatching)}) \in Nat
    BY <2>3, LargerOfTwo
  <2> QED
    BY <1>1, <2>4, Arguments DEF RawRecords
<1>6. ASSUME pc \in Reads, NEW s \in Sides
      PROVE  ReadScans(s) \in Nat /\ ReadRecords(s) \in Nat
  <2>1. CASE pc = "read_summaries"
    BY <1>5, <2>1, ReadSizes
  <2>2. CASE pc = "read_fingerprints"
    BY <1>3, <1>5, <2>2, ReadSizes
  <2>3. CASE pc = "read_exact"
    BY <1>4, <1>5, <2>3, ReadSizes
  <2> QED
    BY <1>6, <2>1, <2>2, <2>3 DEF Reads
<1> QED
  BY <1>3, <1>4, <1>5, <1>6

\* What may be charged.
Chargeable(q, s, f, r) ==
    /\ q \in Nat /\ f \in Nat /\ r \in Nat
    /\ ledger.queries + q <= budgets.max_queries
    /\ ledger.full_scans[s] + f <= budgets.max_full_scans_per_side
    /\ ledger.fetched_records + r <= budgets.max_fetched_records

(* A charge within the budgets leaves the ledger within them.              *)
LEMMA ChargeFits ==
    ASSUME input \in Inputs, LedgerFits(ledger), NEW s \in Sides, NEW q, NEW f, NEW r,
           Chargeable(q, s, f, r)
    PROVE  /\ LedgerFits(Charge(s, q, f, r))
           /\ Charge(s, q, f, r).queries = ledger.queries + q
           /\ Charge(s, q, f, r).fetched_records = ledger.fetched_records + r
           /\ \A t \in Sides : t # s => Charge(s, q, f, r).full_scans[t] = ledger.full_scans[t]
<1> DEFINE queries == ledger.queries + q
           records == ledger.fetched_records + r
           scans == ledger.full_scans[s] + f
           all == [ledger.full_scans EXCEPT ![s] = scans]
<1>1. /\ ledger.queries \in 0 .. budgets.max_queries
      /\ ledger.fetched_records \in 0 .. budgets.max_fetched_records
      /\ ledger.full_scans \in [Sides -> 0 .. budgets.max_full_scans_per_side]
      /\ ledger = [queries |-> ledger.queries, fetched_records |-> ledger.fetched_records,
                   full_scans |-> ledger.full_scans]
  BY DEF LedgerFits
<1>2. /\ budgets.max_queries \in Nat /\ budgets.max_fetched_records \in Nat
      /\ budgets.max_full_scans_per_side \in Nat
  BY Arguments
<1>3. /\ queries \in 0 .. budgets.max_queries /\ records \in 0 .. budgets.max_fetched_records
      /\ scans \in 0 .. budgets.max_full_scans_per_side
  BY <1>1, <1>2 DEF Chargeable
<1>4. Charge(s, q, f, r) = [ledger EXCEPT !.queries = queries, !.fetched_records = records,
                                          !.full_scans = all]
  BY DEF Charge
<1> HIDE DEF queries, records, scans
<1>5. /\ all \in [Sides -> 0 .. budgets.max_full_scans_per_side]
      /\ \A t \in Sides : t # s => all[t] = ledger.full_scans[t]
  BY <1>1, <1>3
<1> HIDE DEF all
<1>6. Charge(s, q, f, r) = [queries |-> queries, fetched_records |-> records, full_scans |-> all]
  BY <1>1, <1>4
<1> QED
  BY <1>3, <1>5, <1>6 DEF LedgerFits, queries, records

(* What was reserved covers the reads.                                     *)
LEMMA ReservationCovers ==
    ASSUME Invariance, pc \in Reads
    PROVE  /\ LedgerAccepts(side, ReadScans(side), ReadRecords(side))
           /\ \A l \in PartialCharges(side, ReadScans(side), ReadRecords(side)) : LedgerFits(l)
           /\ LedgerFits(Charge(side, 2, ReadScans(side), 1 + ReadRecords(side)))
<1> DEFINE f == ReadScans(side)
           r == ReadRecords(side)
<1>1. /\ input \in Inputs /\ LedgerFits(ledger) /\ side \in Sides /\ Reservation
  BY DEF Invariance, Standing
<1>2. /\ ledger.queries \in Nat /\ ledger.fetched_records \in Nat
      /\ ledger.queries <= budgets.max_queries
      /\ ledger.fetched_records <= budgets.max_fetched_records
      /\ \A s \in Sides : /\ ledger.full_scans[s] \in Nat
                          /\ ledger.full_scans[s] <= budgets.max_full_scans_per_side
  BY <1>1, Arguments DEF LedgerFits
<1>3. /\ budgets.max_queries \in Nat /\ budgets.max_fetched_records \in Nat
      /\ budgets.max_full_scans_per_side \in Nat
  BY <1>1, Arguments
<1>4. \A s \in Sides : ReadScans(s) \in Nat /\ ReadRecords(s) \in Nat
  BY SizesAreNatural
<1>5. LedgerAccepts(side, f, r)
  <2>1. CASE side = "reference"
    BY <1>1, <1>2, <1>3, <1>4, <2>1 DEF Reservation, LedgerAccepts, Sides
  <2>2. CASE side = "target"
    BY <1>1, <2>2 DEF Reservation
  <2> QED
    BY <1>1, <2>1, <2>2 DEF Sides
<1>6. /\ ledger.queries + 1 < budgets.max_queries
      /\ ledger.full_scans[side] + f <= budgets.max_full_scans_per_side
      /\ ledger.fetched_records + 1 + r <= budgets.max_fetched_records
      /\ f \in Nat /\ r \in Nat
  BY <1>1, <1>4, <1>5 DEF LedgerAccepts
<1> HIDE DEF f, r
<1>7. ASSUME NEW n \in 0 .. r
      PROVE  LedgerFits(Charge(side, 2, f, 1 + n))
  <2> DEFINE m == 1 + n
  <2>1. Chargeable(2, side, f, m)
    BY <1>1, <1>2, <1>3, <1>6 DEF Chargeable
  <2> HIDE DEF m
  <2>2. LedgerFits(Charge(side, 2, f, m))
    BY <1>1, <2>1, ChargeFits
  <2> QED
    BY <2>2 DEF m
<1>8. LedgerFits(Charge(side, 1, 0, 0)) /\ LedgerFits(Charge(side, 1, 0, 1))
  <2>1. Chargeable(1, side, 0, 0) /\ Chargeable(1, side, 0, 1)
    BY <1>1, <1>2, <1>3, <1>6 DEF Chargeable
  <2> QED
    BY <1>1, <2>1, ChargeFits
<1>9. \A l \in PartialCharges(side, f, r) : LedgerFits(l)
  BY <1>1, <1>7, <1>8 DEF PartialCharges
<1>10. LedgerFits(Charge(side, 2, f, 1 + r))
  <2>1. r \in 0 .. r
    BY <1>6
  <2> QED
    BY <1>7, <2>1
<1> QED
  BY <1>5, <1>9, <1>10 DEF f, r

(* What was charged, and what remains of the budgets.                      *)
LEMMA LedgerNumbers ==
    ASSUME input \in Inputs, LedgerFits(ledger)
    PROVE  /\ budgets.max_queries \in Nat /\ budgets.max_fetched_records \in Nat
           /\ budgets.max_full_scans_per_side \in Nat
           /\ ledger.queries \in Nat /\ ledger.queries <= budgets.max_queries
           /\ ledger.fetched_records \in Nat
           /\ ledger.fetched_records <= budgets.max_fetched_records
           /\ \A s \in Sides : /\ ledger.full_scans[s] \in Nat
                               /\ ledger.full_scans[s] <= budgets.max_full_scans_per_side
           /\ Remaining.queries = budgets.max_queries - ledger.queries
           /\ Remaining.fetched_records = budgets.max_fetched_records - ledger.fetched_records
           /\ \A s \in Sides : Remaining.full_scans[s]
                                  = budgets.max_full_scans_per_side - ledger.full_scans[s]
<1>1. /\ budgets.max_queries \in Nat /\ budgets.max_fetched_records \in Nat
      /\ budgets.max_full_scans_per_side \in Nat
  BY Arguments
<1>2. /\ ledger.queries \in Nat /\ ledger.queries <= budgets.max_queries
      /\ ledger.fetched_records \in Nat
      /\ ledger.fetched_records <= budgets.max_fetched_records
      /\ \A s \in Sides : /\ ledger.full_scans[s] \in Nat
                          /\ ledger.full_scans[s] <= budgets.max_full_scans_per_side
  BY <1>1 DEF LedgerFits
<1>3. ASSUME NEW x \in Int, x >= 0
      PROVE  Max({0, x}) = x
  <2> DEFINE z == 0
  <2>1. z \in Int
    OBVIOUS
  <2> HIDE DEF z
  <2>2. Max({z, x}) = IF z >= x THEN z ELSE x
    BY <1>3, <2>1, LargerOfTwo
  <2> QED
    BY <1>3, <2>2 DEF z
<1>4. Remaining.queries = budgets.max_queries - ledger.queries
  <2> DEFINE x == budgets.max_queries - ledger.queries
  <2>1. x \in Int /\ x >= 0
    BY <1>1, <1>2
  <2>2. Remaining.queries = Max({0, x})
    BY DEF Remaining
  <2> HIDE DEF x
  <2>3. Remaining.queries = x
    BY <1>3, <2>1, <2>2
  <2> QED
    BY <2>3 DEF x
<1>5. Remaining.fetched_records = budgets.max_fetched_records - ledger.fetched_records
  <2> DEFINE x == budgets.max_fetched_records - ledger.fetched_records
  <2>1. x \in Int /\ x >= 0
    BY <1>1, <1>2
  <2>2. Remaining.fetched_records = Max({0, x})
    BY DEF Remaining
  <2> HIDE DEF x
  <2>3. Remaining.fetched_records = x
    BY <1>3, <2>1, <2>2
  <2> QED
    BY <2>3 DEF x
<1>6. ASSUME NEW s \in Sides
      PROVE  Remaining.full_scans[s] = budgets.max_full_scans_per_side - ledger.full_scans[s]
  <2> DEFINE x == budgets.max_full_scans_per_side - ledger.full_scans[s]
  <2>1. x \in Int /\ x >= 0
    BY <1>1, <1>2
  <2>2. Remaining.full_scans[s] = Max({0, x})
    BY DEF Remaining
  <2> HIDE DEF x
  <2>3. Remaining.full_scans[s] = x
    BY <1>3, <2>1, <2>2
  <2> QED
    BY <2>3 DEF x
<1> QED
  BY <1>1, <1>2, <1>4, <1>5, <1>6

\* The room that a reservation of the given work leaves in the ledger.
Reserves(records, scans) ==
    /\ ledger.queries + 4 <= budgets.max_queries
    /\ ledger.fetched_records + records <= budgets.max_fetched_records
    /\ \A s \in Sides : ledger.full_scans[s] + scans[s] <= budgets.max_full_scans_per_side

(* Work within the capacity is reserved.                                   *)
LEMMA CapacityReserves ==
    ASSUME input \in Inputs, LedgerFits(ledger), NEW records \in Nat, NEW scans,
           \A s \in Sides : scans[s] \in Nat, HasCapacity(records, scans)
    PROVE  Reserves(records, scans)
<1>1. /\ Remaining.queries >= 4
      /\ Remaining.fetched_records >= records
      /\ \A s \in Sides : Remaining.full_scans[s] >= scans[s]
  BY DEF HasCapacity
<1>2. ASSUME NEW s \in Sides
      PROVE  ledger.full_scans[s] + scans[s] <= budgets.max_full_scans_per_side
  <2>1. /\ Remaining.full_scans[s] = budgets.max_full_scans_per_side - ledger.full_scans[s]
        /\ ledger.full_scans[s] \in Nat /\ budgets.max_full_scans_per_side \in Nat
        /\ scans[s] \in Nat
    BY LedgerNumbers
  <2> QED
    BY <1>1, <2>1
<1>3. /\ ledger.queries + 4 <= budgets.max_queries
      /\ ledger.fetched_records + records <= budgets.max_fetched_records
  BY <1>1, LedgerNumbers
<1> QED
  BY <1>2, <1>3 DEF Reserves

(* The steps before the summaries are read.                                *)
LEMMA StartKeeps ==
    ASSUME Invariance, PlanSummaries
    PROVE  Invariance' /\ progress' = progress
<1>1. /\ input \in Inputs /\ LedgerFits(ledger) /\ ProgressIsTrue(progress)
      /\ Standing(pc, side, progress, level, nodes) /\ Ends(pc, progress, artifact)
  BY DEF Invariance
<1>2. /\ pc = "start" /\ pc' = "read_summaries" /\ SummariesFit
      /\ input' = input /\ ledger' = ledger /\ side' = side /\ level' = level
      /\ nodes' = nodes /\ progress' = progress /\ artifact' = artifact
  BY DEF PlanSummaries
<1>3. side = "reference"
  BY <1>1, <1>2 DEF Standing, Reads
<1>4. Standing(pc', side', progress', level', nodes')
  BY <1>1, <1>2 DEF Standing, Locations, Reads
<1>5. Reservation'
  <2> DEFINE scans == [s \in Sides |-> relation[s].physical_scans]
  <2>1. \A s \in Sides : scans[s] \in Nat
    BY <1>1, Arguments
  <2>2. HasCapacity(4, scans)
    BY <1>2 DEF SummariesFit
  <2> HIDE DEF scans
  <2>3. Reserves(4, scans)
    BY <1>1, <2>1, <2>2, CapacityReserves
  <2>4. \A s \in Sides : ReadScans(s)' = scans[s] /\ ReadRecords(s)' = 1
    <3>1. relation' = relation
      BY <1>2 DEF relation
    <3>2. \A s \in Sides : scans[s] = relation[s].physical_scans
      BY DEF scans
    <3>3. \A s \in Sides : /\ ReadScans(s)' = relation'[s].physical_scans * 1
                           /\ ReadRecords(s)' = 1
      BY <1>2, ReadSizes
    <3> QED
      BY <2>1, <3>1, <3>2, <3>3
  <2>5. budgets' = budgets
    BY <1>2 DEF budgets
  <2>6. /\ ledger.queries + 4 <= budgets.max_queries
        /\ ledger.fetched_records + 4 <= budgets.max_fetched_records
        /\ \A s \in Sides : ledger.full_scans[s] + ReadScans(s)'
                               <= budgets.max_full_scans_per_side
        /\ ledger.fetched_records \in Nat
    BY <1>1, <2>3, <2>4, LedgerNumbers DEF Reserves
  <2>7. ledger.fetched_records + 2 + ReadRecords("reference")' + ReadRecords("target")'
           <= budgets.max_fetched_records
    BY <2>4, <2>6 DEF Sides
  <2> QED
    BY <1>2, <1>3, <2>5, <2>6, <2>7 DEF Reservation
<1>6. Ends(pc', progress', artifact')
  BY <1>1, <1>2 DEF Ends
<1>7. LedgerFits(ledger') /\ ProgressIsTrue(progress')
  BY <1>1, <1>2
<1> QED
  BY <1>1, <1>2, <1>4, <1>5, <1>6, <1>7, InvariantAfter

(* The first of the two reads of a phase.                                  *)
LEMMA ReferenceReadKeeps ==
    ASSUME Invariance, ReadReference
    PROVE  Invariance' /\ progress' = progress
<1> DEFINE f == ReadScans("reference")
           r == ReadRecords("reference")
           m == 1 + r
<1>1. /\ input \in Inputs /\ LedgerFits(ledger) /\ ProgressIsTrue(progress)
      /\ Standing(pc, side, progress, level, nodes) /\ Ends(pc, progress, artifact)
      /\ Reservation
  BY DEF Invariance
<1>2. /\ pc \in Reads /\ side = "reference" /\ side' = "target"
      /\ LedgerAccepts("reference", f, r) /\ ledger' = Charge("reference", 2, f, m)
      /\ input' = input /\ pc' = pc /\ level' = level
      /\ nodes' = nodes /\ progress' = progress /\ artifact' = artifact
  BY DEF ReadReference, Reads
<1>3. Standing(pc', side', progress', level', nodes')
  BY <1>1, <1>2 DEF Standing, Locations, Reads, Sides
<1>4. /\ \A s \in Sides : ReadScans(s) \in Nat /\ ReadRecords(s) \in Nat
      /\ f \in Nat /\ r \in Nat /\ m \in Nat
  BY <1>2, SizesAreNatural DEF Sides
<1>5. /\ ledger.queries + 4 <= budgets.max_queries
      /\ ledger.fetched_records + 2 + r + ReadRecords("target") <= budgets.max_fetched_records
      /\ \A s \in Sides : ledger.full_scans[s] + ReadScans(s) <= budgets.max_full_scans_per_side
  BY <1>1, <1>2 DEF Reservation
<1>6. Chargeable(2, "reference", f, m)
  BY <1>1, <1>4, <1>5, LedgerNumbers DEF Chargeable, Sides
<1> HIDE DEF m
<1>7. /\ LedgerFits(ledger')
      /\ ledger'.queries = ledger.queries + 2
      /\ ledger'.fetched_records = ledger.fetched_records + m
      /\ ledger'.full_scans["target"] = ledger.full_scans["target"]
  BY <1>1, <1>2, <1>6, ChargeFits DEF Sides
<1>8. \A s \in Sides : ReadScans(s)' = ReadScans(s) /\ ReadRecords(s)' = ReadRecords(s)
  <2>1. relation' = relation /\ Mismatching' = Mismatching
    BY <1>2 DEF relation, Mismatching
  <2>2. \A s \in Sides : RawRecords(s)' = RawRecords(s)
    BY <2>1 DEF RawRecords
  <2> SUFFICES ASSUME NEW s \in Sides
               PROVE  ReadScans(s)' = ReadScans(s) /\ ReadRecords(s)' = ReadRecords(s)
    OBVIOUS
  <2>3. CASE pc = "read_summaries"
    BY <1>2, <2>1, <2>3, ReadSizes
  <2>4. CASE pc = "read_fingerprints"
    <3>1. /\ ReadScans(s) = relation[s].physical_scans * Cardinality(level)
          /\ ReadRecords(s) = Cardinality(level)
          /\ ReadScans(s)' = relation'[s].physical_scans * Cardinality(level')
          /\ ReadRecords(s)' = Cardinality(level')
      BY <1>2, <2>4, ReadSizes
    <3> QED
      BY ONLY <1>2, <2>1, <3>1, Zenon
  <2>5. CASE pc = "read_exact"
    <3>1. /\ ReadScans(s) = relation[s].physical_scans * Max({1, Cardinality(Mismatching)})
          /\ ReadRecords(s) = RawRecords(s)
          /\ ReadScans(s)' = relation'[s].physical_scans * Max({1, Cardinality(Mismatching')})
          /\ ReadRecords(s)' = RawRecords(s)'
      BY <1>2, <2>5, ReadSizes
    <3>2. RawRecords(s)' = RawRecords(s)
      BY <2>2
    <3> QED
      BY ONLY <2>1, <3>1, <3>2, Zenon
  <2> QED
    BY <1>2, <2>3, <2>4, <2>5 DEF Reads
<1>9. Reservation'
  <2>1. budgets' = budgets
    BY <1>2 DEF budgets
  <2>2. /\ ledger'.queries + 1 < budgets.max_queries
        /\ ledger'.full_scans["target"] + ReadScans("target") <= budgets.max_full_scans_per_side
        /\ ledger'.fetched_records + 1 + ReadRecords("target") <= budgets.max_fetched_records
    BY <1>1, <1>4, <1>5, <1>7, LedgerNumbers DEF Sides, m
  <2>3. LedgerAccepts("target", ReadScans("target"), ReadRecords("target"))'
    BY <1>8, <2>1, <2>2 DEF LedgerAccepts, Sides
  <2> QED
    BY <1>2, <2>3 DEF Reservation
<1>10. Ends(pc', progress', artifact')
  BY <1>1, <1>2 DEF Ends
<1>11. ProgressIsTrue(progress')
  BY <1>1, <1>2
<1> QED
  BY <1>1, <1>2, <1>3, <1>7, <1>9, <1>10, <1>11, InvariantAfter

(* The second one: the work is charged.                                    *)
LEMMA TargetReadCharges ==
    ASSUME Invariance, NEW phase \in Reads, ReadTarget(phase)
    PROVE  LedgerFits(ledger') /\ side' = "reference" /\ pc = phase
<1>1. /\ pc = phase /\ side' = "reference"
      /\ ledger' = Charge(side, 2, ReadScans(side), 1 + ReadRecords(side))
  BY DEF ReadTarget
<1> QED
  BY <1>1, ReservationCovers

(* The end of the summaries' reads.                                        *)
LEMMA SummariesKeep ==
    ASSUME Invariance, ReadTargetSummary
    PROVE  Invariance' /\ (Shows(progress) => Shows(progress'))
<1>1. /\ input \in Inputs /\ Standing(pc, side, progress, level, nodes)
      /\ Ends(pc, progress, artifact)
  BY DEF Invariance
<1>2. /\ ReadTarget("read_summaries") /\ pc' = "contract"
      /\ progress' = [progress EXCEPT !.pending = {RootSegment}, !.summaries_verified = TRUE]
      /\ input' = input /\ level' = level /\ nodes' = nodes /\ artifact' = artifact
  BY DEF ReadTargetSummary
<1>3. LedgerFits(ledger') /\ side' = "reference" /\ pc = "read_summaries"
  BY <1>2, TargetReadCharges DEF Reads
<1>4. progress = InitialProgress
  BY <1>1, <1>3 DEF Standing
<1>5. /\ ProgressIsTrue(progress')
      /\ progress'.pending = {RootSegment} /\ progress'.topology = {}
      /\ progress'.fingerprint_nodes = 0 /\ progress'.summaries_verified
  BY <1>1, <1>2, <1>4, SummaryKeeps
<1>6. ~ Shows(progress)
  BY <1>1, <1>4, InitialIsTrue
<1>7. Standing(pc', side', progress', level', nodes')
  <2>1. progress'.fingerprint_nodes <= budgets.max_fingerprint_nodes
    BY <1>1, <1>5, Arguments
  <2> QED
    BY <1>1, <1>2, <1>3, <1>5, <2>1 DEF Standing, Locations, Reads, Sides
<1>8. Reservation'
  BY <1>2 DEF Reservation, Reads
<1>9. Ends(pc', progress', artifact')
  BY <1>1, <1>2, <1>3 DEF Ends
<1> QED
  BY <1>1, <1>2, <1>3, <1>5, <1>6, <1>7, <1>8, <1>9, InvariantAfter

(* Keys that break the contract.                                           *)
LEMMA StructuralKeeps ==
    ASSUME Invariance, CompleteStructural
    PROVE  Invariance' /\ progress' = progress
<1>1. /\ input \in Inputs /\ LedgerFits(ledger) /\ ProgressIsTrue(progress)
      /\ Standing(pc, side, progress, level, nodes)
  BY DEF Invariance
<1>2. /\ ~ ContractHolds /\ pc' = "done" /\ artifact' = CompletedStructuralArtifact(progress)
      /\ input' = input /\ ledger' = ledger /\ side' = side /\ level' = level /\ nodes' = nodes
      /\ progress' = progress
  BY DEF CompleteStructural
<1>3. Standing(pc', side', progress', level', nodes')
  BY <1>1, <1>2 DEF Standing, Locations, Reads
<1>4. Reservation'
  BY <1>2 DEF Reservation, Reads
<1>5. Ends(pc', progress', artifact')
  BY <1>2 DEF Ends, IsArtifact, IsStructuralResult
<1>6. LedgerFits(ledger') /\ ProgressIsTrue(progress')
  BY <1>1, <1>2
<1> QED
  BY <1>1, <1>2, <1>3, <1>4, <1>5, <1>6, InvariantAfter

(* The loop is entered with the root alone.                                *)
LEMMA EnterKeeps ==
    ASSUME Invariance, EnterLoop
    PROVE  Invariance' /\ progress' = progress
<1>1. /\ input \in Inputs /\ LedgerFits(ledger) /\ ProgressIsTrue(progress)
      /\ Standing(pc, side, progress, level, nodes) /\ Ends(pc, progress, artifact)
  BY DEF Invariance
<1>2. /\ pc = "contract" /\ ~ InvalidKeys /\ ContractHolds /\ pc' = "plan"
      /\ level' = progress.pending
      /\ input' = input /\ ledger' = ledger /\ side' = side /\ nodes' = nodes
      /\ progress' = progress /\ artifact' = artifact
  BY DEF EnterLoop
<1>3. /\ progress.pending = {RootSegment} /\ progress.topology = {}
      /\ progress.summaries_verified /\ progress.fingerprint_nodes = 0
      /\ side = "reference"
  BY <1>1, <1>2 DEF Standing, Reads
<1>4. /\ level' \subseteq SegmentType /\ IsFiniteSet(level')
      /\ Cardinality(progress.topology) = 0 /\ Terminal(progress, ExactStates) = {}
  <2>1. /\ progress.pending \subseteq SegmentType /\ IsFiniteSet(progress.pending)
    BY <1>1 DEF ProgressIsTrue, ProgressType, TreeIsSound
  <2>2. Cardinality(progress.topology) = 0
    BY <1>3, FS_EmptySet
  <2>3. Terminal(progress, ExactStates) = {}
    BY <1>3 DEF Terminal
  <2> QED
    BY <1>2, <2>1, <2>2, <2>3
<1>5. StartsLevel(progress', level')
  BY <1>2, <1>3, <1>4 DEF StartsLevel
<1>6. Standing(pc', side', progress', level', nodes')
  BY <1>1, <1>2, <1>3, <1>4, <1>5 DEF Standing, Locations, Reads
<1>7. Reservation'
  BY <1>2 DEF Reservation, Reads
<1>8. Ends(pc', progress', artifact')
  BY <1>1, <1>2 DEF Ends
<1>9. LedgerFits(ledger') /\ ProgressIsTrue(progress')
  BY <1>1, <1>2
<1> QED
  BY <1>1, <1>2, <1>6, <1>7, <1>8, <1>9, InvariantAfter

(* A level that fits is reserved.                                          *)
LEMMA PlanKeeps ==
    ASSUME Invariance, PlanFingerprintLevel
    PROVE  Invariance' /\ progress' = progress
<1> DEFINE c == Cardinality(level)
           scans == [s \in Sides |-> c * relation[s].physical_scans]
           records == 2 * c + 2
<1>1. /\ input \in Inputs /\ LedgerFits(ledger) /\ ProgressIsTrue(progress)
      /\ Standing(pc, side, progress, level, nodes) /\ Ends(pc, progress, artifact)
  BY DEF Invariance
<1>2. /\ pc = "plan" /\ pc' = "read_fingerprints" /\ LevelFits
      /\ input' = input /\ ledger' = ledger /\ side' = side /\ level' = level
      /\ nodes' = nodes /\ progress' = progress /\ artifact' = artifact
  BY DEF PlanFingerprintLevel
<1>3. /\ side = "reference" /\ StartsLevel(progress, level)
      /\ progress.fingerprint_nodes = Cardinality(progress.topology)
  BY <1>1, <1>2 DEF Standing, Reads
<1>4. /\ progress.fingerprint_nodes + Cardinality(level) <= budgets.max_fingerprint_nodes
      /\ HasCapacity(records, scans)
  BY <1>2 DEF LevelFits
<1>5. Standing(pc', side', progress', level', nodes')
  BY <1>1, <1>2, <1>3, <1>4 DEF Standing, Locations, Reads
<1>6. c \in Nat /\ \A s \in Sides : relation[s].physical_scans \in Nat
  BY SizesAreNatural
<1>7. Reservation'
  <2>1. \A s \in Sides : ReadScans(s)' = scans[s] /\ ReadRecords(s)' = c
    <3> SUFFICES ASSUME NEW s \in Sides
                 PROVE  ReadScans(s)' = scans[s] /\ ReadRecords(s)' = c
      OBVIOUS
    <3> DEFINE n == relation[s].physical_scans
    <3>1. relation' = relation
      BY <1>2 DEF relation
    <3>2. /\ ReadScans(s)' = relation'[s].physical_scans * Cardinality(level')
          /\ ReadRecords(s)' = Cardinality(level')
      BY <1>2, ReadSizes
    <3>3. ReadScans(s)' = n * c /\ ReadRecords(s)' = c
      BY ONLY <1>2, <3>1, <3>2, Zenon
    <3>4. scans[s] = c * n
      OBVIOUS
    <3>5. n \in Int /\ c \in Int
      BY <1>6
    <3> HIDE DEF n, c
    <3>6. n * c = c * n
      BY <3>5
    <3> QED
      BY <3>3, <3>4, <3>6
  <2>2. \A s \in Sides : scans[s] \in Nat
    <3> SUFFICES ASSUME NEW s \in Sides
                 PROVE  scans[s] \in Nat
      OBVIOUS
    <3> DEFINE n == relation[s].physical_scans
    <3>1. n \in Nat /\ c \in Nat
      BY <1>6
    <3>2. scans[s] = c * n
      OBVIOUS
    <3> HIDE DEF n, c, scans
    <3>3. c * n \in Nat
      BY <3>1
    <3> QED
      BY <3>2, <3>3
  <2>3. records \in Nat
    BY <1>6
  <2> HIDE DEF scans, c, records
  <2>4. Reserves(records, scans)
    BY <1>1, <1>4, <2>2, <2>3, CapacityReserves
  <2>5. budgets' = budgets
    BY <1>2 DEF budgets
  <2>6. /\ ledger.queries + 4 <= budgets.max_queries
        /\ ledger.fetched_records + records <= budgets.max_fetched_records
        /\ \A s \in Sides : ledger.full_scans[s] + ReadScans(s)'
                               <= budgets.max_full_scans_per_side
        /\ ledger.fetched_records \in Nat
    BY <1>1, <2>1, <2>4, LedgerNumbers DEF Reserves
  <2>7. ledger.fetched_records + 2 + ReadRecords("reference")' + ReadRecords("target")'
           <= budgets.max_fetched_records
    <3>1. ReadRecords("reference")' = c /\ ReadRecords("target")' = c
      BY <2>1 DEF Sides
    <3>2. c \in Nat /\ records = 2 * c + 2
      BY <1>6 DEF c, records
    <3> QED
      BY <2>6, <3>1, <3>2
  <2> QED
    BY <1>2, <1>3, <2>5, <2>6, <2>7 DEF Reservation
<1>8. Ends(pc', progress', artifact')
  BY <1>1, <1>2 DEF Ends
<1>9. LedgerFits(ledger') /\ ProgressIsTrue(progress')
  BY <1>1, <1>2
<1> QED
  BY <1>1, <1>2, <1>5, <1>7, <1>8, <1>9, InvariantAfter

(* The end of the fingerprints' reads.                                     *)
LEMMA FingerprintsKeep ==
    ASSUME Invariance, ReadTargetFingerprints
    PROVE  Invariance' /\ (Shows(progress) => Shows(progress'))
<1> DEFINE n == progress.fingerprint_nodes + Cardinality(level)
<1>1. /\ input \in Inputs /\ ProgressIsTrue(progress)
      /\ Standing(pc, side, progress, level, nodes) /\ Ends(pc, progress, artifact)
  BY DEF Invariance
<1>2. /\ ReadTarget("read_fingerprints") /\ pc' = "match"
      /\ progress' = [progress EXCEPT !.fingerprint_nodes = n]
      /\ input' = input /\ level' = level /\ nodes' = nodes /\ artifact' = artifact
  BY DEF ReadTargetFingerprints
<1>3. LedgerFits(ledger') /\ side' = "reference" /\ pc = "read_fingerprints"
  BY <1>2, TargetReadCharges DEF Reads
<1>4. /\ StartsLevel(progress, level)
      /\ progress.fingerprint_nodes = Cardinality(progress.topology)
      /\ n <= budgets.max_fingerprint_nodes
  BY <1>1, <1>3 DEF Standing
<1>5. n \in Nat
  <2>1. progress.fingerprint_nodes \in Nat
    BY <1>1 DEF ProgressIsTrue, ProgressType
  <2> QED
    BY <2>1, SizesAreNatural
<1>6. level = progress.pending
  BY <1>4 DEF StartsLevel
<1>7. n = Cardinality(progress.topology) + Cardinality(progress.pending)
  BY <1>4, <1>6
<1> HIDE DEF n
<1>8. /\ ProgressIsTrue(progress')
      /\ progress'.fingerprint_nodes = n
      /\ progress'.pending = progress.pending /\ progress'.topology = progress.topology
      /\ progress'.summaries_verified = progress.summaries_verified
      /\ Terminal(progress', ExactStates) = Terminal(progress, ExactStates)
      /\ Shows(progress) => Shows(progress')
  BY <1>1, <1>2, <1>5, CountingKeeps
<1>9. StartsLevel(progress', level')
  BY <1>2, <1>4, <1>8 DEF StartsLevel
<1>10. Standing(pc', side', progress', level', nodes')
  BY <1>1, <1>2, <1>3, <1>4, <1>7, <1>8, <1>9 DEF Standing, Locations, Reads, Sides
<1>11. Reservation'
  BY <1>2 DEF Reservation, Reads
<1>12. Ends(pc', progress', artifact')
  BY <1>1, <1>2, <1>3 DEF Ends
<1> QED
  BY <1>1, <1>2, <1>3, <1>8, <1>10, <1>11, <1>12, InvariantAfter

(* Of keys that keep their contract the root counts every row.             *)
LEMMA RootCountsRows ==
    ASSUME input \in Inputs, ContractHolds, ~ InvalidKeys, NEW s \in Sides
    PROVE  Fingerprint(s, RootSegment).count = Summary(s).row_count
<1> DEFINE keys == DOMAIN relation[s].rows
           c == Cardinality(keys)
           d == relation[s].duplicate_keys
           n == relation[s].null_keys
           v == relation[s].invalid_keys
<1>1. /\ Summary(s).row_count = (c + d) + n + v
      /\ Summary(s).null_key_count = n /\ Summary(s).invalid_key_count = v
      /\ Summary(s).valid_key_count = c + d /\ Summary(s).distinct_key_count = c
  BY DEF Summary
<1>2. IsFiniteSet(keys) /\ d \in Nat /\ n \in Nat /\ v \in Nat /\ c \in Nat
  BY Arguments, FS_CardinalityType
<1>3. n = 0 /\ c + d = c
  BY <1>1 DEF ContractHolds
<1>4. ~ v > 0
  BY <1>1 DEF InvalidKeys
<1>5. KeysIn(s, RootSegment) = keys
  <2>1. \A k \in keys : k \in AllKeys
    BY DEF AllKeys, ReferenceRows, TargetRows, Sides
  <2>2. \A k \in keys : InRange(k, RootSegment)
    BY <2>1, RootHoldsEveryKey
  <2> QED
    BY <2>2 DEF KeysIn
<1>6. Fingerprint(s, RootSegment).count = c
  BY <1>5 DEF Fingerprint
<1> HIDE DEF c, d, n, v
<1>7. (c + d) + n + v = c
  BY <1>2, <1>3, <1>4
<1> QED
  BY <1>1, <1>6, <1>7

(* The level is matched: the root's counts repeat the summaries', and the  *)
(* ranges that differ become the witnesses.                                *)
LEMMA MatchKeeps ==
    ASSUME Invariance, MatchLevel
    PROVE  Invariance' /\ (Shows(progress) => Shows(progress'))
<1> DEFINE here == {FingerprintNode(g) : g \in level}
           unequal == {n \in here : Mismatches(n)}
           w == WithoutMismatchWitness(progress.mismatch_witnesses, SequenceNumbers(unequal))
                   \cup unequal
           q == [progress EXCEPT !.mismatch_witnesses = w]
<1>1. /\ input \in Inputs /\ LedgerFits(ledger) /\ ProgressIsTrue(progress)
      /\ Standing(pc, side, progress, level, nodes) /\ Ends(pc, progress, artifact)
  BY DEF Invariance
<1>2. /\ pc = "match" /\ nodes' = here
      /\ Yield(RootCountsAgree(here), "prune", q)
      /\ input' = input /\ ledger' = ledger /\ side' = side /\ level' = level
  BY DEF MatchLevel
<1>3. /\ StartsLevel(progress, level) /\ side = "reference"
      /\ level \subseteq SegmentType /\ IsFiniteSet(level)
      /\ progress.fingerprint_nodes = Cardinality(progress.topology) + Cardinality(progress.pending)
      /\ progress.fingerprint_nodes <= budgets.max_fingerprint_nodes
  BY <1>1, <1>2 DEF Standing, Reads
<1>4. /\ level = progress.pending /\ ContractHolds /\ ~ InvalidKeys
      /\ progress.summaries_verified /\ Terminal(progress, ExactStates) = {}
  BY <1>3 DEF StartsLevel
<1>5. RecordsAreTrue(progress) /\ DifferenceIsKept(progress)
  BY <1>1 DEF ProgressIsTrue
<1>6. \A n \in here : n = FingerprintNode(n.segment) /\ n.segment \in level /\ n \in NodeType
  BY <1>1, <1>3, NodeOfRange
<1>7. RootCountsAgree(here)
  <2> SUFFICES ASSUME NEW n \in here, n.segment.segment_sequence = 0, NEW s \in Sides
               PROVE  n.fingerprint[s].count = Summary(s).row_count
    BY DEF RootCountsAgree
  <2>1. n.segment \in Segments(progress) /\ n.segment \in SegmentType
    BY <1>3, <1>4, <1>6 DEF Segments
  <2>2. n.segment = RootSegment
    BY <1>4, <1>5, <2>1 DEF DifferenceIsKept
  <2>3. n.fingerprint[s] = Fingerprint(s, RootSegment)
    BY <1>1, <1>6, <2>1, <2>2, NodeOfRange
  <2> QED
    BY <1>1, <1>4, <2>3, RootCountsRows
<1>8. pc' = "prune" /\ progress' = q /\ artifact' = None
  BY <1>2, <1>7 DEF Yield
<1>9. AreWitnesses(progress, w)
  <2>1. \A n \in unequal : n = FingerprintNode(n.segment) /\ n.segment \in progress.pending
                           /\ Mismatches(n)
    BY <1>4, <1>6
  <2>2. \A n \in progress.mismatch_witnesses :
           n = FingerprintNode(n.segment) /\ n.segment \in progress.pending /\ Mismatches(n)
    BY <1>5 DEF RecordsAreTrue
  <2>3. w \subseteq progress.mismatch_witnesses \cup unequal
    BY DEF WithoutMismatchWitness
  <2> HIDE DEF w, unequal
  <2> QED
    BY <2>1, <2>2, <2>3 DEF AreWitnesses
<1>10. progress.mismatch_witnesses # {} => w # {}
  <2> SUFFICES ASSUME NEW n \in progress.mismatch_witnesses
               PROVE  w # {}
    OBVIOUS
  <2>1. n = FingerprintNode(n.segment) /\ n.segment \in level /\ Mismatches(n)
    BY <1>4, <1>5 DEF RecordsAreTrue
  <2>2. n \in unequal
    BY <2>1
  <2> QED
    BY <2>2
<1> HIDE DEF w
<1>11. /\ ProgressIsTrue(progress')
       /\ progress'.fingerprint_nodes = progress.fingerprint_nodes
       /\ progress'.pending = progress.pending /\ progress'.topology = progress.topology
       /\ progress'.summaries_verified = progress.summaries_verified
       /\ progress'.mismatch_witnesses = w
       /\ Terminal(progress', ExactStates) = Terminal(progress, ExactStates)
       /\ DifferenceCount(progress'.exact_counts) = DifferenceCount(progress.exact_counts)
  BY <1>1, <1>8, <1>9, WitnessesKeep
<1>12. Shows(progress) => Shows(progress')
  BY <1>10, <1>11 DEF Shows
<1>13. HoldsLevel(progress', level', nodes')
  BY <1>2, <1>3, <1>4, <1>11 DEF HoldsLevel
<1>14. DifferencesArePending(progress', level') /\ Terminal(progress', ExactStates) = {}
  BY <1>2, <1>4, <1>11 DEF DifferencesArePending
<1>15. nodes' \subseteq NodeType /\ IsFiniteSet(nodes')
  <2>1. IsFiniteSet(here)
    <3> DEFINE f == [g \in level |-> FingerprintNode(g)]
    <3>1. f \in [level -> here] /\ \A n \in here : \E g \in level : f[g] = n
      OBVIOUS
    <3>2. \A x, y \in level : f[x] = f[y] => x = y
      <4>1. \A x \in level : f[x].segment = x
        BY DEF FingerprintNode
      <4> HIDE DEF f
      <4> QED
        BY <4>1
    <3> HIDE DEF f, here
    <3> QED
      BY <1>3, <3>1, <3>2, SameSize
  <2> QED
    BY <1>2, <1>6, <2>1
<1>16. Standing(pc', side', progress', level', nodes')
  BY <1>1, <1>2, <1>3, <1>8, <1>11, <1>13, <1>14, <1>15 DEF Standing, Locations, Reads
<1>17. Reservation'
  BY <1>8 DEF Reservation, Reads
<1>18. Ends(pc', progress', artifact') /\ LedgerFits(ledger')
  BY <1>1, <1>2, <1>8 DEF Ends
<1> QED
  BY <1>1, <1>2, <1>11, <1>12, <1>16, <1>17, <1>18, InvariantAfter

(* Nodes of the level.                                                     *)
LEMMA LevelNodes ==
    ASSUME Invariance, HoldsLevel(progress, level, nodes)
    PROVE  /\ \A n \in nodes : /\ n = FingerprintNode(n.segment) /\ n.segment \in level
                               /\ n.segment \in SegmentType
           /\ \A g \in progress.pending : FingerprintNode(g) \in nodes
                                          /\ FingerprintNode(g).segment = g
<1>1. /\ input \in Inputs /\ level \subseteq SegmentType
  BY DEF Invariance, Standing
<1>2. /\ nodes = {FingerprintNode(g) : g \in level}
      /\ progress.pending \subseteq level
  BY DEF HoldsLevel
<1> QED
  BY <1>1, <1>2, NodeOfRange

(* Equal ranges are pruned.                                                *)
LEMMA PruneStepKeeps ==
    ASSUME Invariance, PruneMatching
    PROVE  Invariance' /\ (Shows(progress) => Shows(progress'))
<1> DEFINE rest == StillPending(Matching)
           batch == {n \in rest : Rank(n, rest) < DeadlineCheckRecords}
<1>1. /\ input \in Inputs /\ LedgerFits(ledger) /\ ProgressIsTrue(progress)
      /\ Standing(pc, side, progress, level, nodes) /\ Ends(pc, progress, artifact)
  BY DEF Invariance
<1>2. /\ pc = "prune" /\ progress' = Prune(progress, batch)
      /\ input' = input /\ ledger' = ledger /\ pc' = pc /\ side' = side /\ level' = level
      /\ nodes' = nodes /\ artifact' = artifact
  BY DEF PruneMatching
<1>3. /\ HoldsLevel(progress, level, nodes) /\ DifferencesArePending(progress, level)
      /\ Terminal(progress, ExactStates) = {}
  BY <1>1, <1>2 DEF Standing
<1>4. \A n \in batch : /\ n.segment \in progress.pending /\ n = FingerprintNode(n.segment)
                       /\ Matches(n)
  BY <1>3, LevelNodes DEF StillPending, Matching
<1> HIDE DEF batch
<1>5. PendingNodes(progress, batch)
  BY <1>4 DEF PendingNodes
<1>6. /\ ProgressIsTrue(progress')
      /\ progress'.pending = progress.pending \ {n.segment : n \in batch}
      /\ Cardinality(progress'.topology) + Cardinality(progress'.pending)
            = Cardinality(progress.topology) + Cardinality(progress.pending)
      /\ progress'.fingerprint_nodes = progress.fingerprint_nodes
      /\ progress'.summaries_verified = progress.summaries_verified
      /\ Terminal(progress', ExactStates) = Terminal(progress, ExactStates)
      /\ Shows(progress) => Shows(progress')
  BY <1>1, <1>2, <1>4, <1>5, PruneKeeps
<1>7. HoldsLevel(progress', level', nodes')
  BY <1>2, <1>3, <1>6 DEF HoldsLevel
<1>8. DifferencesArePending(progress', level')
  <2> SUFFICES ASSUME NEW g \in level, Mismatches(FingerprintNode(g))
               PROVE  g \in progress'.pending
    BY <1>2 DEF DifferencesArePending
  <2>1. g \in progress.pending
    BY <1>3 DEF DifferencesArePending
  <2>2. ASSUME NEW n \in batch, n.segment = g
        PROVE  FALSE
    BY <1>4, <2>2 DEF Mismatches
  <2> QED
    BY <1>6, <2>1, <2>2
<1>9. Standing(pc', side', progress', level', nodes')
  BY <1>1, <1>2, <1>3, <1>6, <1>7, <1>8 DEF Standing
<1>10. Reservation'
  BY <1>2 DEF Reservation, Reads
<1>11. Ends(pc', progress', artifact') /\ LedgerFits(ledger')
  BY <1>1, <1>2 DEF Ends
<1> QED
  BY <1>1, <1>2, <1>6, <1>9, <1>10, <1>11, InvariantAfter

(* Nothing in the level differs: the comparison is complete.               *)
LEMMA LevelMatchesKeeps ==
    ASSUME Invariance, LevelMatches
    PROVE  Invariance' /\ progress' = progress
<1>1. /\ input \in Inputs /\ LedgerFits(ledger) /\ ProgressIsTrue(progress)
      /\ Standing(pc, side, progress, level, nodes) /\ Ends(pc, progress, artifact)
  BY DEF Invariance
<1>2. /\ pc = "prune" /\ StillPending(Matching) = {} /\ Mismatching = {}
      /\ pc' = "finish" /\ level' = {}
      /\ input' = input /\ ledger' = ledger /\ side' = side
      /\ nodes' = nodes /\ progress' = progress /\ artifact' = artifact
  BY DEF LevelMatches
<1>3. HoldsLevel(progress, level, nodes) /\ side = "reference"
  BY <1>1, <1>2 DEF Standing, Reads
<1>4. progress.pending = {}
  <2> SUFFICES ASSUME NEW g \in progress.pending
               PROVE  FALSE
    OBVIOUS
  <2>1. FingerprintNode(g) \in nodes /\ FingerprintNode(g).segment = g
    BY <1>3, LevelNodes
  <2>2. FingerprintNode(g) \in Matching
    BY <1>2, <2>1 DEF Matching, Mismatching, Mismatches
  <2> QED
    BY <1>2, <2>1, <2>2 DEF StillPending
<1>5. IsComplete(progress)
  <2>1. Cardinality(progress.pending) = 0
    BY <1>4, FS_EmptySet
  <2>2. Cardinality(progress.topology) \in Nat
    BY <1>1, FS_CardinalityType DEF ProgressIsTrue, TreeIsSound
  <2> QED
    BY <1>3, <1>4, <2>1, <2>2 DEF IsComplete, HoldsLevel
<1>6. Standing(pc', side', progress', level', nodes')
  <2>1. IsFiniteSet({})
    BY FS_EmptySet
  <2> QED
    BY <1>1, <1>2, <1>3, <1>5, <2>1 DEF Standing, Locations, Reads
<1>7. Reservation'
  BY <1>2 DEF Reservation, Reads
<1>8. Ends(pc', progress', artifact') /\ LedgerFits(ledger') /\ ProgressIsTrue(progress')
  BY <1>1, <1>2 DEF Ends
<1> QED
  BY <1>1, <1>2, <1>6, <1>7, <1>8, InvariantAfter

(* Once the equal ranges are pruned, the pending ones are those that       *)
(* differ.                                                                 *)
LEMMA OnlyDifferencesPend ==
    ASSUME Invariance, HoldsLevel(progress, level, nodes), StillPending(Matching) = {}
    PROVE  PendingDiffers(progress)
<1> SUFFICES ASSUME NEW g \in progress.pending, ~ Mismatches(FingerprintNode(g))
             PROVE  FALSE
  BY DEF PendingDiffers
<1>1. FingerprintNode(g) \in nodes /\ FingerprintNode(g).segment = g
  BY LevelNodes
<1>2. FingerprintNode(g) \in Matching
  BY <1>1 DEF Matching, Mismatches
<1> QED
  BY <1>1, <1>2 DEF StillPending

(* A frontier that fits is reserved.                                       *)
LEMMA AdmitKeeps ==
    ASSUME Invariance, AdmitExactFrontier
    PROVE  Invariance' /\ progress' = progress
<1> DEFINE c == Max({1, Cardinality(Mismatching)})
           scans == [s \in Sides |-> c * relation[s].physical_scans]
           first == RawRecords("reference")
           second == RawRecords("target")
           records == first + second + 2
<1>1. /\ input \in Inputs /\ LedgerFits(ledger) /\ ProgressIsTrue(progress)
      /\ Standing(pc, side, progress, level, nodes) /\ Ends(pc, progress, artifact)
  BY DEF Invariance
<1>2. /\ pc = "prune" /\ StillPending(Matching) = {} /\ ExactFrontierFits
      /\ pc' = "read_exact"
      /\ input' = input /\ ledger' = ledger /\ side' = side /\ level' = level
      /\ nodes' = nodes /\ progress' = progress /\ artifact' = artifact
  BY DEF AdmitExactFrontier
<1>3. /\ side = "reference" /\ HoldsLevel(progress, level, nodes)
      /\ DifferencesArePending(progress, level) /\ Terminal(progress, ExactStates) = {}
  BY <1>1, <1>2 DEF Standing, Reads
<1>4. PendingDiffers(progress)
  BY <1>2, <1>3, OnlyDifferencesPend
<1>5. Standing(pc', side', progress', level', nodes')
  BY <1>1, <1>2, <1>3, <1>4 DEF Standing, Locations, Reads
<1>6. /\ c \in Nat /\ first \in Nat /\ second \in Nat
      /\ \A s \in Sides : relation[s].physical_scans \in Nat
  BY SizesAreNatural DEF Sides
<1>7. Reservation'
  <2>1. relation' = relation /\ Mismatching' = Mismatching
    BY <1>2 DEF relation, Mismatching
  <2>2. \A s \in Sides : RawRecords(s)' = RawRecords(s)
    BY <2>1 DEF RawRecords
  <2>3. \A s \in Sides : ReadScans(s)' = scans[s] /\ ReadRecords(s)' = RawRecords(s)
    <3> SUFFICES ASSUME NEW s \in Sides
                 PROVE  ReadScans(s)' = scans[s] /\ ReadRecords(s)' = RawRecords(s)
      OBVIOUS
    <3> DEFINE n == relation[s].physical_scans
    <3>1. /\ ReadScans(s)' = relation'[s].physical_scans * Max({1, Cardinality(Mismatching')})
          /\ ReadRecords(s)' = RawRecords(s)'
      BY <1>2, ReadSizes
    <3>2. ReadScans(s)' = n * c
      BY ONLY <2>1, <3>1, Zenon
    <3>3. scans[s] = c * n
      OBVIOUS
    <3>4. n \in Int /\ c \in Int
      BY <1>6
    <3> HIDE DEF n, c
    <3>5. n * c = c * n
      BY <3>4
    <3> QED
      BY <2>2, <3>1, <3>2, <3>3, <3>5
  <2>4. \A s \in Sides : scans[s] \in Nat
    <3> SUFFICES ASSUME NEW s \in Sides
                 PROVE  scans[s] \in Nat
      OBVIOUS
    <3> DEFINE n == relation[s].physical_scans
    <3>1. n \in Nat /\ c \in Nat
      BY <1>6
    <3>2. scans[s] = c * n
      OBVIOUS
    <3> HIDE DEF n, c, scans
    <3>3. c * n \in Nat
      BY <3>1
    <3> QED
      BY <3>2, <3>3
  <2>5. records \in Nat
    BY <1>6
  <2>6. HasCapacity(records, scans)
    BY <1>2 DEF ExactFrontierFits
  <2> HIDE DEF scans, c, records
  <2>7. Reserves(records, scans)
    BY <1>1, <2>4, <2>5, <2>6, CapacityReserves
  <2>8. budgets' = budgets
    BY <1>2 DEF budgets
  <2>9. /\ ledger.queries + 4 <= budgets.max_queries
        /\ ledger.fetched_records + records <= budgets.max_fetched_records
        /\ \A s \in Sides : ledger.full_scans[s] + ReadScans(s)'
                               <= budgets.max_full_scans_per_side
        /\ ledger.fetched_records \in Nat /\ budgets.max_fetched_records \in Nat
    BY <1>1, <2>3, <2>7, LedgerNumbers DEF Reserves
  <2>10. ledger.fetched_records + 2 + ReadRecords("reference")' + ReadRecords("target")'
            <= budgets.max_fetched_records
    <3>1. ReadRecords("reference")' = first /\ ReadRecords("target")' = second
      BY <2>3 DEF Sides
    <3>2. records = first + second + 2
      BY DEF records
    <3> HIDE DEF first, second
    <3> QED
      BY <1>6, <2>9, <3>1, <3>2
  <2> QED
    BY <1>2, <1>3, <2>8, <2>9, <2>10 DEF Reservation
<1>8. Ends(pc', progress', artifact') /\ LedgerFits(ledger') /\ ProgressIsTrue(progress')
  BY <1>1, <1>2 DEF Ends
<1> QED
  BY <1>1, <1>2, <1>5, <1>7, <1>8, InvariantAfter

(* The end of the exact reads.                                             *)
LEMMA ExactReadsKeep ==
    ASSUME Invariance, ReadTargetExact
    PROVE  Invariance' /\ progress' = progress
<1>1. /\ input \in Inputs /\ ProgressIsTrue(progress)
      /\ Standing(pc, side, progress, level, nodes) /\ Ends(pc, progress, artifact)
  BY DEF Invariance
<1>2. /\ ReadTarget("read_exact") /\ pc' = "classify"
      /\ input' = input /\ level' = level /\ nodes' = nodes /\ progress' = progress
      /\ artifact' = artifact
  BY DEF ReadTargetExact
<1>3. LedgerFits(ledger') /\ side' = "reference" /\ pc = "read_exact"
  BY <1>2, TargetReadCharges DEF Reads
<1>4. Standing(pc', side', progress', level', nodes')
  BY <1>1, <1>2, <1>3 DEF Standing, Locations, Reads, Sides
<1>5. Reservation'
  BY <1>2 DEF Reservation, Reads
<1>6. Ends(pc', progress', artifact') /\ ProgressIsTrue(progress')
  BY <1>1, <1>2, <1>3 DEF Ends
<1> QED
  BY <1>1, <1>2, <1>3, <1>4, <1>5, <1>6, InvariantAfter

(* A split halves every range that differs, which are all that pend.       *)
LEMMA AllAreHalved ==
    ASSUME Invariance, SplitMismatching,
           NEW M, M = Mismatching, NEW N, N = progress.fingerprint_nodes,
           NEW half, half = [n \in M |-> Halves(n)]
    PROVE  /\ PendingNodes(progress, M) /\ M # {} /\ \A n \in M : Mismatches(n)
           /\ progress.pending = {n.segment : n \in M}
           /\ level' = HalvesOf(M, half)
           /\ HalvesAll(progress, progress', M, N, half)
<1>1. Standing(pc, side, progress, level, nodes)
  BY DEF Invariance
<1>2. /\ pc = "prune" /\ StillPending(Matching) = {} /\ M # {} /\ CanSplit
      /\ level' = {Halves(n)[i] : n \in M, i \in 1 .. 2}
      /\ progress' =
            [progress EXCEPT
                !.topology = @ \cup {SegmentRecord(n, "split") : n \in M},
                !.pending = level',
                !.mismatch_witnesses = WithoutMismatchWitness(@, SequenceNumbers(M))]
  BY DEF SplitMismatching
<1>3. /\ HoldsLevel(progress, level, nodes)
      /\ DifferencesArePending(progress, level)
  BY <1>1, <1>2 DEF Standing
<1>4. PendingDiffers(progress)
  BY <1>2, <1>3, OnlyDifferencesPend
<1>5. PendingNodes(progress, M) /\ \A n \in M : Mismatches(n)
  <2>1. \A n \in M : /\ n = FingerprintNode(n.segment) /\ n.segment \in level /\ Mismatches(n)
    BY <1>3, LevelNodes DEF Mismatching
  <2>2. \A n \in M : n.segment \in progress.pending
    BY <1>3, <2>1 DEF DifferencesArePending
  <2> QED
    BY <2>1, <2>2 DEF PendingNodes
<1>6. progress.pending = {n.segment : n \in M}
  <2>1. \A g \in progress.pending : FingerprintNode(g) \in M /\ FingerprintNode(g).segment = g
    BY <1>3, <1>4, LevelNodes DEF PendingDiffers, Mismatching
  <2>2. \A n \in M : n.segment \in progress.pending
    BY <1>5 DEF PendingNodes
  <2> QED
    BY ONLY <2>1, <2>2
<1>7. N = Cardinality(progress.topology) + Cardinality(progress.pending)
  BY <1>3 DEF HoldsLevel
<1>8. \A n \in M : half[n] = Halves(n)
  OBVIOUS
<1>9. level' = HalvesOf(M, half)
  BY ONLY <1>2, <1>8 DEF HalvesOf
<1>10. \A n \in M : /\ half[n] = SplitSegment(n.segment, N + 2 * Rank(n, M))
                    /\ half[n] # None
                    /\ \A i \in 1 .. 2 : half[n][i].depth <= budgets.max_depth
  BY <1>2, <1>8 DEF CanSplit, Halves
<1>11. progress' = [progress EXCEPT !.topology = @ \cup {SegmentRecord(n, "split") : n \in M},
                      !.pending = HalvesOf(M, half),
                      !.mismatch_witnesses = WithoutMismatchWitness(@, SequenceNumbers(M))]
  BY ONLY <1>2, <1>9, Zenon
<1>12. HalvesAll(progress, progress', M, N, half)
  BY <1>6, <1>7, <1>10, <1>11 DEF HalvesAll
<1> QED
  BY ONLY <1>2, <1>5, <1>6, <1>9, <1>12

(* A frontier that does not fit is split.                                  *)
LEMMA SplitStepKeeps ==
    ASSUME Invariance, SplitMismatching
    PROVE  Invariance' /\ (Shows(progress) => Shows(progress'))
<1> DEFINE M == Mismatching
           N == progress.fingerprint_nodes
           half == [n \in M |-> Halves(n)]
<1>0. Invariance /\ SplitMismatching
  OBVIOUS
<1>1. /\ input \in Inputs /\ LedgerFits(ledger) /\ ProgressIsTrue(progress)
      /\ Standing(pc, side, progress, level, nodes) /\ Ends(pc, progress, artifact)
  BY DEF Invariance
<1>2. /\ pc = "prune" /\ StillPending(Matching) = {} /\ M # {} /\ CanSplit
      /\ pc' = "plan"
      /\ level' = {Halves(n)[i] : n \in M, i \in 1 .. 2}
      /\ progress' =
            [progress EXCEPT
                !.topology = @ \cup {SegmentRecord(n, "split") : n \in M},
                !.pending = level',
                !.mismatch_witnesses = WithoutMismatchWitness(@, SequenceNumbers(M))]
      /\ input' = input /\ ledger' = ledger /\ side' = side
      /\ nodes' = nodes /\ artifact' = artifact
  BY DEF SplitMismatching
<1>3. /\ side = "reference" /\ HoldsLevel(progress, level, nodes)
      /\ DifferencesArePending(progress, level) /\ Terminal(progress, ExactStates) = {}
  BY <1>1, <1>2 DEF Standing, Reads
<1> HIDE DEF M, N, half
<1>4. M = Mismatching /\ N = progress.fingerprint_nodes /\ half = [n \in M |-> Halves(n)]
  BY DEF M, N, half
<1>5. /\ PendingNodes(progress, M) /\ M # {} /\ \A n \in M : Mismatches(n)
      /\ progress.pending = {n.segment : n \in M}
      /\ level' = HalvesOf(M, half)
      /\ HalvesAll(progress, progress', M, N, half)
  BY ONLY <1>0, <1>4, AllAreHalved
<1>6. /\ ProgressIsTrue(progress')
       /\ Cardinality(progress'.topology) = N
       /\ progress'.fingerprint_nodes = progress.fingerprint_nodes
       /\ progress'.summaries_verified = progress.summaries_verified
       /\ progress'.pending = HalvesOf(M, half)
       /\ Terminal(progress', ExactStates) = {}
       /\ Shows(progress')
  BY ONLY <1>1, <1>3, <1>5, SplitKeeps
<1>7. level' \subseteq SegmentType /\ IsFiniteSet(level')
  BY <1>5, <1>6 DEF ProgressIsTrue, ProgressType, TreeIsSound
<1>8. progress.summaries_verified /\ ContractHolds /\ ~ InvalidKeys
  BY <1>1, <1>2, <1>3 DEF Standing, HoldsLevel
<1>9. StartsLevel(progress', level')
  BY <1>5, <1>6, <1>8 DEF StartsLevel
<1>10. Standing(pc', side', progress', level', nodes')
  BY <1>1, <1>2, <1>3, <1>4, <1>6, <1>7, <1>9 DEF Standing, Locations, Reads
<1>11. Reservation'
  BY <1>2 DEF Reservation, Reads
<1>12. Ends(pc', progress', artifact') /\ LedgerFits(ledger')
  BY <1>1, <1>2 DEF Ends
<1> QED
  BY <1>1, <1>2, <1>6, <1>10, <1>11, <1>12, InvariantAfter

(* The first range that is still to be compared row by row.                *)
LEMMA FirstIsFirst ==
    ASSUME Invariance, HoldsLevel(progress, level, nodes), PendingDiffers(progress),
           NEW node \in StillPending(Mismatching),
           Rank(node, StillPending(Mismatching)) = 0
    PROVE  /\ FirstPending(progress, node.segment)
           /\ node = FingerprintNode(node.segment) /\ Mismatches(node)
<1> DEFINE others == StillPending(Mismatching)
           below == {n \in others : n.segment.segment_sequence < node.segment.segment_sequence}
<1>1. /\ node \in nodes /\ node.segment \in progress.pending /\ Mismatches(node)
      /\ node = FingerprintNode(node.segment)
  BY LevelNodes DEF StillPending, Mismatching
<1>2. IsFiniteSet(below)
  <2>1. IsFiniteSet(nodes) /\ others \subseteq nodes
    BY DEF Invariance, Standing, StillPending, Mismatching
  <2>2. below \subseteq nodes
    BY <2>1
  <2> QED
    BY <2>1, <2>2, FS_Subset
<1>3. below = {}
  <2>1. Cardinality(below) = 0
    BY DEF Rank
  <2> QED
    BY <1>2, <2>1, FS_EmptySet
<1>4. ASSUME NEW h \in progress.pending
      PROVE  node.segment.segment_sequence <= h.segment_sequence
  <2>1. FingerprintNode(h) \in others /\ FingerprintNode(h).segment = h
    BY LevelNodes DEF PendingDiffers, StillPending, Mismatching
  <2>2. ~ h.segment_sequence < node.segment.segment_sequence
    BY <1>3, <2>1
  <2>3. h.segment_sequence \in Nat /\ node.segment.segment_sequence \in Nat
    <3>1. h \in SegmentType /\ node.segment \in SegmentType
      BY <1>1 DEF Invariance, ProgressIsTrue, ProgressType
    <3> QED
      BY <3>1, Bounds
  <2> QED
    BY <2>2, <2>3
<1> QED
  BY <1>1, <1>4 DEF FirstPending

(* A range is compared row by row.                                         *)
LEMMA ClassifyStepKeeps ==
    ASSUME Invariance, ClassifyExactLeaf
    PROVE  Invariance' /\ (Shows(progress) => Shows(progress'))
<1>1. /\ input \in Inputs /\ LedgerFits(ledger) /\ ProgressIsTrue(progress)
      /\ Standing(pc, side, progress, level, nodes) /\ Ends(pc, progress, artifact)
  BY DEF Invariance
<1>2. /\ pc = "classify"
      /\ input' = input /\ ledger' = ledger /\ side' = side /\ level' = level
      /\ nodes' = nodes
  BY DEF ClassifyExactLeaf
<1>3. HoldsLevel(progress, level, nodes) /\ PendingDiffers(progress) /\ side = "reference"
  BY <1>1, <1>2 DEF Standing, Reads
<1>4. PICK node \in StillPending(Mismatching) :
         /\ Rank(node, StillPending(Mismatching)) = 0
         /\ \E classified \in {ExactDifferences(node.segment)} :
               LET sequence == node.segment.segment_sequence
                   state == IF DifferenceCount(classified.counts) = 0 THEN "exact_match"
                                                                      ELSE "exact_mismatch"
                   leaf == [progress EXCEPT
                               !.exact_counts = AddExactCounts(@, classified.counts),
                               !.exact_segments = @ + 1,
                               !.topology = @ \cup {SegmentRecord(node, state)},
                               !.pending = WithoutPendingSequence(@, {sequence}),
                               !.mismatch_witnesses = WithoutMismatchWitness(@, {sequence})]
               IN  Yield(LeafCloses(node, classified.counts), "classify",
                         RetainExactDifferences(leaf, classified.differences, sequence))
  BY DEF ClassifyExactLeaf
<1> DEFINE found == ExactDifferences(node.segment)
           number == node.segment.segment_sequence
           state == IF DifferenceCount(found.counts) = 0 THEN "exact_match" ELSE "exact_mismatch"
           leaf == [progress EXCEPT
                       !.exact_counts = AddExactCounts(@, found.counts),
                       !.exact_segments = @ + 1,
                       !.topology = @ \cup {SegmentRecord(node, state)},
                       !.pending = WithoutPendingSequence(@, {number}),
                       !.mismatch_witnesses = WithoutMismatchWitness(@, {number})]
           q == RetainExactDifferences(leaf, found.differences, number)
<1>5. Yield(LeafCloses(node, found.counts), "classify", q)
  BY <1>4
<1>6. /\ FirstPending(progress, node.segment)
      /\ node = FingerprintNode(node.segment) /\ Mismatches(node)
  BY <1>3, <1>4, FirstIsFirst
<1>7. node.segment \in SegmentType
  BY <1>1, <1>6 DEF FirstPending, ProgressIsTrue, ProgressType
<1>8. LeafCloses(node, found.counts)
  BY <1>1, <1>6, <1>7, LeafIsTrue
<1>9. pc' = "classify" /\ progress' = q /\ artifact' = None
  BY <1>5, <1>8 DEF Yield
<1>10. LeafOf(progress, leaf, node, found)
  BY DEF LeafOf
<1>11. progress' = RetainExactDifferences(leaf, found.differences, node.segment.segment_sequence)
  BY <1>9
<1> HIDE DEF leaf, found, number, state, q
<1>12. found = ExactDifferences(node.segment)
  BY DEF found
<1>13. /\ ProgressIsTrue(progress')
       /\ progress'.pending = progress.pending \ {node.segment}
       /\ Cardinality(progress'.topology) + Cardinality(progress'.pending)
             = Cardinality(progress.topology) + Cardinality(progress.pending)
       /\ progress'.fingerprint_nodes = progress.fingerprint_nodes
       /\ progress'.summaries_verified = progress.summaries_verified
       /\ Shows(progress')
  BY ONLY <1>1, <1>6, <1>10, <1>11, <1>12, ClassifyKeeps
<1>14. HoldsLevel(progress', level', nodes')
  BY <1>2, <1>3, <1>13 DEF HoldsLevel
<1>15. PendingDiffers(progress')
  BY <1>3, <1>13 DEF PendingDiffers
<1>16. Standing(pc', side', progress', level', nodes')
  BY <1>1, <1>2, <1>3, <1>9, <1>13, <1>14, <1>15 DEF Standing, Locations, Reads
<1>17. Reservation'
  BY <1>9 DEF Reservation, Reads
<1>18. Ends(pc', progress', artifact') /\ LedgerFits(ledger')
  BY <1>1, <1>2, <1>9 DEF Ends
<1> QED
  BY <1>1, <1>2, <1>13, <1>16, <1>17, <1>18, InvariantAfter

(* Every fetched range is compared: nothing is pending.                    *)
LEMMA EndKeeps ==
    ASSUME Invariance, EndExactFrontier
    PROVE  Invariance' /\ progress' = progress
<1>1. /\ input \in Inputs /\ LedgerFits(ledger) /\ ProgressIsTrue(progress)
      /\ Standing(pc, side, progress, level, nodes) /\ Ends(pc, progress, artifact)
  BY DEF Invariance
<1>2. /\ pc = "classify" /\ StillPending(Mismatching) = {} /\ level' = progress.pending
      /\ pc' = IF progress.pending = {} THEN "finish" ELSE "plan"
      /\ input' = input /\ ledger' = ledger /\ side' = side
      /\ nodes' = nodes /\ progress' = progress /\ artifact' = artifact
  BY DEF EndExactFrontier
<1>3. HoldsLevel(progress, level, nodes) /\ PendingDiffers(progress) /\ side = "reference"
  BY <1>1, <1>2 DEF Standing, Reads
<1>4. progress.pending = {}
  <2> SUFFICES ASSUME NEW g \in progress.pending
               PROVE  FALSE
    OBVIOUS
  <2>1. FingerprintNode(g) \in StillPending(Mismatching)
    BY <1>3, LevelNodes DEF PendingDiffers, StillPending, Mismatching
  <2> QED
    BY <1>2, <2>1
<1>5. IsComplete(progress)
  <2>1. Cardinality(progress.pending) = 0
    BY <1>4, FS_EmptySet
  <2>2. Cardinality(progress.topology) \in Nat
    BY <1>1, FS_CardinalityType DEF ProgressIsTrue, TreeIsSound
  <2> QED
    BY <1>3, <1>4, <2>1, <2>2 DEF IsComplete, HoldsLevel
<1>6. Standing(pc', side', progress', level', nodes')
  <2>1. IsFiniteSet({})
    BY FS_EmptySet
  <2> QED
    BY <1>1, <1>2, <1>3, <1>4, <1>5, <2>1 DEF Standing, Locations, Reads
<1>7. Reservation'
  BY <1>2, <1>4 DEF Reservation, Reads
<1>8. Ends(pc', progress', artifact') /\ LedgerFits(ledger') /\ ProgressIsTrue(progress')
  BY <1>1, <1>2, <1>4 DEF Ends
<1> QED
  BY <1>1, <1>2, <1>6, <1>7, <1>8, InvariantAfter

(* The topology has no gap, and every difference is counted as evidence.   *)
LEMMA CompletionCloses ==
    ASSUME input \in Inputs, NEW p, ProgressIsTrue(p), p.pending = {}
    PROVE  /\ TopologyIsContiguous(p)
           /\ p.found_records = DifferenceCount(CompletedTotals(p))
<1>1. TreeIsSound(p) /\ CountsAreTrue(p) /\ EvidenceIsTrue(p)
  BY DEF ProgressIsTrue
<1>2. TopologyIsContiguous(p)
  <2>1. NumbersOf(Segments(p)) = SequenceNumbers(p.topology)
    BY DEF NumbersOf, Segments, SequenceNumbers
  <2>2. Cardinality(p.pending) = 0 /\ Cardinality(p.topology) \in Nat
    BY <1>1, FS_EmptySet, FS_CardinalityType DEF TreeIsSound
  <2> QED
    BY <1>1, <2>1, <2>2 DEF TreeIsSound, TopologyIsContiguous
<1> DEFINE A == ExactKeys(p, "missing")
           B == ExactKeys(p, "extra")
           C == ExactKeys(p, "modified")
<1>3. FoundIn(p) = (A \cup B) \cup C
  <2>1. \A k \in AllKeys : TrueKind(k) \in {"missing", "extra", "modified", "matched"}
    BY KeysOfBoth DEF Kinds
  <2> QED
    BY <2>1 DEF FoundIn, ExactKeys
<1>4. IsFiniteSet(A) /\ IsFiniteSet(B) /\ IsFiniteSet(C) /\ A \cap B = {} /\ (A \cup B) \cap C = {}
  <2>1. A \subseteq AllKeys /\ B \subseteq AllKeys /\ C \subseteq AllKeys
    BY DEF ExactKeys
  <2>2. A \cap B = {} /\ (A \cup B) \cap C = {}
    BY DEF ExactKeys
  <2> HIDE DEF A, B, C
  <2> QED
    BY <2>1, <2>2, KeysOfBoth, FS_Subset
<1>5. /\ p.exact_counts["missing"] = Cardinality(A) /\ p.exact_counts["extra"] = Cardinality(B)
      /\ p.exact_counts["modified"] = Cardinality(C)
  BY <1>1 DEF CountsAreTrue, Kinds
<1> HIDE DEF A, B, C
<1>6. Cardinality((A \cup B) \cup C) = (Cardinality(A) + Cardinality(B)) + Cardinality(C)
  <2>1. IsFiniteSet(A \cup B) /\ Cardinality(A \cup B) = Cardinality(A) + Cardinality(B)
    BY <1>4, SizeOfUnion
  <2> DEFINE D == A \cup B
  <2>2. IsFiniteSet(D) /\ D \cap C = {}
    BY <1>4, <2>1
  <2> HIDE DEF D
  <2>3. Cardinality(D \cup C) = Cardinality(D) + Cardinality(C)
    BY <1>4, <2>2, SizeOfUnion
  <2> QED
    BY <2>1, <2>3 DEF D
<1>7. p.found_records = DifferenceCount(p.exact_counts)
  BY <1>1, <1>3, <1>5, <1>6 DEF EvidenceIsTrue, DifferenceCount
<1> QED
  BY <1>2, <1>7, CompletedCounts

(* The comparison completes.                                               *)
LEMMA FinishKeeps ==
    ASSUME Invariance, Finish
    PROVE  Invariance' /\ progress' = progress
<1>1. /\ input \in Inputs /\ LedgerFits(ledger) /\ ProgressIsTrue(progress)
      /\ Standing(pc, side, progress, level, nodes)
  BY DEF Invariance
<1>2. /\ pc = "finish" /\ pc' = "done"
      /\ input' = input /\ ledger' = ledger /\ side' = side /\ level' = level
      /\ nodes' = nodes /\ progress' = progress
  BY DEF Finish
<1>3. IsComplete(progress) /\ progress.pending = {}
  BY <1>1, <1>2 DEF Standing, IsComplete
<1>4. artifact' = CompletedComparisonArtifact(progress)
  BY <1>1, <1>3, CompletionCloses DEF Finish
<1>5. Standing(pc', side', progress', level', nodes')
  BY <1>1, <1>2 DEF Standing, Locations, Reads
<1>6. Reservation'
  BY <1>2 DEF Reservation, Reads
<1>7. Ends(pc', progress', artifact') /\ LedgerFits(ledger') /\ ProgressIsTrue(progress')
  BY <1>1, <1>2, <1>3, <1>4 DEF Ends, IsArtifact, IsCompleted
<1> QED
  BY <1>1, <1>2, <1>5, <1>6, <1>7, InvariantAfter

(* A completed comparison loses its context.                               *)
LEMMA DemotionKeeps ==
    ASSUME Invariance, DemoteCompleted
    PROVE  Invariance' /\ progress' = progress
<1>1. /\ input \in Inputs /\ LedgerFits(ledger) /\ ProgressIsTrue(progress)
      /\ Standing(pc, side, progress, level, nodes) /\ Ends(pc, progress, artifact)
  BY DEF Invariance
<1>2. /\ pc = "done" /\ artifact.kind \in {"completed", "structural"}
      /\ artifact' = PartialFromCompleted(artifact, "snapshot_lost")
      /\ input' = input /\ ledger' = ledger /\ pc' = pc /\ side' = side /\ level' = level
      /\ nodes' = nodes /\ progress' = progress
  BY DEF DemoteCompleted
<1>3. IsArtifact(progress, artifact)
  BY <1>1, <1>2 DEF Ends
<1>4. IsCompleted(progress, artifact) \/ IsStructuralResult(progress, artifact)
  <2>1. IsInterrupted(progress, artifact) => artifact.kind = "partial"
    BY <1>1, PartialFields DEF IsInterrupted
  <2>2. IsDemoted(progress, artifact) => artifact.kind = "demoted"
    <3> SUFFICES ASSUME IsDemoted(progress, artifact)
                 PROVE  artifact.kind = "demoted"
      OBVIOUS
    <3>1. PICK b : /\ IsCompleted(progress, b) \/ IsStructuralResult(progress, b)
                   /\ artifact = PartialFromCompleted(b, "snapshot_lost")
      BY DEF IsDemoted
    <3>2. LosesContext(progress, b, artifact)
      BY <3>1 DEF LosesContext, IsCompleted, IsStructuralResult
    <3> QED
      BY <3>2, DemotedFields
  <2> QED
    BY <1>2, <1>3, <2>1, <2>2 DEF IsArtifact
<1>5. Ends(pc', progress', artifact')
  BY <1>2, <1>4 DEF Ends, IsArtifact, IsDemoted
<1>6. Standing(pc', side', progress', level', nodes')
  BY <1>1, <1>2 DEF Standing
<1>7. Reservation'
  BY <1>2 DEF Reservation, Reads
<1>8. LedgerFits(ledger') /\ ProgressIsTrue(progress')
  BY <1>1, <1>2
<1> QED
  BY <1>1, <1>2, <1>5, <1>6, <1>7, <1>8, InvariantAfter

(* The steps that raise.                                                   *)
LEMMA RaisingKeeps ==
    ASSUME Invariance,
           \/ RejectInputs \/ RefuseSummaries \/ RejectKeyMapping \/ RejectUnsupported
           \/ RefuseFingerprintLevel \/ RefuseSplit \/ BudgetRunsOut \/ ReadFails
    PROVE  Invariance' /\ progress' = progress
<1>1. /\ input \in Inputs /\ LedgerFits(ledger)
      /\ Standing(pc, side, progress, level, nodes)
  BY DEF Invariance
<1>2. ASSUME NEW cause, Raise(cause), ledger' = ledger, cause # "ComparisonProtocolError"
      PROVE  Invariance' /\ progress' = progress
  BY <1>1, <1>2, RaiseKeeps
<1>3. CASE RejectInputs
  <2>1. /\ pc = "start" /\ ledger' = ledger
        /\ \E cause \in {"UnsupportedComparisonError", "ComparisonProtocolError"} : Raise(cause)
    BY <1>3 DEF RejectInputs
  <2>2. ~ progress.summaries_verified
    BY <1>1, <2>1, InitialIsTrue DEF Standing
  <2>3. PICK cause : Raise(cause)
    BY <2>1
  <2> QED
    BY <1>1, <2>1, <2>2, <2>3, RaiseKeeps
<1>4. CASE RefuseSummaries
  BY <1>2, <1>4 DEF RefuseSummaries
<1>5. CASE RejectKeyMapping
  BY <1>2, <1>5 DEF RejectKeyMapping
<1>6. CASE RejectUnsupported
  BY <1>2, <1>6 DEF RejectUnsupported
<1>7. CASE RefuseFingerprintLevel
  BY <1>2, <1>7 DEF RefuseFingerprintLevel
<1>8. CASE RefuseSplit
  BY <1>2, <1>8 DEF RefuseSplit
<1>9. CASE BudgetRunsOut
  BY <1>2, <1>9 DEF BudgetRunsOut
<1>10. CASE ReadFails
  <2>1. /\ pc \in Reads
        /\ ledger' \in PartialCharges(side, ReadScans(side), ReadRecords(side))
    BY <1>10 DEF ReadFails, Reads
  <2>2. PICK cause : Raise(cause) /\ cause # "ComparisonProtocolError"
    BY <1>10 DEF ReadFails
  <2>3. LedgerFits(ledger')
    BY <2>1, ReservationCovers
  <2> QED
    BY <2>2, <2>3, RaiseKeeps
<1> QED
  BY <1>3, <1>4, <1>5, <1>6, <1>7, <1>8, <1>9, <1>10

(* Every step keeps the invariant, and what is shown stays shown.          *)
LEMMA StepKeeps ==
    ASSUME Invariance, [Next]_vars
    PROVE  Invariance' /\ (Shows(progress) => Shows(progress'))
<1>1. CASE Work
  <2>1. CASE \/ RejectInputs \/ RefuseSummaries \/ RejectKeyMapping \/ RejectUnsupported
             \/ RefuseFingerprintLevel \/ RefuseSplit
    BY <2>1, RaisingKeeps
  <2>2. CASE PlanSummaries
    BY <2>2, StartKeeps
  <2>3. CASE ReadReference
    BY <2>3, ReferenceReadKeeps
  <2>4. CASE ReadTargetSummary
    BY <2>4, SummariesKeep
  <2>5. CASE CompleteStructural
    BY <2>5, StructuralKeeps
  <2>6. CASE EnterLoop
    BY <2>6, EnterKeeps
  <2>7. CASE PlanFingerprintLevel
    BY <2>7, PlanKeeps
  <2>8. CASE ReadTargetFingerprints
    BY <2>8, FingerprintsKeep
  <2>9. CASE MatchLevel
    BY <2>9, MatchKeeps
  <2>10. CASE PruneMatching
    BY <2>10, PruneStepKeeps
  <2>11. CASE LevelMatches
    BY <2>11, LevelMatchesKeeps
  <2>12. CASE AdmitExactFrontier
    BY <2>12, AdmitKeeps
  <2>13. CASE ReadTargetExact
    BY <2>13, ExactReadsKeep
  <2>14. CASE SplitMismatching
    BY <2>14, SplitStepKeeps
  <2>15. CASE ClassifyExactLeaf
    BY <2>15, ClassifyStepKeeps
  <2>16. CASE EndExactFrontier
    BY <2>16, EndKeeps
  <2>17. CASE Finish
    BY <2>17, FinishKeeps
  <2> QED
    BY <1>1, <2>1, <2>2, <2>3, <2>4, <2>5, <2>6, <2>7, <2>8, <2>9, <2>10, <2>11, <2>12,
       <2>13, <2>14, <2>15, <2>16, <2>17 DEF Work
<1>2. CASE BudgetRunsOut \/ ReadFails
  BY <1>2, RaisingKeeps
<1>3. CASE DemoteCompleted
  BY <1>3, DemotionKeeps
<1>4. CASE UNCHANGED vars
  <2>1. /\ input' = input /\ ledger' = ledger /\ pc' = pc /\ side' = side /\ level' = level
        /\ nodes' = nodes /\ progress' = progress /\ artifact' = artifact
    BY <1>4 DEF vars
  <2>2. Invariance'
    <3>1. Reservation'
      <4>1. Reservation
        BY DEF Invariance
      <4>2. relation' = relation /\ budgets' = budgets /\ Mismatching' = Mismatching
        BY <2>1 DEF relation, budgets, Mismatching
      <4>3. \A s : ReadScans(s)' = ReadScans(s) /\ ReadRecords(s)' = ReadRecords(s)
        <5> SUFFICES ASSUME NEW s
                     PROVE  ReadScans(s)' = ReadScans(s) /\ ReadRecords(s)' = ReadRecords(s)
          OBVIOUS
        <5>1. RawRecords(s)' = RawRecords(s)
          BY <4>2 DEF RawRecords
        <5> QED
          BY <2>1, <4>2, <5>1, Zenon DEF ReadScans, ReadRecords
      <4> QED
        BY <2>1, <4>1, <4>2, <4>3 DEF Reservation, LedgerAccepts
    <3>2. /\ input \in Inputs /\ LedgerFits(ledger') /\ ProgressIsTrue(progress')
          /\ Standing(pc', side', progress', level', nodes') /\ Ends(pc', progress', artifact')
      BY <2>1 DEF Invariance
    <3> QED
      BY <2>1, <3>1, <3>2, InvariantAfter
  <2> QED
    BY <2>1, <2>2
<1> QED
  BY <1>1, <1>2, <1>3, <1>4 DEF Next

-----------------------------------------------------------------------------
(* What the invariant says *)

(* An artifact is one of the progress yielded last.                        *)
LEMMA ArtifactOfProgress ==
    ASSUME Invariance, artifact # None
    PROVE  input \in Inputs /\ ProgressIsTrue(progress) /\ IsArtifact(progress, artifact)
  BY DEF Invariance, Ends

(* No key is in two ranges of the frontier, and every key is in one.       *)
LEMMA TilesTheKeys ==
    ASSUME Invariance
    PROVE  FrontierTilesTheKeys
<1>1. /\ input \in Inputs /\ ProgressIsTrue(progress)
      /\ level \subseteq SegmentType /\ nodes \subseteq NodeType
  BY DEF Invariance, Standing
<1>2. /\ TreeIsSound(progress) /\ HoldsEveryKey(progress)
      /\ progress.pending \subseteq SegmentType /\ progress.topology \subseteq RecordType
  BY <1>1 DEF ProgressIsTrue, ProgressType
<1>3. Leaves \cup UnresolvedPending(progress) = Frontier(progress)
  BY <1>1, ShownIsShown DEF Leaves, Frontier, Resolved
<1>4. Frontier(progress) \subseteq SegmentType
  BY <1>2 DEF Frontier, Resolved, RecordType
<1>5. ASSUME NEW k \in Key
      PROVE  LET holders == {g \in Leaves \cup UnresolvedPending(progress) : InRange(k, g)}
             IN  /\ Cardinality(holders) <= 1
                 /\ (\E s \in Sides : k \in DOMAIN relation[s].rows) => holders # {}
  <2> DEFINE holders == {g \in Frontier(progress) : InRange(k, g)}
  <2>1. k \in Int
    BY KeyAssumption DEF Key
  <2>2. ASSUME NEW g \in holders, NEW h \in holders
        PROVE  g = h
    BY <1>2, <1>4, <2>1, ApartMeans DEF TreeIsSound
  <2>3. Cardinality(holders) <= 1
    <3> HIDE DEF holders
    <3>1. CASE holders = {}
      BY <3>1, FS_EmptySet
    <3>2. CASE holders # {}
      <4>1. PICK g : holders = {g}
        BY <2>2, <3>2
      <4>2. Cardinality({g}) = 1
        BY FS_Singleton
      <4> QED
        BY <4>1, <4>2
    <3> QED
      BY <3>1, <3>2
  <2>4. ASSUME NEW s \in Sides, k \in DOMAIN relation[s].rows
        PROVE  holders # {}
    <3>1. k \in AllKeys
      BY <2>4 DEF AllKeys, ReferenceRows, TargetRows, Sides
    <3> QED
      BY <1>2, <3>1 DEF HoldsEveryKey
  <2> QED
    BY <1>3, <2>3, <2>4
<1>6. level \cup progress.pending \cup {n.segment : n \in nodes}
         \cup {u.segment : u \in progress.topology} \subseteq SegmentType
  <2>1. {n.segment : n \in nodes} \subseteq SegmentType
    BY <1>1 DEF NodeType
  <2>2. {u.segment : u \in progress.topology} \subseteq SegmentType
    BY <1>2 DEF RecordType
  <2> QED
    BY <1>1, <1>2, <2>1, <2>2
<1> QED
  BY <1>5, <1>6 DEF FrontierTilesTheKeys

(* The evidence is a prefix of the differences found.                      *)
LEMMA EvidenceIsFirst ==
    ASSUME Invariance
    PROVE  EvidenceIsAPrefix
<1> DEFINE found == Ascending(FoundIn(progress))
<1>1. /\ input \in Inputs /\ EvidenceIsTrue(progress) /\ progress.anomalies \in Seq(AnomalyType)
  BY DEF Invariance, ProgressIsTrue, ProgressType
<1>2. FoundKeys = FoundIn(progress)
  BY DEF FoundKeys, FoundIn
<1>3. Len(found) = Cardinality(FoundIn(progress))
  <2>1. FoundIn(progress) \subseteq AllKeys
    BY DEF FoundIn
  <2>2. FoundIn(progress) \subseteq Int /\ IsFiniteSet(FoundIn(progress))
    BY <1>1, <2>1, KeysOfBoth, FS_Subset
  <2> QED
    BY <2>2, AscendingOrder
<1>4. DOMAIN progress.anomalies = 1 .. Len(progress.anomalies)
  BY <1>1
<1>5. /\ progress.found_records = Len(found)
      /\ Len(progress.anomalies) <= Len(found)
      /\ \A i \in DOMAIN progress.anomalies :
            /\ progress.anomalies[i].sequence = i - 1
            /\ progress.anomalies[i].key = found[i]
            /\ progress.anomalies[i].kind = TrueKind(found[i])
  BY <1>1, <1>3, <1>4 DEF EvidenceIsTrue
<1> QED
  BY <1>2, <1>5 DEF EvidenceIsAPrefix

(* What was admitted stays within the budgets.                             *)
LEMMA WorkIsCovered ==
    ASSUME Invariance
    PROVE  AdmittedWorkIsCovered
<1>1. /\ input \in Inputs /\ LedgerFits(ledger) /\ ProgressIsTrue(progress)
      /\ progress.fingerprint_nodes <= budgets.max_fingerprint_nodes
  BY DEF Invariance, Standing
<1>2. /\ Len(progress.anomalies) <= budgets.max_evidence_rows
      /\ progress.retained_bytes <= budgets.max_evidence_bytes
      /\ \A t \in progress.topology : t.segment.depth <= budgets.max_depth
  BY <1>1 DEF ProgressIsTrue, ProgressFits, Segments
<1>3. pc \in Reads => LedgerAccepts(side, ReadScans(side), ReadRecords(side))
  BY ReservationCovers
<1>4. BudgetsAreRespected
  BY <1>1, <1>2, <1>3, LedgerNumbers DEF BudgetsAreRespected, Reads
<1>5. SelfChecksNeverFire
  BY ArtifactOfProgress, ArtifactPassesItsChecks DEF SelfChecksNeverFire
<1> QED
  BY <1>4, <1>5 DEF AdmittedWorkIsCovered

(* What is reported is true.                                               *)
LEMMA ReportIsTrue ==
    ASSUME Invariance
    PROVE  ReportedTotalsAreTrue
<1>1. CompletedTotalsAreTrue
  BY ArtifactOfProgress, CompletedIsTrue DEF CompletedTotalsAreTrue
<1>2. PartialIsSound
  <2> SUFFICES ASSUME artifact # None, artifact.kind \in {"partial", "demoted"}
               PROVE  PartialIsSound
    BY DEF PartialIsSound
  <2>1. /\ input \in Inputs /\ ProgressIsTrue(progress) /\ IsArtifact(progress, artifact)
    BY ArtifactOfProgress
  <2> QED
    BY <2>1, PartialIsTrue DEF PartialIsSound
<1> QED
  BY <1>1, <1>2 DEF ReportedTotalsAreTrue

(* A collision forges nothing.                                             *)
LEMMA NothingIsForged ==
    ASSUME Invariance
    PROVE  CollisionsForgeNothing
<1>1. ClaimedGuaranteeHolds
  BY ArtifactOfProgress, ClaimIsTrue DEF ClaimedGuaranteeHolds
<1>2. RootDecidesTheVerdict
  BY ArtifactOfProgress, RootDecides DEF RootDecidesTheVerdict
<1> QED
  BY <1>1, <1>2 DEF CollisionsForgeNothing

-----------------------------------------------------------------------------
(* The tree of ranges that the store is given *)

\* The split ranges, and the ranges that name one as their parent.
Splits(p) == {t.segment : t \in {u \in p.topology : u.state = "split"}}
ChildrenOf(p, g) == {h \in Segments(p) : h.parent = g.segment_sequence}

\* g was split into h and i.
HalvedInto(g, h, i) ==
    /\ AreHalves(g, h, i)
    /\ h.upper_exclusive # None
    /\ h.depth = g.depth + 1 /\ i.depth = g.depth + 1

\* The ranges of p are a tree: one of them is the root, the others are the
\* halves of the split ones.
IsTree(p) ==
    /\ 0 \in NumbersOf(Segments(p))
    /\ \A g \in Segments(p) : g.parent = None <=> g.segment_sequence = 0
    /\ \A g \in Segments(p) :
          g.parent # None => \E h \in Splits(p) : h.segment_sequence = g.parent
    /\ \A g \in Splits(p) :
          \E h, i \in Segments(p) : ChildrenOf(p, g) = {h, i} /\ HalvedInto(g, h, i)

\* p becomes q: some pending ranges, those of the nodes of a batch, are
\* resolved.
Moves(p, q, batch, state) ==
    /\ \A n \in batch : n.segment \in p.pending
    /\ state \in TerminalStates
    /\ q.pending = p.pending \ {n.segment : n \in batch}
    /\ q.topology = p.topology \cup {SegmentRecord(n, state) : n \in batch}

(* Resolving ranges leaves the tree as it is.                              *)
LEMMA ResolvedTree ==
    ASSUME NEW p, NEW q, NEW batch, NEW state, Moves(p, q, batch, state), IsTree(p)
    PROVE  IsTree(q)
<1> DEFINE records == {SegmentRecord(n, state) : n \in batch}
<1>1. /\ \A n \in batch : n.segment \in p.pending
      /\ q.pending = p.pending \ {n.segment : n \in batch}
      /\ q.topology = p.topology \cup records
      /\ state # "split"
  BY DEF Moves, TerminalStates
<1>2. \A n \in batch : SegmentRecord(n, state).segment = n.segment
                       /\ SegmentRecord(n, state).state = state
  BY DEF SegmentRecord
<1>3. /\ \A t \in records : \E n \in batch : t.segment = n.segment /\ t.state = state
      /\ \A n \in batch : \E t \in records : t.segment = n.segment
  BY <1>2
<1> HIDE DEF records
<1>4. Segments(q) = Segments(p)
  BY <1>1, <1>3 DEF Segments
<1>5. Splits(q) = Splits(p)
  BY <1>1, <1>3 DEF Splits
<1>6. \A g : ChildrenOf(q, g) = ChildrenOf(p, g)
  BY <1>4 DEF ChildrenOf
<1> QED
  BY <1>4, <1>5, <1>6 DEF IsTree

(* So does whatever changes no range.                                      *)
LEMMA SameTree ==
    ASSUME NEW p, NEW q, q.pending = p.pending, q.topology = p.topology, IsTree(p)
    PROVE  IsTree(q)
<1>1. Segments(q) = Segments(p) /\ Splits(q) = Splits(p)
  BY DEF Segments, Splits
<1>2. \A g : ChildrenOf(q, g) = ChildrenOf(p, g)
  BY <1>1 DEF ChildrenOf
<1> QED
  BY <1>1, <1>2 DEF IsTree

(* The root alone is a tree.                                               *)
LEMMA RootTree ==
    ASSUME NEW p, NEW g, p.pending = {g}, p.topology = {}, g.segment_sequence = 0, g.parent = None
    PROVE  IsTree(p)
<1>1. Segments(p) = {g} /\ Splits(p) = {}
  BY DEF Segments, Splits
<1> QED
  BY <1>1 DEF IsTree, NumbersOf

(* Halving every pending range makes the tree grow.                        *)
LEMMA SplitTree ==
    ASSUME input \in Inputs, NEW p, ProgressIsTrue(p), IsTree(p), NEW q, ProgressIsTrue(q),
           NEW M, NEW N, NEW half, SplitsInto(p, q, M, N, half)
    PROVE  IsTree(q)
<1> DEFINE records == {SegmentRecord(n, "split") : n \in M}
           halves == {half[n][i] : n \in M, i \in 1 .. 2}
<1>1. /\ p \in ProgressType /\ TreeIsSound(p) /\ q \in ProgressType /\ TreeIsSound(q)
  BY DEF ProgressIsTrue
<1>2. /\ \A n \in M : \A i \in 1 .. 2 :
            /\ half[n][i].parent = n.segment.segment_sequence
            /\ half[n][i].depth = n.segment.depth + 1
      /\ \A n \in M : /\ half[n][1].lower_inclusive = n.segment.lower_inclusive
                      /\ half[n][1].upper_exclusive # None
                      /\ half[n][1].upper_exclusive = MathematicalUpper(half[n][1])
                      /\ half[n][2].lower_inclusive = half[n][1].upper_exclusive
                      /\ half[n][2].upper_exclusive = n.segment.upper_exclusive
      /\ \A n, m \in M : \A i, j \in 1 .. 2 : half[n][i] = half[m][j] => n = m /\ i = j
  BY <1>1, SplitKeepsTree
<1>3. /\ p.pending = {n.segment : n \in M}
      /\ \A n, m \in M : n.segment = m.segment => n = m
      /\ q.pending = halves
      /\ q.topology = p.topology \cup records
  BY DEF SplitsInto
<1>4. \A n \in M : /\ SegmentRecord(n, "split").segment = n.segment
                   /\ SegmentRecord(n, "split").state = "split"
  BY DEF SegmentRecord
<1>5. /\ \A t \in records : \E n \in M : t.segment = n.segment /\ t.state = "split"
      /\ \A n \in M : \E t \in records : t.segment = n.segment /\ t.state = "split"
  BY <1>4
<1>6. /\ \A n \in M : half[n][1] \in halves /\ half[n][2] \in halves
      /\ \A g \in halves : \E n \in M : g = half[n][1] \/ g = half[n][2]
  <2>1. \A i \in 1 .. 2 : i = 1 \/ i = 2
    OBVIOUS
  <2>2. 1 \in 1 .. 2 /\ 2 \in 1 .. 2
    OBVIOUS
  <2> QED
    BY <2>1, <2>2
<1>7. \A n \in M : n.segment \in p.pending
  BY <1>3
<1> HIDE DEF records, halves
<1>8. Segments(q) = Segments(p) \cup halves
  BY <1>3, <1>5 DEF Segments
<1>9. Splits(q) = Splits(p) \cup p.pending
  BY <1>3, <1>5 DEF Splits
<1>10. /\ \A g \in Segments(q) : SoundSegment(g) /\ g \in SegmentType
       /\ \A g, h \in p.pending : g.segment_sequence = h.segment_sequence => g = h
       /\ \A g \in p.pending, t \in p.topology : g.segment_sequence # t.segment.segment_sequence
  BY <1>1 DEF TreeIsSound, SoundSegment
<1>11. \A g \in Splits(p) : \E t \in p.topology : t.segment = g
  BY DEF Splits
<1>12. \A g \in Splits(p), h \in p.pending : g.segment_sequence # h.segment_sequence
  BY <1>10, <1>11
<1>13. \A n \in M : /\ half[n][1].parent = n.segment.segment_sequence
                    /\ half[n][2].parent = n.segment.segment_sequence
                    /\ half[n][1].depth = n.segment.depth + 1
                    /\ half[n][2].depth = n.segment.depth + 1
  BY <1>2
<1>14. \A g \in halves : \E n \in M : g.parent = n.segment.segment_sequence
  BY <1>6, <1>13
<1>15. p.pending \subseteq Segments(q) /\ Splits(p) \subseteq Segments(q)
  BY <1>8, <1>11 DEF Segments
<1>16. \A g \in Segments(q) : g.segment_sequence \in Nat /\ None \notin Nat
  BY <1>10, NoneAssumption DEF SegmentType
<1>17. 0 \in NumbersOf(Segments(q))
  BY <1>8 DEF IsTree, NumbersOf
<1>18. ASSUME NEW g \in Segments(q)
       PROVE  /\ g.parent = None <=> g.segment_sequence = 0
              /\ g.parent # None => \E h \in Splits(q) : h.segment_sequence = g.parent
  <2>1. CASE g \in Segments(p)
    BY <1>9, <2>1 DEF IsTree
  <2>2. CASE g \in halves
    <3>1. PICK n \in M : g.parent = n.segment.segment_sequence
      BY <1>14, <2>2
    <3>2. g.parent \in Nat /\ g.parent # None
      BY <1>7, <1>15, <1>16, <3>1
    <3>3. g.segment_sequence # 0
      BY <1>10, <1>16, <3>2 DEF SoundSegment
    <3>4. n.segment \in Splits(q)
      BY <1>7, <1>9
    <3> QED
      BY <3>1, <3>2, <3>3, <3>4
  <2> QED
    BY <1>8, <2>1, <2>2
<1>19. ASSUME NEW g \in Splits(p)
       PROVE  \E h, i \in Segments(q) : ChildrenOf(q, g) = {h, i} /\ HalvedInto(g, h, i)
  <2>1. \A h \in halves : h.parent # g.segment_sequence
    BY <1>7, <1>12, <1>14
  <2>2. ChildrenOf(q, g) = ChildrenOf(p, g)
    BY <1>8, <2>1 DEF ChildrenOf
  <2>3. PICK h, i \in Segments(p) : ChildrenOf(p, g) = {h, i} /\ HalvedInto(g, h, i)
    BY DEF IsTree
  <2> QED
    BY <1>8, <2>2, <2>3
<1>20. ASSUME NEW g \in p.pending
       PROVE  \E h, i \in Segments(q) : ChildrenOf(q, g) = {h, i} /\ HalvedInto(g, h, i)
  <2>1. PICK n \in M : g = n.segment
    BY <1>3
  <2>2. \A h \in Segments(p) : h.parent # g.segment_sequence
    <3> SUFFICES ASSUME NEW h \in Segments(p), h.parent = g.segment_sequence
                 PROVE  FALSE
      OBVIOUS
    <3>1. h.parent # None
      BY <1>15, <1>16
    <3> QED
      BY <1>12, <3>1 DEF IsTree
  <2>3. \A h \in halves : h.parent = g.segment_sequence => h \in {half[n][1], half[n][2]}
    <3> SUFFICES ASSUME NEW h \in halves, h.parent = g.segment_sequence
                 PROVE  h \in {half[n][1], half[n][2]}
      OBVIOUS
    <3>1. PICK m \in M : h = half[m][1] \/ h = half[m][2]
      BY <1>6
    <3>2. m.segment.segment_sequence = g.segment_sequence
      BY <1>13, <3>1
    <3>3. m.segment = n.segment
      BY <1>7, <1>10, <2>1, <3>2
    <3>4. m = n
      BY <1>3, <3>3
    <3> QED
      BY <3>1, <3>4
  <2>4. half[n][1] \in halves /\ half[n][2] \in halves
    BY <1>6
  <2>5. half[n][1].parent = g.segment_sequence /\ half[n][2].parent = g.segment_sequence
    BY <1>13, <2>1
  <2>6. ChildrenOf(q, g) = {half[n][1], half[n][2]}
    BY <1>8, <2>2, <2>3, <2>4, <2>5 DEF ChildrenOf
  <2>7. HalvedInto(g, half[n][1], half[n][2])
    BY <1>2, <1>8, <1>10, <1>13, <1>15, <2>1, <2>4 DEF HalvedInto, AreHalves
  <2> QED
    BY <1>8, <2>4, <2>6, <2>7
<1>21. \A g \in Splits(q) :
          \E h, i \in Segments(q) : ChildrenOf(q, g) = {h, i} /\ HalvedInto(g, h, i)
  BY <1>9, <1>19, <1>20
<1> QED
  BY <1>17, <1>18, <1>21 DEF IsTree

-----------------------------------------------------------------------------
(* The evidence and its bytes *)

\* The bytes that the evidence takes up are those counted.
BytesAreCounted(p) == p.retained_bytes = Bytes(p.anomalies)

\* d is n differences; e is those of a, then those of d.
HasKinds(d, n) == DOMAIN d = 1 .. n /\ \A i \in 1 .. n : d[i].kind \in Kinds
Joins(a, m, d, n, e) ==
    /\ HasKinds(a, m) /\ HasKinds(d, n) /\ HasKinds(e, m + n)
    /\ \A i \in 1 .. m : e[i].kind = a[i].kind
    /\ \A i \in 1 .. n : e[m + i].kind = d[i].kind

\* w is the terms of u, then those of v.
JoinsTerms(u, m, v, n, w) ==
    /\ \A i \in 1 .. m + n : w[i] \in Nat
    /\ \A i \in 1 .. m : w[i] = u[i]
    /\ \A i \in 1 .. n : w[m + i] = v[i]

(* A sum over a sequence of terms is the sum of both its parts.            *)
LEMMA SumsJoin ==
    ASSUME NEW m \in Nat, NEW n \in Nat, NEW u, NEW v, NEW w, JoinsTerms(u, m, v, n, w)
    PROVE  SumFunctionOnSet(w, 1 .. m + n)
              = SumFunctionOnSet(u, 1 .. m) + SumFunctionOnSet(v, 1 .. n)
<1> DEFINE G == {k \in Nat : k <= n =>
                    SumFunctionOnSet(w, 1 .. m + k)
                        = SumFunctionOnSet(w, 1 .. m) + SumFunctionOnSet(v, 1 .. k)}
<1>1. /\ \A i \in 1 .. m + n : w[i] \in Nat
      /\ \A i \in 1 .. m : w[i] = u[i]
      /\ \A i \in 1 .. n : w[m + i] = v[i]
  BY DEF JoinsTerms
<1>2. \A k \in Nat : IsFiniteSet(1 .. k)
  BY FS_Interval
<1>3. \A k \in 0 .. n : /\ SumFunctionOnSet(w, 1 .. m + k) \in Nat
                        /\ SumFunctionOnSet(v, 1 .. k) \in Nat
  <2> SUFFICES ASSUME NEW k \in 0 .. n
               PROVE  /\ SumFunctionOnSet(w, 1 .. m + k) \in Nat
                      /\ SumFunctionOnSet(v, 1 .. k) \in Nat
    OBVIOUS
  <2>1. \A i \in 1 .. m + k : w[i] \in Nat
    BY <1>1
  <2>2. \A i \in 1 .. k : v[i] \in Nat
    <3> SUFFICES ASSUME NEW i \in 1 .. k
                 PROVE  v[i] \in Nat
      OBVIOUS
    <3>1. i \in 1 .. n /\ m + i \in 1 .. m + n
      OBVIOUS
    <3> QED
      BY <1>1, <3>1
  <2>3. m + k \in Nat /\ k \in Nat
    OBVIOUS
  <2>4. IsFiniteSet(1 .. m + k) /\ IsFiniteSet(1 .. k)
    BY <1>2, <2>3
  <2> QED
    BY ONLY <2>1, <2>2, <2>4, SumIsNatural
<1>4. 0 \in G
  <2>1. SumFunctionOnSet(v, 1 .. 0) = 0
    <3>1. 1 .. 0 = {} /\ IsFiniteSet({})
      BY FS_EmptySet
    <3> QED
      BY <3>1, SumUnfolds
  <2>2. SumFunctionOnSet(w, 1 .. m) \in Nat /\ m + 0 = m
    BY <1>3
  <2> QED
    BY <2>1, <2>2
<1>5. ASSUME NEW k \in Nat, k \in G
      PROVE  k + 1 \in G
  <2> SUFFICES ASSUME k + 1 <= n
               PROVE  SumFunctionOnSet(w, 1 .. m + (k + 1))
                         = SumFunctionOnSet(w, 1 .. m) + SumFunctionOnSet(v, 1 .. k + 1)
    OBVIOUS
  <2>1. SumFunctionOnSet(w, 1 .. m + k) = SumFunctionOnSet(w, 1 .. m) + SumFunctionOnSet(v, 1 .. k)
    BY <1>5
  <2> DEFINE A == 1 .. m + (k + 1)
             B == 1 .. k + 1
             a == m + (k + 1)
             b == k + 1
  <2>2. SumFunctionOnSet(w, A) = w[a] + SumFunctionOnSet(w, A \ {a})
    <3>1. IsFiniteSet(A) /\ a \in A /\ \A i \in A : w[i] \in Nat
      BY <1>1, <1>2
    <3> HIDE DEF A, a
    <3> QED
      BY ONLY <3>1, SumTakesOut
  <2>3. SumFunctionOnSet(v, B) = v[b] + SumFunctionOnSet(v, B \ {b})
    <3>1. IsFiniteSet(B) /\ b \in B
      BY <1>2
    <3>2. \A i \in B : v[i] \in Nat
      <4> SUFFICES ASSUME NEW i \in B
                   PROVE  v[i] \in Nat
        OBVIOUS
      <4>1. i \in 1 .. n /\ m + i \in 1 .. m + n
        OBVIOUS
      <4> QED
        BY <1>1, <4>1
    <3> HIDE DEF B, b
    <3> QED
      BY ONLY <3>1, <3>2, SumTakesOut
  <2>4. A \ {a} = 1 .. m + k /\ B \ {b} = 1 .. k
    OBVIOUS
  <2>5. w[a] = v[b] /\ w[a] \in Nat
    BY <1>1
  <2>6. /\ SumFunctionOnSet(w, 1 .. m + k) \in Nat /\ SumFunctionOnSet(v, 1 .. k) \in Nat
        /\ SumFunctionOnSet(w, 1 .. m + 0) \in Nat
    BY <1>3
  <2>7. SumFunctionOnSet(w, 1 .. m) \in Nat
    BY <2>6
  <2>8. /\ SumFunctionOnSet(w, A) = w[a] + SumFunctionOnSet(w, 1 .. m + k)
        /\ SumFunctionOnSet(v, B) = v[b] + SumFunctionOnSet(v, 1 .. k)
    BY <2>2, <2>3, <2>4
  <2> DEFINE x == SumFunctionOnSet(w, 1 .. m + k)
             y == SumFunctionOnSet(v, 1 .. k)
             z == SumFunctionOnSet(w, 1 .. m)
             wa == w[a]
  <2>9. x \in Nat /\ y \in Nat /\ z \in Nat /\ wa \in Nat /\ x = z + y
    BY <2>1, <2>5, <2>6, <2>7
  <2>10. SumFunctionOnSet(w, A) = wa + x /\ SumFunctionOnSet(v, B) = wa + y
    BY <2>5, <2>8
  <2> HIDE DEF A, B, a, b, x, y, z, wa
  <2>11. SumFunctionOnSet(w, A) = z + SumFunctionOnSet(v, B)
    BY ONLY <2>9, <2>10
  <2> QED
    BY <2>11 DEF A, B, z
<1> HIDE DEF G
<1>6. n \in G
  BY <1>4, <1>5, NaturalsAreIn
<1>7. SumFunctionOnSet(w, 1 .. m) = SumFunctionOnSet(u, 1 .. m)
  BY <1>1, <1>2, SumOfEqual
<1> QED
  BY <1>6, <1>7 DEF G

(* The bytes of differences are a sum.                                     *)
LEMMA BytesIsSum ==
    ASSUME NEW n \in Nat, NEW d, HasKinds(d, n)
    PROVE  /\ Bytes(d) = SumFunctionOnSet([i \in 1 .. n |-> RecordBytes[d[i].kind]], 1 .. n)
           /\ \A i \in 1 .. n : RecordBytes[d[i].kind] \in Nat
<1> DEFINE w == [i \in DOMAIN d |-> RecordBytes[d[i].kind]]
<1>1. DOMAIN d = 1 .. n /\ \A i \in 1 .. n : d[i].kind \in Kinds
  BY DEF HasKinds
<1>2. DOMAIN w = DOMAIN d
  OBVIOUS
<1>3. Bytes(d) = SumFunctionOnSet(w, DOMAIN d)
  BY <1>2 DEF Bytes, SumFunction, SumFunctionOnSet, FoldFunction
<1>4. \A i \in 1 .. n : RecordBytes[d[i].kind] \in Nat
  BY <1>1, BytesAssumption
<1> QED
  BY <1>1, <1>3, <1>4

(* Differences appended add their bytes.                                   *)
LEMMA BytesJoin ==
    ASSUME NEW m \in Nat, NEW n \in Nat, NEW a, NEW d, NEW e, Joins(a, m, d, n, e)
    PROVE  Bytes(e) = Bytes(a) + Bytes(d)
<1> DEFINE u == [i \in 1 .. m |-> RecordBytes[a[i].kind]]
           v == [i \in 1 .. n |-> RecordBytes[d[i].kind]]
           w == [i \in 1 .. m + n |-> RecordBytes[e[i].kind]]
<1>1. /\ HasKinds(a, m) /\ HasKinds(d, n) /\ HasKinds(e, m + n)
      /\ \A i \in 1 .. m : e[i].kind = a[i].kind
      /\ \A i \in 1 .. n : e[m + i].kind = d[i].kind
      /\ m + n \in Nat
  BY DEF Joins
<1>2. /\ Bytes(a) = SumFunctionOnSet(u, 1 .. m) /\ Bytes(d) = SumFunctionOnSet(v, 1 .. n)
      /\ Bytes(e) = SumFunctionOnSet(w, 1 .. m + n)
      /\ \A i \in 1 .. m + n : RecordBytes[e[i].kind] \in Nat
  BY <1>1, BytesIsSum
<1>3. JoinsTerms(u, m, v, n, w)
  <2>1. \A i \in 1 .. m + n : w[i] \in Nat
    BY <1>2
  <2>2. \A i \in 1 .. m : w[i] = u[i]
    <3> SUFFICES ASSUME NEW i \in 1 .. m
                 PROVE  w[i] = u[i]
      OBVIOUS
    <3>1. i \in 1 .. m + n
      OBVIOUS
    <3> QED
      BY <1>1, <3>1
  <2>3. \A i \in 1 .. n : w[m + i] = v[i]
    <3> SUFFICES ASSUME NEW i \in 1 .. n
                 PROVE  w[m + i] = v[i]
      OBVIOUS
    <3>1. m + i \in 1 .. m + n
      OBVIOUS
    <3> QED
      BY <1>1, <3>1
  <2> HIDE DEF u, v, w
  <2> QED
    BY <2>1, <2>2, <2>3 DEF JoinsTerms
<1> HIDE DEF u, v, w
<1> QED
  BY <1>2, <1>3, SumsJoin

(* What a range compared row by row leaves: its record, and its evidence.  *)
LEMMA ClassifyCounts ==
    ASSUME input \in Inputs, NEW p, ProgressIsTrue(p),
           NEW node, FirstPending(p, node.segment), node = FingerprintNode(node.segment),
           Mismatches(node), NEW found, found = ExactDifferences(node.segment),
           NEW leaf, LeafOf(p, leaf, node, found),
           NEW q,
           q = RetainExactDifferences(leaf, found.differences, node.segment.segment_sequence)
    PROVE  /\ q.topology = p.topology \cup {SegmentRecord(node, "exact_mismatch")}
           /\ BytesAreCounted(p) => BytesAreCounted(q)
<1> DEFINE d == found.differences
           number == node.segment.segment_sequence
<1>1. node.segment \in p.pending /\ node.segment \in SegmentType /\ p \in ProgressType
  BY DEF FirstPending, ProgressIsTrue, ProgressType
<1>2. LeafHas(p, leaf, node, found)
  BY <1>1, LeafIsTyped
<1>3. number \in Nat
  BY <1>1, Bounds
<1>4. d \in Seq(Difference)
  BY <1>1, LeafIsTrue DEF Difference
<1>5. /\ leaf \in ProgressType
      /\ leaf.topology = p.topology \cup {SegmentRecord(node, "exact_mismatch")}
      /\ leaf.anomalies = p.anomalies /\ leaf.retained_bytes = p.retained_bytes
  BY <1>2 DEF LeafHas
<1>6. Len(leaf.anomalies) <= budgets.max_evidence_rows
      /\ leaf.retained_bytes <= budgets.max_evidence_bytes
  BY <1>5 DEF ProgressIsTrue, ProgressFits
<1>7. q = RetainExactDifferences(leaf, d, number)
  OBVIOUS
<1> HIDE DEF d, number
<1>8. PICK kept \in 0 .. Len(d) :
         RetainedTo(leaf, q, leaf.found_records + Len(d), leaf.found_bytes + Bytes(d),
                    leaf.retention_open /\ kept = Len(d),
                    leaf.anomalies \o KeptOf(leaf, d, number, kept),
                    leaf.retained_bytes + Bytes(SubSeq(d, 1, kept)))
  BY ONLY <1>3, <1>4, <1>5, <1>6, <1>7, input \in Inputs, Retention
<1>9. /\ q.topology = leaf.topology
      /\ q.anomalies = leaf.anomalies \o KeptOf(leaf, d, number, kept)
      /\ q.retained_bytes = leaf.retained_bytes + Bytes(SubSeq(d, 1, kept))
  <2> DEFINE fr == leaf.found_records + Len(d)
             fb == leaf.found_bytes + Bytes(d)
             op == leaf.retention_open /\ kept = Len(d)
             an == leaf.anomalies \o KeptOf(leaf, d, number, kept)
             rb == leaf.retained_bytes + Bytes(SubSeq(d, 1, kept))
  <2>1. RetainedTo(leaf, q, fr, fb, op, an, rb)
    BY <1>8
  <2> HIDE DEF fr, fb, op, an, rb
  <2>2. q.topology = leaf.topology /\ q.anomalies = an /\ q.retained_bytes = rb
    BY ONLY <2>1, RetainedFields
  <2> QED
    BY <2>2 DEF an, rb
<1>10. Bytes(q.anomalies) = Bytes(p.anomalies) + Bytes(SubSeq(d, 1, kept))
  <2> DEFINE a == p.anomalies
             b == SubSeq(d, 1, kept)
             e == q.anomalies
  <2>1. a \in Seq(AnomalyType)
    BY <1>1 DEF ProgressType
  <2>2. Len(a) \in Nat /\ kept \in Nat
    BY <2>1
  <2>3. HasKinds(a, Len(a))
    <3> HIDE DEF a
    <3>1. DOMAIN a = 1 .. Len(a)
      BY ONLY <2>1
    <3>2. \A i \in 1 .. Len(a) : a[i] \in AnomalyType
      BY ONLY <2>1
    <3>3. \A i \in 1 .. Len(a) : a[i].kind \in Kinds
      BY ONLY <3>2 DEF AnomalyType
    <3> QED
      BY ONLY <3>1, <3>3 DEF HasKinds
  <2>4. DOMAIN b = 1 .. kept /\ \A i \in 1 .. kept : b[i] = d[i] /\ d[i] \in Difference
    BY <1>4
  <2>5. HasKinds(b, kept)
    <3> HIDE DEF b
    <3> QED
      BY <2>4 DEF HasKinds, Difference
  <2> DEFINE c == KeptOf(leaf, d, number, kept)
  <2>6. /\ DOMAIN c = 1 .. kept
        /\ \A i \in 1 .. kept : c[i].kind = d[i].kind
    BY DEF KeptOf
  <2>7. c \in Seq(AnomalyType)
    <3>1. leaf.found_records \in Nat
      BY <1>5 DEF ProgressType
    <3>2. \A i \in 1 .. kept : d[i].kind \in Kinds /\ d[i].key \in Key
      BY <2>4 DEF Difference
    <3>3. \A i \in 1 .. kept : leaf.found_records + i - 1 \in Nat
      BY <3>1
    <3> QED
      BY <1>3, <2>2, <3>2, <3>3 DEF KeptOf, AnomalyType
  <2>8. Len(c) = kept
    BY <2>2, <2>6, <2>7
  <2>9. e = a \o c
    BY <1>5, <1>9
  <2> HIDE DEF a, b, c, e
  <2>11. /\ DOMAIN e = 1 .. Len(a) + kept
         /\ \A i \in 1 .. Len(a) : e[i] = a[i]
         /\ \A i \in 1 .. kept : e[Len(a) + i] = c[i]
    <3> DEFINE m == Len(a)
    <3>1. a \in Seq(AnomalyType) /\ m = Len(a) /\ m \in Nat
          /\ c \in Seq(AnomalyType) /\ Len(c) = kept /\ kept \in Nat
      BY <2>1, <2>2, <2>7, <2>8
    <3> HIDE DEF m
    <3>2. DOMAIN (a \o c) = 1 .. m + kept
      BY ONLY <3>1
    <3>3. \A i \in 1 .. m + kept : (a \o c)[i] = IF i <= m THEN a[i] ELSE c[i - m]
      BY ONLY <3>1
    <3>4. \A j \in 1 .. kept : m + j \in 1 .. m + kept /\ ~ m + j <= m /\ (m + j) - m = j
      BY ONLY <3>1
    <3>5. \A i \in 1 .. m : i \in 1 .. m + kept /\ i <= m
      BY ONLY <3>1
    <3>6. \A i \in 1 .. m : (a \o c)[i] = a[i]
      BY ONLY <3>3, <3>5
    <3>7. \A j \in 1 .. kept : (a \o c)[m + j] = c[j]
      BY ONLY <3>3, <3>4
    <3> QED
      BY <2>9, <3>2, <3>6, <3>7 DEF m
  <2>12. /\ \A i \in 1 .. Len(a) : e[i].kind = a[i].kind
         /\ \A i \in 1 .. kept : e[Len(a) + i].kind = b[i].kind
    BY <2>4, <2>6, <2>11
  <2>13. HasKinds(e, Len(a) + kept)
    <3> SUFFICES ASSUME NEW i \in 1 .. Len(a) + kept
                 PROVE  e[i].kind \in Kinds
      BY <2>11 DEF HasKinds
    <3>1. CASE i \in 1 .. Len(a)
      BY <2>3, <2>12, <3>1 DEF HasKinds
    <3>2. CASE i \notin 1 .. Len(a)
      <4>1. i - Len(a) \in 1 .. kept /\ Len(a) + (i - Len(a)) = i
        BY <2>2, <3>2
      <4> QED
        BY <2>5, <2>12, <4>1 DEF HasKinds
    <3> QED
      BY <3>1, <3>2
  <2>14. Joins(a, Len(a), b, kept, e)
    BY <2>3, <2>5, <2>12, <2>13 DEF Joins
  <2> QED
    BY <2>2, <2>14, BytesJoin DEF a, b, e
<1> QED
  BY <1>5, <1>9, <1>10 DEF BytesAreCounted

(* Nothing takes up no bytes.                                              *)
LEMMA NoBytes ==
    Bytes(<<>>) = 0
<1>1. HasKinds(<<>>, 0) /\ 1 .. 0 = {}
  BY DEF HasKinds
<1>2. Bytes(<<>>) = SumFunctionOnSet([i \in 1 .. 0 |-> RecordBytes[<<>>[i].kind]], 1 .. 0)
  BY <1>1, BytesIsSum
<1> QED
  BY <1>1, <1>2, SumUnfolds, FS_EmptySet

-----------------------------------------------------------------------------
(* The inductive invariant of what is stored *)

\* Every range that was fingerprinted is counted, none twice: those resolved,
\* and the pending ones once their level was read.
NodesAreFingerprinted(p) ==
    \/ p.fingerprint_nodes = Cardinality(p.topology) + Cardinality(p.pending)
    \/ p.fingerprint_nodes = Cardinality(p.topology) /\ p.mismatch_witnesses = {}

\* What the ledger l has charged once n of the two summaries are read.
SummariesCharged(l, n) ==
    /\ l.queries = input.charged.queries + 2 * n
    /\ l.fetched_records = input.charged.fetched_records + 2 * n
    /\ l.full_scans["reference"] = input.charged.full_scans["reference"]
          + (IF n > 0 THEN relation["reference"].physical_scans ELSE 0)
    /\ l.full_scans["target"] = input.charged.full_scans["target"]
          + (IF n > 1 THEN relation["target"].physical_scans ELSE 0)

\* What the store needs to know of each place.
StoreStanding(c, s, p, l) ==
    /\ c = "start" => SummariesCharged(l, 0)
    /\ c = "read_summaries" => SummariesCharged(l, IF s = "reference" THEN 0 ELSE 1)
    /\ c = "contract" => SummariesCharged(l, 2)
    /\ c \in {"start", "read_summaries", "contract", "plan", "read_fingerprints", "match"} =>
          p.mismatch_witnesses = {}
    /\ c = "finish" => ContractHolds /\ ~ InvalidKeys

\* An interruption of p; the keys break their mapping only at its start.
StorableInterruption(p, a) ==
    \E cause \in DOMAIN InterruptionReasonCode :
        /\ a = PartialComparisonArtifact(p, cause)
        /\ cause = "ComparisonKeyMappingError" =>
              p.summaries_verified /\ p.topology = {} /\ p.mismatch_witnesses = {}

\* A result of p: of keys that keep their contract, or of keys that do not
\* once both summaries were read.
StorableResult(p, b, l) ==
    \/ IsCompleted(p, b) /\ ContractHolds /\ ~ InvalidKeys
    \/ /\ IsStructuralResult(p, b) /\ ~ InvalidKeys
       /\ p.summaries_verified /\ p.fingerprint_nodes = 0
       /\ SummariesCharged(l, 2)

\* The artifact that the store is given.
EndsStorable(p, a, l) ==
    /\ NodesAreFingerprinted(p)
    /\ \/ StorableInterruption(p, a)
       \/ StorableResult(p, a, l)
       \/ \E b : StorableResult(p, b, l) /\ a = PartialFromCompleted(b, "snapshot_lost")

\* The invariant of a comparison whose work the store accepts.
StoreInvariance ==
    /\ IsTree(progress)
    /\ BytesAreCounted(progress)
    /\ StoreStanding(pc, side, progress, ledger)
    /\ pc = "done" => EndsStorable(progress, artifact, ledger)

(* What a step has to show for the invariant to hold after it.             *)
LEMMA StorableAfter ==
    ASSUME input' = input, IsTree(progress'), BytesAreCounted(progress'),
           StoreStanding(pc', side', progress', ledger'),
           pc' = "done" => EndsStorable(progress', artifact', ledger')
    PROVE  StoreInvariance'
<1>1. /\ relation' = relation /\ (ContractHolds' <=> ContractHolds)
      /\ \A s : Summary(s)' = Summary(s)
      /\ \A g : FingerprintNode(g)' = FingerprintNode(g)
  BY ArgumentsStay
<1>2. InvalidKeys' <=> InvalidKeys
  BY <1>1 DEF InvalidKeys
<1>3. IsTree(progress)' /\ BytesAreCounted(progress)'
  BY DEF IsTree, BytesAreCounted
<1>4. \A n : SummariesCharged(ledger, n)' <=> SummariesCharged(ledger', n)
  BY <1>1 DEF SummariesCharged
<1>5. StoreStanding(pc, side, progress, ledger)'
  BY <1>1, <1>2, <1>4 DEF StoreStanding
<1>6. (pc = "done" => EndsStorable(progress, artifact, ledger))'
  <2> SUFFICES ASSUME pc' = "done"
               PROVE  EndsStorable(progress, artifact, ledger)'
    OBVIOUS
  <2>1. NodesAreFingerprinted(progress)' <=> NodesAreFingerprinted(progress')
    BY DEF NodesAreFingerprinted
  <2>2. \A cause : PartialComparisonArtifact(progress, cause)'
                      = PartialComparisonArtifact(progress', cause)
    BY <1>1 DEF PartialComparisonArtifact
  <2>3. StorableInterruption(progress, artifact)' <=> StorableInterruption(progress', artifact')
    BY <2>2 DEF StorableInterruption
  <2>4. \A b : StorableResult(progress, b, ledger)' <=> StorableResult(progress', b, ledger')
    BY <1>1, <1>2, <1>4 DEF StorableResult, IsCompleted, IsComplete, IsStructuralResult
  <2>5. StorableResult(progress, artifact, ledger)'
           <=> StorableResult(progress', artifact', ledger')
    BY <1>1, <1>2, <1>4 DEF StorableResult, IsCompleted, IsComplete, IsStructuralResult
  <2> QED
    BY <2>1, <2>3, <2>4, <2>5 DEF EndsStorable
<1> QED
  BY <1>3, <1>5, <1>6 DEF StoreInvariance

(* Before it is done, a comparison counts the ranges it fingerprinted.     *)
LEMMA NodesStand ==
    ASSUME Invariance, StoreInvariance, pc # "done"
    PROVE  NodesAreFingerprinted(progress)
<1>1. /\ ProgressIsTrue(progress) /\ Standing(pc, side, progress, level, nodes)
      /\ StoreStanding(pc, side, progress, ledger) /\ input \in Inputs
  BY DEF Invariance, StoreInvariance
<1>2. Cardinality(progress.topology) \in Nat /\ Cardinality({}) = 0
  BY <1>1, FS_CardinalityType, FS_EmptySet DEF ProgressIsTrue, TreeIsSound
<1>3. CASE pc \in {"start", "read_summaries"}
  <2>1. progress.topology = {} /\ progress.fingerprint_nodes = 0
    BY <1>1, <1>3, InitialIsTrue DEF Standing
  <2> QED
    BY <1>1, <1>2, <1>3, <2>1 DEF NodesAreFingerprinted, StoreStanding
<1>4. CASE pc = "contract"
  BY <1>1, <1>2, <1>4 DEF NodesAreFingerprinted, StoreStanding, Standing
<1>5. CASE pc \in {"plan", "read_fingerprints"}
  BY <1>1, <1>5 DEF NodesAreFingerprinted, StoreStanding, Standing
<1>6. CASE pc = "match"
  BY <1>1, <1>6 DEF NodesAreFingerprinted, Standing
<1>7. CASE pc \in {"prune", "read_exact", "classify"}
  BY <1>1, <1>7 DEF NodesAreFingerprinted, Standing, HoldsLevel
<1>8. CASE pc = "finish"
  BY <1>1, <1>2, <1>8 DEF NodesAreFingerprinted, Standing, IsComplete
<1> QED
  BY <1>1, <1>3, <1>4, <1>5, <1>6, <1>7, <1>8 DEF Standing, Locations

(* The first state.                                                        *)
LEMMA StorableAtStart ==
    ASSUME Init
    PROVE  StoreInvariance
<1>1. /\ input \in Inputs /\ ledger = input.charged /\ pc = "start" /\ side = "reference"
      /\ progress = InitialProgress /\ artifact = None
  BY DEF Init
<1>2. /\ progress.topology = {} /\ progress.mismatch_witnesses = {} /\ progress.anomalies = <<>>
      /\ progress.retained_bytes = 0
  BY <1>1 DEF InitialProgress
<1>3. IsTree(progress)
  <2> DEFINE g == [segment_sequence |-> 0, parent |-> None, depth |-> 0,
                   lower_inclusive |-> INT64_MIN, upper_exclusive |-> None]
  <2>1. progress.pending = {g}
    BY <1>1 DEF InitialProgress
  <2>2. g.segment_sequence = 0 /\ g.parent = None
    OBVIOUS
  <2> HIDE DEF g
  <2> QED
    BY <1>2, <2>1, <2>2, RootTree
<1>4. BytesAreCounted(progress)
  BY <1>2, NoBytes DEF BytesAreCounted
<1>5. SummariesCharged(ledger, 0)
  <2>1. /\ ledger.queries \in Int /\ ledger.fetched_records \in Int
        /\ ledger.full_scans["reference"] \in Int /\ ledger.full_scans["target"] \in Int
    BY <1>1, Arguments DEF Sides
  <2> QED
    BY <1>1, <2>1 DEF SummariesCharged
<1>6. StoreStanding(pc, side, progress, ledger)
  BY <1>1, <1>2, <1>5 DEF StoreStanding
<1> QED
  BY <1>1, <1>3, <1>4, <1>6 DEF StoreInvariance

(* An exception leaves an interruption.                                    *)
LEMMA RaiseStores ==
    ASSUME Invariance, StoreInvariance, pc # "done",
           NEW cause \in DOMAIN InterruptionReasonCode, Raise(cause),
           cause = "ComparisonKeyMappingError" => pc = "contract"
    PROVE  StoreInvariance'
<1>1. /\ pc' = "done" /\ artifact' = PartialComparisonArtifact(progress, cause)
      /\ input' = input /\ progress' = progress
  BY DEF Raise
<1>2. NodesAreFingerprinted(progress)
  BY NodesStand
<1>3. /\ Standing(pc, side, progress, level, nodes)
      /\ StoreStanding(pc, side, progress, ledger)
      /\ IsTree(progress) /\ BytesAreCounted(progress)
  BY DEF Invariance, StoreInvariance
<1>4. cause = "ComparisonKeyMappingError" =>
         progress.summaries_verified /\ progress.topology = {} /\ progress.mismatch_witnesses = {}
  BY <1>3 DEF Standing, StoreStanding
<1>5. EndsStorable(progress', artifact', ledger')
  BY <1>1, <1>2, <1>4 DEF EndsStorable, StorableInterruption
<1>6. StoreStanding(pc', side', progress', ledger')
  BY <1>1 DEF StoreStanding
<1> QED
  BY <1>1, <1>3, <1>5, <1>6, StorableAfter

(* The steps that raise.                                                   *)
LEMMA RaisingStores ==
    ASSUME Invariance, StoreInvariance,
           \/ RejectInputs \/ RefuseSummaries \/ RejectKeyMapping \/ RejectUnsupported
           \/ RefuseFingerprintLevel \/ RefuseSplit \/ BudgetRunsOut \/ ReadFails
    PROVE  StoreInvariance'
<1>1. PICK cause \in DOMAIN InterruptionReasonCode :
         Raise(cause) /\ (cause = "ComparisonKeyMappingError" => pc = "contract") /\ pc # "done"
  <2>1. {"UnsupportedComparisonError", "ComparisonProtocolError", "ComparisonBudgetExceededError",
         "ComparisonKeyMappingError", "PostgresQueryError", "PostgresContextLostError",
         "PostgresReadDeadlineExceededError", "PostgresDataValidationError",
         "PostgresSourceBudgetExceededError"} \subseteq DOMAIN InterruptionReasonCode
    BY DEF InterruptionReasonCode
  <2>2. CASE RejectInputs
    BY <2>1, <2>2 DEF RejectInputs
  <2>3. CASE RefuseSummaries
    BY <2>1, <2>3 DEF RefuseSummaries
  <2>4. CASE RejectKeyMapping
    BY <2>1, <2>4 DEF RejectKeyMapping
  <2>5. CASE RejectUnsupported
    BY <2>1, <2>5 DEF RejectUnsupported
  <2>6. CASE RefuseFingerprintLevel
    BY <2>1, <2>6 DEF RefuseFingerprintLevel
  <2>7. CASE RefuseSplit
    BY <2>1, <2>7 DEF RefuseSplit
  <2>8. CASE BudgetRunsOut
    BY <2>1, <2>8 DEF BudgetRunsOut
  <2>9. CASE ReadFails
    <3>1. /\ pc \in {"read_summaries", "read_fingerprints", "read_exact"}
          /\ \E cause \in {"PostgresQueryError", "PostgresContextLostError",
                           "PostgresReadDeadlineExceededError", "PostgresDataValidationError",
                           "PostgresSourceBudgetExceededError"} : Raise(cause)
      BY <2>9 DEF ReadFails
    <3>2. PICK cause \in {"PostgresQueryError", "PostgresContextLostError",
                          "PostgresReadDeadlineExceededError", "PostgresDataValidationError",
                          "PostgresSourceBudgetExceededError"} : Raise(cause)
      BY <3>1
    <3> QED
      BY <2>1, <3>1, <3>2
  <2> QED
    BY <2>2, <2>3, <2>4, <2>5, <2>6, <2>7, <2>8, <2>9
<1> QED
  BY <1>1, RaiseStores

(* What a read of a summary charges.                                       *)
LEMMA SummaryIsCharged ==
    ASSUME Invariance, pc = "read_summaries"
    PROVE  LET l == Charge(side, 2, ReadScans(side), 1 + ReadRecords(side))
           IN  /\ l.queries = ledger.queries + 2
               /\ l.fetched_records = ledger.fetched_records + 2
               /\ l.full_scans[side] = ledger.full_scans[side] + relation[side].physical_scans
               /\ \A s \in Sides : s # side => l.full_scans[s] = ledger.full_scans[s]
<1>1. /\ input \in Inputs /\ LedgerFits(ledger) /\ side \in Sides
  BY DEF Invariance, Standing
<1>2. relation[side].physical_scans \in Nat
  BY <1>1, Arguments
<1>3. ReadScans(side) = relation[side].physical_scans /\ ReadRecords(side) = 1
  BY <1>2, ReadSizes
<1>4. ledger \in [queries : 0 .. budgets.max_queries,
                  fetched_records : 0 .. budgets.max_fetched_records,
                  full_scans : [Sides -> 0 .. budgets.max_full_scans_per_side]]
  BY <1>1 DEF LedgerFits
<1> HIDE DEF budgets, relation
<1> QED
  BY <1>1, <1>3, <1>4 DEF Charge

(* The summaries are read.                                                 *)
LEMMA SummariesStore ==
    ASSUME Invariance, StoreInvariance, PlanSummaries \/ ReadReference \/ ReadTargetSummary
    PROVE  StoreInvariance'
<1>1. /\ Standing(pc, side, progress, level, nodes) /\ input \in Inputs /\ LedgerFits(ledger)
      /\ StoreStanding(pc, side, progress, ledger)
      /\ IsTree(progress) /\ BytesAreCounted(progress)
  BY DEF Invariance, StoreInvariance
<1>2. CASE PlanSummaries
  <2>1. /\ pc = "start" /\ pc' = "read_summaries" /\ input' = input /\ ledger' = ledger
        /\ side' = side /\ progress' = progress /\ side = "reference"
    BY <1>1, <1>2 DEF PlanSummaries, Standing, Reads
  <2>2. StoreStanding(pc', side', progress', ledger')
    BY <1>1, <2>1 DEF StoreStanding
  <2> QED
    BY <1>1, <2>1, <2>2, StorableAfter
<1>3. CASE ReadReference
  <2>1. /\ pc \in Reads /\ pc' = pc /\ input' = input /\ side = "reference" /\ side' = "target"
        /\ ledger' = Charge(side, 2, ReadScans(side), 1 + ReadRecords(side))
        /\ progress' = progress
    BY <1>3 DEF ReadReference, Reads
  <2>2. pc = "read_summaries" => SummariesCharged(ledger', 1)
    <3> SUFFICES ASSUME pc = "read_summaries"
                 PROVE  SummariesCharged(ledger', 1)
      OBVIOUS
    <3>1. SummariesCharged(ledger, 0)
      BY <1>1, <2>1 DEF StoreStanding
    <3>2. /\ ledger'.queries = ledger.queries + 2
          /\ ledger'.fetched_records = ledger.fetched_records + 2
          /\ ledger'.full_scans["reference"]
                = ledger.full_scans["reference"] + relation["reference"].physical_scans
          /\ ledger'.full_scans["target"] = ledger.full_scans["target"]
      BY <2>1, SummaryIsCharged DEF Sides
    <3>3. /\ input.charged.queries \in Int /\ input.charged.fetched_records \in Int
          /\ input.charged.full_scans["reference"] \in Int
          /\ input.charged.full_scans["target"] \in Int
          /\ relation["reference"].physical_scans \in Int
      BY <1>1, Arguments DEF Sides
    <3> QED
      BY ONLY <3>1, <3>2, <3>3 DEF SummariesCharged
  <2>3. StoreStanding(pc', side', progress', ledger')
    BY <1>1, <2>1, <2>2 DEF StoreStanding, Reads
  <2> QED
    BY <1>1, <2>1, <2>3, StorableAfter DEF Reads
<1>4. CASE ReadTargetSummary
  <2>1. /\ pc = "read_summaries" /\ pc' = "contract" /\ side = "target" /\ input' = input
        /\ ledger' = Charge(side, 2, ReadScans(side), 1 + ReadRecords(side))
        /\ progress' = [progress EXCEPT !.pending = {RootSegment}, !.summaries_verified = TRUE]
    BY <1>4 DEF ReadTargetSummary, ReadTarget
  <2>2. progress = InitialProgress
    BY <1>1, <2>1 DEF Standing
  <2>3. /\ progress'.pending = {RootSegment} /\ progress'.topology = {}
        /\ progress'.mismatch_witnesses = {}
        /\ progress'.anomalies = <<>> /\ progress'.retained_bytes = 0
    BY <2>1, <2>2 DEF InitialProgress
  <2>4. IsTree(progress')
    BY <1>1, <2>3, RootTree, RootHoldsEveryKey
  <2>5. BytesAreCounted(progress')
    BY <2>3, NoBytes DEF BytesAreCounted
  <2>6. SummariesCharged(ledger', 2)
    <3>1. SummariesCharged(ledger, 1)
      BY <1>1, <2>1 DEF StoreStanding
    <3>2. /\ ledger'.queries = ledger.queries + 2
          /\ ledger'.fetched_records = ledger.fetched_records + 2
          /\ ledger'.full_scans["target"]
                = ledger.full_scans["target"] + relation["target"].physical_scans
          /\ ledger'.full_scans["reference"] = ledger.full_scans["reference"]
      BY <2>1, SummaryIsCharged DEF Sides
    <3>3. /\ input.charged.queries \in Int /\ input.charged.fetched_records \in Int
          /\ input.charged.full_scans["reference"] \in Int
          /\ input.charged.full_scans["target"] \in Int
          /\ relation["target"].physical_scans \in Int
      BY <1>1, Arguments DEF Sides
    <3> QED
      BY ONLY <3>1, <3>2, <3>3 DEF SummariesCharged
  <2>7. StoreStanding(pc', side', progress', ledger')
    BY <2>1, <2>3, <2>6 DEF StoreStanding
  <2> QED
    BY <2>1, <2>4, <2>5, <2>7, StorableAfter
<1> QED
  BY <1>2, <1>3, <1>4

(* Steps that change no progress.                                          *)
LEMMA OtherStepsStore ==
    ASSUME Invariance, StoreInvariance,
           \/ EnterLoop \/ PlanFingerprintLevel \/ LevelMatches \/ AdmitExactFrontier
           \/ ReadTargetExact \/ EndExactFrontier
    PROVE  StoreInvariance'
<1>1. /\ Standing(pc, side, progress, level, nodes)
      /\ StoreStanding(pc, side, progress, ledger)
      /\ IsTree(progress) /\ BytesAreCounted(progress)
  BY DEF Invariance, StoreInvariance
<1>2. input' = input /\ progress' = progress
  BY DEF EnterLoop, PlanFingerprintLevel, LevelMatches, AdmitExactFrontier, ReadTargetExact,
         EndExactFrontier
<1>3. StoreStanding(pc', side', progress', ledger') /\ pc' # "done"
  <2>1. CASE EnterLoop
    <3>1. pc = "contract" /\ pc' = "plan"
      BY <2>1 DEF EnterLoop
    <3> QED
      BY <1>1, <1>2, <3>1 DEF StoreStanding
  <2>2. CASE PlanFingerprintLevel
    <3>1. pc = "plan" /\ pc' = "read_fingerprints"
      BY <2>2 DEF PlanFingerprintLevel
    <3> QED
      BY <1>1, <1>2, <3>1 DEF StoreStanding
  <2>3. CASE LevelMatches
    <3>1. pc = "prune" /\ pc' = "finish"
      BY <2>3 DEF LevelMatches
    <3> QED
      BY <1>1, <1>2, <3>1 DEF StoreStanding, Standing, HoldsLevel
  <2>4. CASE AdmitExactFrontier
    <3>1. pc' = "read_exact"
      BY <2>4 DEF AdmitExactFrontier
    <3> QED
      BY <3>1 DEF StoreStanding
  <2>5. CASE ReadTargetExact
    <3>1. pc' = "classify"
      BY <2>5 DEF ReadTargetExact
    <3> QED
      BY <3>1 DEF StoreStanding
  <2>6. CASE EndExactFrontier
    <3>1. /\ pc = "classify" /\ StillPending(Mismatching) = {}
          /\ pc' = IF progress.pending = {} THEN "finish" ELSE "plan"
      BY <2>6 DEF EndExactFrontier
    <3>2. HoldsLevel(progress, level, nodes) /\ PendingDiffers(progress)
      BY <1>1, <3>1 DEF Standing
    <3>3. progress.pending = {}
      <4> SUFFICES ASSUME NEW g \in progress.pending
                   PROVE  FALSE
        OBVIOUS
      <4>1. FingerprintNode(g) \in StillPending(Mismatching)
        BY <3>2, LevelNodes DEF PendingDiffers, StillPending, Mismatching
      <4> QED
        BY <3>1, <4>1
    <3> QED
      BY <3>1, <3>2, <3>3 DEF StoreStanding, HoldsLevel
  <2> QED
    BY <2>1, <2>2, <2>3, <2>4, <2>5, <2>6
<1> QED
  BY <1>1, <1>2, <1>3, StorableAfter

(* The fingerprints of a level are read and matched.                       *)
LEMMA LevelStores ==
    ASSUME Invariance, StoreInvariance, ReadTargetFingerprints \/ MatchLevel
    PROVE  StoreInvariance'
<1>1. /\ Standing(pc, side, progress, level, nodes) /\ progress \in ProgressType
      /\ StoreStanding(pc, side, progress, ledger)
      /\ IsTree(progress) /\ BytesAreCounted(progress)
  BY DEF Invariance, StoreInvariance, ProgressIsTrue
<1>2. ASSUME NEW q, q.pending = progress.pending, q.topology = progress.topology,
             q.anomalies = progress.anomalies, q.retained_bytes = progress.retained_bytes
      PROVE  IsTree(q) /\ BytesAreCounted(q)
  BY <1>1, <1>2, SameTree DEF BytesAreCounted
<1>3. CASE ReadTargetFingerprints
  <2>1. /\ pc = "read_fingerprints" /\ pc' = "match" /\ input' = input
        /\ progress' = [progress EXCEPT !.fingerprint_nodes = @ + Cardinality(level)]
    BY <1>3 DEF ReadTargetFingerprints, ReadTarget
  <2>2. /\ progress'.pending = progress.pending /\ progress'.topology = progress.topology
        /\ progress'.anomalies = progress.anomalies
        /\ progress'.retained_bytes = progress.retained_bytes
        /\ progress'.mismatch_witnesses = progress.mismatch_witnesses
    BY <1>1, <2>1, ProgressFields
  <2>3. StoreStanding(pc', side', progress', ledger')
    BY <1>1, <2>1, <2>2 DEF StoreStanding
  <2> QED
    BY <1>2, <2>1, <2>2, <2>3, StorableAfter
<1>4. CASE MatchLevel
  <2> DEFINE here == {FingerprintNode(g) : g \in level}
             unequal == {n \in here : Mismatches(n)}
             w == WithoutMismatchWitness(progress.mismatch_witnesses, SequenceNumbers(unequal))
                     \cup unequal
             q == [progress EXCEPT !.mismatch_witnesses = w]
  <2>1. pc = "match" /\ Yield(RootCountsAgree(here), "prune", q) /\ input' = input
    BY <1>4 DEF MatchLevel
  <2> HIDE DEF here, w
  <2>2. CASE RootCountsAgree(here)
    <3>1. pc' = "prune" /\ progress' = q
      BY <2>1, <2>2 DEF Yield
    <3>2. /\ progress'.pending = progress.pending /\ progress'.topology = progress.topology
          /\ progress'.anomalies = progress.anomalies
          /\ progress'.retained_bytes = progress.retained_bytes
      BY <1>1, <3>1, ProgressFields
    <3>3. StoreStanding(pc', side', progress', ledger')
      BY <3>1 DEF StoreStanding
    <3> QED
      BY <1>2, <2>1, <3>1, <3>2, <3>3, StorableAfter
  <2>3. CASE ~ RootCountsAgree(here)
    <3>1. /\ pc' = "done" /\ progress' = progress
          /\ artifact' = PartialComparisonArtifact(progress, "ComparisonProtocolError")
      BY <2>1, <2>3 DEF Yield
    <3>2. NodesAreFingerprinted(progress)
      BY <2>1, NodesStand
    <3>3. EndsStorable(progress', artifact', ledger')
      BY <3>1, <3>2 DEF EndsStorable, StorableInterruption, InterruptionReasonCode
    <3>4. StoreStanding(pc', side', progress', ledger')
      BY <3>1 DEF StoreStanding
    <3> QED
      BY <1>1, <2>1, <3>1, <3>3, <3>4, StorableAfter
  <2> QED
    BY <2>2, <2>3
<1> QED
  BY <1>3, <1>4

(* Equal ranges are pruned.                                                *)
LEMMA PruneStores ==
    ASSUME Invariance, StoreInvariance, PruneMatching
    PROVE  StoreInvariance'
<1> DEFINE rest == StillPending(Matching)
           batch == {n \in rest : Rank(n, rest) < DeadlineCheckRecords}
<1>1. /\ Standing(pc, side, progress, level, nodes) /\ progress \in ProgressType
      /\ IsTree(progress) /\ BytesAreCounted(progress)
      /\ ProgressIsTrue(progress) /\ input \in Inputs
  BY DEF Invariance, StoreInvariance, ProgressIsTrue
<1>2. /\ pc = "prune" /\ pc' = pc /\ input' = input /\ progress' = Prune(progress, batch)
  BY DEF PruneMatching
<1>3. HoldsLevel(progress, level, nodes)
  BY <1>1, <1>2 DEF Standing
<1>4. \A n \in batch : /\ n.segment \in progress.pending /\ n = FingerprintNode(n.segment)
                       /\ Matches(n)
  BY <1>3, LevelNodes DEF StillPending, Matching
<1> HIDE DEF batch
<1>5. PendingNodes(progress, batch)
  BY <1>4 DEF PendingNodes
<1>6. progress'.pending = progress.pending \ {n.segment : n \in batch}
  BY <1>1, <1>2, <1>4, <1>5, PruneKeeps
<1>7. /\ progress'.topology = progress.topology \cup
            {SegmentRecord(n, "fingerprint_match") : n \in batch}
      /\ progress'.anomalies = progress.anomalies
      /\ progress'.retained_bytes = progress.retained_bytes
  BY <1>1, <1>2, ProgressFields DEF Prune
<1>8. Moves(progress, progress', batch, "fingerprint_match")
  BY <1>4, <1>6, <1>7 DEF Moves, TerminalStates
<1>9. IsTree(progress') /\ BytesAreCounted(progress')
  BY <1>1, <1>7, <1>8, ResolvedTree DEF BytesAreCounted
<1>10. StoreStanding(pc', side', progress', ledger')
  BY <1>2 DEF StoreStanding
<1> QED
  BY <1>2, <1>9, <1>10, StorableAfter

(* A frontier that does not fit is split.                                  *)
LEMMA SplitStores ==
    ASSUME Invariance, StoreInvariance, SplitMismatching
    PROVE  StoreInvariance'
<1> DEFINE M == Mismatching
           N == progress.fingerprint_nodes
           half == [n \in M |-> Halves(n)]
<1>0. Invariance /\ SplitMismatching
  OBVIOUS
<1>1. /\ input \in Inputs /\ ProgressIsTrue(progress)
      /\ Standing(pc, side, progress, level, nodes)
      /\ IsTree(progress) /\ BytesAreCounted(progress)
  BY DEF Invariance, StoreInvariance
<1>2. /\ pc = "prune" /\ StillPending(Matching) = {} /\ M # {} /\ CanSplit
      /\ pc' = "plan" /\ input' = input
      /\ level' = {Halves(n)[i] : n \in M, i \in 1 .. 2}
      /\ progress' =
            [progress EXCEPT
                !.topology = @ \cup {SegmentRecord(n, "split") : n \in M},
                !.pending = level',
                !.mismatch_witnesses = WithoutMismatchWitness(@, SequenceNumbers(M))]
  BY DEF SplitMismatching
<1>3. /\ HoldsLevel(progress, level, nodes)
      /\ DifferencesArePending(progress, level) /\ Terminal(progress, ExactStates) = {}
  BY <1>1, <1>2 DEF Standing, Reads
<1> HIDE DEF M, N, half
<1>4. M = Mismatching /\ N = progress.fingerprint_nodes /\ half = [n \in M |-> Halves(n)]
  BY DEF M, N, half
<1>5. /\ PendingNodes(progress, M) /\ M # {} /\ \A n \in M : Mismatches(n)
      /\ progress.pending = {n.segment : n \in M}
      /\ level' = HalvesOf(M, half)
      /\ HalvesAll(progress, progress', M, N, half)
  BY ONLY <1>0, <1>4, AllAreHalved
<1>10. /\ ProgressIsTrue(progress')
       /\ SplitsInto(progress, progress', M, N, half)
       /\ progress'.mismatch_witnesses
             = WithoutMismatchWitness(progress.mismatch_witnesses, SequenceNumbers(M))
       /\ progress'.anomalies = progress.anomalies
       /\ progress'.retained_bytes = progress.retained_bytes
  BY ONLY <1>1, <1>3, <1>5, SplitKeeps
<1>11. IsTree(progress')
  BY ONLY <1>1, <1>10, SplitTree
<1>12. BytesAreCounted(progress')
  BY ONLY <1>1, <1>10 DEF BytesAreCounted
<1>13. progress'.mismatch_witnesses = {}
  <2>1. \A w \in progress.mismatch_witnesses : w.segment \in progress.pending
    BY <1>1 DEF ProgressIsTrue, RecordsAreTrue
  <2>2. \A w \in progress.mismatch_witnesses : w.segment.segment_sequence \in SequenceNumbers(M)
    BY <1>5, <2>1 DEF SequenceNumbers
  <2> QED
    BY <1>10, <2>2 DEF WithoutMismatchWitness
<1>14. StoreStanding(pc', side', progress', ledger')
  BY <1>2, <1>13 DEF StoreStanding
<1> QED
  BY <1>2, <1>11, <1>12, <1>14, StorableAfter

(* A range is compared row by row.                                         *)
LEMMA ClassifyStores ==
    ASSUME Invariance, StoreInvariance, ClassifyExactLeaf
    PROVE  StoreInvariance'
<1>1. /\ input \in Inputs /\ ProgressIsTrue(progress)
      /\ Standing(pc, side, progress, level, nodes)
      /\ IsTree(progress) /\ BytesAreCounted(progress)
  BY DEF Invariance, StoreInvariance
<1>2. pc = "classify" /\ input' = input
  BY DEF ClassifyExactLeaf
<1>3. HoldsLevel(progress, level, nodes) /\ PendingDiffers(progress)
  BY <1>1, <1>2 DEF Standing
<1>4. PICK node \in StillPending(Mismatching) :
         /\ Rank(node, StillPending(Mismatching)) = 0
         /\ \E classified \in {ExactDifferences(node.segment)} :
               LET sequence == node.segment.segment_sequence
                   state == IF DifferenceCount(classified.counts) = 0 THEN "exact_match"
                                                                      ELSE "exact_mismatch"
                   leaf == [progress EXCEPT
                               !.exact_counts = AddExactCounts(@, classified.counts),
                               !.exact_segments = @ + 1,
                               !.topology = @ \cup {SegmentRecord(node, state)},
                               !.pending = WithoutPendingSequence(@, {sequence}),
                               !.mismatch_witnesses = WithoutMismatchWitness(@, {sequence})]
               IN  Yield(LeafCloses(node, classified.counts), "classify",
                         RetainExactDifferences(leaf, classified.differences, sequence))
  BY DEF ClassifyExactLeaf
<1> DEFINE found == ExactDifferences(node.segment)
           number == node.segment.segment_sequence
           state == IF DifferenceCount(found.counts) = 0 THEN "exact_match" ELSE "exact_mismatch"
           leaf == [progress EXCEPT
                       !.exact_counts = AddExactCounts(@, found.counts),
                       !.exact_segments = @ + 1,
                       !.topology = @ \cup {SegmentRecord(node, state)},
                       !.pending = WithoutPendingSequence(@, {number}),
                       !.mismatch_witnesses = WithoutMismatchWitness(@, {number})]
           q == RetainExactDifferences(leaf, found.differences, number)
<1>5. Yield(LeafCloses(node, found.counts), "classify", q)
  BY <1>4
<1>6. /\ FirstPending(progress, node.segment)
      /\ node = FingerprintNode(node.segment) /\ Mismatches(node)
  BY <1>3, <1>4, FirstIsFirst
<1>7. node.segment \in SegmentType
  BY <1>1, <1>6 DEF FirstPending, ProgressIsTrue, ProgressType
<1>8. LeafCloses(node, found.counts)
  BY <1>1, <1>6, <1>7, LeafIsTrue
<1>9. pc' = "classify" /\ progress' = q
  BY <1>5, <1>8 DEF Yield
<1>10. LeafOf(progress, leaf, node, found)
  BY DEF LeafOf
<1>11. progress' = RetainExactDifferences(leaf, found.differences, node.segment.segment_sequence)
  BY <1>9
<1> HIDE DEF leaf, found, number, state, q
<1>12. found = ExactDifferences(node.segment)
  BY DEF found
<1>13. progress'.pending = progress.pending \ {node.segment}
  BY ONLY <1>1, <1>6, <1>10, <1>11, <1>12, ClassifyKeeps
<1>14. /\ progress'.topology = progress.topology \cup {SegmentRecord(node, "exact_mismatch")}
       /\ BytesAreCounted(progress')
  BY ONLY <1>1, <1>6, <1>10, <1>11, <1>12, ClassifyCounts
<1>15. Moves(progress, progress', {node}, "exact_mismatch")
  <2>1. {n.segment : n \in {node}} = {node.segment}
    OBVIOUS
  <2>2. {SegmentRecord(n, "exact_mismatch") : n \in {node}}
           = {SegmentRecord(node, "exact_mismatch")}
    OBVIOUS
  <2> QED
    BY <1>6, <1>13, <1>14, <2>1, <2>2 DEF Moves, TerminalStates, FirstPending
<1>16. IsTree(progress')
  BY <1>1, <1>15, ResolvedTree
<1>17. StoreStanding(pc', side', progress', ledger')
  BY <1>9 DEF StoreStanding
<1> QED
  BY <1>2, <1>9, <1>14, <1>16, <1>17, StorableAfter

(* The comparison ends, with a result or without its context.              *)
LEMMA EndsStore ==
    ASSUME Invariance, StoreInvariance, CompleteStructural \/ Finish \/ DemoteCompleted
    PROVE  StoreInvariance'
<1>1. /\ input \in Inputs /\ ProgressIsTrue(progress)
      /\ Standing(pc, side, progress, level, nodes)
      /\ StoreStanding(pc, side, progress, ledger)
      /\ IsTree(progress) /\ BytesAreCounted(progress)
  BY DEF Invariance, StoreInvariance
<1>2. CASE CompleteStructural
  <2>1. /\ pc = "contract" /\ pc' = "done" /\ ~ InvalidKeys /\ ~ ContractHolds
        /\ artifact' = CompletedStructuralArtifact(progress)
        /\ input' = input /\ ledger' = ledger /\ progress' = progress
    BY <1>2 DEF CompleteStructural
  <2>2. /\ SummariesCharged(ledger, 2) /\ progress.summaries_verified
        /\ progress.fingerprint_nodes = 0
    BY <1>1, <2>1 DEF StoreStanding, Standing
  <2>3. NodesAreFingerprinted(progress)
    BY <2>1, NodesStand
  <2>4. EndsStorable(progress', artifact', ledger')
    BY <2>1, <2>2, <2>3 DEF EndsStorable, StorableResult, IsStructuralResult
  <2>5. StoreStanding(pc', side', progress', ledger')
    BY <2>1 DEF StoreStanding
  <2> QED
    BY <1>1, <2>1, <2>4, <2>5, StorableAfter
<1>3. CASE Finish
  <2>1. pc = "finish" /\ pc' = "done" /\ input' = input /\ progress' = progress
    BY <1>3 DEF Finish
  <2>2. IsComplete(progress) /\ progress.pending = {}
    BY <1>1, <2>1 DEF Standing, IsComplete
  <2>3. artifact' = CompletedComparisonArtifact(progress)
    BY <1>1, <1>3, <2>2, CompletionCloses DEF Finish
  <2>4. ContractHolds /\ ~ InvalidKeys
    BY <1>1, <2>1 DEF StoreStanding
  <2>5. NodesAreFingerprinted(progress)
    BY <2>1, NodesStand
  <2>6. EndsStorable(progress', artifact', ledger')
    BY <2>1, <2>2, <2>3, <2>4, <2>5 DEF EndsStorable, StorableResult, IsCompleted
  <2>7. StoreStanding(pc', side', progress', ledger')
    BY <2>1 DEF StoreStanding
  <2> QED
    BY <1>1, <2>1, <2>6, <2>7, StorableAfter
<1>4. CASE DemoteCompleted
  <2>1. /\ pc = "done" /\ artifact.kind \in {"completed", "structural"} /\ pc' = pc
        /\ artifact' = PartialFromCompleted(artifact, "snapshot_lost")
        /\ input' = input /\ ledger' = ledger /\ progress' = progress
    BY <1>4 DEF DemoteCompleted
  <2>2. EndsStorable(progress, artifact, ledger)
    BY <2>1 DEF StoreInvariance
  <2>3. ~ StorableInterruption(progress, artifact)
    <3> SUFFICES ASSUME StorableInterruption(progress, artifact)
                 PROVE  FALSE
      OBVIOUS
    <3>1. PICK cause : artifact = PartialComparisonArtifact(progress, cause)
      BY DEF StorableInterruption
    <3>2. artifact.kind = "partial"
      BY <1>1, <3>1, PartialFields
    <3> QED
      BY <2>1, <3>2
  <2>4. ASSUME NEW b, StorableResult(progress, b, ledger),
               artifact = PartialFromCompleted(b, "snapshot_lost")
        PROVE  FALSE
    <3>1. LosesContext(progress, b, artifact)
      BY <2>4 DEF LosesContext, StorableResult, IsCompleted, IsStructuralResult
    <3>2. artifact.kind = "demoted"
      BY <3>1, DemotedFields
    <3> QED
      BY <2>1, <3>2
  <2>5. NodesAreFingerprinted(progress) /\ StorableResult(progress, artifact, ledger)
    BY <2>2, <2>3, <2>4 DEF EndsStorable
  <2>6. EndsStorable(progress', artifact', ledger')
    BY <2>1, <2>5 DEF EndsStorable
  <2>7. StoreStanding(pc', side', progress', ledger')
    BY <2>1 DEF StoreStanding
  <2> QED
    BY <1>1, <2>1, <2>6, <2>7, StorableAfter
<1> QED
  BY <1>2, <1>3, <1>4

(* Every step keeps the invariant.                                         *)
LEMMA StepStores ==
    ASSUME Invariance, StoreInvariance, [Next]_vars
    PROVE  StoreInvariance'
<1>1. CASE Work
  <2>1. CASE \/ RejectInputs \/ RefuseSummaries \/ RejectKeyMapping \/ RejectUnsupported
             \/ RefuseFingerprintLevel \/ RefuseSplit
    BY <2>1, RaisingStores
  <2>2. CASE PlanSummaries \/ ReadReference \/ ReadTargetSummary
    BY <2>2, SummariesStore
  <2>3. CASE \/ EnterLoop \/ PlanFingerprintLevel \/ LevelMatches \/ AdmitExactFrontier
             \/ ReadTargetExact \/ EndExactFrontier
    BY <2>3, OtherStepsStore
  <2>4. CASE ReadTargetFingerprints \/ MatchLevel
    BY <2>4, LevelStores
  <2>5. CASE PruneMatching
    BY <2>5, PruneStores
  <2>6. CASE SplitMismatching
    BY <2>6, SplitStores
  <2>7. CASE ClassifyExactLeaf
    BY <2>7, ClassifyStores
  <2>8. CASE CompleteStructural \/ Finish
    BY <2>8, EndsStore
  <2> QED
    BY <1>1, <2>1, <2>2, <2>3, <2>4, <2>5, <2>6, <2>7, <2>8 DEF Work
<1>2. CASE BudgetRunsOut \/ ReadFails
  BY <1>2, RaisingStores
<1>3. CASE DemoteCompleted
  BY <1>3, EndsStore
<1>4. CASE UNCHANGED vars
  <2>1. /\ input' = input /\ ledger' = ledger /\ pc' = pc /\ side' = side
        /\ progress' = progress /\ artifact' = artifact
    BY <1>4 DEF vars
  <2> QED
    BY <2>1, StorableAfter DEF StoreInvariance
<1> QED
  BY <1>1, <1>2, <1>3, <1>4 DEF Next

-----------------------------------------------------------------------------
(* What the invariants say of a stored artifact *)

\* T has one node for each range of p, with that range's fingerprints if any;
\* the split nodes are those of the split ranges, and have them.
AreNodes(p, T) ==
    /\ \A n \in T : /\ n.segment \in Segments(p)
                    /\ n.fingerprint # None =>
                          n.fingerprint = FingerprintNode(n.segment).fingerprint
    /\ \A g \in Segments(p) : \E n \in T : n.segment = g
    /\ \A n, m \in T : n.segment = m.segment => n = m
    /\ \A n \in T : n.state = "split" =>
          n.segment \in Splits(p) /\ n.fingerprint = FingerprintNode(n.segment).fingerprint
    /\ \A n \in T : n.state # "split" => n.segment \notin Splits(p)
    /\ \A n \in T : n.state \in {"fingerprint_match", "exact_match"} => Matches(n)

(* The fingerprints of both halves combine into those of the range.        *)
LEMMA HalvesCombine ==
    ASSUME input \in Inputs, NEW g, NEW h, NEW i, AreHalves(g, h, i)
    PROVE  CombineFingerprints(FingerprintNode(h).fingerprint, FingerprintNode(i).fingerprint)
              = FingerprintNode(g).fingerprint
<1>1. \A s \in Sides :
         /\ Fingerprint(s, g).count = Fingerprint(s, h).count + Fingerprint(s, i).count
         /\ Fingerprint(s, g).limb_sum = Fingerprint(s, h).limb_sum + Fingerprint(s, i).limb_sum
  BY HalvesSum
<1>2. \A s : Fingerprint(s, g) =
                [count |-> Fingerprint(s, g).count, limb_sum |-> Fingerprint(s, g).limb_sum]
  BY DEF Fingerprint
<1>3. \A s \in Sides :
         Fingerprint(s, g) =
            [count |-> Fingerprint(s, h).count + Fingerprint(s, i).count,
             limb_sum |-> Fingerprint(s, h).limb_sum + Fingerprint(s, i).limb_sum]
  BY ONLY <1>1, <1>2
<1>4. \A x : FingerprintNode(x).fingerprint = [s \in Sides |-> Fingerprint(s, x)]
  BY DEF FingerprintNode
<1> DEFINE left == FingerprintNode(h).fingerprint
           right == FingerprintNode(i).fingerprint
<1>5. \A s \in Sides : left[s] = Fingerprint(s, h) /\ right[s] = Fingerprint(s, i)
  BY ONLY <1>4
<1> HIDE DEF left, right
<1>6. CombineFingerprints(left, right) = [s \in Sides |-> Fingerprint(s, g)]
  BY ONLY <1>3, <1>5 DEF CombineFingerprints
<1> QED
  BY ONLY <1>4, <1>6 DEF left, right

(* A range has a number of its own.                                        *)
LEMMA NumbersDiffer ==
    ASSUME NEW p, ProgressIsTrue(p), NEW g \in Segments(p), NEW h \in Segments(p),
           g.segment_sequence = h.segment_sequence
    PROVE  g = h
<1>1. TreeIsSound(p)
  BY DEF ProgressIsTrue
<1> QED
  BY <1>1 DEF TreeIsSound, Segments

(* Two different elements are two.                                         *)
LEMMA PairSize ==
    ASSUME NEW x, NEW y, x # y
    PROVE  Cardinality({x, y}) = 2
<1>1. /\ IsFiniteSet({x}) /\ Cardinality({x}) = 1 /\ IsFiniteSet({y}) /\ Cardinality({y}) = 1
  BY FS_Singleton
<1>2. {x} \cap {y} = {} /\ {x, y} = {x} \cup {y}
  OBVIOUS
<1>3. Cardinality({x} \cup {y}) = 1 + 1
  BY <1>1, <1>2, SizeOfUnion
<1> QED
  BY <1>2, <1>3

(* A split is valid in the nodes of a tree.                                *)
LEMMA SplitsAreValid ==
    ASSUME input \in Inputs, NEW p, ProgressIsTrue(p), IsTree(p), NEW T, AreNodes(p, T),
           NEW node \in T, node.state = "split"
    PROVE  SplitIsValid(node, Children(T, node))
<1> DEFINE g == node.segment
<1>1. /\ g \in Splits(p) /\ node.fingerprint = FingerprintNode(g).fingerprint
      /\ \A n \in T : n.segment \in Segments(p)
      /\ \A n \in T : n.fingerprint # None => n.fingerprint = FingerprintNode(n.segment).fingerprint
      /\ \A x \in Segments(p) : \E n \in T : n.segment = x
      /\ \A n, m \in T : n.segment = m.segment => n = m
  BY DEF AreNodes
<1>2. PICK h, i \in Segments(p) : ChildrenOf(p, g) = {h, i} /\ HalvedInto(g, h, i)
  BY <1>1 DEF IsTree
<1>3. PICK left \in T : left.segment = h
  BY <1>1
<1>4. PICK right \in T : right.segment = i
  BY <1>1
<1>5. /\ AreHalves(g, h, i) /\ h.upper_exclusive # None
      /\ h.depth = g.depth + 1 /\ i.depth = g.depth + 1
  BY <1>2 DEF HalvedInto
<1>6. /\ h.lower_inclusive = g.lower_inclusive /\ i.upper_exclusive = g.upper_exclusive
      /\ i.lower_inclusive = h.upper_exclusive /\ h.lower_inclusive < i.lower_inclusive
  BY <1>5 DEF AreHalves, SoundSegment, MathematicalUpper
<1>7. h.lower_inclusive \in Int /\ i.lower_inclusive \in Int
  BY <1>5, Bounds DEF AreHalves, SoundSegment
<1>8. Children(T, node) = {left, right}
  <2>1. \A n \in T : n.segment.parent = g.segment_sequence <=> n.segment \in {h, i}
    BY <1>1, <1>2 DEF ChildrenOf
  <2>2. \A n \in T : n.segment \in {h, i} <=> n \in {left, right}
    BY <1>1, <1>3, <1>4
  <2> QED
    BY <1>3, <1>4, <2>1, <2>2 DEF Children
<1>9. Cardinality(Children(T, node)) = 2
  <2>1. left # right
    BY <1>3, <1>4, <1>6, <1>7
  <2> QED
    BY <1>8, <2>1, PairSize
<1>10. None \notin {left.fingerprint, right.fingerprint} =>
          CombineFingerprints(left.fingerprint, right.fingerprint) = node.fingerprint
  <2> SUFFICES ASSUME left.fingerprint # None, right.fingerprint # None
               PROVE  CombineFingerprints(left.fingerprint, right.fingerprint)
                         = node.fingerprint
    OBVIOUS
  <2>1. /\ left.fingerprint = FingerprintNode(h).fingerprint
        /\ right.fingerprint = FingerprintNode(i).fingerprint
    BY <1>1, <1>3, <1>4
  <2>2. CombineFingerprints(FingerprintNode(h).fingerprint, FingerprintNode(i).fingerprint)
           = FingerprintNode(g).fingerprint
    BY <1>5, HalvesCombine
  <2> QED
    BY ONLY <1>1, <2>1, <2>2
<1> QED
  BY ONLY <1>3, <1>4, <1>5, <1>6, <1>8, <1>9, <1>10 DEF SplitIsValid

(* So the nodes are a tree the store takes, one for each range.            *)
LEMMA NodesAreATree ==
    ASSUME input \in Inputs, NEW p, ProgressIsTrue(p), IsTree(p), NEW T, AreNodes(p, T)
    PROVE  /\ TreeIsValid(T)
           /\ IsFiniteSet(T)
           /\ Cardinality(T) = Cardinality(p.topology) + Cardinality(p.pending)
<1> DEFINE N == Cardinality(p.pending) + Cardinality(p.topology)
<1>0. /\ input \in Inputs /\ ProgressIsTrue(p) /\ IsTree(p) /\ AreNodes(p, T)
  OBVIOUS
<1>1. /\ NumbersOf(Segments(p)) = 0 .. N - 1
      /\ \A g \in Segments(p) : SoundSegment(g) /\ g.segment_sequence \in Nat
      /\ Cardinality(p.pending) \in Nat /\ Cardinality(p.topology) \in Nat
  BY FS_CardinalityType DEF ProgressIsTrue, TreeIsSound, SoundSegment, SegmentType
<1>2. /\ \A n \in T : n.segment \in Segments(p)
      /\ \A g \in Segments(p) : \E n \in T : n.segment = g
      /\ \A n, m \in T : n.segment = m.segment => n = m
      /\ \A n \in T : n.state # "split" => n.segment \notin Splits(p)
      /\ \A n \in T : n.state \in {"fingerprint_match", "exact_match"} => Matches(n)
  BY DEF AreNodes
<1>3. N \in Nat
  BY <1>1
<1>4. SequenceNumbers(T) = NumbersOf(Segments(p))
  BY <1>2 DEF SequenceNumbers, NumbersOf
<1>5. \A n, m \in T : n.segment.segment_sequence = m.segment.segment_sequence => n = m
  BY <1>2, NumbersDiffer
<1>6. Cardinality(T) = N /\ IsFiniteSet(T)
  <2> DEFINE S == 0 .. N - 1
             f == [j \in S |-> CHOOSE n \in T : n.segment.segment_sequence = j]
  <2>1. \A j \in S : \E n \in T : n.segment.segment_sequence = j
    BY <1>1, <1>4 DEF SequenceNumbers
  <2>2. \A j \in S : f[j] \in T /\ f[j].segment.segment_sequence = j
    BY <2>1
  <2>3. \A n \in T : n.segment.segment_sequence \in S
    BY <1>1, <1>4 DEF SequenceNumbers
  <2>4. f \in [S -> T]
    BY <2>2
  <2>5. IsFiniteSet(S) /\ Cardinality(S) = N
    <3>1. \A k \in Nat : IsFiniteSet(0 .. k - 1) /\ Cardinality(0 .. k - 1) = k
      BY FS_Interval
    <3> QED
      BY ONLY <1>3, <3>1
  <2> HIDE DEF f, S, N
  <2>6. \A x, y \in S : f[x] = f[y] => x = y
    BY <2>2
  <2>7. \A z \in T : \E x \in S : f[x] = z
    BY <1>5, <2>2, <2>3
  <2> QED
    BY <2>4, <2>5, <2>6, <2>7, SameSize
<1>7. ASSUME NEW n \in T
      PROVE  /\ IF n.segment.segment_sequence = 0
                THEN n.segment.parent = None /\ n.segment.depth = 0
                ELSE n.segment.parent \in SequenceNumbers(T)
             /\ IF n.state = "split" THEN SplitIsValid(n, Children(T, n))
                                     ELSE Children(T, n) = {}
  <2> DEFINE g == n.segment
  <2>1. g \in Segments(p) /\ SoundSegment(g) /\ g.segment_sequence \in Nat
    BY <1>1, <1>2
  <2>2. /\ g.parent = None <=> g.segment_sequence = 0
        /\ g.parent # None => \E h \in Splits(p) : h.segment_sequence = g.parent
    BY <2>1 DEF IsTree
  <2>3. \A h \in Splits(p) : h \in Segments(p)
    BY DEF Splits, Segments
  <2>4. g.segment_sequence = 0 => g.parent = None /\ g.depth = 0
    BY <2>1, <2>2 DEF SoundSegment
  <2>5. g.segment_sequence # 0 => g.parent \in SequenceNumbers(T)
    BY <1>4, <2>2, <2>3 DEF NumbersOf
  <2>6. n.state = "split" => SplitIsValid(n, Children(T, n))
    BY ONLY <1>0, <1>7, SplitsAreValid
  <2>7. ASSUME n.state # "split", NEW m \in T, m.segment.parent = g.segment_sequence
        PROVE  FALSE
    <3>1. m.segment \in Segments(p) /\ m.segment.parent # None
      BY <1>2, <2>1, <2>7, NoneAssumption
    <3>2. PICK h \in Splits(p) : h.segment_sequence = m.segment.parent
      BY <3>1 DEF IsTree
    <3>3. h = g
      BY <2>1, <2>3, <2>7, <3>2, NumbersDiffer
    <3> QED
      BY <1>2, <2>7, <3>2, <3>3
  <2>8. n.state # "split" => Children(T, n) = {}
    BY <2>7 DEF Children
  <2> QED
    BY ONLY <2>4, <2>5, <2>6, <2>8
<1>8. TreeIsValid(T)
  BY ONLY <1>1, <1>2, <1>4, <1>6, <1>7 DEF TreeIsValid
<1> QED
  BY <1>1, <1>6, <1>8

\* A progress whose artifact may be stored.
Publishable(p) ==
    /\ input \in Inputs /\ ProgressIsTrue(p) /\ IsTree(p) /\ BytesAreCounted(p)
    /\ NodesAreFingerprinted(p)
    /\ p.fingerprint_nodes <= budgets.max_fingerprint_nodes
    /\ LedgerFits(ledger)

\* What the artifact a of ranges repeats of the progress p.
Repeats(p, a) ==
    /\ a.segments = p.topology /\ a.unresolved = p.pending
    /\ a.witnesses = p.mismatch_witnesses
    /\ a.anomalies = p.anomalies /\ a.retained_bytes = p.retained_bytes
    /\ a.fingerprint_nodes = p.fingerprint_nodes
    /\ a.pruned_segments = Cardinality(Terminal(p, {"fingerprint_match"}))
    /\ a.exact_segments = Cardinality(Terminal(p, ExactStates))

(* The pending ranges have a node each.                                    *)
LEMMA UnresolvedAreNodes ==
    ASSUME NEW p, ProgressIsTrue(p), NEW a, Repeats(p, a)
    PROVE  /\ \A n \in UnresolvedNodes(a) :
                 /\ n.segment \in p.pending /\ n.state = "unresolved"
                 /\ n.fingerprint # None =>
                       n.fingerprint = FingerprintNode(n.segment).fingerprint
           /\ \A g \in p.pending : \E n \in UnresolvedNodes(a) : n.segment = g
           /\ \A n, m \in UnresolvedNodes(a) : n.segment = m.segment => n = m
<1> DEFINE print(g) == IF g \in {w.segment : w \in a.witnesses}
                       THEN (CHOOSE w \in a.witnesses : w.segment = g).fingerprint
                       ELSE None
           node(g) == [segment |-> g, state |-> "unresolved", fingerprint |-> print(g)]
<1>1. UnresolvedNodes(a) = {node(g) : g \in p.pending}
  BY DEF UnresolvedNodes, Repeats
<1>2. ASSUME NEW g
      PROVE  /\ node(g).segment = g /\ node(g).state = "unresolved"
             /\ node(g).fingerprint = print(g)
  OBVIOUS
<1>3. ASSUME NEW g, print(g) # None
      PROVE  print(g) = FingerprintNode(g).fingerprint
  <2>1. \E w \in a.witnesses : w.segment = g
    BY <1>3
  <2>2. PICK w \in a.witnesses : w.segment = g /\ print(g) = w.fingerprint
    BY <2>1
  <2>3. w = FingerprintNode(g)
    BY <2>2 DEF Repeats, ProgressIsTrue, RecordsAreTrue
  <2> QED
    BY <2>2, <2>3
<1> HIDE DEF print, node
<1> QED
  BY ONLY <1>1, <1>2, <1>3

(* The frontier of an artifact has one node for each range.                *)
LEMMA FrontierIsNodes ==
    ASSUME input \in Inputs, NEW p, ProgressIsTrue(p), NEW a, Repeats(p, a)
    PROVE  AreNodes(p, FrontierNodes(a))
<1> DEFINE T == FrontierNodes(a)
<1>1. T = p.topology \cup UnresolvedNodes(a)
  BY DEF FrontierNodes, Repeats
<1>2. /\ \A n \in UnresolvedNodes(a) :
            /\ n.segment \in p.pending /\ n.state = "unresolved"
            /\ n.fingerprint # None => n.fingerprint = FingerprintNode(n.segment).fingerprint
      /\ \A g \in p.pending : \E n \in UnresolvedNodes(a) : n.segment = g
      /\ \A n, m \in UnresolvedNodes(a) : n.segment = m.segment => n = m
  BY UnresolvedAreNodes
<1>3. TreeIsSound(p) /\ RecordsAreTrue(p) /\ p \in ProgressType
  BY DEF ProgressIsTrue
<1>4. \A t \in p.topology : t.fingerprint = FingerprintNode(t.segment).fingerprint
  <2>1. \A t \in p.topology : t = SegmentRecord(FingerprintNode(t.segment), t.state)
    BY <1>3 DEF RecordsAreTrue
  <2> QED
    BY <2>1 DEF SegmentRecord
<1>5. /\ \A t, u \in p.topology : t.segment = u.segment => t = u
      /\ \A t \in p.topology, g \in p.pending : t.segment # g
      /\ \A t \in p.topology : t.state \in {"fingerprint_match", "exact_match"} => Matches(t)
  BY <1>3 DEF TreeIsSound, RecordsAreTrue
<1>6. \A t \in p.topology : t.segment \in Splits(p) <=> t.state = "split"
  BY <1>5 DEF Splits
<1>7. \A g \in p.pending : g \notin Splits(p)
  BY <1>5 DEF Splits
<1>8. \A g : g \in Segments(p) <=> g \in p.pending \/ \E t \in p.topology : t.segment = g
  BY DEF Segments
<1> HIDE DEF T
<1>9. \A n \in T : n \in p.topology \/ n \in UnresolvedNodes(a)
  BY <1>1
<1>10. ASSUME NEW n \in T
       PROVE  /\ n.segment \in Segments(p)
              /\ n.fingerprint # None => n.fingerprint = FingerprintNode(n.segment).fingerprint
              /\ n.state = "split" =>
                    n.segment \in Splits(p)
                    /\ n.fingerprint = FingerprintNode(n.segment).fingerprint
              /\ n.state # "split" => n.segment \notin Splits(p)
              /\ n.state \in {"fingerprint_match", "exact_match"} => Matches(n)
  <2>1. CASE n \in p.topology
    BY ONLY <1>4, <1>5, <1>6, <1>8, <2>1
  <2>2. CASE n \in UnresolvedNodes(a)
    BY ONLY <1>2, <1>7, <1>8, <2>2
  <2> QED
    BY <1>9, <2>1, <2>2
<1>11. \A g \in Segments(p) : \E n \in T : n.segment = g
  BY ONLY <1>1, <1>2, <1>8
<1>12. \A n, m \in T : n.segment = m.segment => n = m
  BY ONLY <1>2, <1>5, <1>9
<1> QED
  BY ONLY <1>10, <1>11, <1>12 DEF AreNodes, T

(* The witnesses are among the pending ranges.                             *)
LEMMA WitnessesAreFew ==
    ASSUME NEW p, ProgressIsTrue(p)
    PROVE  /\ Cardinality(p.mismatch_witnesses) \in Nat
           /\ Cardinality(p.mismatch_witnesses) <= Cardinality(p.pending)
<1> DEFINE W == p.mismatch_witnesses
           S == {w.segment : w \in W}
           f == [g \in S |-> FingerprintNode(g)]
<1>1. /\ IsFiniteSet(p.pending)
      /\ \A w \in W : w = FingerprintNode(w.segment) /\ w.segment \in p.pending
  BY DEF ProgressIsTrue, TreeIsSound, RecordsAreTrue
<1>2. S \subseteq p.pending
  BY <1>1
<1>3. IsFiniteSet(S) /\ Cardinality(S) <= Cardinality(p.pending)
  BY <1>1, <1>2, FS_Subset
<1>4. \A g \in S : f[g] = FingerprintNode(g) /\ f[g] \in W
  BY <1>1
<1>5. \A g : FingerprintNode(g).segment = g
  BY DEF FingerprintNode
<1>6. \A z \in W : \E x \in S : f[x] = z
  BY <1>1, <1>4
<1>7. f \in [S -> W]
  BY <1>4
<1> HIDE DEF f, S, W
<1>8. \A x, y \in S : f[x] = f[y] => x = y
  BY <1>4, <1>5
<1>9. Cardinality(W) = Cardinality(S) /\ Cardinality(S) \in Nat
  BY <1>3, <1>6, <1>7, <1>8, SameSize
<1> QED
  BY <1>3, <1>9 DEF W

(* The fingerprinted ranges include the resolved ones and the witnesses.   *)
LEMMA NodesCount ==
    ASSUME NEW p, Publishable(p), NEW a, Repeats(p, a)
    PROVE  NodesAreCounted(a)
<1>1. /\ a.segments = p.topology /\ a.witnesses = p.mismatch_witnesses
      /\ a.fingerprint_nodes = p.fingerprint_nodes
  BY DEF Repeats
<1>2. /\ input \in Inputs /\ ProgressIsTrue(p) /\ IsTree(p) /\ NodesAreFingerprinted(p)
  BY DEF Publishable
<1>3. Cardinality(FrontierNodes(a)) = Cardinality(p.topology) + Cardinality(p.pending)
  BY <1>2, FrontierIsNodes, NodesAreATree
<1>4. /\ Cardinality(p.mismatch_witnesses) \in Nat
      /\ Cardinality(p.mismatch_witnesses) <= Cardinality(p.pending)
      /\ Cardinality(p.topology) \in Nat /\ Cardinality(p.pending) \in Nat
  BY <1>2, WitnessesAreFew, FS_CardinalityType DEF ProgressIsTrue, TreeIsSound
<1>5. p.mismatch_witnesses = {} => Cardinality(p.mismatch_witnesses) = 0
  BY FS_EmptySet
<1> QED
  BY <1>1, <1>2, <1>3, <1>4, <1>5 DEF NodesAreCounted, NodesAreFingerprinted

(* The frontier of an artifact is a tree the store takes.                  *)
LEMMA FrontierIsATree ==
    ASSUME NEW p, Publishable(p), NEW a, Repeats(p, a)
    PROVE  PartialFrontierTree(a)
<1>1. /\ input \in Inputs /\ ProgressIsTrue(p) /\ IsTree(p)
  BY DEF Publishable
<1>2. TreeIsValid(FrontierNodes(a))
  BY <1>1, FrontierIsNodes, NodesAreATree
<1>3. a.segments = p.topology /\ a.unresolved = p.pending
  BY DEF Repeats
<1>4. \A node \in p.topology : node.state \in {"split", "exact_mismatch"} => Mismatches(node)
  BY <1>1 DEF ProgressIsTrue, RecordsAreTrue, Mismatches
<1>5. \A g \in p.pending : g.parent # None => g.parent \in SequenceNumbers(p.topology)
  <2>1. \A g \in p.pending : g \in Segments(p)
    BY DEF Segments
  <2>2. \A h \in Splits(p) : \E t \in p.topology : t.segment = h
    BY DEF Splits
  <2> QED
    BY <1>1, <2>1, <2>2 DEF IsTree, SequenceNumbers
<1> QED
  BY ONLY <1>2, <1>3, <1>4, <1>5 DEF PartialFrontierTree

(* A comparison stays within the attempt's budgets.                        *)
LEMMA BudgetsCover ==
    ASSUME NEW p, Publishable(p), NEW a,
           a.segments \subseteq p.topology, a.unresolved \subseteq p.pending,
           a.fingerprint_nodes = p.fingerprint_nodes,
           Len(a.anomalies) <= budgets.max_evidence_rows,
           a.retained_bytes <= budgets.max_evidence_bytes
    PROVE  CompletedWithinBudgets(a)
<1>1. /\ input \in Inputs /\ ProgressIsTrue(p) /\ LedgerFits(ledger)
      /\ p.fingerprint_nodes <= budgets.max_fingerprint_nodes
  BY DEF Publishable
<1>2. /\ ledger.queries <= budgets.max_queries
      /\ ledger.fetched_records <= budgets.max_fetched_records
      /\ budgets.max_full_scans_per_side \in Nat
      /\ \A s \in Sides : /\ ledger.full_scans[s] \in Nat
                          /\ ledger.full_scans[s] <= budgets.max_full_scans_per_side
  BY <1>1, LedgerNumbers
<1>3. \A s \in Sides : input.charged.full_scans[s] \in Nat
  BY <1>1, Arguments
<1>4. \A s \in Sides : FullScans(s) <= budgets.max_full_scans_per_side
  BY <1>2, <1>3 DEF FullScans
<1>5. \A g \in Segments(p) : g.depth <= budgets.max_depth
  BY <1>1 DEF ProgressIsTrue, ProgressFits
<1>6. \A g \in {t.segment : t \in a.segments} \cup a.unresolved : g.depth <= budgets.max_depth
  BY <1>5 DEF Segments
<1> QED
  BY <1>1, <1>2, <1>4, <1>6 DEF CompletedWithinBudgets, WithinAttemptBudgets

(* The evidence is numbered, counted in bytes and of known ranges.         *)
LEMMA EvidenceIsCovered ==
    ASSUME NEW p, Publishable(p), NEW a, Repeats(p, a)
    PROVE  /\ AnomaliesAreCovered(a)
           /\ CompletedWithinBudgets(a)
<1>1. /\ a.segments = p.topology /\ a.anomalies = p.anomalies
      /\ a.retained_bytes = p.retained_bytes /\ a.unresolved = p.pending
      /\ a.fingerprint_nodes = p.fingerprint_nodes
  BY DEF Repeats
<1>2. ProgressIsTrue(p) /\ BytesAreCounted(p)
  BY DEF Publishable
<1>3. /\ EvidenceIsTrue(p) /\ ProgressFits(p) /\ DOMAIN p.anomalies = 1 .. Len(p.anomalies)
  BY <1>2 DEF ProgressIsTrue, ProgressType
<1>4. AnomaliesAreCovered(a)
  BY <1>1, <1>2, <1>3 DEF AnomaliesAreCovered, EvidenceIsTrue, BytesAreCounted
<1> QED
  BY <1>1, <1>3, <1>4, BudgetsCover DEF ProgressFits

-----------------------------------------------------------------------------
(* What is published, and what the store asks of it *)

(* The reason code of an interruption is none of a result.                 *)
LEMMA ReasonsInterrupt ==
    \A cause \in DOMAIN InterruptionReasonCode :
        InterruptionReasonCode[cause]
            \notin {"exact", "inferred_under_fingerprint", "lower_bound"}
BY DEF InterruptionReasonCode

(* What accompanies the reason of an artifact.                             *)
LEMMA ReasonsOf ==
    ASSUME NEW a
    PROVE  /\ "contract_violation" \in AdditionalReasons(a) <=> HasContractProof(a)
           /\ "data_mismatch" \in AdditionalReasons(a)
                 <=> a.verdict = "mismatch" /\ ~ HasContractProof(a)
<1>1. CASE HasContractProof(a)
  <2>1. AdditionalReasons(a) = {"contract_violation"}
    BY <1>1, Zenon DEF AdditionalReasons
  <2> QED
    BY <1>1, <2>1
<1>2. CASE ~ HasContractProof(a) /\ a.verdict = "mismatch"
  <2>1. AdditionalReasons(a) = {"data_mismatch"}
    BY <1>2, Zenon DEF AdditionalReasons
  <2> QED
    BY <1>2, <2>1
<1>3. CASE ~ HasContractProof(a) /\ a.verdict # "mismatch"
  <2>1. AdditionalReasons(a) = {}
    BY <1>3, Zenon DEF AdditionalReasons
  <2> QED
    BY <1>3, <2>1
<1> QED
  BY <1>1, <1>2, <1>3

(* What is published of an artifact.                                       *)
LEMMA WhatIsPublished ==
    ASSUME NEW a
    PROVE  /\ UnknownRows(a) =>
                 /\ Published(a).verdict = "inconclusive"
                 /\ Published(a).totals.precision = InterruptionReasonCode[a.cause]
                 /\ "data_mismatch" \notin Published(a).reasons
           /\ ~ UnknownRows(a) =>
                 /\ Published(a).verdict = a.verdict
                 /\ Published(a).totals = a.totals
                 /\ "data_mismatch" \in Published(a).reasons
                       <=> a.verdict = "mismatch" /\ ~ HasContractProof(a)
           /\ "contract_violation" \in Published(a).reasons <=> HasContractProof(a)
<1>1. CASE UnknownRows(a)
  <2> DEFINE reasons == AdditionalReasons(a) \ {"data_mismatch"}
  <2>1. /\ "data_mismatch" \notin reasons
        /\ "contract_violation" \in reasons <=> HasContractProof(a)
    BY ReasonsOf
  <2> HIDE DEF reasons
  <2>2. Published(a) = [verdict |-> "inconclusive",
                        totals |-> [precision |-> InterruptionReasonCode[a.cause],
                                    counts |-> NoCounts],
                        reasons |-> reasons]
    BY <1>1 DEF Published, reasons
  <2> QED
    BY ONLY <1>1, <2>1, <2>2
<1>2. CASE ~ UnknownRows(a)
  <2>1. Published(a) = [verdict |-> a.verdict, totals |-> a.totals,
                        reasons |-> AdditionalReasons(a)]
    BY <1>2 DEF Published
  <2> QED
    BY <1>2, <2>1, ReasonsOf
<1> QED
  BY <1>1, <1>2

(* The summaries of keys that break their contract show it.                *)
LEMMA SummariesShow ==
    ASSUME input \in Inputs, ~ ContractHolds
    PROVE  /\ SummaryShowsViolation
           /\ ~ InvalidKeys => StructuralSummary
<1>1. \A s \in Sides :
         /\ relation[s].null_keys \in Nat /\ relation[s].invalid_keys \in Nat
         /\ relation[s].duplicate_keys \in Nat
         /\ Cardinality(DOMAIN relation[s].rows) \in Nat
  BY Arguments, FS_CardinalityType
<1>2. \A s \in Sides :
         /\ Summary(s).null_key_count = relation[s].null_keys
         /\ Summary(s).invalid_key_count = relation[s].invalid_keys
         /\ Summary(s).valid_key_count
               = Cardinality(DOMAIN relation[s].rows) + relation[s].duplicate_keys
         /\ Summary(s).distinct_key_count = Cardinality(DOMAIN relation[s].rows)
         /\ Summary(s).row_count
               = Summary(s).valid_key_count + Summary(s).null_key_count
                    + Summary(s).invalid_key_count
  BY DEF Summary
<1>3. \E s \in Sides : \/ Summary(s).null_key_count > 0
                       \/ Summary(s).valid_key_count # Summary(s).distinct_key_count
  BY <1>1, <1>2 DEF ContractHolds
<1>4. SummaryShowsViolation
  BY ONLY <1>1, <1>2, <1>3 DEF SummaryShowsViolation
<1>5. ~ InvalidKeys => \A s \in Sides : Summary(s).invalid_key_count = 0
  BY <1>1, <1>2 DEF InvalidKeys
<1> QED
  BY <1>4, <1>5 DEF StructuralSummary

(* Differences are counted in exact leaves, which differ.                  *)
LEMMA DifferencesHaveLeaves ==
    ASSUME input \in Inputs, NEW p, ProgressIsTrue(p)
    PROVE  /\ DifferenceCount(p.exact_counts) \in Nat
           /\ Cardinality(Terminal(p, ExactStates)) \in Nat
           /\ IsFiniteSet(Terminal(p, ExactStates))
           /\ DifferenceCount(p.exact_counts) > 0 => Cardinality(Terminal(p, ExactStates)) > 0
<1>1. p.exact_counts \in Counts /\ CountsAreTrue(p) /\ IsFiniteSet(p.topology)
  BY DEF ProgressIsTrue, ProgressType, TreeIsSound
<1>2. IsFiniteSet(Terminal(p, ExactStates))
  BY <1>1, FS_Subset DEF Terminal
<1>3. Cardinality(Terminal(p, ExactStates)) \in Nat
  BY <1>2, FS_CardinalityType
<1>4. \A kind \in Kinds : p.exact_counts[kind] \in Nat
  BY <1>1 DEF Counts
<1>5. DifferenceCount(p.exact_counts) \in Nat
  BY <1>4 DEF DifferenceCount, Kinds
<1>6. ASSUME ~ (Cardinality(Terminal(p, ExactStates)) > 0)
      PROVE  DifferenceCount(p.exact_counts) = 0
  <2>1. \A kind \in Kinds \cup {"matched"} : NoCounts[kind] = Cardinality(ExactKeys(p, kind))
    BY <1>6, LeavesAreCounted
  <2>2. \A kind \in Kinds : p.exact_counts[kind] = 0
    BY <1>1, <2>1 DEF CountsAreTrue, NoCounts
  <2> QED
    BY <2>2 DEF DifferenceCount, Kinds
<1> QED
  BY <1>2, <1>3, <1>5, <1>6

(* An artifact of ranges is not structural.                                *)
LEMMA RangesAreLeft ==
    ASSUME NEW p, Publishable(p), NEW a, Repeats(p, a)
    PROVE  ~ IsStructural(a)
<1>1. 0 \in NumbersOf(Segments(p))
  BY DEF Publishable, IsTree
<1> QED
  BY <1>1 DEF IsStructural, Repeats, NumbersOf, Segments

\* What the store asks of the ranges of a partial artifact.
RangesClose(a) ==
    /\ ~ IsStructural(a)
    /\ PartialFrontierTree(a)
    /\ NodesAreCounted(a)
    /\ a.pruned_segments = LeavesOf(a, {"fingerprint_match"})
    /\ a.exact_segments = LeavesOf(a, ExactStates)

(* A progress closes them.                                                 *)
LEMMA ProgressCloses ==
    ASSUME NEW p, Publishable(p), NEW a, Repeats(p, a)
    PROVE  RangesClose(a)
<1>1. \A states : LeavesOf(a, states) = Cardinality(Terminal(p, states))
  BY DEF LeavesOf, Terminal, Repeats
<1>2. /\ a.pruned_segments = LeavesOf(a, {"fingerprint_match"})
      /\ a.exact_segments = LeavesOf(a, ExactStates)
  BY <1>1 DEF Repeats
<1> QED
  BY <1>2, RangesAreLeft, FrontierIsATree, NodesCount DEF RangesClose

(* What an interrupted comparison's artifact says.                         *)
LEMMA InterruptedSays ==
    ASSUME NEW p, ProgressIsTrue(p), NEW cause, NEW a, a = PartialComparisonArtifact(p, cause)
    PROVE  /\ Repeats(p, a)
           /\ a.kind = "partial" /\ a.cause = cause
           /\ a.covered_partitions =
                 IF a.unresolved = {} /\ a.pruned_segments + a.exact_segments > 0 THEN 1 ELSE 0
           /\ a.totals = PartialTotals(p.exact_counts, a.exact_segments,
                                       InterruptionReasonCode[cause])
           /\ a.verdict = IF Shows(p) \/ (cause = "ComparisonKeyMappingError" /\ ~ ContractHolds)
                          THEN "mismatch" ELSE "inconclusive"
<1>1. /\ UnresolvedPending(p) = p.pending
      /\ PartialVerdict(p, FALSE) = IF Shows(p) THEN "mismatch" ELSE "inconclusive"
      /\ PartialVerdict(p, TRUE) = "mismatch"
  BY ShownIsShown
<1>2. p.mismatch_witnesses = {w \in p.mismatch_witnesses : w.segment \in p.pending}
  BY DEF ProgressIsTrue, RecordsAreTrue
<1> DEFINE pruned == Cardinality(Terminal(p, {"fingerprint_match"}))
           exact == Cardinality(Terminal(p, ExactStates))
           breaks == cause = "ComparisonKeyMappingError" /\ ~ ContractHolds
           totals == PartialTotals(p.exact_counts, exact, InterruptionReasonCode[cause])
           verdict == PartialVerdict(p, breaks)
<1> HIDE DEF pruned, exact, totals, verdict
<1>3. a = [kind |-> "partial", cause |-> cause, verdict |-> verdict,
           guarantee |-> "not_established",
           covered_partitions |-> IF p.pending = {} /\ pruned + exact > 0 THEN 1 ELSE 0,
           pruned_segments |-> pruned, exact_segments |-> exact,
           unresolved |-> p.pending, witnesses |-> p.mismatch_witnesses,
           totals |-> totals, found_records |-> p.found_records,
           fingerprint_nodes |-> p.fingerprint_nodes, segments |-> p.topology,
           anomalies |-> p.anomalies, retained_bytes |-> p.retained_bytes]
  BY <1>1, <1>2 DEF PartialComparisonArtifact, pruned, exact, totals, verdict
<1>4. /\ a.kind = "partial" /\ a.cause = cause /\ a.verdict = verdict
      /\ a.covered_partitions = (IF p.pending = {} /\ pruned + exact > 0 THEN 1 ELSE 0)
      /\ a.pruned_segments = pruned /\ a.exact_segments = exact
      /\ a.unresolved = p.pending /\ a.witnesses = p.mismatch_witnesses /\ a.totals = totals
      /\ a.fingerprint_nodes = p.fingerprint_nodes /\ a.segments = p.topology
      /\ a.anomalies = p.anomalies /\ a.retained_bytes = p.retained_bytes
  BY ONLY <1>3
<1>5. verdict = IF Shows(p) \/ breaks THEN "mismatch" ELSE "inconclusive"
  <2>1. CASE breaks
    <3>1. verdict = PartialVerdict(p, TRUE)
      BY <2>1 DEF verdict
    <3> QED
      BY <1>1, <2>1, <3>1
  <2>2. CASE ~ breaks
    <3>1. verdict = PartialVerdict(p, FALSE)
      BY <2>2 DEF verdict
    <3> QED
      BY <1>1, <2>2, <3>1
  <2> QED
    BY <2>1, <2>2
<1>6. Repeats(p, a)
  BY ONLY <1>4 DEF Repeats, pruned, exact
<1> QED
  BY ONLY <1>4, <1>5, <1>6 DEF totals

\* What the store asks of what is published of ranges.
PublishedCloses(a, published) ==
    /\ published.totals.precision \notin {"exact", "inferred_under_fingerprint"}
    /\ published.totals.precision = "lower_bound" => a.exact_segments > 0
    /\ "contract_violation" \in published.reasons =>
          StableReads(a) = "verified" /\ SummaryShowsViolation
    /\ UnknownRows(a) =>
          /\ published.verdict = "inconclusive"
          /\ "data_mismatch" \notin published.reasons
          /\ published.totals.precision = InterruptionReasonCode[a.cause]
    /\ ~ UnknownRows(a) =>
          /\ "data_mismatch" \in published.reasons <=> HasProvenMismatch(a)
          /\ published.verdict = "mismatch" <=>
                HasProvenMismatch(a) \/ "contract_violation" \in published.reasons

(* Together they are all that the store asks.                              *)
LEMMA RangesAndRows ==
    ASSUME NEW a, RangesClose(a), PublishedCloses(a, Published(a)),
           a.covered_partitions =
              IF a.unresolved = {} /\ a.pruned_segments + a.exact_segments > 0 THEN 1 ELSE 0
    PROVE  PartialCloses(a)
<1> DEFINE published == Published(a)
           pruned == LeavesOf(a, {"fingerprint_match"})
           exact == LeavesOf(a, ExactStates)
<1>1. /\ ~ IsStructural(a) /\ PartialFrontierTree(a) /\ NodesAreCounted(a)
      /\ a.pruned_segments = pruned /\ a.exact_segments = exact
  BY DEF RangesClose
<1>2. a.covered_partitions = IF a.unresolved = {} /\ pruned + exact > 0 THEN 1 ELSE 0
  BY <1>1
<1>3. PublishedCloses(a, published)
  OBVIOUS
<1> HIDE DEF published, pruned, exact
<1>4. /\ published.totals.precision \notin {"exact", "inferred_under_fingerprint"}
      /\ published.totals.precision = "lower_bound" => exact > 0
      /\ "contract_violation" \in published.reasons =>
            StableReads(a) = "verified" /\ SummaryShowsViolation
      /\ UnknownRows(a) =>
            /\ published.verdict = "inconclusive"
            /\ "data_mismatch" \notin published.reasons
            /\ published.totals.precision = InterruptionReasonCode[a.cause]
      /\ ~ UnknownRows(a) =>
            /\ "data_mismatch" \in published.reasons <=> HasProvenMismatch(a)
            /\ published.verdict = "mismatch" <=>
                  HasProvenMismatch(a) \/ "contract_violation" \in published.reasons
  BY ONLY <1>1, <1>3 DEF PublishedCloses
<1> QED
  BY ONLY <1>1, <1>2, <1>4 DEF PartialCloses, published, pruned, exact

(* A partial artifact shows a mismatch exactly if its progress does.       *)
LEMMA ProvenIsShown ==
    ASSUME input \in Inputs, NEW p, ProgressIsTrue(p), NEW a, Repeats(p, a),
           NEW reason, reason # "lower_bound",
           Published(a).totals = PartialTotals(p.exact_counts, a.exact_segments, reason)
    PROVE  HasProvenMismatch(a) <=> Shows(p)
<1>1. /\ a.segments = p.topology /\ a.witnesses = p.mismatch_witnesses
      /\ a.exact_segments = Cardinality(Terminal(p, ExactStates))
  BY DEF Repeats
<1>2. /\ DifferenceCount(p.exact_counts) > 0 => a.exact_segments > 0
      /\ DifferenceCount(p.exact_counts) \in Nat
  BY <1>1, DifferencesHaveLeaves
<1>3. CASE a.exact_segments > 0
  <2>1. /\ Published(a).totals.precision = "lower_bound"
        /\ Published(a).totals.counts = p.exact_counts
    BY <1>3 DEF PartialTotals
  <2> QED
    BY <1>1, <2>1 DEF HasProvenMismatch, Shows
<1>4. CASE ~ (a.exact_segments > 0)
  <2>1. Published(a).totals.precision = reason
    BY <1>4 DEF PartialTotals
  <2> QED
    BY <1>1, <1>2, <1>4, <2>1 DEF HasProvenMismatch, Shows
<1> QED
  BY <1>3, <1>4

(* What is published of an interrupted comparison.                         *)
LEMMA InterruptedPublishes ==
    ASSUME Publishable(progress), NEW cause \in DOMAIN InterruptionReasonCode,
           NEW a, a = PartialComparisonArtifact(progress, cause),
           cause = "ComparisonKeyMappingError" =>
              /\ progress.summaries_verified
              /\ progress.topology = {} /\ progress.mismatch_witnesses = {}
    PROVE  PublishedCloses(a, Published(a))
<1> DEFINE p == progress
           reason == InterruptionReasonCode[cause]
           breaks == cause = "ComparisonKeyMappingError" /\ ~ ContractHolds
           published == Published(a)
<1>1. input \in Inputs /\ ProgressIsTrue(p)
  BY DEF Publishable
<1>2. reason \notin {"exact", "inferred_under_fingerprint", "lower_bound"}
  BY ReasonsInterrupt
<1>3. /\ Repeats(p, a) /\ a.cause = cause
      /\ a.totals = PartialTotals(p.exact_counts, a.exact_segments, reason)
      /\ a.verdict = IF Shows(p) \/ breaks THEN "mismatch" ELSE "inconclusive"
  BY <1>1, InterruptedSays
<1>4. /\ HasContractProof(a) <=> breaks
      /\ StableReads(a) \in {"unknown", "verified"}
      /\ UnknownRows(a) <=> StableReads(a) = "unknown"
  BY <1>3, RangesAreLeft DEF HasContractProof, StableReads, UnknownRows
<1>5. breaks => /\ StableReads(a) = "verified" /\ SummaryShowsViolation
                /\ p.topology = {} /\ p.mismatch_witnesses = {}
  BY <1>1, <1>3, SummariesShow DEF StableReads
<1>6. breaks => ~ Shows(p)
  <2> SUFFICES ASSUME breaks
               PROVE  ~ Shows(p)
    OBVIOUS
  <2>1. Terminal(p, ExactStates) = {}
    BY <1>5 DEF Terminal
  <2>2. ~ (DifferenceCount(p.exact_counts) > 0)
    BY <1>1, <2>1, DifferencesHaveLeaves, FS_EmptySet
  <2> QED
    BY <1>5, <2>2 DEF Shows
<1>7. /\ UnknownRows(a) =>
            /\ published.verdict = "inconclusive"
            /\ published.totals.precision = reason
            /\ "data_mismatch" \notin published.reasons
      /\ ~ UnknownRows(a) =>
            /\ published.verdict = a.verdict
            /\ published.totals = a.totals
            /\ "data_mismatch" \in published.reasons
                  <=> a.verdict = "mismatch" /\ ~ HasContractProof(a)
      /\ "contract_violation" \in published.reasons <=> HasContractProof(a)
  BY <1>3, WhatIsPublished
<1>8. a.exact_segments > 0 => a.totals.precision = "lower_bound"
  BY <1>3 DEF PartialTotals
<1>9. ~ (a.exact_segments > 0) => a.totals.precision = reason
  BY <1>3 DEF PartialTotals
<1>10. ~ UnknownRows(a) => (HasProvenMismatch(a) <=> Shows(p))
  BY <1>1, <1>2, <1>3, <1>7, ProvenIsShown
<1> HIDE DEF p, reason, breaks, published
<1>11. /\ published.totals.precision \notin {"exact", "inferred_under_fingerprint"}
       /\ published.totals.precision = "lower_bound" => a.exact_segments > 0
  BY ONLY <1>2, <1>7, <1>8, <1>9
<1>12. "contract_violation" \in published.reasons =>
          StableReads(a) = "verified" /\ SummaryShowsViolation
  BY ONLY <1>4, <1>5, <1>7
<1>13. ~ UnknownRows(a) =>
          /\ "data_mismatch" \in published.reasons <=> HasProvenMismatch(a)
          /\ published.verdict = "mismatch" <=>
                HasProvenMismatch(a) \/ "contract_violation" \in published.reasons
  BY ONLY <1>3, <1>4, <1>6, <1>7, <1>10
<1>14. UnknownRows(a) =>
          /\ published.verdict = "inconclusive"
          /\ "data_mismatch" \notin published.reasons
          /\ published.totals.precision = InterruptionReasonCode[a.cause]
  BY ONLY <1>3, <1>7 DEF reason
<1> QED
  BY ONLY <1>11, <1>12, <1>13, <1>14 DEF PublishedCloses, published

(* The artifact of an interrupted comparison is stored.                    *)
LEMMA InterruptedIsStored ==
    ASSUME Publishable(progress), NEW a, StorableInterruption(progress, a)
    PROVE  StoreAccepts(a)
<1>1. PICK cause \in DOMAIN InterruptionReasonCode :
         /\ a = PartialComparisonArtifact(progress, cause)
         /\ cause = "ComparisonKeyMappingError" =>
               /\ progress.summaries_verified
               /\ progress.topology = {} /\ progress.mismatch_witnesses = {}
  BY DEF StorableInterruption
<1>2. /\ Repeats(progress, a) /\ a.kind = "partial"
      /\ a.covered_partitions =
            IF a.unresolved = {} /\ a.pruned_segments + a.exact_segments > 0 THEN 1 ELSE 0
  BY <1>1, InterruptedSays DEF Publishable
<1>3. PublishedCloses(a, Published(a))
  BY <1>1, InterruptedPublishes
<1>4. RangesClose(a)
  BY <1>2, ProgressCloses
<1>5. PartialCloses(a)
  BY ONLY <1>2, <1>3, <1>4, RangesAndRows
<1>6. AnomaliesAreCovered(a) /\ WithinAttemptBudgets(a)
  BY <1>2, EvidenceIsCovered DEF CompletedWithinBudgets
<1> QED
  BY <1>2, <1>5, <1>6 DEF StoreAccepts, StoreAcceptsPartial

(* A tree without pending ranges has a terminal one.                       *)
LEMMA SomeRangeIsTerminal ==
    ASSUME NEW p, ProgressIsTrue(p), IsTree(p), p.pending = {}
    PROVE  Cardinality(Terminal(p, {"fingerprint_match"})) + Cardinality(Terminal(p, ExactStates))
              > 0
<1> DEFINE N == Cardinality(p.topology)
           A == Terminal(p, {"fingerprint_match"})
           B == Terminal(p, ExactStates)
<1>1. /\ TreeIsSound(p) /\ p.topology \subseteq RecordType
      /\ IsFiniteSet(p.topology) /\ Cardinality(p.topology) \in Nat
  BY FS_CardinalityType DEF ProgressIsTrue, TreeIsSound, ProgressType
<1>2. NumbersOf(Segments(p)) = 0 .. N - 1
  <2>1. Cardinality(p.pending) = 0
    BY FS_EmptySet
  <2> QED
    BY <1>1, <2>1 DEF TreeIsSound
<1>3. N > 0
  BY <1>1, <1>2 DEF IsTree
<1>4. PICK g \in Segments(p) : g.segment_sequence = N - 1
  BY <1>1, <1>2, <1>3 DEF NumbersOf
<1>5. g \notin Splits(p)
  <2> SUFFICES ASSUME g \in Splits(p)
               PROVE  FALSE
    OBVIOUS
  <2>1. PICK h \in Segments(p) : h \in ChildrenOf(p, g)
    BY DEF IsTree
  <2>2. h.parent = N - 1
    BY <1>4, <2>1 DEF ChildrenOf
  <2>3. SoundSegment(h) /\ h.segment_sequence \in 0 .. N - 1
    BY <1>1, <1>2, <2>1 DEF TreeIsSound, NumbersOf
  <2>4. h.parent # None
    BY <1>1, <2>2, NoneAssumption
  <2> QED
    BY <1>1, <2>2, <2>3, <2>4 DEF SoundSegment
<1>6. PICK t \in p.topology : t.segment = g
  BY DEF Segments
<1>7. t \in A \/ t \in B
  <2>1. t.state # "split"
    BY <1>5, <1>6 DEF Splits
  <2>2. t.state \in TerminalStates
    BY <1>1, <2>1 DEF RecordType
  <2> QED
    BY <2>2 DEF TerminalStates, ExactStates, Terminal
<1>8. IsFiniteSet(A) /\ IsFiniteSet(B)
  BY <1>1, FS_Subset DEF Terminal
<1> HIDE DEF A, B
<1>9. Cardinality(A) \in Nat /\ Cardinality(B) \in Nat
  BY <1>8, FS_CardinalityType
<1>10. Cardinality(A) # 0 \/ Cardinality(B) # 0
  BY <1>7, <1>8, FS_EmptySet
<1> QED
  BY <1>9, <1>10 DEF A, B

(* What a completed comparison's artifact says.                            *)
LEMMA CompletedSays ==
    ASSUME NEW p, ProgressIsTrue(p), NEW b, IsCompleted(p, b)
    PROVE  /\ Repeats(p, b)
           /\ b.kind = "completed" /\ b.cause = None /\ b.covered_partitions = 1
           /\ b.verdict = IF DifferenceCount(p.exact_counts) = 0 THEN "match" ELSE "mismatch"
           /\ b.totals.counts = CompletedTotals(p)
<1>1. b = CompletedComparisonArtifact(p) /\ p.pending = {}
  BY DEF IsCompleted, IsComplete
<1>2. /\ p.pruned_segments = Cardinality(Terminal(p, {"fingerprint_match"}))
      /\ p.exact_segments = Cardinality(Terminal(p, ExactStates))
      /\ p.mismatch_witnesses = {}
  BY <1>1 DEF ProgressIsTrue, CountsAreTrue, RecordsAreTrue
<1>3. /\ b.kind = "completed" /\ b.cause = None
      /\ b.verdict = (IF DifferenceCount(p.exact_counts) = 0 THEN "match" ELSE "mismatch")
      /\ b.totals.counts = CompletedTotals(p)
  BY <1>1, CompletedFields
<1>4. /\ b.segments = p.topology /\ b.unresolved = {} /\ b.witnesses = {}
      /\ b.anomalies = p.anomalies /\ b.retained_bytes = p.retained_bytes
      /\ b.fingerprint_nodes = p.fingerprint_nodes
      /\ b.pruned_segments = p.pruned_segments /\ b.exact_segments = p.exact_segments
      /\ b.covered_partitions = 1
  BY <1>1 DEF CompletedComparisonArtifact
<1>5. Repeats(p, b)
  BY ONLY <1>1, <1>2, <1>4 DEF Repeats
<1> QED
  BY ONLY <1>3, <1>4, <1>5

(* What an artifact keeps when it loses its context.                       *)
LEMMA DemotedSays ==
    ASSUME NEW p, NEW b, NEW a, LosesContext(p, b, a)
    PROVE  /\ a.segments = b.segments /\ a.unresolved = b.unresolved
           /\ a.witnesses = b.witnesses
           /\ a.anomalies = b.anomalies /\ a.retained_bytes = b.retained_bytes
           /\ a.fingerprint_nodes = b.fingerprint_nodes
           /\ a.pruned_segments = b.pruned_segments /\ a.exact_segments = b.exact_segments
           /\ a.covered_partitions = b.covered_partitions
           /\ a.kind = "demoted" /\ a.cause = b.cause
           /\ a.verdict = IF b.verdict = "mismatch" THEN "mismatch" ELSE "inconclusive"
           /\ a.totals = DemotedTotals(b)
<1> DEFINE verdict == IF b.verdict = "mismatch" THEN "mismatch" ELSE "inconclusive"
<1>1. {"witnesses", "retained_bytes", "fingerprint_nodes", "pruned_segments", "exact_segments"}
         \subseteq DOMAIN b
  BY DEF LosesContext, CompletedComparisonArtifact, CompletedStructuralArtifact
<1>2. a = [b EXCEPT !.kind = "demoted", !.verdict = verdict,
                    !.guarantee = "not_established", !.totals = DemotedTotals(b)]
  BY DEF LosesContext, PartialFromCompleted, DemotedTotals
<1> HIDE DEF verdict
<1>3. /\ a.witnesses = b.witnesses /\ a.retained_bytes = b.retained_bytes
      /\ a.fingerprint_nodes = b.fingerprint_nodes
      /\ a.pruned_segments = b.pruned_segments /\ a.exact_segments = b.exact_segments
  BY ONLY <1>1, <1>2
<1> QED
  BY <1>3, DemotedFields

(* A completed comparison that lost its context is stored.                 *)
LEMMA DemotedIsStored ==
    ASSUME Publishable(progress), ContractHolds, NEW b, IsCompleted(progress, b),
           NEW a, a = PartialFromCompleted(b, "snapshot_lost")
    PROVE  StoreAccepts(a)
<1> DEFINE p == progress
           published == Published(a)
<1>1. /\ input \in Inputs /\ ProgressIsTrue(p) /\ IsTree(p)
      /\ p.pending = {} /\ p.summaries_verified
      /\ b = CompletedComparisonArtifact(p) /\ LosesContext(p, b, a)
  BY DEF Publishable, IsCompleted, IsComplete, LosesContext
<1>2. /\ Repeats(p, b) /\ b.kind = "completed" /\ b.cause = None /\ b.covered_partitions = 1
      /\ b.verdict = IF DifferenceCount(p.exact_counts) = 0 THEN "match" ELSE "mismatch"
  BY <1>1, CompletedSays
<1>3. /\ Repeats(p, a) /\ a.kind = "demoted" /\ a.cause = None /\ a.covered_partitions = 1
      /\ a.verdict = (IF b.verdict = "mismatch" THEN "mismatch" ELSE "inconclusive")
      /\ a.totals = PartialTotals(p.exact_counts, a.exact_segments, "snapshot_lost")
  <2>1. /\ a.segments = b.segments /\ a.unresolved = b.unresolved
        /\ a.witnesses = b.witnesses
        /\ a.anomalies = b.anomalies /\ a.retained_bytes = b.retained_bytes
        /\ a.fingerprint_nodes = b.fingerprint_nodes
        /\ a.pruned_segments = b.pruned_segments /\ a.exact_segments = b.exact_segments
        /\ a.covered_partitions = b.covered_partitions
        /\ a.kind = "demoted" /\ a.cause = b.cause
        /\ a.verdict = (IF b.verdict = "mismatch" THEN "mismatch" ELSE "inconclusive")
        /\ a.totals = DemotedTotals(b)
    BY <1>1, DemotedSays
  <2>2. Repeats(p, a)
    BY ONLY <1>2, <2>1 DEF Repeats
  <2>3. DemotedTotals(b) = PartialTotals(p.exact_counts, Cardinality(Terminal(p, ExactStates)),
                                         "snapshot_lost")
    BY <1>1, DemotedCounts
  <2> QED
    BY <1>2, <2>1, <2>2, <2>3 DEF Repeats
<1>4. a.verdict = "mismatch" <=> Shows(p)
  <2>1. DifferenceCount(p.exact_counts) \in Nat
    BY <1>1, DifferencesHaveLeaves
  <2>2. (\E t \in p.topology : Mismatches(t)) => DifferenceCount(p.exact_counts) > 0
    BY <1>1 DEF ProgressIsTrue, DifferenceIsKept
  <2>3. p.mismatch_witnesses = {}
    BY <1>1 DEF ProgressIsTrue, RecordsAreTrue
  <2> QED
    BY <1>2, <1>3, <2>1, <2>2, <2>3 DEF Shows
<1>5. ~ HasContractProof(a) /\ ~ UnknownRows(a)
  <2>1. StableReads(a) = "verified"
    <3>1. a.cause \notin {"PostgresQueryError", "PostgresContextLostError"}
      BY <1>3, CauseAssumption DEF InterruptionReasonCode
    <3> QED
      BY <1>1, <3>1 DEF StableReads
  <2> QED
    BY <2>1 DEF HasContractProof, UnknownRows
<1>6. /\ published.verdict = a.verdict
      /\ published.totals = a.totals
      /\ "data_mismatch" \in published.reasons <=> a.verdict = "mismatch"
      /\ "contract_violation" \notin published.reasons
  BY <1>5, WhatIsPublished
<1>7. HasProvenMismatch(a) <=> Shows(p)
  BY <1>1, <1>3, <1>6, ProvenIsShown
<1>8. /\ a.exact_segments > 0 => a.totals.precision = "lower_bound"
      /\ ~ (a.exact_segments > 0) => a.totals.precision = "snapshot_lost"
  BY <1>3 DEF PartialTotals
<1>9. PublishedCloses(a, published)
  BY <1>4, <1>5, <1>6, <1>7, <1>8 DEF PublishedCloses
<1>10. a.covered_partitions =
          IF a.unresolved = {} /\ a.pruned_segments + a.exact_segments > 0 THEN 1 ELSE 0
  BY <1>1, <1>3, SomeRangeIsTerminal DEF Repeats
<1>11. RangesClose(a)
  BY <1>3, ProgressCloses
<1>12. PartialCloses(a)
  BY ONLY <1>9, <1>10, <1>11, RangesAndRows
<1>13. AnomaliesAreCovered(a) /\ WithinAttemptBudgets(a)
  BY <1>3, EvidenceIsCovered DEF CompletedWithinBudgets
<1> QED
  BY <1>3, <1>12, <1>13 DEF StoreAccepts, StoreAcceptsPartial

-----------------------------------------------------------------------------
(* The store accepts every artifact *)

\* A structural result b whose artifact may be stored.
StorableStructure(p, b) ==
    /\ Publishable(p)
    /\ b = CompletedStructuralArtifact(p)
    /\ ~ ContractHolds /\ ~ InvalidKeys
    /\ p.summaries_verified /\ p.fingerprint_nodes = 0

(* What the artifact of a structural result says.                          *)
LEMMA StructureSays ==
    ASSUME NEW p, NEW b, b = CompletedStructuralArtifact(p)
    PROVE  /\ b.kind = "structural" /\ b.cause = None /\ b.verdict = "mismatch"
           /\ b.guarantee = "structural"
           /\ b.covered_partitions = 1 /\ b.pruned_segments = 0 /\ b.exact_segments = 1
           /\ b.segments = {} /\ b.unresolved = {} /\ b.witnesses = {}
           /\ b.totals = [precision |-> "contract_violation", counts |-> NoCounts]
           /\ b.found_records = 0 /\ b.fingerprint_nodes = p.fingerprint_nodes
           /\ b.anomalies = <<>> /\ b.retained_bytes = 0
  BY DEF CompletedStructuralArtifact

(* A result without ranges stays within the attempt's budgets.             *)
LEMMA NothingCovers ==
    ASSUME NEW p, Publishable(p), NEW a,
           a.segments = {}, a.unresolved = {}, a.fingerprint_nodes = p.fingerprint_nodes,
           a.anomalies = <<>>, a.retained_bytes = 0
    PROVE  CompletedWithinBudgets(a) /\ AnomaliesAreCovered(a)
<1>1. /\ budgets.max_evidence_rows \in Nat /\ budgets.max_evidence_bytes \in Nat
  BY Arguments DEF Publishable
<1>2. Len(a.anomalies) = 0 /\ DOMAIN a.anomalies = {}
  OBVIOUS
<1>3. CompletedWithinBudgets(a)
  BY <1>1, <1>2, BudgetsCover
<1>4. a.retained_bytes = Bytes(a.anomalies)
  BY NoBytes
<1> QED
  BY <1>2, <1>3, <1>4 DEF AnomaliesAreCovered

(* A structural result of relations with a single physical member each is  *)
(* stored.                                                                 *)
LEMMA StructureIsAccepted ==
    ASSUME NEW b, StorableStructure(progress, b), SummariesCharged(ledger, 2),
           \A s \in Sides : relation[s].physical_scans = 1
    PROVE  StoreAccepts(b)
<1> DEFINE p == progress
<1>1. /\ Publishable(p) /\ b = CompletedStructuralArtifact(p) /\ input \in Inputs
      /\ ~ ContractHolds /\ ~ InvalidKeys /\ p.fingerprint_nodes = 0
  BY DEF StorableStructure, Publishable
<1>2. /\ b.kind = "structural" /\ b.verdict = "mismatch" /\ b.guarantee = "structural"
      /\ b.covered_partitions = 1 /\ b.pruned_segments = 0 /\ b.exact_segments = 1
      /\ b.segments = {} /\ b.unresolved = {}
      /\ b.totals.precision = "contract_violation"
      /\ b.found_records = 0 /\ b.fingerprint_nodes = p.fingerprint_nodes
      /\ b.anomalies = <<>> /\ b.retained_bytes = 0
  BY <1>1, StructureSays
<1>3. CompletedWithinBudgets(b)
  BY <1>1, <1>2, NothingCovers
<1>4. /\ input.charged.queries \in Nat /\ input.charged.fetched_records \in Nat
      /\ \A s \in Sides : input.charged.full_scans[s] \in Nat
  BY <1>1, Arguments
<1>5. /\ OwnQueries >= 2 /\ OwnRecords >= 2
  BY <1>4 DEF SummariesCharged, OwnQueries, OwnRecords
<1>6. OneScanPerSide
  <2>1. ASSUME NEW s \in Sides
        PROVE  ledger.full_scans[s] = input.charged.full_scans[s] + 1
    <3>1. relation["reference"].physical_scans = 1 /\ relation["target"].physical_scans = 1
      BY DEF Sides
    <3> QED
      BY <3>1 DEF SummariesCharged, Sides
  <2> QED
    BY <1>4, <2>1 DEF OneScanPerSide, FullScans
<1>7. StructuralSummary
  BY <1>1, SummariesShow
<1>8. StructuralCloses(b)
  BY <1>1, <1>2, <1>5, <1>7 DEF StructuralCloses
<1> QED
  BY <1>2, <1>3, <1>6, <1>8 DEF StoreAccepts, StoreAcceptsStructural

(* A structural result that lost its context is stored.                    *)
LEMMA DemotedStructureIsAccepted ==
    ASSUME NEW b, StorableStructure(progress, b),
           NEW a, a = PartialFromCompleted(b, "snapshot_lost")
    PROVE  StoreAccepts(a)
<1> DEFINE p == progress
           published == Published(a)
<1>1. /\ Publishable(p) /\ b = CompletedStructuralArtifact(p) /\ input \in Inputs
      /\ ~ ContractHolds /\ ~ InvalidKeys /\ p.fingerprint_nodes = 0
      /\ p.summaries_verified /\ LosesContext(p, b, a)
  BY DEF StorableStructure, Publishable, LosesContext
<1>2. /\ b.kind = "structural" /\ b.cause = None /\ b.verdict = "mismatch"
      /\ b.covered_partitions = 1 /\ b.pruned_segments = 0 /\ b.exact_segments = 1
      /\ b.segments = {} /\ b.unresolved = {} /\ b.witnesses = {}
      /\ b.totals = [precision |-> "contract_violation", counts |-> NoCounts]
      /\ b.fingerprint_nodes = p.fingerprint_nodes
      /\ b.anomalies = <<>> /\ b.retained_bytes = 0
  BY <1>1, StructureSays
<1>3. /\ a.segments = b.segments /\ a.unresolved = b.unresolved
      /\ a.witnesses = b.witnesses
      /\ a.anomalies = b.anomalies /\ a.retained_bytes = b.retained_bytes
      /\ a.fingerprint_nodes = b.fingerprint_nodes
      /\ a.pruned_segments = b.pruned_segments /\ a.exact_segments = b.exact_segments
      /\ a.covered_partitions = b.covered_partitions
      /\ a.kind = "demoted" /\ a.cause = b.cause
      /\ a.verdict = IF b.verdict = "mismatch" THEN "mismatch" ELSE "inconclusive"
      /\ a.totals = DemotedTotals(b)
  BY <1>1, DemotedSays
<1>4. /\ a.kind = "demoted" /\ a.cause = None /\ a.verdict = "mismatch"
      /\ a.covered_partitions = 1 /\ a.pruned_segments = 0 /\ a.exact_segments = 1
      /\ a.segments = {} /\ a.unresolved = {} /\ a.witnesses = {}
      /\ a.totals = [precision |-> "contract_violation", counts |-> NoCounts]
      /\ a.fingerprint_nodes = 0 /\ a.fingerprint_nodes = p.fingerprint_nodes
      /\ a.anomalies = <<>> /\ a.retained_bytes = 0
  BY ONLY <1>1, <1>2, <1>3 DEF DemotedTotals
<1>5. /\ StableReads(a) = "verified" /\ IsStructural(a)
      /\ HasContractProof(a) /\ ~ UnknownRows(a)
  <2>1. a.cause \notin {"PostgresQueryError", "PostgresContextLostError"}
    BY <1>4, CauseAssumption DEF InterruptionReasonCode
  <2>2. StableReads(a) = "verified"
    BY <1>1, <2>1 DEF StableReads
  <2>3. IsStructural(a)
    BY <1>4 DEF IsStructural
  <2> QED
    BY <1>1, <2>2, <2>3 DEF HasContractProof, UnknownRows
<1>6. /\ published.verdict = "mismatch"
      /\ published.totals = a.totals
      /\ "data_mismatch" \notin published.reasons
      /\ "contract_violation" \in published.reasons
  BY <1>4, <1>5, WhatIsPublished
<1>7. published.totals.precision = "contract_violation"
  BY <1>4, <1>6
<1> HIDE DEF published
<1>8. ~ HasProvenMismatch(a)
  <2>1. Published(a).totals.precision # "lower_bound"
    BY <1>7 DEF published
  <2> QED
    BY ONLY <1>4, <2>1 DEF HasProvenMismatch
<1>9. StructuralSummary
  BY <1>1, SummariesShow
<1>10. PartialCloses(a)
  BY <1>4, <1>5, <1>6, <1>7, <1>8, <1>9 DEF PartialCloses, published
<1>11. AnomaliesAreCovered(a) /\ WithinAttemptBudgets(a)
  BY <1>1, <1>4, NothingCovers DEF CompletedWithinBudgets
<1> QED
  BY <1>4, <1>10, <1>11 DEF StoreAccepts, StoreAcceptsPartial

(* Of keys that keep their contract the summaries count the rows, as the   *)
(* root's fingerprints do.                                                 *)
LEMMA SummariesCountRows ==
    ASSUME input \in Inputs, ContractHolds, ~ InvalidKeys, NEW s \in Sides
    PROVE  /\ Summary(s).null_key_count = 0 /\ Summary(s).invalid_key_count = 0
           /\ Summary(s).valid_key_count = Summary(s).row_count
           /\ Summary(s).distinct_key_count = Summary(s).row_count
           /\ Summary(s).row_count = Fingerprint(s, RootSegment).count
           /\ Summary(s).row_count = Cardinality(DOMAIN relation[s].rows)
<1> DEFINE c == Cardinality(DOMAIN relation[s].rows)
           d == relation[s].duplicate_keys
           n == relation[s].null_keys
           v == relation[s].invalid_keys
<1>1. /\ Summary(s).row_count = (c + d) + n + v
      /\ Summary(s).null_key_count = n /\ Summary(s).invalid_key_count = v
      /\ Summary(s).valid_key_count = c + d /\ Summary(s).distinct_key_count = c
  BY DEF Summary
<1>2. d \in Nat /\ n \in Nat /\ v \in Nat /\ c \in Nat
  BY Arguments, FS_CardinalityType
<1>3. n = 0 /\ c + d = c
  BY <1>1 DEF ContractHolds
<1>4. ~ v > 0
  BY <1>1 DEF InvalidKeys
<1>5. Fingerprint(s, RootSegment).count = Summary(s).row_count
  BY RootCountsRows
<1> HIDE DEF c, d, n, v
<1>6. v = 0 /\ (c + d) + n + v = c
  BY <1>2, <1>3, <1>4
<1> QED
  BY <1>1, <1>3, <1>5, <1>6 DEF c

(* Nothing pending: every row is in a pruned range or in an exact leaf.    *)
LEMMA RowsAreResolved ==
    ASSUME input \in Inputs, NEW p, ProgressIsTrue(p), p.pending = {}, NEW s \in Sides
    PROVE  Cardinality(DOMAIN relation[s].rows)
              = Cardinality(RowsIn(s, p, ExactStates))
                   + Cardinality(RowsIn(s, p, {"fingerprint_match"}))
<1> DEFINE keys == DOMAIN relation[s].rows
           A == RowsIn(s, p, ExactStates)
           B == RowsIn(s, p, {"fingerprint_match"})
<1>1. /\ TreeIsSound(p) /\ p.topology \subseteq RecordType
      /\ IsFiniteSet(keys) /\ keys \subseteq Int
  BY Arguments, KeyAssumption DEF ProgressIsTrue, ProgressType, Key
<1>2. A \subseteq keys /\ B \subseteq keys
  BY DEF RowsIn
<1>3. \A k \in keys : k \in A \/ k \in B
  <2> SUFFICES ASSUME NEW k \in keys
               PROVE  k \in A \/ k \in B
    OBVIOUS
  <2>1. k \in AllKeys
    BY DEF AllKeys, ReferenceRows, TargetRows, Sides
  <2>2. PICK t \in p.topology : t.state \in TerminalStates /\ InRange(k, t.segment)
    BY <2>1, EveryKeyIsResolved
  <2>3. t \in Terminal(p, ExactStates) \/ t \in Terminal(p, {"fingerprint_match"})
    BY <2>2 DEF Terminal, TerminalStates, ExactStates
  <2> QED
    BY <2>2, <2>3 DEF RowsIn
<1>4. ASSUME NEW k, k \in A, k \in B
      PROVE  FALSE
  <2>1. PICK t \in Terminal(p, ExactStates) : InRange(k, t.segment)
    BY <1>4 DEF RowsIn
  <2>2. PICK u \in Terminal(p, {"fingerprint_match"}) : InRange(k, u.segment)
    BY <1>4 DEF RowsIn
  <2>3. /\ t \in p.topology /\ u \in p.topology /\ t # u
        /\ t.state \in TerminalStates /\ u.state \in TerminalStates
        /\ t.segment \in SegmentType /\ u.segment \in SegmentType
    BY <1>1, <2>1, <2>2 DEF Terminal, RecordType, ExactStates, TerminalStates
  <2>4. t.segment # u.segment /\ t.segment \in Frontier(p) /\ u.segment \in Frontier(p)
    BY <1>1, <2>3 DEF TreeIsSound, Frontier, Resolved
  <2>5. Apart(t.segment, u.segment)
    BY <1>1, <2>4 DEF TreeIsSound
  <2>6. k \in Int
    BY <1>1, <1>2, <1>4
  <2> QED
    BY <2>1, <2>2, <2>3, <2>5, <2>6, ApartMeans
<1> HIDE DEF keys, A, B
<1>5. keys = A \cup B /\ A \cap B = {}
  BY <1>2, <1>3, <1>4
<1>6. IsFiniteSet(A) /\ IsFiniteSet(B)
  BY <1>1, <1>2, FS_Subset
<1>7. Cardinality(keys) = Cardinality(A) + Cardinality(B)
  BY <1>5, <1>6, SizeOfUnion
<1> QED
  BY <1>7 DEF keys, A, B

(* Pruned ranges hold as many rows on each side: those counted as matched. *)
LEMMA PrunedRows ==
    ASSUME input \in Inputs, NEW p, ProgressIsTrue(p), NEW s \in Sides
    PROVE  Cardinality(RowsIn(s, p, {"fingerprint_match"})) = p.pruned_matched
<1> DEFINE L == Terminal(p, {"fingerprint_match"})
           count(r) == [t \in L |-> t.fingerprint[r].count]
<1>1. /\ IsFiniteSet(p.topology) /\ RecordsAreTrue(p) /\ CountsAreTrue(p)
      /\ {"fingerprint_match"} \subseteq TerminalStates
  BY DEF ProgressIsTrue, TreeIsSound, TerminalStates
<1>2. \A r \in Sides : Cardinality(RowsIn(r, p, {"fingerprint_match"})) = RowCount(r, L)
  BY <1>1, RowsOfLeaves
<1>3. Cardinality(RowsIn("reference", p, {"fingerprint_match"})) = p.pruned_matched
  BY <1>1 DEF CountsAreTrue, PrunedKeys, RowsIn, ReferenceRows
<1>4. IsFiniteSet(L)
  BY <1>1, FS_Subset DEF Terminal
<1>5. \A t \in L : count("reference")[t] = count("target")[t]
  <2> SUFFICES ASSUME NEW t \in L
               PROVE  t.fingerprint["reference"].count = t.fingerprint["target"].count
    OBVIOUS
  <2>1. t \in p.topology /\ t.state = "fingerprint_match"
    BY DEF Terminal
  <2>2. Matches(t)
    BY <1>1, <2>1 DEF RecordsAreTrue
  <2> QED
    BY <2>2 DEF Matches
<1>6. \A r : RowCount(r, L) = SumFunctionOnSet(count(r), L)
  BY DEF RowCount
<1>7. RowCount("reference", L) = RowCount("target", L)
  <2> DEFINE w == count("reference")
             v == count("target")
  <2>1. \A t \in L : w[t] = v[t]
    BY <1>5
  <2>2. RowCount("reference", L) = SumFunctionOnSet(w, L)
        /\ RowCount("target", L) = SumFunctionOnSet(v, L)
    BY <1>6
  <2> HIDE DEF L, w, v
  <2>3. SumFunctionOnSet(w, L) = SumFunctionOnSet(v, L)
    BY ONLY <1>4, <2>1, SumOfEqual
  <2> QED
    BY <2>2, <2>3
<1> HIDE DEF L
<1>8. s = "reference" \/ s = "target"
  BY DEF Sides
<1> QED
  BY <1>2, <1>3, <1>7, <1>8 DEF Sides

(* The totals of a comparison with nothing pending close to the rows of    *)
(* each side.                                                              *)
LEMMA TotalsClose ==
    ASSUME input \in Inputs, ContractHolds, ~ InvalidKeys,
           NEW p, ProgressIsTrue(p), p.pending = {}, NEW s \in Sides
    PROVE  CompletedTotals(p)["matched"] + CompletedTotals(p)[OnlyOn(s)]
              + CompletedTotals(p)["modified"] = Fingerprint(s, RootSegment).count
<1> DEFINE c == CompletedTotals(p)
           e == p.exact_counts
           side_rows == Cardinality(DOMAIN relation[s].rows)
<1>1. OnlyOn(s) \in Kinds /\ "modified" \in Kinds
  BY DEF OnlyOn, Kinds
<1>2. /\ c["matched"] = e["matched"] + p.pruned_matched
      /\ c[OnlyOn(s)] = e[OnlyOn(s)] /\ c["modified"] = e["modified"]
  BY <1>1, CompletedCounts
<1>3. p.pruned_matched \in Nat /\ e \in Counts
  BY DEF ProgressIsTrue, ProgressType
<1>4. e["matched"] \in Nat /\ e[OnlyOn(s)] \in Nat /\ e["modified"] \in Nat
  BY <1>1, <1>3 DEF Counts
<1>5. side_rows = Cardinality(RowsIn(s, p, ExactStates)) + p.pruned_matched
  BY RowsAreResolved, PrunedRows
<1>6. Cardinality(RowsIn(s, p, ExactStates)) = e["matched"] + e[OnlyOn(s)] + e["modified"]
  BY LeavesAddUp
<1>7. Fingerprint(s, RootSegment).count = side_rows
  BY SummariesCountRows
<1> HIDE DEF c, e, side_rows
<1>8. c["matched"] + c[OnlyOn(s)] + c["modified"] = side_rows
  BY ONLY <1>2, <1>3, <1>4, <1>5, <1>6
<1> QED
  BY <1>7, <1>8 DEF c

(* The range numbered 0 is the root, with its fingerprints.                *)
LEMMA RootIsFound ==
    ASSUME input \in Inputs, NEW p, ProgressIsTrue(p), IsTree(p), p.pending = {},
           p.summaries_verified,
           NEW root, root = CHOOSE t \in p.topology : t.segment.segment_sequence = 0
    PROVE  /\ p.topology # {}
           /\ \A s \in Sides : root.fingerprint[s].count = Fingerprint(s, RootSegment).count
<1>1. \E t \in p.topology : t.segment.segment_sequence = 0
  <2>1. PICK g \in Segments(p) : g.segment_sequence = 0
    BY DEF IsTree, NumbersOf
  <2> QED
    BY <2>1 DEF Segments
<1>2. root \in p.topology /\ root.segment.segment_sequence = 0
  BY <1>1
<1>3. root.segment = RootSegment
  BY <1>2 DEF ProgressIsTrue, DifferenceIsKept, Segments
<1>4. root = SegmentRecord(FingerprintNode(root.segment), root.state)
  BY <1>2 DEF ProgressIsTrue, RecordsAreTrue
<1>5. root.fingerprint = FingerprintNode(RootSegment).fingerprint
  <2>1. root.fingerprint = FingerprintNode(root.segment).fingerprint
    BY ONLY <1>4 DEF SegmentRecord
  <2> QED
    BY ONLY <1>3, <2>1
<1>6. \A s \in Sides : FingerprintNode(RootSegment).fingerprint[s] = Fingerprint(s, RootSegment)
  BY DEF FingerprintNode
<1> QED
  BY <1>1, <1>5, <1>6

(* A comparison with nothing pending counts a difference exactly if it has *)
(* an exact leaf that differs.                                             *)
LEMMA DifferencesAreLeaves ==
    ASSUME input \in Inputs, NEW p, ProgressIsTrue(p), p.pending = {}
    PROVE  DifferenceCount(p.exact_counts) # 0
              <=> Cardinality(Terminal(p, {"exact_mismatch"})) > 0
<1> DEFINE L == Terminal(p, ExactStates)
<1>1. RecordsAreTrue(p) /\ DifferenceIsKept(p)
  BY DEF ProgressIsTrue
<1>2. Terminal(p, {"exact_mismatch"}) = L
  <2>1. \A t \in p.topology : t.state # "exact_match"
    BY <1>1 DEF RecordsAreTrue
  <2> QED
    BY <2>1 DEF Terminal, ExactStates
<1>3. \A t \in L : t \in p.topology /\ Mismatches(t)
  <2>1. \A t \in L : t \in p.topology /\ t.state = "exact_mismatch"
    BY <1>1 DEF RecordsAreTrue, Terminal, ExactStates
  <2> QED
    BY <1>1, <2>1 DEF RecordsAreTrue, Mismatches
<1>4. /\ DifferenceCount(p.exact_counts) \in Nat /\ Cardinality(L) \in Nat /\ IsFiniteSet(L)
      /\ DifferenceCount(p.exact_counts) > 0 => Cardinality(L) > 0
  BY DifferencesHaveLeaves
<1> HIDE DEF L
<1>5. ASSUME Cardinality(L) > 0
      PROVE  DifferenceCount(p.exact_counts) > 0
  <2>1. L # {}
    BY <1>4, <1>5, FS_EmptySet
  <2> QED
    BY <1>1, <1>3, <2>1 DEF DifferenceIsKept
<1> QED
  BY <1>2, <1>4, <1>5

(* The artifact of a completed comparison is stored.                       *)
LEMMA CompletedIsStored ==
    ASSUME Publishable(progress), ContractHolds, ~ InvalidKeys,
           NEW b, IsCompleted(progress, b)
    PROVE  StoreAccepts(b)
<1> DEFINE p == progress
           root == CHOOSE t \in b.segments : t.segment.segment_sequence = 0
           counts == b.totals.counts
<1>1. /\ input \in Inputs /\ ProgressIsTrue(p) /\ IsTree(p)
      /\ p.pending = {} /\ p.summaries_verified
      /\ p.fingerprint_nodes = Cardinality(p.topology)
  BY DEF Publishable, IsCompleted, IsComplete
<1>2. /\ Repeats(p, b) /\ b.kind = "completed" /\ b.covered_partitions = 1
      /\ b.verdict = (IF DifferenceCount(p.exact_counts) = 0 THEN "match" ELSE "mismatch")
      /\ counts = CompletedTotals(p)
  BY <1>1, CompletedSays
<1>3. /\ b.segments = p.topology /\ b.unresolved = {}
      /\ b.fingerprint_nodes = Cardinality(b.segments)
      /\ b.pruned_segments = LeavesOf(b, {"fingerprint_match"})
      /\ b.exact_segments = LeavesOf(b, ExactStates)
      /\ LeavesOf(b, {"exact_mismatch"}) = Cardinality(Terminal(p, {"exact_mismatch"}))
  BY <1>1, <1>2 DEF Repeats, LeavesOf, Terminal
<1>4. TreeIsValid(b.segments)
  <2>1. UnresolvedNodes(b) = {}
    BY <1>3 DEF UnresolvedNodes
  <2>2. FrontierNodes(b) = b.segments
    BY <2>1 DEF FrontierNodes
  <2>3. AreNodes(p, b.segments)
    BY <1>1, <1>2, <2>2, FrontierIsNodes
  <2> QED
    BY <1>1, <2>3, NodesAreATree
<1>5. /\ b.segments # {}
      /\ \A s \in Sides : root.fingerprint[s].count = Fingerprint(s, RootSegment).count
  BY <1>1, <1>3, RootIsFound
<1>6. /\ counts["matched"] + counts["missing"] + counts["modified"]
            = Fingerprint("reference", RootSegment).count
      /\ counts["matched"] + counts["extra"] + counts["modified"]
            = Fingerprint("target", RootSegment).count
  <2>1. \A s \in Sides : counts["matched"] + counts[OnlyOn(s)] + counts["modified"]
                            = Fingerprint(s, RootSegment).count
    BY <1>1, <1>2, TotalsClose
  <2>2. /\ "reference" \in Sides /\ OnlyOn("reference") = "missing"
        /\ "target" \in Sides /\ OnlyOn("target") = "extra"
    BY DEF Sides, OnlyOn
  <2> HIDE DEF counts
  <2>3. counts["matched"] + counts["missing"] + counts["modified"]
           = Fingerprint("reference", RootSegment).count
    BY ONLY <2>1, <2>2
  <2>4. counts["matched"] + counts["extra"] + counts["modified"]
           = Fingerprint("target", RootSegment).count
    BY ONLY <2>1, <2>2
  <2> QED
    BY <2>3, <2>4
<1>7. b.verdict = "mismatch" <=> LeavesOf(b, {"exact_mismatch"}) > 0
  BY <1>1, <1>2, <1>3, DifferencesAreLeaves
<1>8. SummariesClose(root)
  BY <1>1, <1>5, SummariesCountRows DEF SummariesClose
<1>9. /\ root.fingerprint["reference"].count = Fingerprint("reference", RootSegment).count
      /\ root.fingerprint["target"].count = Fingerprint("target", RootSegment).count
  BY <1>5 DEF Sides
<1> HIDE DEF root, counts
<1>10. /\ counts["matched"] + counts["missing"] + counts["modified"]
             = root.fingerprint["reference"].count
       /\ counts["matched"] + counts["extra"] + counts["modified"]
             = root.fingerprint["target"].count
  BY ONLY <1>6, <1>9
<1>11. CompletedCloses(b)
  BY ONLY <1>2, <1>3, <1>4, <1>5, <1>7, <1>8, <1>10 DEF CompletedCloses, root, counts
<1>12. AnomaliesAreCovered(b) /\ CompletedWithinBudgets(b)
  BY <1>2, EvidenceIsCovered
<1> QED
  BY <1>2, <1>11, <1>12 DEF StoreAccepts, StoreAcceptsCompleted

(* Wherever a comparison ends its artifact is stored.                      *)
LEMMA EveryArtifactIsStored ==
    ASSUME Invariance, StoreInvariance
    PROVE  ArtifactIsStored
<1> SUFFICES ASSUME artifact # None,
                    artifact.kind = "structural" =>
                       \A s \in Sides : relation[s].physical_scans = 1
             PROVE  StoreAccepts(artifact)
  BY DEF ArtifactIsStored
<1>1. pc = "done"
  BY DEF Invariance, Ends
<1>2. EndsStorable(progress, artifact, ledger)
  BY <1>1 DEF StoreInvariance
<1>3. Publishable(progress)
  BY <1>2 DEF Invariance, StoreInvariance, Standing, EndsStorable, Publishable
<1>4. CASE StorableInterruption(progress, artifact)
  BY <1>3, <1>4, InterruptedIsStored
<1>5. CASE StorableResult(progress, artifact, ledger)
  <2>1. CASE IsCompleted(progress, artifact) /\ ContractHolds /\ ~ InvalidKeys
    BY <1>3, <2>1, CompletedIsStored
  <2>2. CASE /\ IsStructuralResult(progress, artifact) /\ ~ InvalidKeys
             /\ progress.summaries_verified /\ progress.fingerprint_nodes = 0
             /\ SummariesCharged(ledger, 2)
    <3>1. StorableStructure(progress, artifact)
      BY <1>3, <2>2 DEF StorableStructure, IsStructuralResult
    <3>2. artifact.kind = "structural"
      BY <3>1, StructureSays DEF StorableStructure
    <3> QED
      BY <2>2, <3>1, <3>2, StructureIsAccepted
  <2> QED
    BY <1>5, <2>1, <2>2 DEF StorableResult
<1>6. CASE \E b : /\ StorableResult(progress, b, ledger)
                  /\ artifact = PartialFromCompleted(b, "snapshot_lost")
  <2>1. PICK b : /\ StorableResult(progress, b, ledger)
                 /\ artifact = PartialFromCompleted(b, "snapshot_lost")
    BY <1>6
  <2>2. CASE IsCompleted(progress, b) /\ ContractHolds /\ ~ InvalidKeys
    BY <1>3, <2>1, <2>2, DemotedIsStored
  <2>3. CASE /\ IsStructuralResult(progress, b) /\ ~ InvalidKeys
             /\ progress.summaries_verified /\ progress.fingerprint_nodes = 0
             /\ SummariesCharged(ledger, 2)
    <3>1. StorableStructure(progress, b)
      BY <1>3, <2>3 DEF StorableStructure, IsStructuralResult
    <3> QED
      BY <2>1, <3>1, DemotedStructureIsAccepted
  <2> QED
    BY <2>1, <2>2, <2>3 DEF StorableResult
<1> QED
  BY <1>2, <1>4, <1>5, <1>6 DEF EndsStorable

-----------------------------------------------------------------------------
(* The theorems *)

(* The invariant holds of every comparison.                                *)
THEOREM ComparisonInvariance == Spec => []Invariance
<1>1. Init => Invariance
  BY InvariantAtStart
<1>2. Invariance /\ [Next]_vars => Invariance'
  BY StepKeeps
<1> QED
  BY <1>1, <1>2, PTL DEF Spec

(* However ranges are pruned, halved and compared row by row, the resolved *)
(* and the pending ones hold every key that has a row exactly once.        *)
THEOREM KeysAreTiled == Spec => []FrontierTilesTheKeys
<1>1. Invariance => FrontierTilesTheKeys
  BY TilesTheKeys
<1> QED
  BY <1>1, ComparisonInvariance, PTL

(* Wherever the comparison stops, what it reports is true: the totals of a *)
(* completed one if no fingerprints collide, those of a partial one always. *)
THEOREM ReportsAreTrue == Spec => []ReportedTotalsAreTrue
<1>1. Invariance => ReportedTotalsAreTrue
  BY ReportIsTrue
<1> QED
  BY <1>1, ComparisonInvariance, PTL

(* The evidence is the first differences in key order, truly classified.   *)
THEOREM EvidenceIsInOrder == Spec => []EvidenceIsAPrefix
<1>1. Invariance => EvidenceIsAPrefix
  BY EvidenceIsFirst
<1> QED
  BY <1>1, ComparisonInvariance, PTL

(* No budget is overrun, the reads a reservation was made for are never    *)
(* refused, and no assertion of the comparison fires.                      *)
THEOREM WorkStaysWithinBudgets == Spec => []AdmittedWorkIsCovered
<1>1. Invariance => AdmittedWorkIsCovered
  BY WorkIsCovered
<1> QED
  BY <1>1, ComparisonInvariance, PTL

(* Whatever fingerprints collide, a claimed guarantee holds, no difference *)
(* is invented, and the root's fingerprints decide the verdict.            *)
THEOREM CollisionsAreHarmless == Spec => []CollisionsForgeNothing
<1>1. Invariance => CollisionsForgeNothing
  BY NothingIsForged
<1> QED
  BY <1>1, ComparisonInvariance, PTL

(* A difference that a progress shows is in every later progress and in    *)
(* every artifact.                                                         *)
THEOREM DifferencesAreRemembered == Spec => MismatchIsNotForgotten
<1> DEFINE Remembers == ShownMismatch => /\ ShownMismatch'
                                         /\ artifact' # None => artifact'.verdict = "mismatch"
<1>1. Invariance => (ShownMismatch <=> Shows(progress))
  <2> SUFFICES ASSUME Invariance
               PROVE  ShownMismatch <=> Shows(progress)
    OBVIOUS
  <2>1. PartialVerdict(progress, FALSE) = IF Shows(progress) THEN "mismatch" ELSE "inconclusive"
    BY ShownIsShown DEF Invariance
  <2> QED
    BY <2>1 DEF ShownMismatch
<1>2. Invariance => (artifact # None /\ Shows(progress) => artifact.verdict = "mismatch")
  BY ArtifactOfProgress, ShownIsReported
<1>3. Invariance /\ [Next]_vars => (Shows(progress) => Shows(progress)')
  BY StepKeeps DEF Shows
<1>4. Invariance /\ Invariance' /\ [Next]_vars => [Remembers]_vars
  <2>1. (Invariance => (ShownMismatch <=> Shows(progress)))'
    BY <1>1, PTL
  <2>2. (Invariance => (artifact # None /\ Shows(progress) => artifact.verdict = "mismatch"))'
    BY <1>2, PTL
  <2>3. Invariance' => (ShownMismatch' <=> Shows(progress)')
    BY <2>1
  <2>4. Invariance' /\ artifact' # None /\ Shows(progress)' => artifact'.verdict = "mismatch"
    BY <2>2
  <2> QED
    BY <1>1, <1>3, <2>3, <2>4
<1> QED
  BY <1>4, ComparisonInvariance, PTL DEF Spec, MismatchIsNotForgotten

(* The invariant holds of every comparison.                                *)
THEOREM StorageInvariant == Spec => []StoreInvariance
<1>1. Init => StoreInvariance
  BY StorableAtStart
<1>2. Invariance /\ StoreInvariance /\ [Next]_vars => StoreInvariance'
  BY StepStores
<1> QED
  BY <1>1, <1>2, ComparisonInvariance, PTL DEF Spec

(* The work of a comparison is never refused: wherever it ends, its        *)
(* artifact passes every validator of the store.                           *)
THEOREM ComparisonsAreStored == Spec => []ArtifactIsStored
<1>1. Invariance /\ StoreInvariance => ArtifactIsStored
  BY EveryArtifactIsStored
<1> QED
  BY <1>1, ComparisonInvariance, StorageInvariant, PTL

=============================================================================
