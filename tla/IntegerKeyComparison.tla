------------------------ MODULE IntegerKeyComparison ------------------------
(***************************************************************************)
(* One integer-key comparison of two protected relations: comparison.py's  *)
(* generator _execute_postgres_integer_key_comparison, driven by           *)
(* execute_integer_key_comparison, over the source-work ledger of          *)
(* postgres.py.                                                            *)
(*                                                                         *)
(* The comparison summarises both key columns, then repeatedly fingerprints *)
(* a level of key ranges on both sides: equal ranges are pruned, unequal   *)
(* ones are fetched row by row if the whole frontier fits the remaining    *)
(* budgets, and are halved otherwise.  An exception anywhere turns the     *)
(* progress yielded last into a partial artifact.                          *)
(*                                                                         *)
(* The ranges of a level are a set: they are numbered in the order of their *)
(* creation, which is the order of the code's tuples.                      *)
(*                                                                         *)
(* A step of the specification is the code between two points where an     *)
(* exception can surface.  Both sides are read by the PostgreSQL context:  *)
(* a read is one session-setup query of one record, then the query itself. *)
(* Result bytes and coordinator memory are not counted: wherever they are  *)
(* compared with a budget, both answers are possible.                      *)
(***************************************************************************)
EXTENDS Integers, Sequences, FiniteSets, SequencesExt

CONSTANTS
    INT64_MIN, INT64_MAX,   \* the bounds of a key
    Values,                 \* the canonical rows a key can carry, key aside
    RecordBytes,            \* bytes of the canonical record of each difference kind
    DeadlineCheckRecords,   \* nodes handled between two deadline checks
    Inputs,                 \* the comparisons considered, see ComparisonInputs
    None                    \* Python's None

Key == INT64_MIN .. INT64_MAX
Sides == {"reference", "target"}
Kinds == {"missing", "extra", "modified"}

ASSUME KeyAssumption == INT64_MIN \in Int /\ INT64_MAX \in Int /\ INT64_MIN < INT64_MAX
ASSUME BytesAssumption == RecordBytes \in [Kinds -> Nat \ {0}]
ASSUME CheckAssumption == DeadlineCheckRecords \in Nat \ {0}
ASSUME NoneAssumption == None \notin Int

(***************************************************************************)
(* A relation in scope: the row of each key that has one, and the rows     *)
(* that break the key contract (a null key, a key outside int64, one more  *)
(* row under a key that is already there).                                 *)
(***************************************************************************)
IsRelation(r) ==
    /\ \E keys \in SUBSET Key : r.rows \in [keys -> Values]
    /\ {r.null_keys, r.invalid_keys, r.duplicate_keys} \subseteq Nat
    /\ r.duplicate_keys > 0 => DOMAIN r.rows # {}
    /\ r.usable_access_path \in BOOLEAN
    /\ r.physical_scans \in Nat \ {0}

\* What execute_integer_key_comparison is given: the two relations, the
\* assurance policy, the budgets, and what the run has already charged; and
\* hash[k, v], the sha256 limb of row v under key k.
ASSUME ComparisonInputs ==
    \A in \in Inputs :
        /\ \A s \in Sides : IsRelation(in.relation[s])
        /\ in.exact_required \in BOOLEAN
        /\ in.hash \in [Key \X Values -> Nat]
        /\ \A f \in {"max_queries", "max_fetched_records", "max_full_scans_per_side",
                     "max_depth", "max_fingerprint_nodes", "max_evidence_rows",
                     "max_evidence_bytes"} : in.budgets[f] \in Nat
        /\ in.charged \in [queries : 0 .. in.budgets.max_queries,
                           fetched_records : 0 .. in.budgets.max_fetched_records,
                           full_scans : [Sides -> 0 .. in.budgets.max_full_scans_per_side]]

VARIABLES
    input,      \* the comparison's arguments, never written
    ledger,     \* PostgresSourceBudgetLedger._usage
    pc,         \* where the generator stands
    side,       \* whose read comes next in a reading phase
    level,      \* the ranges of the loop's local "pending"
    nodes,      \* the level's fingerprint nodes
    progress,   \* the progress yielded last
    artifact    \* the artifact returned or raised, None before

vars == <<input, ledger, pc, side, level, nodes, progress, artifact>>

relation == input.relation
budgets == input.budgets

-----------------------------------------------------------------------------
(* Key ranges, summaries and fingerprints *)

MathematicalUpper(segment) ==
    IF segment.upper_exclusive = None THEN INT64_MAX + 1 ELSE segment.upper_exclusive

InRange(k, segment) ==
    segment.lower_inclusive <= k /\ k < MathematicalUpper(segment)

KeysIn(s, segment) == {k \in DOMAIN relation[s].rows : InRange(k, segment)}

\* The key summary of one relation.
Summary(s) ==
    LET keys == DOMAIN relation[s].rows
        valid == Cardinality(keys) + relation[s].duplicate_keys
    IN  [row_count |-> valid + relation[s].null_keys + relation[s].invalid_keys,
         null_key_count |-> relation[s].null_keys,
         invalid_key_count |-> relation[s].invalid_keys,
         valid_key_count |-> valid,
         distinct_key_count |-> Cardinality(keys),
         minimum_key |-> IF keys = {} THEN None ELSE Min(keys),
         maximum_key |-> IF keys = {} THEN None ELSE Max(keys)]

RootSegment_AlwaysBounded ==
    LET keys == UNION {DOMAIN relation[s].rows : s \in Sides}
    IN  [segment_sequence |-> 0, parent |-> None, depth |-> 0,
         lower_inclusive |-> IF keys = {} THEN INT64_MIN ELSE Min(keys),
         upper_exclusive |-> IF keys = {} THEN None ELSE Max(keys) + 1]

\* The narrowest range that holds every key of both sides; its upper bound is
\* None when the largest key is the largest int64.
RootSegment ==
    LET minimums == {Summary(s).minimum_key : s \in Sides} \ {None}
        maximums == {Summary(s).maximum_key : s \in Sides} \ {None}
        maximum == Max(maximums)
    IN  [segment_sequence |-> 0, parent |-> None, depth |-> 0,
         lower_inclusive |-> IF minimums = {} THEN INT64_MIN ELSE Min(minimums),
         upper_exclusive |->
            IF minimums = {} \/ maximum = INT64_MAX THEN None ELSE maximum + 1]

Digest(s) == [k \in DOMAIN relation[s].rows |-> input.hash[k, relation[s].rows[k]]]

\* Row count and limb sum of a range: both are sums over its rows.
Fingerprint(s, segment) ==
    [count |-> Cardinality(KeysIn(s, segment)),
     limb_sum |-> SumFunctionOnSet(Digest(s), KeysIn(s, segment))]

FingerprintNode(segment) ==
    [segment |-> segment,
     fingerprint |-> [s \in Sides |-> Fingerprint(s, segment)]]

Matches_CountsOnly(node) ==
    node.fingerprint["reference"].count = node.fingerprint["target"].count

Matches(node) == node.fingerprint["reference"] = node.fingerprint["target"]
Mismatches(node) == ~ Matches(node)

Matching == {n \in nodes : Matches(n)}
Mismatching == {n \in nodes : Mismatches(n)}

\* The place of a node among others, from 0, in the order of their numbers.
Rank(node, others) ==
    Cardinality({n \in others : n.segment.segment_sequence < node.segment.segment_sequence})

RowCount(s, some_nodes) ==
    SumFunctionOnSet([n \in some_nodes |-> n.fingerprint[s].count], some_nodes)

SplitSegment_SkipsTheMidpoint(segment, next_sequence) ==
    LET width == MathematicalUpper(segment) - segment.lower_inclusive
        midpoint == segment.lower_inclusive + (width \div 2)
        child == [segment EXCEPT !.parent = segment.segment_sequence, !.depth = @ + 1]
    IN  IF width <= 2 THEN None
        ELSE <<[child EXCEPT !.segment_sequence = next_sequence, !.upper_exclusive = midpoint],
               [child EXCEPT !.segment_sequence = next_sequence + 1,
                             !.lower_inclusive = midpoint + 1]>>

SplitSegment_KeepsTheParent(segment, next_sequence) ==
    LET width == MathematicalUpper(segment) - segment.lower_inclusive
        midpoint == segment.lower_inclusive + (width \div 2)
        child == [segment EXCEPT !.depth = @ + 1]
    IN  IF width <= 1 THEN None
        ELSE <<[child EXCEPT !.segment_sequence = next_sequence, !.upper_exclusive = midpoint],
               [child EXCEPT !.segment_sequence = next_sequence + 1, !.lower_inclusive = midpoint]>>

\* The two halves of a range, None when it holds a single key.
SplitSegment(segment, next_sequence) ==
    LET width == MathematicalUpper(segment) - segment.lower_inclusive
        midpoint == segment.lower_inclusive + (width \div 2)
        child == [segment EXCEPT !.parent = segment.segment_sequence, !.depth = @ + 1]
    IN  IF width <= 1 THEN None
        ELSE <<[child EXCEPT !.segment_sequence = next_sequence, !.upper_exclusive = midpoint],
               [child EXCEPT !.segment_sequence = next_sequence + 1, !.lower_inclusive = midpoint]>>

SegmentRecord(node, state) ==
    [segment |-> node.segment, state |-> state, fingerprint |-> node.fingerprint]

TerminalStates == {"fingerprint_match", "exact_match", "exact_mismatch"}
ExactStates == {"exact_match", "exact_mismatch"}

-----------------------------------------------------------------------------
(* The exact comparison of a range *)

\* A set of keys as the sequence ORDER BY returns.
Ascending(keys) ==
    [i \in 1 .. Cardinality(keys) |->
        CHOOSE k \in keys : Cardinality({m \in keys : m < k}) = i - 1]

ExactRows(s, segment) ==
    LET keys == Ascending(KeysIn(s, segment))
    IN  [i \in DOMAIN keys |-> [key |-> keys[i], row |-> relation[s].rows[keys[i]]]]

NoCounts == [kind \in Kinds \cup {"matched"} |-> 0]
AddExactCounts(left, right) == [kind \in DOMAIN left |-> left[kind] + right[kind]]
DifferenceCount(counts) == counts["missing"] + counts["extra"] + counts["modified"]

NoRowsLeft == [counts |-> NoCounts, differences |-> <<>>]

\* One key more, before those classified after it.
Matched(rest) ==
    [counts |-> [rest.counts EXCEPT !["matched"] = @ + 1], differences |-> rest.differences]
Differs(kind, key, rest) ==
    [counts |-> [rest.counts EXCEPT ![kind] = @ + 1],
     differences |-> <<[kind |-> kind, key |-> key]>> \o rest.differences]

\* What the merge finds from the i-th reference row and the j-th target row on;
\* later is what it finds further on.
FoundFrom(reference, target, i, j, later) ==
    LET left == i <= Len(reference)
        right == j <= Len(target)
        r == reference[i]
        t == target[j]
    IN  IF ~ left /\ ~ right THEN NoRowsLeft
        ELSE IF left /\ (~ right \/ r.key < t.key)
             THEN Differs("missing", r.key, later[<<i + 1, j>>])
        ELSE IF right /\ (~ left \/ r.key > t.key)
             THEN Differs("extra", t.key, later[<<i, j + 1>>])
        ELSE IF r.row = t.row
             THEN Matched(later[<<i + 1, j + 1>>])
             ELSE Differs("modified", r.key, later[<<i + 1, j + 1>>])

\* The two-pointer merge of the fetched rows, both in key order: how many keys
\* are of each kind, and the differences in the order they are met.
ClassifiedRows(reference, target) ==
    LET from[at \in (1 .. Len(reference) + 1) \X (1 .. Len(target) + 1)] ==
            FoundFrom(reference, target, at[1], at[2], from)
    IN  from[<<1, 1>>]

Bytes(differences) ==
    SumFunction([i \in DOMAIN differences |-> RecordBytes[differences[i].kind]])

\* How many of the differences found next are kept: those before the first
\* that does not fit.
RetainedLength(p, differences) ==
    Max({n \in 0 .. Len(differences) :
            /\ n > 0 => Len(p.anomalies) + n <= budgets.max_evidence_rows
            /\ p.retained_bytes + Bytes(SubSeq(differences, 1, n)) <= budgets.max_evidence_bytes})

Retain(p, differences, segment_sequence, kept) ==
    [p EXCEPT
        !.found_records = @ + Len(differences),
        !.found_bytes = @ + Bytes(differences),
        !.retention_open = @ /\ kept = Len(differences),
        !.anomalies = @ \o
            [i \in 1 .. kept |->
                [sequence |-> p.found_records + i - 1, kind |-> differences[i].kind,
                 key |-> differences[i].key, segment_sequence |-> segment_sequence]],
        !.retained_bytes = @ + Bytes(SubSeq(differences, 1, kept))]

RetainExactDifferences_Reopens(p, differences, segment_sequence) ==
    Retain(p, differences, segment_sequence, RetainedLength(p, differences))

\* Evidence retention: differences are numbered as they are found and kept
\* until one does not fit; from then on none is kept, in this range or later.
RetainExactDifferences(p, differences, segment_sequence) ==
    Retain(p, differences, segment_sequence,
           IF p.retention_open THEN RetainedLength(p, differences) ELSE 0)

-----------------------------------------------------------------------------
(* The whole-run ledger of source work *)

Remaining ==
    [queries |-> Max({0, budgets.max_queries - ledger.queries}),
     fetched_records |-> Max({0, budgets.max_fetched_records - ledger.fetched_records}),
     full_scans |-> [s \in Sides |->
        Max({0, budgets.max_full_scans_per_side - ledger.full_scans[s]})]]

\* dispatch_query and consume_records for one read: the setup query with its
\* record, then a query of the given scans that returns the given records.
Charge(s, queries, full_scans, records) ==
    [ledger EXCEPT !.queries = @ + queries,
                   !.fetched_records = @ + records,
                   !.full_scans[s] = @ + full_scans]

\* The ledger accepts the whole read.
LedgerAccepts(s, full_scans, records) ==
    /\ ledger.queries + 1 < budgets.max_queries
    /\ ledger.full_scans[s] + full_scans <= budgets.max_full_scans_per_side
    /\ ledger.fetched_records + 1 + records <= budgets.max_fetched_records

\* What a read has charged when it is cut short.
PartialCharges(s, full_scans, records) ==
    {ledger, Charge(s, 1, 0, 0), Charge(s, 1, 0, 1)}
        \cup {Charge(s, 2, full_scans, 1 + n) : n \in 0 .. records}

\* Records of the exact read of the mismatching ranges: an empty result still
\* comes back as one marker record.
RawRecords(s) == Max({1, RowCount(s, Mismatching)})

\* What the read of the current phase scans and returns on one side.
ReadScans(s) ==
    relation[s].physical_scans *
        CASE pc = "read_summaries" -> 1
          [] pc = "read_fingerprints" -> Cardinality(level)
          [] OTHER -> Max({1, Cardinality(Mismatching)})

ReadRecords(s) ==
    CASE pc = "read_summaries" -> 1
      [] pc = "read_fingerprints" -> Cardinality(level)
      [] OTHER -> RawRecords(s)

\* The reservation made before the reads of a phase, for both sides at once.
HasCapacity(additional_records, full_scans) ==
    /\ Remaining.queries >= 4
    /\ Remaining.fetched_records >= additional_records
    /\ \A s \in Sides : Remaining.full_scans[s] >= full_scans[s]

ExactFrontierFits_NoSetupRecords ==
    HasCapacity(RawRecords("reference") + RawRecords("target"),
                [s \in Sides |-> Max({1, Cardinality(Mismatching)}) * relation[s].physical_scans])

ExactFrontierFits ==
    HasCapacity(RawRecords("reference") + RawRecords("target") + 2,
                [s \in Sides |-> Max({1, Cardinality(Mismatching)}) * relation[s].physical_scans])

-----------------------------------------------------------------------------
(* Progress and artifacts *)

InitialProgress ==
    [pending |-> {[segment_sequence |-> 0, parent |-> None, depth |-> 0,
                   lower_inclusive |-> INT64_MIN, upper_exclusive |-> None]},
     topology |-> {}, exact_counts |-> NoCounts, pruned_matched |-> 0,
     pruned_segments |-> 0, exact_segments |-> 0, summaries_verified |-> FALSE,
     mismatch_witnesses |-> {}, fingerprint_nodes |-> 0, anomalies |-> <<>>,
     found_records |-> 0, found_bytes |-> 0, retained_bytes |-> 0, retention_open |-> TRUE]

SequenceNumbers(records) == {r.segment.segment_sequence : r \in records}

WithoutPendingSequence(pending, sequences) ==
    {item \in pending : item.segment_sequence \notin sequences}

WithoutMismatchWitness(witnesses, sequences) ==
    {w \in witnesses : w.segment.segment_sequence \notin sequences}

\* Both sides have unique non-null keys.
ContractHolds ==
    \A s \in Sides : /\ Summary(s).null_key_count = 0
                     /\ Summary(s).valid_key_count = Summary(s).distinct_key_count

\* The reason code an exception is lowered to.
InterruptionReasonCode ==
    [ComparisonBudgetExceededError |-> "budget_exhausted",
     PostgresReadDeadlineExceededError |-> "budget_exhausted",
     PostgresSourceBudgetExceededError |-> "budget_exhausted",
     PostgresContextLostError |-> "snapshot_lost",
     ComparisonKeyMappingError |-> "lossy_transport",
     UnsupportedComparisonError |-> "unsupported_capability",
     ComparisonProtocolError |-> "protocol_violation",
     PostgresDataValidationError |-> "protocol_violation",
     PostgresQueryError |-> "query_error"]

ASSUME CauseAssumption == None \notin DOMAIN InterruptionReasonCode

PartialTotals(counts, exact_segments, reason) ==
    IF exact_segments > 0 THEN [precision |-> "lower_bound", counts |-> counts]
                          ELSE [precision |-> reason, counts |-> NoCounts]

UnresolvedPending(p) ==
    {item \in p.pending : item.segment_sequence \notin SequenceNumbers(p.topology)}

PartialVerdict_PendingOnly(p, contract_violation) ==
    IF \/ DifferenceCount(p.exact_counts) > 0
       \/ \E item \in UnresolvedPending(p) :
             item.segment_sequence \in SequenceNumbers(p.mismatch_witnesses)
       \/ contract_violation
    THEN "mismatch" ELSE "inconclusive"

\* A partial artifact says "mismatch" once an exact leaf, a fingerprint or the
\* key contract has shown one.
PartialVerdict(p, contract_violation) ==
    IF \/ DifferenceCount(p.exact_counts) > 0
       \/ \E t \in p.topology : Mismatches(t)
       \/ \E item \in UnresolvedPending(p) :
             item.segment_sequence \in SequenceNumbers(p.mismatch_witnesses)
       \/ contract_violation
    THEN "mismatch" ELSE "inconclusive"

Terminal(p, states) == {t \in p.topology : t.state \in states}

PartialComparisonArtifact(p, cause) ==
    LET reason == InterruptionReasonCode[cause]
        pruned == Cardinality(Terminal(p, {"fingerprint_match"}))
        exact == Cardinality(Terminal(p, ExactStates))
        unresolved == UnresolvedPending(p)
    IN  [kind |-> "partial",
         cause |-> cause,
         verdict |-> PartialVerdict(p, cause = "ComparisonKeyMappingError" /\ ~ ContractHolds),
         guarantee |-> "not_established",
         covered_partitions |-> IF unresolved = {} /\ pruned + exact > 0 THEN 1 ELSE 0,
         pruned_segments |-> pruned,
         exact_segments |-> exact,
         unresolved |-> unresolved,
         witnesses |-> {w \in p.mismatch_witnesses : w.segment \in unresolved},
         totals |-> PartialTotals(p.exact_counts, exact, reason),
         found_records |-> p.found_records,
         fingerprint_nodes |-> p.fingerprint_nodes,
         segments |-> p.topology,
         anomalies |-> p.anomalies,
         retained_bytes |-> p.retained_bytes]

CompletedTotals(p) == [p.exact_counts EXCEPT !["matched"] = @ + p.pruned_matched]

CompletedGuarantee_OfTheLeaves(p) == IF p.exact_segments > 0 THEN "exact" ELSE "fingerprint"

\* A single pruned range makes the whole result one under fingerprints.
CompletedGuarantee(p) == IF p.pruned_segments > 0 THEN "fingerprint" ELSE "exact"

CompletedComparisonArtifact(p) ==
    LET guarantee == CompletedGuarantee(p)
    IN  [kind |-> "completed",
         cause |-> None,
         verdict |-> IF DifferenceCount(CompletedTotals(p)) = 0 THEN "match" ELSE "mismatch",
         guarantee |-> guarantee,
         covered_partitions |-> 1,
         pruned_segments |-> p.pruned_segments,
         exact_segments |-> p.exact_segments,
         unresolved |-> {},
         witnesses |-> {},
         totals |-> [precision |-> IF guarantee = "exact" THEN "exact"
                                   ELSE "inferred_under_fingerprint",
                     counts |-> CompletedTotals(p)],
         found_records |-> p.found_records,
         fingerprint_nodes |-> p.fingerprint_nodes,
         segments |-> p.topology,
         anomalies |-> p.anomalies,
         retained_bytes |-> p.retained_bytes]

\* Null or duplicate keys: a completed mismatch without row totals.
CompletedStructuralArtifact(p) ==
    [kind |-> "structural", cause |-> None, verdict |-> "mismatch", guarantee |-> "structural",
     covered_partitions |-> 1, pruned_segments |-> 0, exact_segments |-> 1, unresolved |-> {},
     witnesses |-> {},
     totals |-> [precision |-> "contract_violation", counts |-> NoCounts],
     found_records |-> 0, fingerprint_nodes |-> p.fingerprint_nodes,
     segments |-> {}, anomalies |-> <<>>, retained_bytes |-> 0]

PartialFromCompleted_KeepsPrunedRows(a, reason) ==
    [a EXCEPT !.kind = "demoted",
              !.verdict = IF @ = "mismatch" THEN @ ELSE "inconclusive",
              !.guarantee = "not_established",
              !.totals = IF a.kind = "structural" THEN @
                         ELSE PartialTotals(a.totals.counts, a.exact_segments, reason)]

\* A completed artifact whose read context was lost while it was closed.
PartialFromCompleted(a, reason) ==
    LET exact == {t \in a.segments : t.state \in ExactStates}
        exact_reference_rows == RowCount("reference", exact)
        counts == [a.totals.counts EXCEPT
                    !["matched"] = exact_reference_rows - a.totals.counts["missing"]
                                                        - a.totals.counts["modified"]]
    IN  [a EXCEPT !.kind = "demoted",
                  !.verdict = IF @ = "mismatch" THEN @ ELSE "inconclusive",
                  !.guarantee = "not_established",
                  !.totals = IF a.kind = "structural" THEN @
                             ELSE PartialTotals(counts, a.exact_segments, reason)]

-----------------------------------------------------------------------------
(* The comparison *)

Init ==
    /\ input \in Inputs
    /\ ledger = input.charged
    /\ pc = "start"
    /\ side = "reference"
    /\ level = {}
    /\ nodes = {}
    /\ progress = InitialProgress
    /\ artifact = None

\* An exception: the progress yielded last becomes the partial artifact.
Raise(cause) ==
    /\ pc' = "done"
    /\ artifact' = PartialComparisonArtifact(progress, cause)
    /\ UNCHANGED <<input, side, level, nodes, progress>>

\* A step whose self-check fails raises instead of yielding.
Yield(check, next_pc, next_progress) ==
    /\ pc' = IF check THEN next_pc ELSE "done"
    /\ progress' = IF check THEN next_progress ELSE progress
    /\ artifact' = IF check THEN None
                   ELSE PartialComparisonArtifact(progress, "ComparisonProtocolError")

\* The run deadline has passed, or result bytes or coordinator memory do not
\* fit: every step begins with one of these tests.
BudgetRunsOut ==
    /\ pc # "done"
    /\ Raise("ComparisonBudgetExceededError")
    /\ UNCHANGED ledger

\* _validate_inputs rejects the adapters, the key or the schema.
RejectInputs ==
    /\ pc = "start"
    /\ \E cause \in {"UnsupportedComparisonError", "ComparisonProtocolError"} : Raise(cause)
    /\ UNCHANGED ledger

SummariesFit == HasCapacity(4, [s \in Sides |-> relation[s].physical_scans])

\* The capacity for both summary reads is there.
PlanSummaries ==
    /\ pc = "start"
    /\ SummariesFit
    /\ pc' = "read_summaries"
    /\ UNCHANGED <<input, ledger, side, level, nodes, progress, artifact>>

RefuseSummaries ==
    /\ pc = "start"
    /\ ~ SummariesFit
    /\ Raise("ComparisonBudgetExceededError")
    /\ UNCHANGED ledger

\* The reference side of any phase is read first.
ReadReference ==
    /\ pc \in {"read_summaries", "read_fingerprints", "read_exact"}
    /\ side = "reference"
    /\ LedgerAccepts(side, ReadScans(side), ReadRecords(side))
    /\ ledger' = Charge(side, 2, ReadScans(side), 1 + ReadRecords(side))
    /\ side' = "target"
    /\ UNCHANGED <<input, pc, level, nodes, progress, artifact>>

\* The target side of a phase, which ends it.
ReadTarget(phase) ==
    /\ pc = phase
    /\ side = "target"
    /\ LedgerAccepts(side, ReadScans(side), ReadRecords(side))
    /\ ledger' = Charge(side, 2, ReadScans(side), 1 + ReadRecords(side))
    /\ side' = "reference"

\* A read is cut short by its database, its deadline or the ledger.
ReadFails ==
    /\ pc \in {"read_summaries", "read_fingerprints", "read_exact"}
    /\ ledger' \in PartialCharges(side, ReadScans(side), ReadRecords(side))
    /\ \E cause \in {"PostgresQueryError", "PostgresContextLostError",
                     "PostgresReadDeadlineExceededError", "PostgresDataValidationError"}
                    \cup (IF LedgerAccepts(side, ReadScans(side), ReadRecords(side))
                          THEN {} ELSE {"PostgresSourceBudgetExceededError"}) : Raise(cause)

ReadTargetSummary ==
    /\ ReadTarget("read_summaries")
    /\ progress' = [progress EXCEPT !.pending = {RootSegment}, !.summaries_verified = TRUE]
    /\ pc' = "contract"
    /\ UNCHANGED <<input, level, nodes, artifact>>

InvalidKeys == \E s \in Sides : Summary(s).invalid_key_count > 0

RejectKeyMapping ==
    /\ pc = "contract"
    /\ InvalidKeys
    /\ Raise("ComparisonKeyMappingError")
    /\ UNCHANGED ledger

CompleteStructural ==
    /\ pc = "contract"
    /\ ~ InvalidKeys
    /\ ~ ContractHolds
    /\ pc' = "done"
    /\ artifact' = CompletedStructuralArtifact(progress)
    /\ UNCHANGED <<input, ledger, side, level, nodes, progress>>

Supported == ~ input.exact_required /\ \A s \in Sides : relation[s].usable_access_path

RejectUnsupported ==
    /\ pc = "contract"
    /\ ~ InvalidKeys
    /\ ContractHolds
    /\ ~ Supported
    /\ Raise("UnsupportedComparisonError")
    /\ UNCHANGED ledger

EnterLoop ==
    /\ pc = "contract"
    /\ ~ InvalidKeys
    /\ ContractHolds
    /\ Supported
    /\ pc' = "plan"
    /\ level' = progress.pending
    /\ UNCHANGED <<input, ledger, side, nodes, progress, artifact>>

\* The next level fits the node budget and the remaining source work.
LevelFits ==
    /\ progress.fingerprint_nodes + Cardinality(level) <= budgets.max_fingerprint_nodes
    /\ HasCapacity(2 * Cardinality(level) + 2,
                   [s \in Sides |-> Cardinality(level) * relation[s].physical_scans])

PlanFingerprintLevel ==
    /\ pc = "plan"
    /\ LevelFits
    /\ pc' = "read_fingerprints"
    /\ UNCHANGED <<input, ledger, side, level, nodes, progress, artifact>>

RefuseFingerprintLevel ==
    /\ pc = "plan"
    /\ ~ LevelFits
    /\ Raise("ComparisonBudgetExceededError")
    /\ UNCHANGED ledger

ReadTargetFingerprints ==
    /\ ReadTarget("read_fingerprints")
    /\ progress' = [progress EXCEPT !.fingerprint_nodes = @ + Cardinality(level)]
    /\ pc' = "match"
    /\ UNCHANGED <<input, level, nodes, artifact>>

\* The root's counts repeat the summaries'.
RootCountsAgree(level_nodes) ==
    \A n \in level_nodes : n.segment.segment_sequence = 0 =>
        \A s \in Sides : n.fingerprint[s].count = Summary(s).row_count

\* Fingerprints are paired and the unequal pairs recorded as witnesses.
MatchLevel ==
    /\ pc = "match"
    /\ LET level_nodes == {FingerprintNode(g) : g \in level}
           unequal == {n \in level_nodes : Mismatches(n)}
       IN  /\ nodes' = level_nodes
           /\ Yield(RootCountsAgree(level_nodes), "prune",
                    [progress EXCEPT !.mismatch_witnesses =
                        WithoutMismatchWitness(@, SequenceNumbers(unequal)) \cup unequal])
    /\ UNCHANGED <<input, ledger, side, level>>

StillPending(level_nodes) == {n \in level_nodes : n.segment \in progress.pending}

Prune_CountsRanges(p, batch) ==
    [p EXCEPT !.topology = @ \cup {SegmentRecord(n, "fingerprint_match") : n \in batch},
              !.pending = WithoutPendingSequence(@, SequenceNumbers(batch)),
              !.pruned_matched = @ + Cardinality(batch),
              !.pruned_segments = @ + Cardinality(batch)]

Prune(p, batch) ==
    [p EXCEPT !.topology = @ \cup {SegmentRecord(n, "fingerprint_match") : n \in batch},
              !.pending = WithoutPendingSequence(@, SequenceNumbers(batch)),
              !.pruned_matched = @ + RowCount("reference", batch),
              !.pruned_segments = @ + Cardinality(batch)]

\* The equal ranges up to the next deadline check leave the frontier.
PruneMatching ==
    /\ pc = "prune"
    /\ StillPending(Matching) # {}
    /\ LET rest == StillPending(Matching)
       IN  progress' = Prune(progress, {n \in rest : Rank(n, rest) < DeadlineCheckRecords})
    /\ UNCHANGED <<input, ledger, pc, side, level, nodes, artifact>>

\* Nothing in the level differs.
LevelMatches ==
    /\ pc = "prune"
    /\ StillPending(Matching) = {}
    /\ Mismatching = {}
    /\ pc' = "finish"
    /\ level' = {}
    /\ UNCHANGED <<input, ledger, side, nodes, progress, artifact>>

\* The whole mismatching frontier fits and is fetched exactly.
AdmitExactFrontier ==
    /\ pc = "prune"
    /\ StillPending(Matching) = {}
    /\ Mismatching # {}
    /\ ExactFrontierFits
    /\ pc' = "read_exact"
    /\ UNCHANGED <<input, ledger, side, level, nodes, progress, artifact>>

ReadTargetExact ==
    /\ ReadTarget("read_exact")
    /\ pc' = "classify"
    /\ UNCHANGED <<input, level, nodes, progress, artifact>>

\* The halves of a mismatching range, numbered from next_sequence on.
Halves(node) ==
    SplitSegment(node.segment, progress.fingerprint_nodes + 2 * Rank(node, Mismatching))

\* Every range has two halves, within the depth and node budgets.
CanSplit ==
    /\ \A n \in Mismatching :
          Halves(n) # None /\ \A i \in 1 .. 2 : Halves(n)[i].depth <= budgets.max_depth
    /\ progress.fingerprint_nodes + 2 * Cardinality(Mismatching) <= budgets.max_fingerprint_nodes

RefuseSplit_IgnoresSingleKeys ==
    /\ pc = "prune"
    /\ StillPending(Matching) = {}
    /\ Mismatching # {}
    /\ \A n \in Mismatching : Halves(n) # None
    /\ ~ CanSplit
    /\ Raise("ComparisonBudgetExceededError")
    /\ UNCHANGED ledger

\* The frontier does not fit and cannot be split.
RefuseSplit ==
    /\ pc = "prune"
    /\ StillPending(Matching) = {}
    /\ Mismatching # {}
    /\ ~ CanSplit
    /\ Raise("ComparisonBudgetExceededError")
    /\ UNCHANGED ledger

\* The mismatching frontier does not fit (its bytes or its memory may not even
\* where its records do) and every range of it is halved.
SplitMismatching ==
    /\ pc = "prune"
    /\ StillPending(Matching) = {}
    /\ Mismatching # {}
    /\ CanSplit
    /\ level' = {Halves(n)[i] : n \in Mismatching, i \in 1 .. 2}
    /\ progress' =
         [progress EXCEPT
             !.topology = @ \cup {SegmentRecord(n, "split") : n \in Mismatching},
             !.pending = level',
             !.mismatch_witnesses = WithoutMismatchWitness(@, SequenceNumbers(Mismatching))]
    /\ pc' = "plan"
    /\ UNCHANGED <<input, ledger, side, nodes, artifact>>

ExactDifferences(segment) ==
    ClassifiedRows(ExactRows("reference", segment), ExactRows("target", segment))

\* The classifications of a leaf add up to both fingerprint counts.
LeafCloses(node, counts) ==
    /\ counts["matched"] + counts["missing"] + counts["modified"]
          = node.fingerprint["reference"].count
    /\ counts["matched"] + counts["extra"] + counts["modified"]
          = node.fingerprint["target"].count
    /\ DifferenceCount(counts) = 0 => Matches(node)

\* One fetched range is classified row by row and leaves the frontier.
ClassifyExactLeaf ==
    /\ pc = "classify"
    /\ \E node \in StillPending(Mismatching) :
          /\ Rank(node, StillPending(Mismatching)) = 0
          /\ \E classified \in {ExactDifferences(node.segment)} :
                LET sequence == node.segment.segment_sequence
                    state == IF DifferenceCount(classified.counts) = 0 THEN "exact_match"
                                                                       ELSE "exact_mismatch"
                    leaf == [progress EXCEPT
                                !.exact_counts = AddExactCounts(@, classified.counts),
                                !.exact_segments = @ + 1,
                                !.topology = @ \cup {SegmentRecord(node, state)},
                                !.pending = WithoutPendingSequence(@, {sequence}),
                                !.mismatch_witnesses = WithoutMismatchWitness(@, {sequence})]
                IN  Yield(LeafCloses(node, classified.counts), "classify",
                          RetainExactDifferences(leaf, classified.differences, sequence))
    /\ UNCHANGED <<input, ledger, side, level, nodes>>

\* Every fetched range is classified: the loop goes on with what is pending.
EndExactFrontier ==
    /\ pc = "classify"
    /\ StillPending(Mismatching) = {}
    /\ level' = progress.pending
    /\ pc' = IF progress.pending = {} THEN "finish" ELSE "plan"
    /\ UNCHANGED <<input, ledger, side, nodes, progress, artifact>>

TopologyIsContiguous(p) ==
    SequenceNumbers(p.topology) = 0 .. Cardinality(p.topology) - 1

\* The frontier is empty: the topology and the evidence are checked and the
\* completed artifact is returned.
Finish ==
    /\ pc = "finish"
    /\ pc' = "done"
    /\ artifact' =
         IF /\ TopologyIsContiguous(progress)
            /\ progress.found_records = DifferenceCount(CompletedTotals(progress))
         THEN CompletedComparisonArtifact(progress)
         ELSE PartialComparisonArtifact(progress, "ComparisonProtocolError")
    /\ UNCHANGED <<input, ledger, side, level, nodes, progress>>

\* The caller turns a completed artifact into a partial one when a read
\* context turns out lost on closing.
DemoteCompleted ==
    /\ pc = "done"
    /\ artifact.kind \in {"completed", "structural"}
    /\ artifact' = PartialFromCompleted(artifact, "snapshot_lost")
    /\ UNCHANGED <<input, ledger, pc, side, level, nodes, progress>>

\* The generator's steps, the deadline apart.
Work ==
    \/ RejectInputs
    \/ PlanSummaries
    \/ RefuseSummaries
    \/ ReadReference
    \/ ReadTargetSummary
    \/ RejectKeyMapping
    \/ CompleteStructural
    \/ RejectUnsupported
    \/ EnterLoop
    \/ PlanFingerprintLevel
    \/ RefuseFingerprintLevel
    \/ ReadTargetFingerprints
    \/ MatchLevel
    \/ PruneMatching
    \/ LevelMatches
    \/ AdmitExactFrontier
    \/ ReadTargetExact
    \/ SplitMismatching
    \/ RefuseSplit
    \/ ClassifyExactLeaf
    \/ EndExactFrontier
    \/ Finish

Next ==
    \/ Work
    \/ BudgetRunsOut
    \/ ReadFails
    \/ DemoteCompleted

\* The generator is a single thread that waits for nobody: while it has a
\* step to take it takes it.  No fairness is asked of the deadline, of
\* failures or of the caller.
Spec == Init /\ [][Next]_vars /\ WF_vars(Work)

-----------------------------------------------------------------------------
(* What must hold *)

SegmentType ==
    [segment_sequence : Nat, parent : Nat \cup {None}, depth : Nat,
     lower_inclusive : Key, upper_exclusive : Key \cup {None}]

Leaves == {t.segment : t \in {u \in progress.topology : u.state \in TerminalStates}}

\* Nothing is lost or compared twice: at every yield the resolved ranges and
\* the pending ones together hold every key that has a row exactly once, and
\* no key twice (comparison.py:3582); and however ranges are halved, those at
\* both ends of int64 included, every bound is an int64 or absent (:2488).
FrontierTilesTheKeys ==
    /\ \A k \in Key :
          LET holders == {g \in Leaves \cup UnresolvedPending(progress) : InRange(k, g)}
          IN  /\ Cardinality(holders) <= 1
              /\ (\E s \in Sides : k \in DOMAIN relation[s].rows) => holders # {}
    /\ level \cup progress.pending \cup {n.segment : n \in nodes}
          \cup {u.segment : u \in progress.topology} \subseteq SegmentType

\* The definition the comparison implements: how many keys match, are missing
\* from the target, are extra in it, or carry another row.
ReferenceRows == relation["reference"].rows
TargetRows == relation["target"].rows
CommonKeys == DOMAIN ReferenceRows \cap DOMAIN TargetRows

TrueKind(k) ==
    CASE k \notin DOMAIN TargetRows -> "missing"
      [] k \notin DOMAIN ReferenceRows -> "extra"
      [] OTHER -> IF ReferenceRows[k] = TargetRows[k] THEN "matched" ELSE "modified"

AllKeys == DOMAIN ReferenceRows \cup DOMAIN TargetRows

TrueCounts ==
    [kind \in Kinds \cup {"matched"} |-> Cardinality({k \in AllKeys : TrueKind(k) = kind})]

\* No range of keys hides a difference behind equal fingerprints.
NoCollision ==
    \A lower \in Key, upper \in Key \cup {None} :
        LET g == [lower_inclusive |-> lower, upper_exclusive |-> upper]
        IN  Fingerprint("reference", g) = Fingerprint("target", g) =>
                \A k \in KeysIn("reference", g) \cup KeysIn("target", g) : TrueKind(k) = "matched"

\* When no range collides, a completed comparison reports exactly the row
\* differences, however it was subdivided.
CompletedTotalsAreTrue ==
    artifact # None /\ artifact.kind = "completed" /\ NoCollision =>
        /\ artifact.totals.counts = TrueCounts
        /\ artifact.verdict = "match" <=> ReferenceRows = TargetRows

\* Whatever the hash does, a result that claims the exact guarantee is exact,
\* and a fingerprint collision can only hide differences, never invent one.
ClaimedGuaranteeHolds ==
    artifact # None /\ artifact.kind = "completed" =>
        /\ artifact.guarantee = "exact" => artifact.totals.counts = TrueCounts
        /\ \A kind \in Kinds : artifact.totals.counts[kind] <= TrueCounts[kind]

\* Fingerprints are sums, so a mismatch of the whole relations survives every
\* split: the verdict is decided by the two root fingerprints, even when
\* smaller ranges collide.
RootDecidesTheVerdict ==
    artifact # None /\ artifact.kind = "completed" =>
        (artifact.verdict = "match" <=>
            Fingerprint("reference", RootSegment) = Fingerprint("target", RootSegment))

\* A collision of fingerprints hides differences but forges no guarantee, no
\* difference and no verdict (comparison.py:1494).
CollisionsForgeNothing ==
    /\ ClaimedGuaranteeHolds
    /\ RootDecidesTheVerdict

\* A partial artifact never claims more than is true: its totals are the true
\* classification of the keys in its exact leaves, rows matched by fingerprint
\* left out, and it says mismatch only of relations that differ or break the
\* key contract.  The same holds of a completed artifact that was demoted.
PartialIsSound ==
    artifact # None /\ artifact.kind \in {"partial", "demoted"} =>
        /\ artifact.verdict # "match"
        /\ \A kind \in Kinds \cup {"matched"} :
              artifact.totals.counts[kind] =
                Cardinality({k \in AllKeys :
                    /\ TrueKind(k) = kind
                    /\ \E t \in artifact.segments :
                          t.state \in ExactStates /\ InRange(k, t.segment)})
        /\ artifact.verdict = "mismatch" =>
              ReferenceRows # TargetRows \/ ~ ContractHolds

\* What is reported is true, wherever the comparison stopped (comparison.py:1555
\* for a partial artifact, :1667 for a demoted one).
ReportedTotalsAreTrue ==
    /\ CompletedTotalsAreTrue
    /\ PartialIsSound

\* A difference that was seen is reported: once the yielded progress shows a
\* mismatch, no later progress forgets it and no artifact is without it.
ShownMismatch == PartialVerdict(progress, FALSE) = "mismatch"

MismatchIsNotForgotten ==
    [][ShownMismatch => /\ ShownMismatch'
                        /\ artifact' # None => artifact'.verdict = "mismatch"]_vars

\* The differences in the order the exact leaves are classified.
FoundKeys ==
    {k \in AllKeys : /\ TrueKind(k) # "matched"
                     /\ \E t \in Terminal(progress, ExactStates) : InRange(k, t.segment)}

\* The retained evidence is the first differences in key order, without a
\* gap, truly classified, and found_records counts those left out too.
EvidenceIsAPrefix ==
    LET found == Ascending(FoundKeys)
    IN  /\ progress.found_records = Len(found)
        /\ Len(progress.anomalies) <= Len(found)
        /\ \A i \in DOMAIN progress.anomalies :
              /\ progress.anomalies[i].sequence = i - 1
              /\ progress.anomalies[i].key = found[i]
              /\ progress.anomalies[i].kind = TrueKind(found[i])

\* The work stays within every budget, failed reads and earlier attempts
\* included, and a reservation covers both reads it is made for: the ledger
\* refuses none that was admitted.
BudgetsAreRespected ==
    /\ ledger.queries <= budgets.max_queries
    /\ ledger.fetched_records <= budgets.max_fetched_records
    /\ \A s \in Sides : ledger.full_scans[s] <= budgets.max_full_scans_per_side
    /\ progress.fingerprint_nodes <= budgets.max_fingerprint_nodes
    /\ Len(progress.anomalies) <= budgets.max_evidence_rows
    /\ progress.retained_bytes <= budgets.max_evidence_bytes
    /\ \A t \in progress.topology : t.segment.depth <= budgets.max_depth
    /\ pc \in {"read_summaries", "read_fingerprints", "read_exact"} =>
          LedgerAccepts(side, ReadScans(side), ReadRecords(side))

\* What the constructor of an artifact validates.
ArtifactIsWellFormed(a) ==
    /\ \A t \in a.segments :
          /\ t.state \in {"fingerprint_match", "exact_match"} <=> Matches(t)
          /\ t.segment.parent = None <=> t.segment.depth = 0
          /\ t.segment.parent # None => t.segment.parent < t.segment.segment_sequence
          /\ t.segment.lower_inclusive < MathematicalUpper(t.segment)
    /\ SequenceNumbers(a.segments) \cap {g.segment_sequence : g \in a.unresolved} = {}
    /\ Cardinality(SequenceNumbers(a.segments)) = Cardinality(a.segments)
    /\ a.covered_partitions = 1 => a.unresolved = {}
    /\ \A i \in DOMAIN a.anomalies :
          \E t \in a.segments :
             /\ t.segment.segment_sequence = a.anomalies[i].segment_sequence
             /\ t.state = "exact_mismatch"
    /\ a.kind = "completed" => a.fingerprint_nodes = Cardinality(a.segments)

\* The comparison's own assertions never fire on relations that stand still:
\* its cross-checks (root counts, leaf closure, contiguous topology, evidence
\* accounting) hold, and every artifact passes its constructor's validation,
\* wherever the comparison was interrupted.
SelfChecksNeverFire ==
    artifact # None =>
        /\ progress.summaries_verified => artifact.cause # "ComparisonProtocolError"
        /\ ArtifactIsWellFormed(artifact)

\* Work that was admitted runs into neither a budget (comparison.py:4247) nor
\* an assertion of the comparison itself (:3582).
AdmittedWorkIsCovered ==
    /\ BudgetsAreRespected
    /\ SelfChecksNeverFire

\* The comparison ends without help from the deadline.
ComparisonEnds == <>(pc = "done")

=============================================================================
