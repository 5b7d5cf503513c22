----------------------- MODULE MCIntegerKeyComparison -----------------------
(* Small instances of IntegerKeyComparison and of what the store demands. *)
EXTENDS ComparisonStorage

MCMinimum == -2
MCValues == 1 .. 2

\* Sums of these weights are unique to a set of rows with distinct keys.
UniqueHash ==
    [kv \in (-2 .. 1) \X MCValues |-> kv[2] * (3 ^ (kv[1] + 2))]

\* Sums of these collide whenever two ranges hold the same values.
CollidingHash == [kv \in (-2 .. 1) \X MCValues |-> kv[2]]

MCRecordBytes == [missing |-> 1, extra |-> 1, modified |-> 2]

Tables(keys) == UNION {[domain -> MCValues] : domain \in SUBSET keys}

Intact(rows) ==
    [rows |-> rows, null_keys |-> 0, invalid_keys |-> 0, duplicate_keys |-> 0,
     usable_access_path |-> TRUE, physical_scans |-> 1]

Ample ==
    [max_queries |-> 40, max_fetched_records |-> 80, max_full_scans_per_side |-> 20,
     max_depth |-> 4, max_fingerprint_nodes |-> 12, max_evidence_rows |-> 9,
     max_evidence_bytes |-> 9]

Fresh == [queries |-> 0, fetched_records |-> 0, full_scans |-> [s \in Sides |-> 0]]
Used == [queries |-> 3, fetched_records |-> 5, full_scans |-> [s \in Sides |-> 1]]

\* Each budget in turn at a value where it decides, with or without work
\* charged by an earlier attempt.
Limits ==
    {<<Ample, Fresh>>,
     <<[Ample EXCEPT !.max_fetched_records = 22, !.max_evidence_rows = 1], Used>>,
     <<[Ample EXCEPT !.max_queries = 19, !.max_evidence_bytes = 2], Fresh>>,
     <<[Ample EXCEPT !.max_depth = 1], Used>>,
     <<[Ample EXCEPT !.max_fingerprint_nodes = 6], Fresh>>,
     <<[Ample EXCEPT !.max_full_scans_per_side = 4], Used>>}

Comparison(reference, target, b, charged) ==
    [relation |-> [s \in Sides |-> IF s = "reference" THEN reference ELSE target],
     exact_required |-> FALSE, budgets |-> b, charged |-> charged, hash |-> UniqueHash]

Colliding(in) == [in EXCEPT !.hash = CollidingHash]

FullTable == [k \in -2 .. 1 |-> IF k = 0 THEN 2 ELSE 1]
SparseTable == [k \in {-2, 1} |-> 1]
NoRows == [k \in {} |-> 1]

SoundInputs ==
    {Comparison(Intact(r), Intact(t), l[1], l[2]) :
        r \in {FullTable, SparseTable, NoRows}, t \in Tables(-2 .. 1), l \in Limits}

\* Relations and policies that end the comparison after the summaries.
Broken(rows) ==
    {[Intact(rows) EXCEPT !.null_keys = 1], [Intact(rows) EXCEPT !.duplicate_keys = 1],
     [Intact(rows) EXCEPT !.invalid_keys = 1], [Intact(rows) EXCEPT !.usable_access_path = FALSE],
     [Intact(rows) EXCEPT !.null_keys = 1, !.invalid_keys = 1]}

BrokenInputs ==
    {Comparison(r, Intact(FullTable), Ample, Fresh) :
        r \in Broken(FullTable) \cup Broken(SparseTable)}
        \cup {Comparison(Intact(SparseTable), t, Ample, Used) : t \in Broken(FullTable)}
        \cup {[Comparison(Intact(FullTable), Intact(SparseTable), Ample, Fresh)
                  EXCEPT !.exact_required = TRUE],
              Comparison(Intact(FullTable), Intact(FullTable),
                         [Ample EXCEPT !.max_fetched_records = 3], Fresh)}

\* Relations of at most two rows, with budgets that end the comparison at
\* every place where one can.
SmallTables == Tables({-2, 1})
ScarceLimits ==
    {<<[Ample EXCEPT !.max_fetched_records = 10], Fresh>>,
     <<[Ample EXCEPT !.max_fingerprint_nodes = 2], Fresh>>}
ScarceInputs ==
    {Comparison(Intact(r), Intact(t), l[1], l[2]) :
        r \in SmallTables, t \in SmallTables, l \in ScarceLimits}

\* A relation of two physical members, for instance a table with a partition.
Union(r) == [r EXCEPT !.physical_scans = 2]
UnionInputs ==
    {Comparison(Union(r), Intact(FullTable), Ample, Fresh) : r \in Broken(FullTable)}
        \cup {Comparison(Union(Intact(SparseTable)), Union(Intact(t)), b, Used) :
                t \in {FullTable, SparseTable},
                b \in {Ample, [Ample EXCEPT !.max_full_scans_per_side = 6]}}

CollidingInputs == {Colliding(in) : in \in {s \in SoundInputs : s.budgets = Ample}}

MCInputs == SoundInputs \cup BrokenInputs \cup UnionInputs \cup ScarceInputs \cup CollidingInputs

=============================================================================
