----------------------------- MODULE RangeReads -----------------------------
(***************************************************************************)
(* What the five engines answer to the three comparison reads (integer-key *)
(* summary, range fingerprints, exact range rows) and how the answers are  *)
(* decoded.  A behaviour is one read: the compiled statement runs over a   *)
(* relation, its reply may be disturbed on the way, and the decoder of the *)
(* engine accepts or refuses it.                                           *)
(*                                                                         *)
(* The relation is a sequence of rows [key, body, scope, home].  key is an *)
(* integer, NullKey, or InvalidKey (not a logical INT64); body is "small", *)
(* "wide" (its envelope fits the configured limit and not SQL Server's     *)
(* bounded varchar), "oversized" or "invalid"; scope tells whether the     *)
(* scope predicate selects the row; home is the member relation of a       *)
(* PostgreSQL union or the segment of a Greenplum cluster that stores it.  *)
(* A hash sum is the number of times each row was added to it.             *)
(***************************************************************************)
EXTENDS Integers, Sequences, FiniteSets, FiniteSetsExt, SequencesExt

CONSTANTS
    Keys,        \* valid key values
    Homes,       \* member relations, or segments of the captured topology
    MaxRows,     \* bound: rows of the relation
    RangeLists,  \* the requests: sequences of [id, lower, upper], 0 for no upper bound
    RecordLimits \* values of max_records

NullKey == 0
InvalidKey == -1
Engines == {"mssql", "postgres", "clickhouse", "greengage", "greenplum"}
Operations == {"summary", "fingerprints", "rows"}

\* _validate_integer_ranges / _validate_ranges of the five modules: unique ids, ordered, disjoint,
\* an unbounded range only at the end; and __post_init__ of their requests: no range is empty.
ValidRanges(rs) ==
    /\ rs \in Seq([id : STRING, lower : Int, upper : Nat]) /\ rs # <<>>
    /\ \A i \in DOMAIN rs : rs[i].upper # 0 => rs[i].lower < rs[i].upper
    /\ \A i, j \in DOMAIN rs : i # j => rs[i].id # rs[j].id
    /\ \A i \in 2 .. Len(rs) : rs[i - 1].upper # 0 /\ rs[i].lower >= rs[i - 1].upper

RangeReadsAssumption ==
    /\ Keys \subseteq Nat \ {0} /\ IsFiniteSet(Homes) /\ MaxRows \in Nat
    /\ \A rs \in RangeLists : ValidRanges(rs)
    /\ RecordLimits \subseteq Nat \ {0}

Rows ==
    [key : Keys \cup {NullKey, InvalidKey}, body : {"small", "wide", "oversized", "invalid"},
     scope : {TRUE}, home : Homes]
    \cup [key : Keys, body : {"small"}, scope : {FALSE}, home : Homes]

VARIABLES
    engine, table, ranges, operation, limit,  \* the read
    seeds,      \* gp_id rows each segment answers with while the query runs
    reply,      \* the result set
    disturbed,  \* whether the reply is not what the statement computes
    result      \* what the decoder returned

vars == <<engine, table, ranges, operation, limit, seeds, reply, disturbed, result>>

Unasked == [kind |-> "unasked", value |-> <<>>]
Pending == [kind |-> "pending", value |-> <<>>]
Accepted(value) == [kind |-> "accepted", value |-> value]
Refused(kind) == [kind |-> kind, value |-> <<>>]

\* A segment may have gone, or answer twice, since the topology was captured.
SeedsNow == {[h \in Homes |-> 1]}
    \cup {[[h \in Homes |-> 1] EXCEPT ![d] = n] : d \in Homes, n \in {0, 2}}

Init ==
    /\ engine \in Engines /\ operation \in Operations
    /\ table \in UNION {[1 .. n -> Rows] : n \in 0 .. MaxRows}
    /\ ranges \in RangeLists
    /\ limit \in IF operation = "rows" THEN RecordLimits ELSE {Max(RecordLimits)}
    /\ seeds \in IF engine \in {"greengage", "greenplum"} /\ operation = "fingerprints"
                 THEN SeedsNow ELSE {[h \in Homes |-> 1]}
    /\ reply = <<>> /\ disturbed = FALSE /\ result = Unasked

-----------------------------------------------------------------------------
(* Rows, as the compiled statements classify them.                         *)

\* _integer_key of each lowering: IS NOT NULL and the key payload is valid.
ValidKey(n) == table[n].key \notin {NullKey, InvalidKey}

\* _range_condition, _range_projection, and the join condition of the range sources.
InRange(k, r) == k >= r.lower /\ (r.upper = 0 \/ k < r.upper)

\* invalid_row: some field has no canonical payload.  oversized_row: the row is valid and its
\* envelope exceeds the limit; SQL Server's limit is also that of a bounded varchar.
InvalidRow(n) == table[n].body = "invalid"
OversizedRow(n) ==
    \/ table[n].body = "oversized"
    \/ engine = "mssql" /\ table[n].body = "wide"
AcceptedRow(n) == ~InvalidRow(n) /\ ~OversizedRow(n)

\* The rows of a join of range i with the relation, restricted to the rows of one home or of all.
Joined(i, homes) ==
    {n \in DOMAIN table : /\ table[n].scope /\ ValidKey(n) /\ InRange(table[n].key, ranges[i])
                          /\ table[n].home \in homes}

\* _range_classifier of ClickHouse: multiIf takes the first range that holds the key, or Len + 1.
RangeClassifier_ClosedUpper(n) ==
    Min({Len(ranges) + 1} \cup
        {i \in DOMAIN ranges : /\ table[n].key >= ranges[i].lower
                               /\ ranges[i].upper = 0 \/ table[n].key <= ranges[i].upper})
RangeClassifier(n) ==
    Min({Len(ranges) + 1} \cup {i \in DOMAIN ranges : InRange(table[n].key, ranges[i])})

\* The ClickHouse source: WHERE scope AND valid key AND dfe_ordinal < number of ranges.
Classified(i) ==
    {n \in DOMAIN table : table[n].scope /\ ValidKey(n) /\ RangeClassifier(n) = i}

-----------------------------------------------------------------------------
(* Integer-key summary.                                                    *)

\* A LEFT JOIN of one seed with the scoped rows of the given homes; seed 0 is the unmatched row.
SeedJoin(homes) ==
    LET matched == {n \in DOMAIN table : table[n].scope /\ table[n].home \in homes}
    IN IF matched = {} THEN {0} ELSE matched

Bound(op(_), ks) == IF ks = {} THEN NullKey ELSE op(ks)

\* The aggregates over the joined rows, has_data separating the seed from a row whose key is NULL.
SummaryOf(joined) ==
    LET data == joined \ {0}
        valid == {n \in data : ValidKey(n)}
        keys == {table[n].key : n \in valid}
    IN [origin |-> "protected", rows |-> Cardinality(data),
        null |-> Cardinality({n \in data : table[n].key = NullKey}),
        invalid |-> Cardinality({n \in data : table[n].key = InvalidKey}),
        valid |-> Cardinality(valid), distinct |-> Cardinality(keys),
        minimum |-> Bound(Min, keys), maximum |-> Bound(Max, keys)]

\* _build_mssql_integer_key_summary_query: the origin LEFT JOINs the whole relation.
MssqlSummary == SummaryOf(SeedJoin(Homes))

\* _build_postgres_integer_key_summary_query: one seed per member, all members UNIONed.
PostgresSummary == SummaryOf(UNION {SeedJoin({h}) : h \in Homes})

\* build_clickhouse_integer_key_summary_query and build_greengage_integer_key_summary_query have
\* no seed; build_original_greenplum_integer_key_summary_query joins a witness.
ClickHouseSummary == SummaryOf({n \in DOMAIN table : table[n].scope})
GreengageSummary == SummaryOf({n \in DOMAIN table : table[n].scope})
OriginalGreenplumSummary == SummaryOf(SeedJoin(Homes))

SummaryQuery ==
    CASE engine = "mssql" -> <<MssqlSummary>>
      [] engine = "postgres" -> <<PostgresSummary>>
      [] engine = "clickhouse" -> <<ClickHouseSummary>>
      [] engine = "greengage" -> <<GreengageSummary>>
      [] engine = "greenplum" -> <<OriginalGreenplumSummary>>

-----------------------------------------------------------------------------
(* Range fingerprints.                                                     *)

\* One aggregate over joined rows <<n, branch>>: row n comes once from each branch that joins it.
Aggregate(i, joined) ==
    LET times(n) == Cardinality({o \in joined : o[1] = n})
        total(S) == Cardinality({o \in joined : o[1] \in S})
        rows == DOMAIN table
    IN [origin |-> "protected", segment |-> ranges[i].id,
        count |-> total({n \in rows : AcceptedRow(n)}),
        sum |-> [n \in rows |-> IF AcceptedRow(n) THEN times(n) ELSE 0],
        invalid |-> total({n \in rows : InvalidRow(n)}),
        oversized |-> total({n \in rows : OversizedRow(n)}),
        topology |-> Homes, observed |-> {}]

\* A single branch, and one branch for each of the homes.
Single(S) == S \X {1}
Branches(i, homes) == {o \in (DOMAIN table) \X homes : o[1] \in Joined(i, {o[2]})}

\* _build_mssql_integer_range_fingerprint_query and its staged form: ranges CROSS JOIN origin,
\* LEFT JOIN the relation, GROUP BY ordinal; the unmatched row has no hash and no status.
MssqlFingerprint(i) == Aggregate(i, Single(Joined(i, Homes)))

\* _build_postgres_integer_range_fingerprint_query: a lateral aggregate per member, then their sum.
PostgresFingerprint(i) == Aggregate(i, Branches(i, Homes))

\* build_clickhouse_integer_range_fingerprint_query: rows grouped by classifier, LEFT JOINed to
\* the ranges, NULL aggregates read as zero.
ClickHouseFingerprint(i) == Aggregate(i, Single(Classified(i)))

\* The Greengage and original Greenplum statements: source rows UNION ALL one gp_id row per
\* segment, aggregated per segment, then summed.  A segment is in the topology when it had exactly
\* one seed, and observed when it had data.
SegmentedFingerprint(i) ==
    LET present == {h \in Homes : seeds[h] > 0 \/ Joined(i, {h}) # {}}
    IN [Aggregate(i, Branches(i, present))
        EXCEPT !.topology = {h \in present : seeds[h] = 1},
               !.observed = {h \in present : Joined(i, {h}) # {}}]
GreengageFingerprint(i) == SegmentedFingerprint(i)
OriginalGreenplumFingerprint(i) == SegmentedFingerprint(i)

FingerprintQuery ==
    [i \in DOMAIN ranges |->
        CASE engine = "mssql" -> MssqlFingerprint(i)
          [] engine = "postgres" -> PostgresFingerprint(i)
          [] engine = "clickhouse" -> ClickHouseFingerprint(i)
          [] engine = "greengage" -> GreengageFingerprint(i)
          [] engine = "greenplum" -> OriginalGreenplumFingerprint(i)]

-----------------------------------------------------------------------------
(* Exact range rows.                                                       *)

\* A data row; SQL Server, PostgreSQL and ClickHouse also return the key envelope, Greenplum the
\* key value: both carry the key.
DataRow(i, n) ==
    [origin |-> "protected", data |-> TRUE, segment |-> ranges[i].id, key |-> table[n].key,
     row |-> n, invalid |-> InvalidRow(n), oversized |-> OversizedRow(n)]

\* The row that is returned, all its fields NULL, when no range has data.
FalseWitness ==
    [origin |-> "protected", data |-> FALSE, segment |-> "", key |-> NullKey, row |-> 0,
     invalid |-> FALSE, oversized |-> FALSE]

\* ORDER BY ordinal, key_value; rows with equal keys come in storage order.
Before(a, b) ==
    \/ a[1] < b[1]
    \/ a[1] = b[1] /\ table[a[2]].key < table[b[2]].key
    \/ a[1] = b[1] /\ table[a[2]].key = table[b[2]].key /\ a[2] < b[2]
OrderedRows(source) ==
    LET pairs == UNION {{<<i, n>> : n \in source[i]} : i \in DOMAIN ranges}
        place(j) == CHOOSE p \in pairs : Cardinality({q \in pairs : ~Before(p, q)}) = j
    IN [j \in 1 .. Cardinality(pairs) |-> DataRow(place(j)[1], place(j)[2])]

\* WHERE has_data OR (data_count = 0 AND witness_ordinal = 1)
WithWitness(rows) == IF rows = <<>> THEN <<FalseWitness>> ELSE rows

MssqlRows == WithWitness(OrderedRows([i \in DOMAIN ranges |-> Joined(i, Homes)]))
PostgresRows ==
    WithWitness(OrderedRows([i \in DOMAIN ranges |-> UNION {Joined(i, {h}) : h \in Homes}]))
GreengageRows == WithWitness(OrderedRows([i \in DOMAIN ranges |-> Joined(i, Homes)]))
OriginalGreenplumRows == WithWitness(OrderedRows([i \in DOMAIN ranges |-> Joined(i, Homes)]))

\* build_clickhouse_integer_range_rows_query: no witness, LIMIT max_records + 1.
ClickHouseRows ==
    LET rows == OrderedRows([i \in DOMAIN ranges |-> Classified(i)])
    IN SubSeq(rows, 1, Min({Len(rows), limit + 1}))

RowsQuery ==
    CASE engine = "mssql" -> MssqlRows
      [] engine = "postgres" -> PostgresRows
      [] engine = "clickhouse" -> ClickHouseRows
      [] engine = "greengage" -> GreengageRows
      [] engine = "greenplum" -> OriginalGreenplumRows

-----------------------------------------------------------------------------
Query ==
    /\ result = Unasked /\ result' = Pending
    /\ reply' = CASE operation = "summary" -> SummaryQuery
                  [] operation = "fingerprints" -> FingerprintQuery
                  [] operation = "rows" -> RowsQuery
    /\ UNCHANGED <<engine, table, ranges, operation, limit, seeds, disturbed>>

\* A server, driver or proxy that answers something else: a record is lost, repeated, or moved, or
\* comes from another relation, or is labelled with another segment or key.
Disturb ==
    /\ ~disturbed /\ result = Pending
    /\ \/ \E j \in DOMAIN reply : reply' = RemoveAt(reply, j)
       \/ \E j \in DOMAIN reply : reply' = InsertAt(reply, j, reply[j])
       \/ Len(reply) > 1 /\ reply' = Reverse(reply)
       \/ /\ engine # "clickhouse"
          /\ \E j \in DOMAIN reply : reply' = [reply EXCEPT ![j].origin = "foreign"]
       \/ /\ operation # "summary"
          /\ \E j \in DOMAIN reply, i \in 0 .. Len(ranges) :
                reply' = [reply EXCEPT ![j].segment = IF i = 0 THEN "other" ELSE ranges[i].id]
       \/ /\ operation = "rows"
          /\ \E j \in DOMAIN reply, k \in Keys : reply' = [reply EXCEPT ![j].key = k]
       \/ /\ operation = "summary"
          /\ \E j \in DOMAIN reply : reply' = [reply EXCEPT ![j].valid = @ + 1]
    /\ reply' # reply
    /\ disturbed' = TRUE
    /\ UNCHANGED <<engine, table, ranges, operation, limit, seeds, result>>

-----------------------------------------------------------------------------
(* Decoding.  A refusal is "invalid" (data validation), "limit" (result    *)
(* limit), "metadata" or "lost" (the context is lost); "none" accepts.     *)

\* Where the loops of the decoders stop.
FirstRefusal(refusals) ==
    LET bad == {j \in DOMAIN refusals : refusals[j] # "none"}
    IN IF bad = {} THEN "none" ELSE refusals[Min(bad)]

\* _validated_witness_rows of SQL Server: every row repeats the identity of the inspected relation.
MssqlProvenance ==
    IF reply = <<>> \/ \E j \in DOMAIN reply : reply[j].origin # "protected" THEN "lost" ELSE "none"

\* _require_compiled_query_provenance: the rows prove every member of the union.
PostgresProvenance ==
    IF reply = <<>> \/ \E j \in DOMAIN reply : reply[j].origin # "protected"
    THEN "metadata" ELSE "none"

\* _require_query_provenance and _require_origin_oid of the two Greenplum endpoints.
GreengageProvenance ==
    IF \E j \in DOMAIN reply : reply[j].origin # "protected" THEN "lost" ELSE "none"
OriginalGreenplumProvenance ==
    IF \E j \in DOMAIN reply : reply[j].origin # "protected" THEN "lost" ELSE "none"

Provenance ==
    CASE engine = "mssql" -> MssqlProvenance
      [] engine = "postgres" -> PostgresProvenance
      [] engine = "clickhouse" -> "none"
      [] engine = "greengage" -> GreengageProvenance
      [] engine = "greenplum" -> OriginalGreenplumProvenance

\* The __post_init__ of PostgresIntegerKeySummary, which all five decoders construct.
SummaryPartitions(s) ==
    /\ s.rows = s.null + s.invalid + s.valid
    /\ s.distinct <= s.valid
    /\ IF s.valid = 0 THEN s.minimum = NullKey /\ s.maximum = NullKey
                      ELSE s.minimum <= s.maximum /\ s.minimum # NullKey
SummaryFields(s) == <<s.rows, s.null, s.invalid, s.valid, s.distinct, s.minimum, s.maximum>>

\* read_integer_key_summary: exactly one record.
OneRecord(otherwise) ==
    IF Len(reply) # 1 THEN otherwise
    ELSE IF SummaryPartitions(reply[1]) THEN "none" ELSE "invalid"
MssqlSummaryRefusal == OneRecord("lost")
PostgresSummaryRefusal == OneRecord("invalid")
ClickHouseSummaryRefusal == OneRecord("invalid")
GreengageSummaryRefusal == OneRecord("invalid")
OriginalGreenplumSummaryRefusal == OneRecord("invalid")

SummaryRefusal ==
    CASE engine = "mssql" -> MssqlSummaryRefusal
      [] engine = "postgres" -> PostgresSummaryRefusal
      [] engine = "clickhouse" -> ClickHouseSummaryRefusal
      [] engine = "greengage" -> GreengageSummaryRefusal
      [] engine = "greenplum" -> OriginalGreenplumSummaryRefusal

\* The row statuses of one record, which no engine reads before the segment of the record.
StatusRefusal(r) ==
    IF r.invalid # 0 THEN "invalid" ELSE IF r.oversized # 0 THEN "limit" ELSE "none"
InRequestedOrder(refusal(_, _), otherwise) ==
    IF Len(reply) # Len(ranges) THEN otherwise
    ELSE FirstRefusal([j \in DOMAIN reply |-> refusal(reply[j], ranges[j])])

MssqlFingerprintRefusal ==
    InRequestedOrder(LAMBDA r, requested :
        IF r.segment # requested.id THEN "lost" ELSE StatusRefusal(r), "lost")
PostgresFingerprintRefusal ==
    InRequestedOrder(LAMBDA r, requested :
        IF r.segment # requested.id THEN "invalid" ELSE StatusRefusal(r), "invalid")
ClickHouseFingerprintRefusal ==
    InRequestedOrder(LAMBDA r, requested :
        IF r.segment # requested.id THEN "invalid" ELSE StatusRefusal(r), "invalid")

\* _parse_range_fingerprints of Greengage: the topology of the record must be the captured one,
\* and no row may come from outside it.
TopologyHolds(r) == r.topology = Homes /\ r.observed \subseteq r.topology
GreengageFingerprintRefusal ==
    InRequestedOrder(LAMBDA r, requested :
        IF r.segment # requested.id THEN "invalid"
        ELSE IF TopologyHolds(r) THEN StatusRefusal(r) ELSE "lost", "invalid")
OriginalGreenplumFingerprintRefusal ==
    InRequestedOrder(LAMBDA r, requested :
        IF r.segment # requested.id THEN "invalid"
        ELSE IF TopologyHolds(r) THEN StatusRefusal(r) ELSE "lost", "invalid")

FingerprintRefusal ==
    CASE engine = "mssql" -> MssqlFingerprintRefusal
      [] engine = "postgres" -> PostgresFingerprintRefusal
      [] engine = "clickhouse" -> ClickHouseFingerprintRefusal
      [] engine = "greengage" -> GreengageFingerprintRefusal
      [] engine = "greenplum" -> OriginalGreenplumFingerprintRefusal

\* What the row decoders test of a row and the data row before it.
Ordinal(id) == SelectInSeq(ranges, LAMBDA r : r.id = id)
Unrequested(r) == Ordinal(r.segment) = 0
SegmentBack(r, previous) == previous.data /\ Ordinal(r.segment) < Ordinal(previous.segment)
KeyNotAbove(r, previous) == previous.data /\ r.segment = previous.segment /\ r.key <= previous.key
KeyDisagrees(r) == r.key # table[r.row].key
OutOfRange(r) == ~InRange(r.key, ranges[Ordinal(r.segment)])
PreviousRow(j) ==
    LET earlier == {m \in 1 .. j - 1 : reply[m].data}
    IN IF earlier = {} THEN FalseWitness ELSE reply[Max(earlier)]

\* SQL Server and PostgreSQL test the order of segments before the row, that of keys after it.
MssqlRowRefusal(r, previous) ==
    IF ~r.data THEN IF r = FalseWitness THEN "none" ELSE "lost"
    ELSE IF Unrequested(r) THEN "lost"
    ELSE IF SegmentBack(r, previous) \/ r.invalid THEN "invalid"
    ELSE IF r.oversized THEN "limit"
    ELSE IF KeyDisagrees(r) \/ OutOfRange(r) \/ KeyNotAbove(r, previous) THEN "invalid"
    ELSE "none"
PostgresRowRefusal(r, previous) ==
    IF ~r.data THEN "none"
    ELSE IF Unrequested(r) \/ SegmentBack(r, previous) \/ r.invalid THEN "invalid"
    ELSE IF r.oversized THEN "limit"
    ELSE IF KeyDisagrees(r) \/ OutOfRange(r) \/ KeyNotAbove(r, previous) THEN "invalid"
    ELSE "none"

\* The others test both orders last.
ClickHouseRowRefusal(r, previous) ==
    IF Unrequested(r) \/ r.invalid THEN "invalid"
    ELSE IF r.oversized THEN "limit"
    ELSE IF KeyDisagrees(r) \/ OutOfRange(r) THEN "invalid"
    ELSE IF SegmentBack(r, previous) \/ KeyNotAbove(r, previous) THEN "invalid"
    ELSE "none"
GreengageRowRefusal_Unordered(r, previous) ==
    IF ~r.data THEN IF r = FalseWitness THEN "none" ELSE "invalid"
    ELSE IF Unrequested(r) \/ r.invalid THEN "invalid"
    ELSE IF r.oversized THEN "limit"
    ELSE IF KeyDisagrees(r) \/ OutOfRange(r) \/ SegmentBack(r, previous) THEN "invalid"
    ELSE "none"
GreengageRowRefusal(r, previous) ==
    IF ~r.data THEN IF r = FalseWitness THEN "none" ELSE "invalid"
    ELSE IF Unrequested(r) \/ r.invalid THEN "invalid"
    ELSE IF r.oversized THEN "limit"
    ELSE IF KeyDisagrees(r) \/ OutOfRange(r) THEN "invalid"
    ELSE IF SegmentBack(r, previous) \/ KeyNotAbove(r, previous) THEN "invalid"
    ELSE "none"
OriginalGreenplumRowRefusal(r, previous) == GreengageRowRefusal(r, previous)

\* Greenplum: no false witness beside data, exactly one without.
WitnessesCounted ==
    LET witnesses == Cardinality({j \in DOMAIN reply : ~reply[j].data})
    IN witnesses = IF witnesses < Len(reply) THEN 0 ELSE 1

Scan(refusal(_, _)) ==
    FirstRefusal([j \in DOMAIN reply |-> refusal(reply[j], PreviousRow(j))])

RowsRefusal ==
    CASE engine = "mssql" -> Scan(MssqlRowRefusal)
      [] engine = "postgres" -> Scan(PostgresRowRefusal)
      [] engine = "clickhouse" -> Scan(ClickHouseRowRefusal)
      [] engine = "greengage" ->
            FirstRefusal(<<Scan(GreengageRowRefusal),
                           IF WitnessesCounted THEN "none" ELSE "invalid">>)
      [] engine = "greenplum" ->
            FirstRefusal(<<Scan(OriginalGreenplumRowRefusal),
                           IF WitnessesCounted THEN "none" ELSE "invalid">>)

\* The record limit is met while rows are fetched, before any is decoded.
Refusal ==
    FirstRefusal(<<IF operation = "rows" /\ Len(reply) > limit THEN "limit" ELSE Provenance,
                   CASE operation = "summary" -> SummaryRefusal
                     [] operation = "fingerprints" -> FingerprintRefusal
                     [] operation = "rows" -> RowsRefusal>>)

DecodedValue ==
    CASE operation = "summary" -> SummaryFields(reply[1])
      [] operation = "fingerprints" ->
            [j \in DOMAIN reply |-> <<reply[j].segment, reply[j].count, reply[j].sum>>]
      [] operation = "rows" ->
            LET data == {m \in DOMAIN reply : reply[m].data}
                at(j) == reply[CHOOSE m \in data : Cardinality({k \in data : k <= m}) = j]
            IN [j \in 1 .. Cardinality(data) |-> <<at(j).segment, at(j).key, at(j).row>>]

Decode ==
    /\ result = Pending
    /\ result' = IF Refusal = "none" THEN Accepted(DecodedValue) ELSE Refused(Refusal)
    /\ UNCHANGED <<engine, table, ranges, operation, limit, seeds, reply, disturbed>>

Next == Query \/ Disturb \/ Decode
Spec == Init /\ [][Next]_vars

-----------------------------------------------------------------------------
(* The reference: what the reads mean, without joins, members or segments. *)

Scoped == {n \in DOMAIN table : table[n].scope}
KeysOf(S) == {table[n].key : n \in S}
Selected(i) == {n \in Scoped : ValidKey(n) /\ InRange(table[n].key, ranges[i])}
InSomeRange == UNION {Selected(i) : i \in DOMAIN ranges}

MeansSummary(v) ==
    LET valid == {n \in Scoped : ValidKey(n)}
    IN /\ v[1] = Cardinality(Scoped) /\ v[4] = Cardinality(valid)
       /\ v[2] = Cardinality({n \in Scoped : table[n].key = NullKey})
       /\ v[3] = Cardinality({n \in Scoped : table[n].key = InvalidKey})
       /\ v[5] = Cardinality(KeysOf(valid))
       /\ valid # {} => /\ {v[6], v[7]} \subseteq KeysOf(valid)
                        /\ \A k \in KeysOf(valid) : v[6] <= k /\ k <= v[7]

Once(S) == [n \in DOMAIN table |-> IF n \in S THEN 1 ELSE 0]

MeansFingerprints(v) ==
    /\ Len(v) = Len(ranges)
    /\ \A i \in DOMAIN ranges :
        v[i] = <<ranges[i].id, Cardinality(Selected(i)), Once(Selected(i))>>

MeansRows(v) ==
    /\ Len(v) = Cardinality(InSomeRange)
    /\ {v[j][3] : j \in DOMAIN v} = InSomeRange
    /\ \A j \in DOMAIN v : /\ v[j][2] = table[v[j][3]].key
                           /\ v[j][3] \in Selected(Ordinal(v[j][1]))

\* When the read has an answer: no selected row is invalid or too long, and for exact rows no key
\* repeats and the rows fit the record limit.
Answerable ==
    CASE operation = "summary" -> TRUE
      [] operation = "fingerprints" ->
            /\ \A n \in InSomeRange : AcceptedRow(n)
            /\ \A h \in Homes : seeds[h] = 1
      [] operation = "rows" ->
            /\ \A n \in InSomeRange : AcceptedRow(n)
            /\ Cardinality(InSomeRange) <= limit
            /\ Cardinality(KeysOf(InSomeRange)) = Cardinality(InSomeRange)

\* Every engine answers what the read means, and answers whenever there is an answer
\* (mssql_sql.py:681, postgres_sql.py:756, clickhouse_endpoint_sql.py:42,
\* greengage_endpoint_sql.py:60, original_greenplum_endpoint_sql.py:49): two endpoints of different
\* engines over equal relations can only differ by a refusal, never by a different accepted answer.
EnginesAgreeOnTheRelation ==
    result \notin {Unasked, Pending} /\ ~disturbed =>
        /\ result.kind = "accepted" <=> Answerable
        /\ result.kind = "accepted" =>
            CASE operation = "summary" -> MeansSummary(result.value)
              [] operation = "fingerprints" -> MeansFingerprints(result.value)
              [] operation = "rows" -> MeansRows(result.value)

\* Whatever a reply went through, what the decoder accepts is well formed (mssql.py:1687,
\* postgres.py:3912, clickhouse_endpoint.py:1102, greengage_endpoint.py:1770,
\* original_greenplum_endpoint.py:1596): one fingerprint per requested range, in order; rows of
\* requested ranges, strictly ordered by range and key, each with the key of its envelope; a
\* summary that partitions; and a reply that lost all its records is never taken for an empty
\* relation, ClickHouse excepted, whose rows come without a witness.
AcceptedReadsAreWellFormed ==
    result.kind = "accepted" =>
        LET v == result.value IN
        CASE operation = "summary" -> v[1] = v[2] + v[3] + v[4] /\ v[5] <= v[4]
          [] operation = "fingerprints" ->
                /\ Len(v) = Len(ranges)
                /\ \A i \in DOMAIN v : v[i][1] = ranges[i].id
          [] operation = "rows" ->
                /\ \A j \in DOMAIN v : /\ v[j][2] = table[v[j][3]].key
                                       /\ InRange(v[j][2], ranges[Ordinal(v[j][1])])
                                       /\ AcceptedRow(v[j][3])
                /\ \A i, j \in DOMAIN v : i < j =>
                        \/ Ordinal(v[i][1]) < Ordinal(v[j][1])
                        \/ v[i][1] = v[j][1] /\ v[i][2] < v[j][2]
                /\ engine # "clickhouse" => reply # <<>>

\* An accepted read is the relation's if the reply arrived as sent (clickhouse_endpoint_sql.py:272),
\* and well formed whatever happened to it (greengage_endpoint.py:1770).
AcceptedReadsAreTrue ==
    /\ EnginesAgreeOnTheRelation
    /\ AcceptedReadsAreWellFormed

=============================================================================
