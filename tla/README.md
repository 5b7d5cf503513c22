# Verification of the Forensic Data Engine

TLA+ models of `forensic_data`, their TLC configurations and TLAPS proofs. Paths are
relative to `src/forensic_data/` unless they start with `guides/`.

The program compares a scope of rows of a *reference* with a *target* relation (PostgreSQL,
SQL Server, Greenplum, Greengage, ClickHouse), by a contract, and stores what it did and found in
a PostgreSQL *metadata store*. It is a one-shot command (`forensics check`); several processes
may work on one store, and on one request, at the same time. What it sells is a durable,
truthful verdict: most of the code is about never storing more than was proven. That is what the
models are about.

## 1. Inventory

| Component | State it keeps | Operations | Hard behaviour |
|---|---|---|---|
| Run lifecycle store (`persistence/lifecycle.py`, `0002_run_lifecycle.sql`) | run, attempt, context, observation, cut and result rows | claim, start, renew, persist/close/lose context, bind cut, record or publish outcome, abandon | concurrent processes, leases that expire between a write and its COMMIT, stale records, abandonment, finality |
| Commit reconciliation (`_run_with_reconciliation`) | loop counter, the "unresolved" flag; server sessions and their advisory locks | write, look for the receipt, write again, give up | COMMIT sent and the answer lost, lost sessions that still hold locks, two callers of one request, termination |
| Check execution (`application.py`) | resources, artifact, failure, persisted cut of the attempt in progress | open, readiness, bind cut, compare, release, settle, retry, publish | failures of several steps combined into one outcome the store must accept; context release after any error |
| Integer key comparison (`comparison.py`) | segment frontier, totals, evidence prefix, usage | summaries, fingerprints, split, exact leaves, completed/structural/partial artifacts | budgets at their limits, partial results that must not claim too much, order of both sides |
| Source budget ledger (`postgres.py`, `PostgresSourceBudgetLedger`) | queries, records, bytes, scans, time of a whole run | reserve, charge, release per attempt | accounting of failed reads, limits shared by retries |
| SQL Server reads (`mssql.py`, `mssql_legacy.py`, `mssql_sql.py`) | connection, active query and cursor, cancel flags; SNAPSHOT context with inspected relations | connect, profile, inspect, read, cancel, close | supervisor threads that cancel while the owner finishes; metadata that a snapshot does not version |
| PostgreSQL reads (`postgres.py`, `postgres_legacy.py`, `postgres_sql.py`) | connection, candidates, locks, snapshot, sealed relations | discover, lock, snapshot, prove, read, close | relations renamed, truncated, attached between these steps; locks never granted |
| Greenplum and Greengage reads (`greenplum*.py`, `greengage_endpoint*.py`, `original_greenplum_endpoint*.py`) | the same, segment topology, reader threads behind a query lock | the same, plan validation before a fingerprint | the same, expansion of the cluster, retirement under a reader, plans of other planner versions |
| ClickHouse reads (`clickhouse*.py`) | two worker processes, query and cancellation state; observations bound and confirmed | open, execute, kill, retire; observe, read, confirm | no snapshot; answers lost or cut; a query that outlives its request; deadlines |
| Acquisition and readiness (`acquisition.py`) | none | classify manifests and cuts | pure data checks |
| Result model (`result.py`) | none | validators of a result | severity, totals and reasons must agree |
| Migrations and registration (`persistence/postgres.py`, `migrations.py`, `definitions.py`) | schema version, contract and dataset rows | migrate, register | concurrent migration, idempotent registration |
| History and diff readers (`persistence/lifecycle.py`) | none | paged readback | rows that no longer satisfy what readers validate |
| Contracts, canonical encoding, planning, reporting, CLI | none | translation, encoding, printing | none that a state model reaches |

Interactions: `execute_check` registers the contract, claims a run, and then drives one attempt
at a time through the lifecycle store; each call to the store runs inside commit reconciliation.
`_open_side` opens a context of the engine the contract names; the comparison issues its reads
through it. Source contexts live in the process; their ends are mirrored in the store and are what outcomes
are validated against. The cut and the one selected outcome are shared by all attempts of a run.

Properties that make each part correct: one run per request, one running attempt, one cut, one
final outcome, nothing ended is ever rewritten, no write under an expired lease (store); an
answer agrees with what is or will be stored, and every call answers (reconciliation); every
context is released and stored as it really ended, whatever is found is accepted by the store,
retries never repeat something unsafe (execution); verdict and totals agree with the rows read,
budgets are never exceeded (comparison, ledger); every accepted read is of the one snapshot or
version the context stands for and means the same in every engine, a cancel reaches only its
query, a source slot is given back only when the server is idle (protected reads); what a
migration or registration answered is stored once and whole (metadata store).

The hazards, each at its source line with the properties that guard it, are in `PROJECT.json`.

## 2. Modules

    RunOutcome            what the store promises of a run
      ^ implemented by
    RunLifecycle          rows, locks, leases, transactions   --- RunLifecycleProofs
      | extends
    AttemptClosure        what must be stored before an outcome is accepted
      | extended by
    AttemptFailure        how failures are combined and validated (operators only)
      | extended by
    AttemptExecution      execute_check                       --- AttemptExecutionProofs

    ExactlyOnceOperation  what one store call promises
      ^ implemented by
    CommitReconciliation  the retry loop, connections, sessions, advisory locks
                                              --- CommitReconciliationProofs

    IntegerKeyComparison  the segment tree, its budgets and its artifacts
      | extended by              --- IntegerKeyComparisonLemmas, IntegerKeyComparisonProofs
    ComparisonStorage     what the store asks of those artifacts (operators only)

    SnapshotSources       engines read in one transaction
      | instances                  --- SnapshotSourcesProofs
    PostgresReads  GreenplumReads  MssqlReads  MssqlTransport

    SourceRequests        the requests of a source, taken apart
      | instances                  --- SourceRequestsProofs
    ClickHouseReads  ClickHouseTransport  RangeReads  DistributedPlans

    MetadataStore         migrations and registrations
                                   --- MetadataStoreProofs

`MC*.tla` only declare model values and small functions for the `.cfg` files. `map` in
`PROJECT.json` ties every definition to its source lines. A definition named `X_Fault`, placed
before `X`, is a faulty variant (a dropped guard, a missing reset); it belongs to no behaviour
and serves to show that a property notices the fault.

### RunLifecycle

All rows of one run are one record of `db`: every writer other than the claim locks the run row
(`SELECT ... FOR UPDATE`) before it reads. The attempts are a sequence, the ordinal is the
index. `txn` holds one open transaction per session: lock, staged rows and the lease read before
the mutation. A writer is three steps, *operation* (reads, guards, staged rows), `SendCommit`
(`_commit_fenced_result` compares the database clock with the lease), `Commit`; `Rollback` may
come in between, and so may other sessions and `Tick`. Actions carry the names of the functions:
`ClaimRun`, `StartAttempt`, `RenewAttempt`, `PersistContext`, `PersistCut`, `CloseContext`,
`CloseClickHouseContext`, `MarkContextLost`, `PersistRetryableOutcome`, `PublishTerminalOutcome`,
`PublishCompletedComparison`, `RecordRetryablePartialComparison`,
`PublishTerminalPartialComparison`, `AbandonAttempt`. A caller may present any token and
revision, so stale and foreign records are covered. A cut, payload or UUID is a model value;
segments, anomalies and manifests are abstracted to the kind of result (`none`, `completed`,
`partial`) and its stable-read level. The unique indexes and CHECK constraints of the schema
are *not* assumed (one context per dataset of an attempt excepted, where the index is the only
guard), so what is shown is shown of the code.

### CommitReconciliation

`call` is the state of `_run_with_reconciliation` of each caller, `session` the server's side of
each connection, which survives the client: it keeps its advisory locks, and a COMMIT in flight
may still land. The write is the claim, the only one several callers may race for; every other
lifecycle write is the case of a request with one caller and `Refuse` for the errors it raises.
Operation identities are integers, as the code sorts UUIDs by their integer value.

### AttemptExecution and AttemptFailure

`pc` is the next step of one `execute_check` call; the in-memory `context` of each side is kept
apart from the stored one, so that they can disagree. Every source call may fail with each
code it can be classified to; every metadata call may raise `LifecyclePersistenceError` with its
rows stored or not; the process may die anywhere. The release loop is two steps per side
(`CloseResource`, `RecordContextEnd`), the first error is kept and raised at the end;
`SettleFailure` then combines what failed, and the publication steps follow. Which sides are
ClickHouse is chosen in `Init` from `Acquisitions`. When the call is over, or an attempt is
retried, its locals are gone (`Forget`). The store is that of this run alone; concurrency on it
is RunLifecycle's.

`AttemptFailure` has the code's decision tables: which reason leads, which status, verdict,
retry, stable reads and reasons remain when a failure meets failures of the release
(`CombineCleanupFailures`, `FailureWithSecondaryContextLoss`, `FailureFromArtifactContextLoss`),
and what the store (`PartialFrontierClosure`, `AttemptClosure`) and `RunResult.validate_outcome`
(`ResultIsValid`) ask of the publication. A reason is a code and one of five operations, which
are all the code tells apart; a partial comparison is kept to the facts the validators test.
Metrics, messages, UUIDs and evidence bytes are left out.

### IntegerKeyComparison

One call of `execute_integer_key_comparison`. `pc` is where the generator stands, `level` its local
`pending`, `nodes` the fingerprints of the level, `progress` what it yielded last, `ledger` the
usage of the whole run, charged before by earlier attempts. A step is the code between two
points where an exception can surface, and since an exception discards everything since the
last yield, `Raise` builds the partial artifact from `progress`. The tuples of ranges and nodes
are sets: ranges are numbered when they are created, and the tuples are in that order. `PlanSummaries`,
`ReadReference`/`ReadTargetSummary` and the `contract` steps are the head of the generator; one turn of
its loop is `PlanFingerprintLevel`, the reads, `MatchLevel`, `PruneMatching`, and then
`AdmitExactFrontier` ... `ClassifyExactLeaf`, or `SplitMismatching`, or `RefuseSplit`. `ReadFails` is a read
cut short with any part of its charge made, `BudgetRunsOut` the deadline, `DemoteCompleted` what
`application.py` does with a completed artifact whose context turns out lost.

A relation is a function from keys to values, with counts of the rows that break the key
contract. `int64` is the interval `INT64_MIN .. INT64_MAX`, whose upper end keeps its special role.
A row's digest is one number of the function `input.hash`, a fingerprint is a count and a sum;
inputs with a hash that never collides and with one that ignores the key are both checked, and
the properties that need the former say so (`NoCollision`). Result bytes and
coordinator memory are not counted: where they decide, both answers are possible (a frontier
that fits by its records may still be split, every step may run out of budget). Both sides are
PostgreSQL: a read is a setup query with one record and the query itself; a relation in the
`frozen_physical_union` scope charges one scan per member (`physical_scans`).

*ComparisonStorage.* `StoreAccepts` is what `persistence/lifecycle.py` validates before it inserts a
completed, structural or partial artifact: the segment tree (`TreeIsValid`, `SplitIsValid`), the
totals against it (`CompletedCloses`, `StructuralCloses`, `PartialCloses`), published evidence
and usage. The comparison and its validators were written twice and share no code; that the second
accepts whatever the first builds is `ArtifactIsStored` (proved, `ComparisonsAreStored`).

### SnapshotSources

Two contexts share no state, so a behaviour of SnapshotSources is one of the engine `Init` chose,
as `_open_side` (`application.py:1525`) does; same-named variables of the components are one
variable, and those of engines that are not read are `Unused`.

*PostgresReads.* `Opening` is the acquisition: connect (with retries), discover each relation in
autocommit, lock the candidates by name in one order, take the snapshot, prove the locks by OID,
read the graph again inside the snapshot; any disagreement ends the attempt. The other session
holds ACCESS EXCLUSIVE locks and commits DROP, CREATE, TRUNCATE, INHERIT and DETACH at any step. A
read records which OIDs, of what time, its rows came from.

*GreenplumReads.* The four contexts of the family (`entry`), with shape, distribution policy and
number of primary segments in the catalog, and reader threads whose rows are parsed after the
query lock is released. There are two kinds of read. A fingerprint is planned first and returns the
topology and the segments that answered, which its parser compares (`SegmentsMatch`,
`greengage_endpoint.py:1716`, `original_greenplum_endpoint.py:1545`, `greenplum_sql.py:187`). Key
summaries, exact rows and manifests ("records") return neither, and nothing compares them: after an
expansion they may be answered by more segments than the snapshot has. What makes them true is that
the lock keeps the rows of the relation where they are, and the Greengage endpoint seals only a
relation that lies on every primary of the snapshot (`greengage_endpoint.py:1181`).

*MssqlReads* and *MssqlTransport.* SQL Server versions rows but not metadata: every read carries a
witness of object identity and helper. The transport has one owner and any number of
supervisors; every critical section under `_state_changed` and every native call is one action.

### SourceRequests

Four parts that see of each other only that a call answers or raises: the ClickHouse context and its
transport, a comparison read of any engine, and the plan that precedes a Greenplum fingerprint. As
above, a behaviour is one of a single part; `Parts` says which of them a run looks at.

*ClickHouseTransport.* The owner thread, two worker processes, the query and its KILL on the
server, and the network between are separate actors; a deadline passes at any step.
*ClickHouseReads.* For the three strategies the observations are sequences of requests, each one
step; a server that writes, merges, mutates, alters, drops, recreates, publishes and fails over
acts between them. The environment never undoes a change: that equal observations cannot exclude
writes that revert is the code's own stated limitation (`clickhouse_legacy.py:111`,
`clickhouse_projection.py:77`).

*RangeReads* compiles each read of each engine to the relational expression its SQL denotes, runs
it over a relation with NULL, invalid and repeated keys, invalid, wide and oversized bodies, lets the
reply be cut, emptied, reordered or duplicated, and decodes it with the engine's parser; the
reference definition knows neither joins nor segments. The refusals of a decoder are IF chains in
the order of the code's tests, since the kind of a refusal depends on which comes first. *DistributedPlans* keeps a plan as the
indented lines EXPLAIN prints, the three validators as the searches they make over lines, and the
property as a statement about the tree those lines print.

### MetadataStore

Migrators (of different releases, or with changed bytes) and registrars, each a transaction on one
server that blocks an INSERT behind an uncommitted row of the same key, ends a deadlock by
cancelling, and loses connections before and after COMMIT took effect.

## 3. Runs

| Run | Instance | Shows |
|---|---|---|
| `lifecycle_retries` | 1 run, 2 processes with one payload, 2 sessions, 2 attempts, 2 cuts, clock 0..1 | `TypeOK`, `AttemptsAreExclusive`, `CutAgreement`, `EndedAttemptsReadable`, `SelectedOutcome`, `RecordsAreFinal`; refinement of `RunOutcome` |
| `lifecycle_claims` | 3 processes, one with another payload, 2 candidate runs, 1 attempt, 2 renewals, clock 0..2 | `OneRunPerRequest`, `LeaseIsHonoured` |
| `commit_reconciliation` | 2 callers of one request with equal or different payloads, 3 sessions, 2 attempts, fairness | `FailureIsDefinitive`, `NoLockCycle`, `CallTerminates`; refinement of `ExactlyOnceOperation` |
| `execution` | no ClickHouse side or a ClickHouse target, 2 attempts, 2 cuts, fairness | `ContextsEndTruthfully`, `OutcomeAccepted`, `NoOutcomeRefused`, `ReturnedResultIsSelected`, `RetriesAreSafe`, `CallEnds` |
| `execution_interrupted_contract` | ClickHouse target, 1 attempt | finding A (violated) |
| `execution_structural_cancelled` | ClickHouse reference, 1 attempt | finding B (violated) |
| `comparison` | 4 keys, 2 values, all targets against 3 references, broken relations, 6 budgets and scarcer ones, an injective and a colliding hash, relations of two members, fairness | `FrontierTilesTheKeys`, `ReportedTotalsAreTrue`, `EvidenceIsAPrefix`, `AdmittedWorkIsCovered`, `CollisionsForgeNothing`, `ArtifactIsStored`, `MismatchIsNotForgotten`, `ComparisonEnds` |
| `comparison_union` | the relations of two members | finding C (violated) |
| `snapshot_sources` | 2 attempts of every engine; 3 names and 3 changes (PostgreSQL), 2 relations, 2 readers, 2 changes and 1 answered read (Greenplum; both readers may be reading), 2 relations, 9 queries and 2 changes (SQL Server), 2 queries and 2 supervisors (its transport) | `PostgresReadsAreOfTheSnapshot`, `GreenplumReadsAreOfTheSnapshot`, `MssqlContextIsSound`, `CancellationIsExact`, `PostgresOpenEnds`, `TransportCallsEnd` |
| `clickhouse_source` | 1 read and 3 changes of the server, 4 heads, 4 contents, every profile; 2 attempts and 2 calls of the transport | `ConfirmedReadsAreOfOneVersion`, `ReleasedSlotIsIdle`, `ReturnedAnswerIsWhole` |
| `source_statements` | every relation of at most 2 rows, 1 or 2 ranges, 5 engines, 3 reads; every plan at most 2 changes away from the expected | `AcceptedReadsAreTrue`, `AggregatedBelowMotion` |
| `metadata_store` | 2 migrators with 1 registrar, or 1 with 2; 3 packages, 3 requests, 2 attempts, 1 fault | `MetadataIsDurable`, `MetadataCallsEnd` |

Why the bounds are enough to be interesting. Two sessions give every pair of racing writers, two
processes a stale and a current owner. Two attempts give a retry after a failure, after
abandonment and at the limit. Two cuts give a retry that sees another cut. Clock 0..1 lets one
lease expire between any two steps, 0..2 lets a renewed one expire as well. Three sessions let a
call leave a lost one behind while it reconciles and the other caller works; two attempts reach
both reconciliation points of the loop and its exhaustion. Four keys from -2 to 1 give ranges on
both sides of zero, a largest key with no exclusive bound, and a tree of three levels whose
ranges are pruned, split and resolved in every mixture; each set of budgets puts one budget at
a value where it decides. Three changes of a PostgreSQL catalog are a replacement before the lock,
one between lock and snapshot and one after; three names are a root, a child and a name not yet
used. Two queries and two supervisors give a cancel that is late for its query while the next one
runs and another cancel is in flight. Three changes of a ClickHouse server fall before, between and
after the observations; two calls let a late answer of the first meet the second. Two rows on two
homes give a repeated key, a row on each side of a bound, and a record limit that is met and
exceeded. Two changes of a plan are enough to move an aggregate past a motion and to disguise it.

`MaxRevision`, `MaxClock`, `MaxChanges` (`MssqlChanges`, `PostgresChanges`, `GreenplumChanges`,
`PlanChanges`),
`MaxReads` (`PostgresReadings`, `GreenplumReadings`), `MaxCalls`, `MaxReceived`, `MaxFaults` and
`MaxRows` are bounds of the models; `MaxAttempts`, `MaxQueries` and `MaxMutationRecords` are the
program's own limits. Sessions and cuts of RunLifecycle are symmetric: no action tells them
apart. `Connect` of CommitReconciliation takes the first free session, as all free ones are alike. Deadlock is not checked because calls end and clocks stop at their bound; that calls
do end is the subject of the liveness properties.

Fairness. `CommitReconciliation!FairSpec` assumes only that some live call moves while one can:
`connect_timeout` and `statement_timeout` bound every wait, lock waits included. Nothing is assumed of sessions
whose client is gone. `AttemptExecution!FairSpec` assumes weak fairness of the process's next step,
because each source and metadata call has a deadline or a statement timeout.
`IntegerKeyComparison!Spec` assumes weak fairness of the generator's own steps, which wait for nobody
but for reads bounded by the same deadlines; the deadline itself is not needed to end the loop.
`SnapshotSources!Spec` assumes it of a PostgreSQL open, whose statements and lock waits have
timeouts, and, for the SQL Server transport, of an owner or supervisor inside a call; a native
cancel is assumed to return. `MetadataStore!Fairness` assumes it of each call: a statement that can
proceed does, and one that cannot is cancelled by `statement_timeout` or as a deadlock victim. A
process that dies is covered by its own end state. Nothing is assumed of other sessions, and
nowhere that a call succeeds, except that `ComparisonEnds` is about reads that answer (one that
fails ends the comparison at once).

## 4. Proofs

Every theorem is checked by TLAPS for all values of the constants; `theorems` in `PROJECT.json`
lists them. Each has the same shape: an invariant that implies the property, a lemma for each
operation that shows the invariant kept, and a last temporal step. Each invariant was
model-checked on the run of its component before it was proved. Where an assumption is
stronger than "a natural number" it is said below.

### RunLifecycleProofs

For any number of runs, sessions, processes, attempts, renewals and clock values: `TypeOK`,
`OneRunPerRequest`, `AttemptsAreExclusive` (from `OneRunningAttempt` and `SingleInvocation`),
`CutAgreement`, `EndedAttemptsReadable` and `SelectedOutcome` as invariants, `RecordsAreFinal`
(from `TerminalRunKept`, `EndedAttemptKept` and `FactsKept`), `LeaseFollowsRevision` and
`LeaseIsHonoured` as action properties, and `ImplementsRunOutcome`, the refinement of RunOutcome.
The assumption is `ConstantsAssumption` (requests and payloads of processes are total functions,
bounds are naturals, `None` is no value).

The properties speak of committed rows and none is inductive: `Commit` installs rows that were
computed when the transaction began. The invariant `IInv` therefore says

1. of every run's committed rows, `RunInv`: the facts above, and that a running attempt is the
   newest, belongs to the run's invocation and has no result yet;
2. of every open transaction, `TxnInv`: its staged rows satisfy `RunInv` too; they are either a
   claim of a request no run has (`ClaimTxn`) or follow from the rows stored *now* by an allowed
   change (`WriteTxn`, `StepOK`: no outcome selected, facts kept, ended attempts kept, leases
   extended only with the revision);
3. that no two open transactions have the same lock or the same run, which is why 2 survives the
   commit of another session.

One lemma per operation shows that what it stages is good (`RewriteOK` and `FencedOK` carry the
common part), one per transaction step that the invariant survives it; `CommittedStep` turns the
invariant into "every change of a stored run is a `StepOK` change or a claim", from which the
action properties follow.

Leases need `LeaseInv` on top: the lease an open transaction read is the lease stored for its
attempt, because the run row stays locked, and a write that is not compared with a lease at its
COMMIT is an abandonment that was already due. For the refinement, `StagedAct` says that a staged
write binds the cut or selects an outcome but never both, so that every COMMIT is one step of
RunOutcome or a stutter.

### CommitReconciliationProofs

For any number of calls, sessions, requests, identities and attempts: `FailureIsDefinitive`,
`NoLockCycle` and `ImplementsExactlyOnce`. Identities are finite sets of naturals, and two calls of
one request share one (both lock the identity of the request, `lifecycle.py:2119`).

An answer is given by a call and could be broken by a session it lost long before. The invariant
says that a COMMIT in flight without a client belongs to a call that is reconciling, has crashed or
answered that it does not know; that a transaction with rows holds all its locks, and locks exclude
each other, so what it read is what its COMMIT replaces; and that a row a call was told of is
stored. A definitive failure then leaves nothing that could still land. For the cycle: identities
are taken in ascending order, the open sessions are finitely many, and of the sessions of a circle
the one that wants the largest identity would wait for a holder that wants a larger one.

### AttemptExecutionProofs

`ContextsEndTruthfully`, `OutcomeAccepted`, `NoOutcomeRefused` and `ReturnedResultIsSelected` as
invariants, `RetriesAreSafe` as an action property, for any number of attempts, any cuts and any
choice of ClickHouse sides other than both, which `_declared_clickhouse_direction`
(`application.py`) refuses. `ExecutionAssumption` and `NoneAssumption` say that, that there is at
least one attempt, and that `None` is no record.

`ExecutionInv` follows the call. `RowsOK` says that one attempt runs and that its cut, observations
and ClickHouse evidence agree; `ContextOK` and `ReceiptOK` which contexts are held and which are
stored at each step, since stored ends are written by a later action than the release they tell of.
`CleanupOK` says what the release loop came to, `FailureOK` and `ReplyOK` what the attempt did.

The heart is the agreement between two tables of the program written independently: how failures
are combined (`application.py`) and what is accepted (`persistence/lifecycle.py`, `result.py`). In
between stands one predicate: a failure says a set of codes of which one leads (`Leads`), and has
the reasons of what its comparison proved (`Proves`). Every combination the application makes keeps
it, errors leading, and the store accepts every failure that satisfies it: without a partial
comparison, with one of unknown stable reads, and with one whose reads were confirmed
(`FailureWithoutPartial`, `FailureWithUnknownRows`, `FailureWithRows`). The one exception the proof
needs, a contract violation with lost stable reads and a ClickHouse side, is findings A and B.

### IntegerKeyComparisonProofs

`FrontierTilesTheKeys`, `ReportedTotalsAreTrue`, `EvidenceIsAPrefix`, `AdmittedWorkIsCovered`,
`CollisionsForgeNothing` and `ArtifactIsStored` as invariants, `MismatchIsNotForgotten` as an action property: for any two
relations, key bounds, hash function (colliding or not), budgets, member counts, charges of earlier
attempts, and any read that fails. `Inputs` is any set of such comparisons (`ComparisonInputs`); the
other assumptions say that there is a key, that records have bytes, that nodes are handled between
deadline checks, and that the exceptions that end a comparison have a reason (`CauseAssumption`:
`None` is not one of them).

IntegerKeyComparisonLemmas is about the operators. Nothing in it is an induction over data the
provers lack: the library's induction on finite sets and naturals is used for *sets of* good sets
or numbers instead of predicates. With it: sums over disjoint unions, the ascending order of a
finite set of keys, ranks, and that the merge of two ascending reads (`ClassifiedRows`) counts and
lists exactly the keys that differ.

An exception anywhere turns the progress yielded last into an artifact, so the invariant of the
progress must stand alone (`ProgressIsTrue`):

* `TreeIsSound`, `HoldsEveryKey`: ranges are numbered from 0 without a gap in the order of their
  creation, those that are not split share no key and miss none;
* `RecordsAreTrue`: records and witnesses carry the fingerprints of their ranges;
* `DifferenceIsKept`: if the root's fingerprints or those of a split range differ, a pending range
  differs or a difference was counted. Fingerprints are sums, so a sum that differs differs in a half;
* `CountsAreTrue`, `EvidenceIsTrue`: counts and evidence are those of the keys in the settled ranges;
* `ExactComesFirst`: exact ranges lie before the pending ones, so that evidence grows at its end.

`Standing` ties the progress to the place. The range whose turn it is in a phase must be the first
that is pending; that all that is pending differs holds only between `PruneMatching` and the next
level; the allocated nodes are those of the tree or one level more. `Reservation` says that what a
phase has still to read fits the ledger, with the setup query of each read. `Ends` says which
artifact was made of which progress; a claim about an artifact is then a lemma about a true
progress (`CompletedIsTrue`, `PartialIsTrue`, `ClaimIsTrue`, `RootDecides`, `ArtifactPassesItsChecks`).

That the store accepts the artifact (`ArtifactIsStored`) does not follow from its truth: the
validators ask for the shape of the whole tree and for counters that no report is made of.
`StoreInvariance` adds them:

* `IsTree`: every range but the root has a split parent, and a split range has exactly its two halves
  as children, one level deeper;
* `BytesAreCounted`: the retained bytes are those of the evidence, record by record;
* `StoreStanding`, `SummariesCharged`: what the ledger has charged while the summaries are read, since
  a structural artifact is refused unless its usage is that of two summaries;
* `EndsStorable`: which artifact was made where, and that each fingerprinted range was counted once,
  also in a level that was interrupted between the two reads (`NodesAreFingerprinted`).

Then `NodesAreATree` and `FrontierIsATree` give the segment tree the store validates, and the totals
close because the leaves of the tree share no key and miss none: the keys counted on each side add
up to the records of the root (`RowsOfLeaves`, `LeavesAddUp`, `TotalsClose`). `InterruptedIsStored`,
`CompletedIsStored` and `DemotedIsStored` conclude for each kind. The exception is a structural
result with more than one member on a side, finding C, which `ArtifactIsStored` leaves out.

### SnapshotSourcesProofs

`PostgresReadsAreOfTheSnapshot` and `GreenplumReadsAreOfTheSnapshot`, for any number of names,
relations, reader threads, attempts and changes. ACCESS EXCLUSIVE and ACCESS SHARE exclude each
other (`exclusive \cap shared = {}`), so from the snapshot on a locked relation has the name, the
shape and the rows the snapshot saw, and on Greenplum its distribution policy (`PgHeld`, `GpHeld`).
The rows of every read are therefore on as many segments as the snapshot has them, all of its
primaries on the Greengage endpoint, which compared the two when it sealed the relation (`GpSpread`).
The segments that answered are claimed of fingerprints alone, whose parser compares them. That the locks taken by name are those of
the discovered OIDs, and that the graph inside the snapshot is the discovered one, is checked
before the context is handed out (`PgSealed`, `GpSealed`). Names are numbered from 1: they stand for
qualified names, and 0 is "no relation". A third theorem says that a PostgreSQL context that failed
to open or was closed holds no connection and no lock.

Of the SQL Server side, `CancellationIsExact`, for any number of supervisors: a native cancel in
flight is counted, the owner withdraws the handle only at a count of zero, and the flag is set
exactly when the request is recorded; so the call reaches the statement of its own query and the
owner decides that query by it. `MssqlContextIsSound`, for any number of relations, queries, attempts and changes: the answer
is compared with the object inspected and the helper profiled in the very statement that reads the
rows (`MssqlAnchors`), and each phase says whether the transport is open (`MssqlSession`).

### SourceRequestsProofs

`ReleasedSlotIsIdle` and `ReturnedAnswerIsWhole`, for any number of attempts and calls. The workers
report each other's ends, so the invariant is about channels: an outcome that settles a query is
there only when the server no longer works on it, one that says "not sent" only when it was not
sent, and a KILL confirms only what it ended. Deadlines make no difference to it: `late` and `clock`
may pass at any step.

`ConfirmedReadsAreOfOneVersion`, for any contents, heads, reads and changes. No two requests share a
snapshot and the bound table may be lost and replaced between any two, so nothing can be said of the
present table. What is invariant is conditional on it: *if* the table is still the bound one on the
bound server (`Same`), its rows are at least those of the bound fingerprint and it was unfiltered
then (`PrintOK`, `PolicyOK`), and the reads lie between the two (`SeenOK`). The plans (`InOrder`) put an
identity observation after each fingerprint; a difference found in between is remembered to the end
of its group (`KeptDrift`), where it refuses the confirmation (`ConfirmOK`). `HeadsAdvance` rests on
the assumption that the head of the readiness table never goes back: the code reads it with
`ORDER BY publication_revision DESC` (`clickhouse_readiness.py:1197`, `1243`), and rows are only added.

`AcceptedReadsAreTrue`, for any relation (any number of rows, keys, homes), any valid request, any
record limit, the five engines, the three reads and any one disturbance of the reply. The assumptions
are those of RangeReads (`RangeReadsAssumption`): keys are positive naturals, homes are finitely many,
limits are positive, and every request satisfies `ValidRanges`, which is what the code validates of a
request.

`ReadInv` is the invariant. A property of the decision alone is not inductive, because `Decode` sees
nothing but the reply; so the invariant says of a pending reply what `Decode` needs:

* `ReplyTyped`: it is a sequence, and of exact rows each record has its fields, and a data record
  carries the statuses of the row it names. Every disturbance keeps it (`DisturbedRepliesAreTyped`), and from it alone
  whatever is accepted is well formed (`AcceptedAreWellFormed`);
* `Says`: as long as nothing disturbed it, it says what the statement says of the relation. From it
  the decoder accepts exactly when the read has an answer, and with it (`RepliesAnswer`).

That the five statements say the same is the relational part (`QueriesSay`): a LEFT JOIN per member or per
segment finds every row once because a row has one home, `multiIf` puts a row in the range that
holds its key because ranges are disjoint (`JoinsSelect`), and the sums over branches are the sums
over rows (`AggregatesAgree`). A segment that answers twice or not at all shows in the topology of
every fingerprint, and the read is refused. For exact rows, the position of a row under `ORDER BY` is its
rank, the number of rows that are not after it (`Ranking`, proved for any finite order); the
decoder's checks of neighbours make a chain of the whole reply (`StepsChain`), so no key can repeat, and a
relation in which one does is refused.

`AggregatedBelowMotion`, for any number of ranges and of changes to the plan. The invariant `PlanInv`
says that a plan is a text of lines, each with a kind and an indentation, and the planner's own as
long as nothing changed. Everything else is about what the three validators may conclude from lines.
They find a node by searching forward, and its subtree by the next line that is no deeper; the
property speaks of the tree, in which a line's parent is the last one before it that is less deep.
`SubtreesEnd` and `Parents` make the one reading the other, `NodesAreFound` and `SerializedAreFound` say
what a search returns, and `LinesInOrder` that found lines come in order. The nodes of
`DistributedTree` are then the ones an accepting validator found (`EndpointPlansAreTrees`,
`GreengagePlansAreTrees`, `OriginalPlansAreTrees`). The other half, that the plans of the supported
versions are accepted, is a computation on their lines (`EndpointPlanIsAccepted`,
`CanonicalPlanIsAccepted`).

The attempt showed that the property had been stated too strongly of the original Greenplum.
`parse_original_greenplum_fingerprint_plan` follows one chain of nodes in the serialized plan and
searches the stages of the aggregate in the printed one, and nothing in it says that both are
the same nodes. A plan of sixteen lines, six changes from the planner's, with a second append and a
redistribution nested beside the scan of the relation, satisfies both with different aggregates:
that the sums are computed below the very redistribution of the printed stages held only within the
bound of two changes. What holds of every accepted plan is `SummedBelowMotion`: they are computed by
an aggregate below a Motion, over an append of two scans, with no Motion on the way to either. The
property now says that, beside the redistributed tree.

The proof of `AcceptedReadsAreTrue` found two places where the model said less than the code.
`ValidRanges` left out that a range is not empty (`__post_init__`, `postgres_sql.py:167`). And the
refusals were CASE expressions with overlapping arms, of which TLC takes the first but TLA+ any; the
IF chains say which the code takes.

### MetadataStoreProofs

`MetadataIsDurable`, for any finite number of processes and any packages, requests, attempts and
faults. One migrator at a time is past the advisory lock, and the rows of its transaction are the
versions the journal lacks (`MigratorOK`); two open transactions never hold one key, and a key that is
held is not stored (`KeysApart`); each record a registration has read back is stored or its own
(`RegistrarOK`).

### Model-checked only

The liveness properties (`CallTerminates`, `CallEnds`, `PostgresOpenEnds`, `TransportCallsEnd`,
`MetadataCallsEnd`, `ComparisonEnds`) are out of the proof system's reach and stay with TLC.

## 5. Findings

A and B concern an attempt with a ClickHouse side whose final confirmation fails after a contract
violation was found. `_validate_partial_frontier_closure` refuses the publication with
`ValueError`, `execute_check` raises, no outcome is stored and the attempt stays running until it
is abandoned. `guides/cli-and-contracts.md:214-217` promises that an interrupted comparison keeps an
immutable partial result.

* **A**, `InterruptedComparisonKept`: the comparison itself was interrupted with a proven contract
  violation under asserted reads; the release degrades the stable reads to unknown but the
  contract reason stays (`persistence/lifecycle.py:5324`).
* **B**, `StructuralComparisonKept`: a completed structural mismatch whose confirmation ended in
  `CANCELLATION_UNCONFIRMED`; its operation `cancel_<direction>_query` is not among those
  `_is_degraded_structural_context_loss` accepts (`persistence/lifecycle.py:5370`), although
  the code is.

* **C**, `StructuralIsStored`: a null or repeated key in a PostgreSQL relation of two or more regular
  members. The summary charges one scan per member, as `guides/postgresql.md:59-60` says, but
  `_validate_structural_artifact_summary_closure` (`persistence/lifecycle.py:5841`) asks for exactly
  one scan per side and raises `ValueError`; again no outcome is stored. `ArtifactIsStored` shows that
  no other artifact of the comparison is refused.

Of the refusals that arise from combining failures (AttemptExecution), `OutcomeAccepted` shows that
A and B are the only kind: it needs a contract violation and lost stable reads, and a ClickHouse side
(`NoOutcomeRefused`). C is about the artifact itself, on which ComparisonStorage decides.

Observations that are no contradiction of a document, and so no run:

* `_open_mssql_transport_once_budgeted` (`mssql.py:3234-3282`) leaves the connection to the garbage
  collector when its deadline or budget check raises, where its sibling closes it.
* ClickHouse row reads carry no witness row, so a reply that lost all its rows reads as an empty
  range; `AcceptedReadsAreTrue` excepts it, and the transport's framing checks
  (`ReturnedAnswerIsWhole`) are what excludes it. Likewise of any engine: exact rows that lost their
  tail are a sorted sequence like any other, and the decoder accepts them; `AcceptedReadsAreTrue`
  says of a disturbed reply only that what is accepted is well formed.
* The canonical plan validators (`greenplum_sql.py`) place the gather by indentation and find the
  relation scan by a part of its name; the chain and the stages that the original validator checks need not
  be the same nodes (section 4, SourceRequestsProofs). No planner the code supports prints such a
  plan.
* The legacy ClickHouse readiness witness includes the parts of the readiness table, so a background
  merge is reported as a changed cut: a spurious refusal, never a wrong read.
* `_require_current_schema` (`persistence/postgres.py:970`) takes no lock: a registration may
  overlap the migration of a newer release. Migrations are additive, so no state both change exists.

## 6. Not modelled

* In `execute_check`: the readback of an outcome that is already stored; and `plan_check`.
* Result bytes and coordinator memory of a comparison (`comparison.py:3641-4191`), sizes computed from
  Python object layouts; the extra plan reservations of Greenplum and Greengage and the range
  batch limit of SQL Server.
* The hashes and manifests that bind segment, anomaly and evidence rows; the paged readers, which appear as the
  invariant they rely on (`EndedAttemptsReadable`).
* The text of the statements, type by type encodings, capability probes beyond their outcome, and
  the parsing of catalog and profile rows.
* Canonical byte encodings and hashes, contract compilation, planning, reporting and the command
  line: no state, and their properties are about text and bytes.

## 7. Plan

Done: RunLifecycle with RunOutcome, AttemptClosure and its proofs; CommitReconciliation with
ExactlyOnceOperation; AttemptExecution with AttemptFailure; IntegerKeyComparison with its ledger and ComparisonStorage; the read contexts, transports and statements of the five engines; MetadataStore.

To add, in order of importance: the ledger across the attempts of a run with two contexts charging
it at once; history and diff paging over retained evidence, and what a replayed request returns;
`RunResult.validate_outcome` for completed results; an abstract specification of a read context
that each engine is shown to implement and that AttemptExecution's choices cover.

Every safety invariant and action property that a passing run checks is stated by a theorem.
