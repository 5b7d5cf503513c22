---------------------------- MODULE MetadataStore ----------------------------
(***************************************************************************)
(* The metadata schema and the immutable registrations in it               *)
(* (persistence/postgres.py): processes that migrate the schema and        *)
(* processes that register a check, each a transaction on one PostgreSQL   *)
(* server, retried on a new connection after an operational error, the     *)
(* loss of COMMIT's answer included.  The server is external: uncommitted  *)
(* rows block an INSERT of the same key until their transaction ends, or   *)
(* until the waiting statement is cancelled by its timeout or as the       *)
(* victim of a deadlock.  Packages of different releases and a package     *)
(* with changed SQL bytes run side by side.                                *)
(***************************************************************************)
EXTENDS Naturals, Sequences, FiniteSets, SequencesExt

CONSTANTS
    Migrators, Registrars,  \* processes
    Checksums,              \* SQL bytes of a migration, by their checksum
    Packages,               \* packaged migrations: sequences of checksums
    Runtime,                \* the package of the registering processes
    Requests,               \* [reference, target, revision, digest] of a registration
    Groups,                 \* sets of processes that may run together
    MaxAttempts,            \* PostgresRetryPolicy.max_attempts
    MaxFaults               \* bound: lost connections, lost answers and crashes

Callers == Migrators \cup Registrars

ASSUME MetadataStoreAssumption ==
    /\ Migrators \cap Registrars = {} /\ IsFiniteSet(Callers)
    /\ Packages \subseteq Seq(Checksums) \ {<<>>} /\ Runtime \in Packages
    /\ Groups \subseteq SUBSET Callers
    /\ MaxAttempts \in Nat \ {0} /\ MaxFaults \in Nat

VARIABLES
    package,   \* migrator -> its packaged migrations
    request,   \* registrar -> what it registers
    journal,   \* dfe_metadata.migrations: checksums by version
    schema,    \* checksums whose SQL has been committed, in that order
    rows,      \* committed rows [table, key, id, value]
    call,      \* caller -> [step, attempt, records]
    own,       \* caller -> rows of its open transaction
    advisory,  \* callers that hold the migration advisory lock
    faults     \* faults so far

vars == <<package, request, journal, schema, rows, call, own, advisory, faults>>

Open == {"begin", "lock", "history", "apply", "schema", "register", "commit"}

Init ==
    /\ package \in [Migrators -> Packages] /\ request \in [Registrars -> Requests]
    /\ journal = <<>> /\ schema = <<>> /\ rows = {}
    /\ \E group \in Groups :
         call = [c \in Callers |-> [step |-> IF c \in group THEN "begin" ELSE "absent",
                                    attempt |-> 1, records |-> <<>>]]
    /\ \A c \in Migrators : call[c].step = "absent" => package[c] = Runtime
    /\ \A c \in Registrars : call[c].step = "absent" => request[c] = CHOOSE q \in Requests : TRUE
    /\ own = [c \in Callers |-> {}] /\ advisory = {} /\ faults = 0

Fault == faults < MaxFaults /\ faults' = faults + 1
At(c, step) == call[c].step = step
Goto(c, step) == call' = [call EXCEPT ![c].step = step]

\* The transaction of c ends without effect: its connection is closed.
Rollback(c) ==
    /\ own' = [own EXCEPT ![c] = {}] /\ advisory' = advisory \ {c}
    /\ UNCHANGED <<package, request, journal, schema, rows>>

Ends(c, outcome) == Goto(c, outcome) /\ Rollback(c) /\ UNCHANGED faults

\* _run_with_retries: an operational error closes the connection and starts the whole callback
\* again, with the identifiers chosen before the first attempt.
RetryOrGiveUp(c) ==
    call' = [call EXCEPT ![c] = IF @.attempt = MaxAttempts
                                THEN [@ EXCEPT !.step = "connection_error"]
                                ELSE [step |-> "begin", attempt |-> @.attempt + 1, records |-> <<>>]]

ConnectionLost(c) == call[c].step \in Open /\ Fault /\ RetryOrGiveUp(c) /\ Rollback(c)

\* The process dies; the server rolls its transaction back.
Crash(c) == call[c].step \in Open /\ Fault /\ Goto(c, "crashed") /\ Rollback(c)

\* _connect, _validate_metadata_profile and _begin_*_transaction.
BeginTransaction(c) ==
    /\ At(c, "begin")
    /\ \/ Goto(c, IF c \in Migrators THEN "lock" ELSE "schema")
          /\ UNCHANGED <<package, request, journal, schema, rows, own, advisory, faults>>
       \/ Ends(c, "profile_error")

\* An uncommitted row of another transaction with the same key.
Blocks(d, c, row) == d # c /\ \E other \in own[d] : other.table = row.table /\ other.key = row.key

-----------------------------------------------------------------------------
(* _migrate_once                                                           *)

\* pg_advisory_xact_lock under lock_timeout.
TakeMigrationLock_NoLock(c) ==
    /\ At(c, "lock") /\ advisory' = advisory \cup {c} /\ Goto(c, "history")
    /\ UNCHANGED <<package, request, journal, schema, rows, own, faults>>
TakeMigrationLock(c) ==
    /\ At(c, "lock") /\ advisory = {}
    /\ advisory' = {c} /\ Goto(c, "history")
    /\ UNCHANGED <<package, request, journal, schema, rows, own, faults>>

\* LockNotAvailable: the call fails without another attempt.
LockWaitTimesOut(c) == At(c, "lock") /\ advisory \ {c} # {} /\ Ends(c, "lock_timeout")

\* _validate_migration_history: the journal is a prefix of the package, by version, name and
\* checksum; a journal relation without rows is refused, a missing one counts 0.
HistoryIsPrefix(packaged) == IsPrefix(journal, packaged)

CheckHistory(c) ==
    /\ At(c, "history")
    /\ \/ /\ HistoryIsPrefix(package[c])
          /\ call' = [call EXCEPT ![c].step = "apply", ![c].records = journal]
          /\ UNCHANGED <<package, request, journal, schema, rows, own, advisory, faults>>
       \/ ~HistoryIsPrefix(package[c]) /\ Ends(c, "history_error")

\* The SQL of the next pending migration and its journal row; migrations.version is the primary key.
ApplyMigration(c) ==
    LET version == Len(call[c].records) + 1
        row == [table |-> "migrations", key |-> version, id |-> c, value |-> package[c][version]]
    IN  /\ At(c, "apply") /\ version <= Len(package[c])
        /\ ~ \E d \in Callers : Blocks(d, c, row)
        /\ IF version <= Len(journal) THEN Ends(c, "apply_error")
           ELSE /\ own' = [own EXCEPT ![c] = @ \cup {row}]
                /\ call' = [call EXCEPT ![c].records = Append(@, row.value)]
                /\ UNCHANGED <<package, request, journal, schema, rows, advisory, faults>>

AllApplied(c) ==
    /\ At(c, "apply") /\ Len(call[c].records) = Len(package[c])
    /\ Goto(c, "commit") /\ UNCHANGED <<package, request, journal, schema, rows, own, advisory, faults>>

-----------------------------------------------------------------------------
(* _register_once                                                          *)

\* _require_current_schema: the whole package of the runtime is applied.
RequireCurrentSchema(c) ==
    /\ At(c, "schema")
    /\ \/ /\ journal = Runtime /\ Goto(c, "register")
          /\ UNCHANGED <<package, request, journal, schema, rows, own, advisory, faults>>
       \/ journal # Runtime /\ Ends(c, "schema_behind")

\* dataset_version_definition
DatasetRow(c, dataset) ==
    [table |-> "dataset_versions", key |-> dataset, id |-> <<c, dataset>>, value |-> dataset]

\* contract_version_definition, bound to the two dataset versions read back
ContractRow(c) ==
    LET id(k) == call[c].records[k].id
    IN  [table |-> "contract_versions", key |-> request[c].revision, id |-> <<c, "contract">>,
         value |-> [digest |-> request[c].digest, reference |-> id(1), target |-> id(2)]]

\* code_artifact_capture_definitions: one capture per registration, under an identifier of its own
ArtifactRow(c) ==
    [table |-> "code_artifacts", key |-> <<c, "artifact">>, id |-> <<c, "artifact">>,
     value |-> request[c].digest]

NextRow(c) ==
    CASE Len(call[c].records) = 0 -> DatasetRow(c, request[c].reference)
      [] Len(call[c].records) = 1 -> DatasetRow(c, request[c].target)
      [] Len(call[c].records) = 2 -> ContractRow(c)
      [] OTHER -> ArtifactRow(c)

\* _dataset_record, _contract_record, _code_artifact_record: the stored row, decoded, is the
\* requested definition; the identifier may be another registration's.
DatasetMatches(stored, row) == stored.value = row.value
ContractMatches_Unchecked(stored, row) == TRUE
ContractMatches(stored, row) == stored.value = row.value
ArtifactMatches(stored, row) == stored.value = row.value
Matches(stored, row) ==
    CASE row.table = "dataset_versions" -> DatasetMatches(stored, row)
      [] row.table = "contract_versions" -> ContractMatches(stored, row)
      [] OTHER -> ArtifactMatches(stored, row)

\* INSERT ... ON CONFLICT DO NOTHING waits for a transaction that inserted the key, then a SELECT
\* with a new snapshot reads the row that has it.
StoredUnder(c, row) ==
    {stored \in rows \cup own[c] : stored.table = row.table /\ stored.key = row.key}
RegisterRow(c, row) ==
    /\ At(c, "register") /\ Len(call[c].records) < 4
    /\ ~ \E d \in Callers : Blocks(d, c, row)
    /\ LET mine == IF StoredUnder(c, row) = {} THEN {row} ELSE {}
           stored == CHOOSE s \in StoredUnder(c, row) \cup mine : TRUE
       IN  \/ /\ Matches(stored, row)
              /\ own' = [own EXCEPT ![c] = @ \cup mine]
              /\ call' = [call EXCEPT ![c].records = Append(@, stored)]
              /\ UNCHANGED <<package, request, journal, schema, rows, advisory, faults>>
           \/ ~Matches(stored, row) /\ Ends(c, "conflict")

RegisterDataset(c) ==
    At(c, "register") /\ Len(call[c].records) < 2 /\ RegisterRow(c, NextRow(c))
RegisterContract(c) ==
    At(c, "register") /\ Len(call[c].records) = 2 /\ RegisterRow(c, NextRow(c))
RegisterCodeArtifact(c) ==
    At(c, "register") /\ Len(call[c].records) = 3 /\ RegisterRow(c, NextRow(c))

Registered(c) ==
    /\ At(c, "register") /\ Len(call[c].records) = 4
    /\ Goto(c, "commit") /\ UNCHANGED <<package, request, journal, schema, rows, own, advisory, faults>>

\* statement_timeout, or the server's choice in a deadlock: QueryCanceled and DeadlockDetected are
\* operational errors.
BlockedInsertCancelled_Never(c) == FALSE /\ UNCHANGED vars
BlockedInsertCancelled(c) ==
    /\ At(c, "register") /\ Len(call[c].records) < 4
    /\ \E d \in Callers : Blocks(d, c, NextRow(c))
    /\ RetryOrGiveUp(c) /\ Rollback(c) /\ UNCHANGED faults

-----------------------------------------------------------------------------
(* COMMIT                                                                  *)

Applied(c) ==
    LET versions == {row \in own[c] : row.table = "migrations"}
        new == SubSeq(call[c].records, Len(call[c].records) - Cardinality(versions) + 1,
                      Len(call[c].records))
    IN  IF c \in Migrators
        THEN journal' = journal \o new /\ schema' = schema \o new /\ UNCHANGED rows
        ELSE rows' = rows \cup own[c] /\ UNCHANGED <<journal, schema>>

Committed(c) ==
    /\ At(c, "commit") /\ Applied(c)
    /\ own' = [own EXCEPT ![c] = {}] /\ advisory' = advisory \ {c}
    /\ UNCHANGED <<package, request>>

Commit(c) == Committed(c) /\ Goto(c, "done") /\ UNCHANGED faults
CommitReplyLost(c) == Committed(c) /\ Fault /\ RetryOrGiveUp(c)

-----------------------------------------------------------------------------
(* read_postgres_metadata_registration and read_postgres_contract_version. *)

Readable(c) ==
    /\ IsPrefix(Runtime, journal)
    /\ \A k \in 1..4 : call[c].records[k] \in rows

\* _read_registration_once: every record under its identifier, equal to what was returned.  A
\* newer schema is refused (schema_behind names both directions of the mismatch).
ReadRegistration(c) ==
    /\ c \in Registrars /\ At(c, "done")
    /\ Goto(c, IF journal # Runtime THEN "schema_behind"
               ELSE IF Readable(c) THEN "readable" ELSE "unreadable")
    /\ UNCHANGED <<package, request, journal, schema, rows, own, advisory, faults>>

-----------------------------------------------------------------------------
MigratorStep(c) ==
    \/ TakeMigrationLock(c) \/ LockWaitTimesOut(c) \/ CheckHistory(c) \/ ApplyMigration(c)
    \/ AllApplied(c)

RegistrarStep(c) ==
    \/ RequireCurrentSchema(c) \/ RegisterDataset(c) \/ RegisterContract(c)
    \/ RegisterCodeArtifact(c) \/ Registered(c) \/ BlockedInsertCancelled(c)
    \/ ReadRegistration(c)

CallStep(c) ==
    \/ BeginTransaction(c) \/ ConnectionLost(c) \/ Crash(c)
    \/ Commit(c) \/ CommitReplyLost(c)

Next ==
    \/ \E c \in Callers : CallStep(c)
    \/ \E c \in Migrators : MigratorStep(c)
    \/ \E c \in Registrars : RegistrarStep(c)

\* A process whose statement can proceed, or whose wait can time out, is not suspended for ever.
Fairness ==
    /\ \A c \in Migrators : WF_vars(CallStep(c) \/ MigratorStep(c))
    /\ \A c \in Registrars : WF_vars(CallStep(c) \/ RegistrarStep(c))

Spec == Init /\ [][Next]_vars /\ Fairness

-----------------------------------------------------------------------------
\* Migrators of one lineage never fail for each other's sake (persistence/postgres.py:249): whatever
\* two of them do at once, with lost answers and crashes, each migration's SQL is committed once and
\* with its journal row, in the order of the package; a migrator that returns has its whole package
\* in the journal, for good; and none ends in an apply error, which would be another migrator's
\* work taken for a broken package.
MigrationsApplyOnce ==
    /\ schema = journal
    /\ \E p \in Packages : IsPrefix(journal, p)
    /\ \A c \in Migrators : /\ At(c, "done") => IsPrefix(package[c], journal)
                            /\ ~At(c, "apply_error")

\* A registration that is returned is durable and its own (persistence/postgres.py:495): it is what
\* was asked for and can be read back as returned, one version per dataset and one definition per
\* revision is stored, the contract's dataset versions are stored, and a retry after a lost COMMIT
\* answer makes no second capture.
RegistrationsAreDurable ==
    /\ \A c \in Registrars :
         /\ ~At(c, "unreadable")
         /\ At(c, "done") => /\ Readable(c)
                             /\ call[c].records[3].value.digest = request[c].digest
                             /\ call[c].records[4].value = request[c].digest
    /\ \A r, s \in rows : r.table = s.table /\ r.key = s.key => r = s
    /\ \A r \in rows : r.table = "contract_versions" =>
         \A id \in {r.value.reference, r.value.target} :
           \E d \in rows : d.table = "dataset_versions" /\ d.id = id

\* What a migration (persistence/postgres.py:249) or a registration (:426) answered is in the
\* store, once and whole, whatever the other callers, lost answers and crashes did.
MetadataIsDurable ==
    /\ MigrationsApplyOnce
    /\ RegistrationsAreDurable

\* Every call ends (persistence/postgres.py:152): no wait for the advisory lock or for another
\* transaction's row is unbounded, registrations that wait for each other included.
MetadataCallsEnd == \A c \in Callers : <>(call[c].step \notin Open)

=============================================================================
