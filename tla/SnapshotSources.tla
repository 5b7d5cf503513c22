--------------------------- MODULE SnapshotSources ---------------------------
(***************************************************************************)
(* The sources that are read in one database transaction.  The contract    *)
(* names the engine and _open_side (application.py) opens that engine's    *)
(* protected context: PostgresReads, GreenplumReads or MssqlReads.  The    *)
(* SQL Server queries run on a transport which other threads may cancel,   *)
(* MssqlTransport; MssqlReads sees only whether a query answered.          *)
(*                                                                         *)
(* Two contexts share no state, so each behaviour is one of one engine.    *)
(* Variables of the same name stand for the engine's own; those of the     *)
(* engines that are not read are Unused.                                   *)
(***************************************************************************)
EXTENDS Naturals, FiniteSets

CONSTANTS
    Relations, MaxAttempts,                 \* of every engine
    Legacy, MaxQueries, MssqlChanges,       \* SQL Server
    Queries, Supervisors, MaxReceived,      \* its transport
    Names, Bound, FrozenRoot, Physical,     \* PostgreSQL
    PostgresChanges, PostgresReadings,
    Readers, GreenplumChanges, GreenplumReadings

VARIABLES
    engine,  \* the engine of the side that is opened
    \* the context, of whichever engine
    phase, attempt, snapshot, answers,
    \* PostgreSQL and Greenplum
    catalog, truncated, clock, exclusive, candidates, shared, turn, sealed,
    legacy, connection, connects, portal, reads,
    entry, session, reader, holder,
    \* SQL Server
    server, transport, queries, profile, identity, inspected,
    closed, activeQuery, activeCursor, cancelRequested, cancelCalls, wire, openCursors,
    running, owner, received, outcome, supervisor, requested

Mssql == INSTANCE MssqlReads WITH MaxChanges <- MssqlChanges
Postgres == INSTANCE PostgresReads
              WITH MaxChanges <- PostgresChanges, MaxReads <- PostgresReadings
Greenplum == INSTANCE GreenplumReads
               WITH MaxChanges <- GreenplumChanges, MaxReads <- GreenplumReadings
Transport == INSTANCE MssqlTransport WITH connection <- wire

ASSUME SnapshotSourcesAssumption ==
    /\ Mssql!MssqlReadsAssumption
    /\ Postgres!PostgresReadsAssumption
    /\ Greenplum!GreenplumReadsAssumption
    /\ Transport!TransportAssumption

mssqlOnly == <<server, transport, queries, profile, identity, inspected>>
postgresOnly == <<legacy, connection, connects, portal, reads>>
greenplumOnly == <<entry, session, reader, holder>>
catalogVars == <<catalog, truncated, clock, exclusive, candidates, shared, turn, sealed>>
transportVars ==
    <<closed, activeQuery, activeCursor, cancelRequested, cancelCalls, wire, openCursors,
      running, owner, received, outcome, supervisor, requested>>
contextVars == <<phase, attempt, snapshot>>
vars == <<engine, contextVars, answers, catalogVars, mssqlOnly, postgresOnly, greenplumOnly,
          transportVars>>

Unused == "unused"
MssqlUnused ==
    /\ server = Unused /\ transport = Unused /\ queries = Unused
    /\ profile = Unused /\ identity = Unused /\ inspected = Unused
PostgresUnused ==
    /\ legacy = Unused /\ connection = Unused /\ connects = Unused
    /\ portal = Unused /\ reads = Unused
GreenplumUnused ==
    /\ entry = Unused /\ session = Unused /\ reader = Unused /\ holder = Unused
CatalogUnused ==
    /\ catalog = Unused /\ truncated = Unused /\ clock = Unused /\ exclusive = Unused
    /\ candidates = Unused /\ shared = Unused /\ turn = Unused /\ sealed = Unused

Init ==
    /\ Transport!Init
    /\ \/ /\ engine = "mssql" /\ Mssql!Init
          /\ CatalogUnused /\ PostgresUnused /\ GreenplumUnused
       \/ /\ engine = "postgres" /\ Postgres!Init
          /\ answers = Unused /\ MssqlUnused /\ GreenplumUnused
       \/ /\ engine = "greenplum" /\ Greenplum!Init
          /\ MssqlUnused /\ PostgresUnused
       \/ /\ engine = "mssql_transport"
          /\ phase = Unused /\ attempt = Unused /\ snapshot = Unused /\ answers = Unused
          /\ CatalogUnused /\ MssqlUnused /\ PostgresUnused /\ GreenplumUnused

-----------------------------------------------------------------------------
PostgresLeaves == UNCHANGED <<engine, answers, mssqlOnly, greenplumOnly, transportVars>>
PostgresOpening == engine = "postgres" /\ Postgres!Opening /\ PostgresLeaves

Next ==
    \/ /\ engine = "mssql" /\ Mssql!Next
       /\ UNCHANGED <<engine, catalogVars, postgresOnly, greenplumOnly, transportVars>>
    \/ engine = "postgres" /\ Postgres!Next /\ PostgresLeaves
    \/ /\ engine = "greenplum" /\ Greenplum!Next
       /\ UNCHANGED <<engine, mssqlOnly, postgresOnly, transportVars>>
    \/ /\ engine = "mssql_transport" /\ Transport!Next
       /\ UNCHANGED <<engine, contextVars, answers, catalogVars, mssqlOnly, postgresOnly,
                      greenplumOnly>>

(* As in PostgresReads and MssqlTransport: a thread of this process that   *)
(* is inside a call keeps running, and nothing is assumed of the others.   *)
Spec == Init /\ [][Next]_vars /\ WF_vars(PostgresOpening) /\ Transport!Fairness

-----------------------------------------------------------------------------
(* SQL Server: every accepted answer is of one snapshot, one object and    *)
(* the encoding helper that was inspected, and a context that ended holds  *)
(* no session, although other sessions replace relations and the helper    *)
(* between any two queries (mssql.py:1971, 2851).                          *)
MssqlContextIsSound == engine = "mssql" => Mssql!MssqlContextIsSound

(* PostgreSQL: every read returns the rows the snapshot holds of exactly   *)
(* the relations that make up the acquired one, whatever another session   *)
(* commits between discovery, lock, snapshot and inspection                *)
(* (postgres.py:2445, 2994).                                               *)
PostgresReadsAreOfTheSnapshot == engine = "postgres" => Postgres!PostgresReadsAreOfTheSnapshot

(* PostgreSQL: every open ends with a context or an error, although        *)
(* another session may hold an exclusive lock for ever, and an ended open  *)
(* holds no connection and no lock (postgres.py:2932).                     *)
PostgresOpenEnds ==
    /\ <>(engine = "postgres" => Postgres!OpenEnded)
    /\ [](engine = "postgres" => Postgres!EndedHoldsNothing)

(* Greenplum and Greengage: accepted reads are of the snapshot and of the  *)
(* relations as they were inspected, for two reader threads and a context  *)
(* that is retired under them (greengage_endpoint.py:909, 1130).           *)
GreenplumReadsAreOfTheSnapshot ==
    engine = "greenplum" => Greenplum!GreenplumReadsAreOfTheSnapshot

(* A native cancel of a SQL Server query reaches the query it names, that  *)
(* query only, and decides it (mssql.py:879, 912).                         *)
CancellationIsExact == Transport!CancellationIsExact

(* Owner and supervisors of the SQL Server transport never wait for each   *)
(* other for ever (mssql.py:975, 1115).                                    *)
TransportCallsEnd == Transport!TransportCallsEnd
=============================================================================
