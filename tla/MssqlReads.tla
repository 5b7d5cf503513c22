----------------------------- MODULE MssqlReads -----------------------------
(***************************************************************************)
(* The protected SNAPSHOT read context of SQL Server (mssql.py and, with   *)
(* Legacy, mssql_legacy.py): connect with retries, profile, SNAPSHOT       *)
(* transaction, inspection of the protected relations, reads, close.       *)
(* The server runs other sessions: they write rows, replace relations and  *)
(* the 2016 UTF-8 helper, and change database settings between any two     *)
(* queries.  SQL Server versions rows but not metadata.  A query is one    *)
(* step (MssqlTransport has its threads); its end is "ok", "refused" (an   *)
(* error before any driver state changed, the transport stays open) or     *)
(* "retired" (the transport closed itself).                                *)
(***************************************************************************)
EXTENDS Naturals, FiniteSets

CONSTANTS
    Relations,    \* the relations of the acquisition set
    Legacy,       \* TRUE for the 2016 profile
    MaxAttempts,  \* MssqlRetryPolicy.max_attempts
    MaxQueries,   \* queries the source budget admits
    MaxChanges    \* bound: changes other sessions make

MssqlReadsAssumption ==
    /\ Legacy \in BOOLEAN /\ IsFiniteSet(Relations)
    /\ MaxAttempts \in Nat \ {0} /\ MaxQueries \in Nat /\ MaxChanges \in Nat

VARIABLES
    server,     \* rows (data version), object (id per relation), helper and settings versions
    phase,      \* where the open is, then the context's state
    transport,  \* "none", "open" or "closed"
    attempt,    \* connection attempts made
    queries,    \* queries dispatched to the source budget
    profile,    \* settings and helper versions of the capability probe
    snapshot,   \* data version of the SNAPSHOT transaction
    identity,   \* per relation: the object id of its catalog row, 0 while unread
    inspected,  \* relations whose inspection is registered
    answers     \* reads answered: [relation, object, helper, rows]

vars == <<server, phase, transport, attempt, queries, profile, snapshot, identity, inspected,
          answers>>
contextVars == <<attempt, profile, snapshot, identity, inspected, answers>>

Init ==
    /\ server = [rows |-> 1, object |-> [r \in Relations |-> 1], helper |-> 1, settings |-> 1,
                 changes |-> 0]
    /\ phase = "connect" /\ transport = "none"
    /\ attempt = 0 /\ queries = 0
    /\ profile = [settings |-> 0, helper |-> 0] /\ snapshot = 0
    /\ identity = [r \in Relations |-> 0] /\ inspected = {} /\ answers = {}

-----------------------------------------------------------------------------
(* Other sessions of the server.                                           *)

OtherSessionChanges ==
    /\ server.changes < MaxChanges /\ phase \notin {"failed", "closed"}
    /\ \/ server' = [server EXCEPT !.changes = @ + 1, !.rows = @ + 1]
       \/ \E r \in Relations : server' = [server EXCEPT !.changes = @ + 1, !.object[r] = @ + 1]
       \/ Legacy /\ server' = [server EXCEPT !.changes = @ + 1, !.helper = @ + 1]
       \/ server' = [server EXCEPT !.changes = @ + 1, !.settings = @ + 1]
    /\ UNCHANGED <<phase, transport, contextVars, queries>>

-----------------------------------------------------------------------------
(* Opening.                                                                *)

\* _close_opening_transport, and transport.rollback/close inside it: a rollback that fails retires
\* the transport, so it is closed either way.
CloseOpeningTransport_LeavesOpen == UNCHANGED transport
CloseOpeningTransport == transport' = IF transport = "open" THEN "closed" ELSE transport

FailOpen == phase' = "failed" /\ CloseOpeningTransport

\* _open_mssql_transport_once_budgeted: a driver, server or evidence failure closes the connection
\* and is a MssqlConnectionError; the probe is charged to the budget.
OpenTransportOnce ==
    /\ queries < MaxQueries
    /\ queries' = queries + 1
    /\ transport' \in {"none", "open"}
    /\ attempt' = attempt + 1

\* _open_mssql_transport_budgeted: only a connection error is retried, after a delay bounded by
\* the source deadline; a deadline or an exhausted budget ends the open.
OpenTransport ==
    /\ phase = "connect"
    /\ \/ /\ OpenTransportOnce
          /\ phase' = CASE transport' = "open" -> "profile"
                        [] transport' = "none" /\ attempt' = MaxAttempts -> "failed"
                        [] OTHER -> "connect"
       \/ /\ phase' = "failed"
          /\ UNCHANGED <<transport, attempt, queries>>
    /\ UNCHANGED <<server, profile, snapshot, identity, inspected, answers>>

\* execute_budgeted: dispatch_query charges the budget or refuses.
Charged == queries < MaxQueries /\ queries' = queries + 1
OpeningQueryFails ==
    /\ queries' \in {queries, queries + 1} /\ queries' <= MaxQueries
    /\ FailOpen
    /\ UNCHANGED <<profile, snapshot>>

\* _server_profile_from_row and _validate_server_profile: SNAPSHOT isolation is allowed, UTF-8 and
\* VIEW DEFINITION are available; settings beyond MaxSupported are not.
MaxSupported == 2
ServerProfileSupported == server.settings <= MaxSupported

\* _validate_mssql_2016_profile and _helper_binding_failures: the helper must be the one whose
\* definition, signature and permissions the code expects.
ExpectedHelper == 1
HelperSupported == Legacy => server.helper = ExpectedHelper

\* The capability probe.
ReadProfile ==
    /\ phase = "profile"
    /\ \/ /\ Charged /\ ServerProfileSupported /\ HelperSupported
          /\ profile' = [settings |-> server.settings, helper |-> server.helper]
          /\ phase' = "configure"
          /\ UNCHANGED <<transport, snapshot>>
       \/ OpeningQueryFails
    /\ UNCHANGED <<server, attempt, identity, inspected, answers>>

\* configure_snapshot_transaction: the transport retires itself when the driver fails.
ConfigureSnapshot ==
    /\ phase = "configure"
    /\ \/ phase' = "snapshot" /\ UNCHANGED transport
       \/ phase' = "failed" /\ transport' = "closed"
    /\ UNCHANGED <<server, attempt, queries, profile, snapshot, identity, inspected, answers>>

\* _read_context_evidence_from_row: the first query of the transaction pins the row version and
\* must see the profiled settings; for 2016 also the profiled helper.
EvidenceMatchesProfile ==
    /\ server.settings = profile.settings
    /\ Legacy => server.helper = profile.helper

ReadSnapshotEvidence ==
    /\ phase = "snapshot"
    /\ \/ /\ Charged /\ EvidenceMatchesProfile
          /\ snapshot' = server.rows
          /\ phase' = "inspect"
          /\ UNCHANGED <<transport, profile>>
       \/ OpeningQueryFails
    /\ UNCHANGED <<server, attempt, identity, inspected, answers>>

\* _relation_metadata_query and _validated_relation_metadata: the identity of the relation now,
\* when it is a plain readable table of the profiled database.
CatalogIdentity(r) == server.object[r]

\* _column_metadata_query and _binding_from_metadata_row: the columns are read by object id, so a
\* relation replaced since its catalog row was read has none.
ColumnsPresent(r) == identity[r] = server.object[r]

\* inspect_relation_budgeted, first query: one acquisition at a time.
InspectRelation(r) ==
    /\ phase = "inspect" /\ identity[r] = 0
    /\ \A s \in Relations : identity[s] # 0 => s \in inspected
    /\ Charged
    /\ identity' = [identity EXCEPT ![r] = CatalogIdentity(r)]
    /\ UNCHANGED <<server, phase, transport, attempt, profile, snapshot, inspected, answers>>

\* Second query, and _register_inspection.
InspectColumns(r) ==
    /\ phase = "inspect" /\ identity[r] # 0 /\ r \notin inspected /\ ColumnsPresent(r)
    /\ Charged
    /\ inspected' = inspected \cup {r}
    /\ phase' = IF inspected' = Relations THEN "active" ELSE "inspect"
    /\ UNCHANGED <<server, transport, attempt, profile, snapshot, identity, answers>>

\* Any failure of an inspection closes the context: open_mssql_protected_read_context.
InspectionFails ==
    /\ phase = "inspect"
    /\ queries' \in {queries, queries + 1} /\ queries' <= MaxQueries
    /\ FailOpen
    /\ UNCHANGED <<server, attempt, profile, snapshot, identity, inspected, answers>>

-----------------------------------------------------------------------------
(* Reads of an open context.                                               *)

\* The witness the compiled statement returns with its rows, computed by the server while it runs
\* (_build_origin_cte and, for 2016, _mssql_2016_helper_witness).
OriginWitness(r) ==
    [object |-> server.object[r],
     helper |-> IF Legacy THEN server.helper = profile.helper ELSE TRUE]

\* _validated_witness_rows
WitnessValid_Unchecked(r) == TRUE
WitnessValid(r) == OriginWitness(r) = [object |-> identity[r], helper |-> TRUE]

\* A compiled read (key summary, range fingerprints, range rows, manifest).  SNAPSHOT makes its
\* rows those of the pinned version; SQL Server may instead fail it because metadata changed.
\* Rows whose decoding fails leave the context usable.
Read(r) ==
    /\ phase = "active" /\ r \in inspected
    /\ Charged /\ WitnessValid(r)
    /\ \/ answers' = answers \cup {[relation |-> r, object |-> server.object[r],
                                    helper |-> server.helper, rows |-> snapshot]}
       \/ UNCHANGED answers
    /\ UNCHANGED <<server, phase, transport, attempt, profile, snapshot, identity, inspected>>

\* _lose_for_metadata_error: a witness that does not match ends the context and its transport.
ReadLosesProvenance(r) ==
    /\ phase = "active" /\ r \in inspected
    /\ Charged /\ ~WitnessValid(r)
    /\ phase' = "lost" /\ transport' = "closed"
    /\ UNCHANGED <<server, attempt, profile, snapshot, identity, inspected, answers>>

\* _execute_compiled_budgeted on an error (metadata changed under the snapshot, transport, deadline
\* or budget): the context is lost; the transport closed itself unless the query was refused
\* before the driver saw it.
ReadFails ==
    /\ phase = "active"
    /\ queries' \in {queries, queries + 1} /\ queries' <= MaxQueries
    /\ transport' \in {transport, "closed"}
    /\ phase' = "lost"
    /\ UNCHANGED <<server, contextVars>>

\* MssqlReadContext.close: rolls the transaction back and closes, from ACTIVE or LOST; when the
\* driver fails the transport has retired itself and the caller sees the error, the context LOST.
Close ==
    /\ phase \in {"active", "lost"}
    /\ CloseOpeningTransport
    /\ phase' \in (IF transport = "open" THEN {"closed", "lost"} ELSE {"closed"})
    /\ UNCHANGED <<server, contextVars, queries>>

-----------------------------------------------------------------------------
Next ==
    \/ OtherSessionChanges
    \/ OpenTransport \/ ReadProfile \/ ConfigureSnapshot \/ ReadSnapshotEvidence
    \/ \E r \in Relations : InspectRelation(r) \/ InspectColumns(r)
    \/ InspectionFails
    \/ \E r \in Relations : Read(r) \/ ReadLosesProvenance(r)
    \/ ReadFails \/ Close
Spec == Init /\ [][Next]_vars

-----------------------------------------------------------------------------
\* Every read a context answers is anchored (mssql.py:1971): all of them describe the row version
\* of the one SNAPSHOT, those of a relation the one object that was inspected under its name, and
\* those of a 2016 server were encoded by the expected helper, whatever other sessions replaced
\* before, between and after the queries of the open and of the reads.
MssqlReadsAreAnchored ==
    \A a, b \in answers :
        /\ a.rows = b.rows
        /\ a.relation = b.relation => a.object = b.object
        /\ a.object = identity[a.relation]
        /\ Legacy => a.helper = ExpectedHelper

\* A context that ended holds no server session (mssql.py:2851): after a failed open or a close
\* the transport is not open, and the budget never admits more queries than it has.
MssqlSessionsAreReleased ==
    /\ phase \in {"failed", "closed"} => transport # "open"
    /\ phase \in {"active", "inspect"} => transport = "open"
    /\ queries <= MaxQueries

\* A context answers only anchored reads (mssql.py:1971) and never outlives its end (mssql.py:2851).
MssqlContextIsSound ==
    /\ MssqlReadsAreAnchored
    /\ MssqlSessionsAreReleased

=============================================================================
