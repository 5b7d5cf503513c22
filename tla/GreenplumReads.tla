---------------------------- MODULE GreenplumReads ----------------------------
(***************************************************************************)
(* The read contexts of the Greenplum family.  Entry chooses one of them:  *)
(* the protected endpoints "greengage" (greengage_endpoint.py) and         *)
(* "original" (original_greenplum_endpoint.py), whose whole acquisition is *)
(* retried after a race, and the canonical contexts "greengage_probe" and  *)
(* "original_probe" (greenplum.py), which discover on a session of their   *)
(* own.  All lock the relations by name in one LOCK TABLE, take the        *)
(* snapshot with the first query after it, and require the catalog of the  *)
(* snapshot to be the discovered one.  Reader threads share a context      *)
(* through its query lock; rows are parsed after the lock is released.     *)
(* Another session replaces, truncates and alters the relations and        *)
(* expands the cluster at any step.                                        *)
(***************************************************************************)
EXTENDS Naturals, FiniteSets

CONSTANTS
    Relations,    \* relation names, numbered from 1: their order is the lock order
    Readers,      \* threads that use one context
    MaxAttempts,  \* PostgresRetryPolicy.max_attempts
    MaxChanges,   \* bound: changes other sessions commit
    MaxReads      \* bound: reads answered

GreenplumReadsAssumption ==
    /\ IsFiniteSet(Relations) /\ Relations # {}
    /\ Relations \subseteq 1..Cardinality(Relations)
    /\ IsFiniteSet(Readers)
    /\ MaxAttempts \in Nat \ {0} /\ MaxChanges \in Nat /\ MaxReads \in Nat

Entries == {"greengage", "original", "greengage_probe", "original_probe"}
Endpoints == {"greengage", "original"}
Greengage == {"greengage", "greengage_probe"}

VARIABLES
    entry,       \* which of the four contexts this is
    catalog,     \* [oid, shape, policy: relation -> number; primaries: number of primary segments]
    truncated,   \* OID -> time of its last TRUNCATE
    clock,       \* changes committed
    exclusive,   \* OIDs another session holds in ACCESS EXCLUSIVE mode
    session,     \* "none", "open" or "closed"
    phase,       \* where the open is, then the context's state
    attempt,     \* acquisition attempts of an endpoint, connection attempts of a probe
    candidates,  \* relation -> its identity at discovery, Unknown before
    turn,        \* relations LOCK TABLE has locked
    shared,      \* OIDs held in ACCESS SHARE mode
    snapshot,    \* [at, catalog]
    sealed,      \* relations bound to the snapshot
    reader,      \* thread -> [step, read: kind of read, relation, seen: what its statements returned]
    holder,      \* threads that hold the query lock (at most one)
    answers      \* reads answered: [read, relation, seen]

serverVars == <<entry, catalog, truncated, clock, exclusive>>
openVars == <<attempt, candidates, turn, snapshot, sealed>>
readVars == <<reader, holder, answers>>
vars == <<serverVars, session, phase, openVars, shared, readVars>>

OIDs == 0..(Cardinality(Relations) + MaxChanges)
Unknown == [oid |-> 0, shape |-> 0, policy |-> 0]

\* The kinds of read.  Only a fingerprint returns which segments answered; "records" is a key
\* summary, exact rows or a manifest.
Reads == {"fingerprint", "records"}
Idle == [step |-> "idle", read |-> "records", relation |-> 0, seen |-> {}]
Retiring == [Idle EXCEPT !.step = "retire"]

Init ==
    /\ entry \in Entries
    /\ catalog = [oid |-> [r \in Relations |-> r], shape |-> [r \in Relations |-> 1],
                  policy |-> [r \in Relations |-> 2], primaries |-> 2]
    /\ truncated = [o \in OIDs |-> 0] /\ clock = 0 /\ exclusive = {}
    /\ session = "none" /\ phase = "connect" /\ attempt = 1
    /\ candidates = [r \in Relations |-> Unknown] /\ turn = 0 /\ shared = {}
    /\ snapshot = [at |-> 0, catalog |-> catalog] /\ sealed = {}
    /\ reader = [t \in Readers |-> Idle] /\ holder = {} /\ answers = {}

\* Nothing is read of the server any more.
Ended == phase \in {"failed", "lost", "closed"}

-----------------------------------------------------------------------------
(* The other session.                                                      *)

OtherSessionLocks(r) ==
    /\ clock < MaxChanges /\ ~Ended
    /\ catalog.oid[r] \notin shared \cup exclusive \cup {0}
    /\ exclusive' = exclusive \cup {catalog.oid[r]}
    /\ UNCHANGED <<entry, catalog, truncated, clock, session, phase, openVars, shared, readVars>>

\* DROP with or without CREATE, TRUNCATE, ALTER COLUMN and redistribution of a locked relation;
\* expansion of the cluster needs no relation lock.
OtherSessionCommits ==
    /\ clock < MaxChanges /\ ~Ended
    /\ \/ \E r \in Relations :
            /\ catalog.oid[r] \in exclusive
            /\ \/ \E o \in {0, Cardinality(Relations) + clock + 1} :
                    catalog' = [catalog EXCEPT !.oid[r] = o] /\ UNCHANGED truncated
               \/ /\ truncated' = [truncated EXCEPT ![catalog.oid[r]] = clock + 1]
                  /\ UNCHANGED catalog
               \/ catalog' = [catalog EXCEPT !.shape[r] = @ + 1] /\ UNCHANGED truncated
               \/ catalog' = [catalog EXCEPT !.policy[r] = catalog.primaries] /\ UNCHANGED truncated
       \/ catalog' = [catalog EXCEPT !.primaries = @ + 1] /\ UNCHANGED truncated
    /\ clock' = clock + 1 /\ exclusive' = {}
    /\ UNCHANGED <<entry, session, phase, openVars, shared, readVars>>

-----------------------------------------------------------------------------
(* Sessions.                                                               *)

\* _GreengageSession.__exit__: ROLLBACK and close, once; a failed ROLLBACK still closes.
CloseGreengageSession == session' = "closed" /\ shared' = {}

\* _OriginalGreenplumSession.__exit__
CloseOriginalSession == session' = "closed" /\ shared' = {}

\* _GreengageEndpointSession.close, _OriginalGreenplumEndpointSession.close
CloseSession ==
    IF session # "open" THEN UNCHANGED <<session, shared>>
    ELSE IF entry \in Greengage THEN CloseGreengageSession
    ELSE CloseOriginalSession

FailOpen ==
    /\ phase' = "failed" /\ CloseSession
    /\ UNCHANGED <<serverVars, openVars, readVars>>

\* open_greengage_protected_read_context: GreengageAcquisitionRaceError and GreenplumConnectionError
\* start the acquisition again, on a new connection; every other error ends the open.
RetryGreengage ==
    /\ entry = "greengage" /\ CloseSession
    /\ phase' = IF attempt = MaxAttempts THEN "failed" ELSE "connect"
    /\ attempt' = IF attempt = MaxAttempts THEN attempt ELSE attempt + 1
    /\ candidates' = [r \in Relations |-> Unknown] /\ turn' = 0 /\ sealed' = {}
    /\ UNCHANGED <<serverVars, snapshot, readVars>>

\* open_original_greenplum_protected_read_context
RetryOriginal ==
    /\ entry = "original" /\ CloseSession
    /\ phase' = IF attempt = MaxAttempts THEN "failed" ELSE "connect"
    /\ attempt' = IF attempt = MaxAttempts THEN attempt ELSE attempt + 1
    /\ candidates' = [r \in Relations |-> Unknown] /\ turn' = 0 /\ sealed' = {}
    /\ UNCHANGED <<serverVars, snapshot, readVars>>

\* A race ends the open of a canonical context (GreenplumMetadataError).
Race == RetryGreengage \/ RetryOriginal \/ (entry \notin Endpoints /\ FailOpen)

-----------------------------------------------------------------------------
(* Opening.                                                                *)

Discovered == \A r \in Relations : candidates[r] # Unknown

Connected(to) ==
    /\ session' = "open" /\ phase' = to
    /\ UNCHANGED <<serverVars, openVars, shared, readVars>>

\* _connect_once of the two endpoints.
ConnectEndpoint ==
    /\ phase = "connect" /\ entry \in Endpoints
    /\ Connected("discover") \/ RetryGreengage \/ RetryOriginal

\* _connect_original_greenplum: an operational error is retried, up to max_attempts connections.
ConnectOriginalProbe ==
    /\ phase = "connect" /\ entry = "original_probe"
    /\ \/ Connected(IF Discovered THEN "begin" ELSE "discover")
       \/ /\ phase' = (IF attempt = MaxAttempts THEN "failed" ELSE "connect")
          /\ attempt' = (IF attempt = MaxAttempts THEN attempt ELSE attempt + 1)
          /\ UNCHANGED <<serverVars, session, candidates, turn, snapshot, sealed, shared, readVars>>

\* _connect_greengage
ConnectGreengageProbe ==
    /\ phase = "connect" /\ entry = "greengage_probe"
    /\ \/ Connected(IF Discovered THEN "begin" ELSE "discover")
       \/ /\ phase' = (IF attempt = MaxAttempts THEN "failed" ELSE "connect")
          /\ attempt' = (IF attempt = MaxAttempts THEN attempt ELSE attempt + 1)
          /\ UNCHANGED <<serverVars, session, candidates, turn, snapshot, sealed, shared, readVars>>

\* parse_original_greenplum_relation_catalog, with its storage profile and the reader's privileges:
\* no distribution width in that catalog.
OriginalRelationCatalog(c, r) == [oid |-> c.oid[r], shape |-> c.shape[r], policy |-> 0]

\* parse_greengage_relation_catalog
GreengageRelationCatalog(c, r) == [oid |-> c.oid[r], shape |-> c.shape[r], policy |-> c.policy[r]]

\* The relation and type catalogs of a relation (greenplum_type_catalog_query,
\* parse_greenplum_type_probe).
Identity(c, r) ==
    IF entry \in Greengage THEN GreengageRelationCatalog(c, r) ELSE OriginalRelationCatalog(c, r)

\* _discover_candidate of an endpoint: one relation, in autocommit (greengage) or in a read
\* committed transaction (original).
DiscoverCandidate(r) ==
    /\ phase = "discover" /\ entry \in Endpoints /\ candidates[r] = Unknown
    /\ \A s \in Relations : s < r => candidates[s] # Unknown
    /\ \/ /\ catalog.oid[r] # 0
          /\ candidates' = [candidates EXCEPT ![r] = Identity(catalog, r)]
          /\ phase' = IF \A s \in Relations : candidates'[s] # Unknown THEN "begin" ELSE "discover"
          /\ UNCHANGED <<serverVars, session, attempt, turn, snapshot, sealed, shared, readVars>>
       \/ FailOpen

\* _discover_original_greenplum_canonical_candidates, _discover_greengage_canonical_candidates: the
\* session is closed again when the last relation is known.
DiscoverProbeCandidate(r) ==
    /\ phase = "discover" /\ entry \notin Endpoints /\ candidates[r] = Unknown
    /\ \A s \in Relations : s < r => candidates[s] # Unknown
    /\ \/ /\ catalog.oid[r] # 0
          /\ candidates' = [candidates EXCEPT ![r] = Identity(catalog, r)]
          /\ IF \A s \in Relations : candidates'[s] # Unknown
             THEN phase' = "connect" /\ attempt' = 1 /\ CloseSession
             ELSE UNCHANGED <<phase, attempt, session, shared>>
          /\ UNCHANGED <<serverVars, turn, snapshot, sealed, readVars>>
       \/ FailOpen

\* BEGIN and SET LOCAL: no query, so no snapshot yet (begin_canonical_snapshot,
\* begin_serializable_read_only, _open_once).
BeginTransaction ==
    /\ phase = "begin"
    /\ \/ phase' = "lock" /\ UNCHANGED <<serverVars, session, openVars, shared, readVars>>
       \/ FailOpen

\* _canonical_lock_statement and _lock_statement: LOCK TABLE a, b in the order of the names.
LockOrder(k) == CHOOSE r \in Relations : Cardinality({s \in Relations : s <= r}) = k

\* The server locks one relation after the other, waiting for the other session; a missing relation
\* or the lock (original: statement) timeout ends the open.
LockRelations ==
    /\ phase = "lock" /\ turn < Cardinality(Relations)
    /\ LET o == catalog.oid[LockOrder(turn + 1)]
       IN  \/ /\ o \notin exclusive \cup {0}
              /\ shared' = shared \cup {o} /\ turn' = turn + 1
              /\ UNCHANGED <<serverVars, session, phase, attempt, candidates, snapshot, sealed,
                             readVars>>
           \/ o \in exclusive \cup {0} /\ FailOpen

\* The first query after LOCK TABLE takes the snapshot: _probe_server (greengage).
ProbeGreengageServer ==
    /\ phase = "lock" /\ turn = Cardinality(Relations) /\ entry \in Greengage
    /\ \/ /\ snapshot' = [at |-> clock, catalog |-> catalog] /\ phase' = "seal"
          /\ UNCHANGED <<serverVars, session, attempt, candidates, turn, sealed, shared, readVars>>
       \/ FailOpen

\* _probe_original_greenplum_profile, _build_server_profile and _validate_server_profile.
ProbeOriginalServer ==
    /\ phase = "lock" /\ turn = Cardinality(Relations) /\ entry \notin Greengage
    /\ \/ /\ snapshot' = [at |-> clock, catalog |-> catalog] /\ phase' = "seal"
          /\ UNCHANGED <<serverVars, session, attempt, candidates, turn, sealed, shared, readVars>>
       \/ FailOpen

\* parse_greenplum_topology: the primaries of the snapshot.
Topology == snapshot.catalog.primaries

\* _require_original_greenplum_candidate, _require_greengage_candidate and the comparison in both
\* _seal_candidate.
CandidateUnchanged_Unchecked(r) == TRUE
CandidateUnchanged(r) ==
    /\ snapshot.catalog.oid[r] # 0
    /\ Identity(snapshot.catalog, r) = candidates[r]

\* _seal_candidate (greengage): the relation is distributed over every active primary.
SealsGreengageCandidate(r) ==
    /\ CandidateUnchanged(r)
    /\ entry = "greengage" => candidates[r].policy = Topology

\* _seal_candidate (original)
SealsOriginalCandidate(r) == CandidateUnchanged(r)

SealCandidate(r) ==
    /\ phase = "seal" /\ r \notin sealed
    /\ \/ /\ IF entry \in Greengage THEN SealsGreengageCandidate(r) ELSE SealsOriginalCandidate(r)
          /\ sealed' = sealed \cup {r}
          /\ phase' = IF sealed' = Relations THEN "locks" ELSE "seal"
          /\ UNCHANGED <<serverVars, session, attempt, candidates, turn, snapshot, shared, readVars>>
       \/ ~CandidateUnchanged(r) /\ Race
       \/ FailOpen

\* _probe_relation_locks, and _probe_locks of greengage_endpoint: pg_locks holds an AccessShareLock
\* for every sealed OID, and the OIDs are distinct.
LocksHeld ==
    /\ \A r \in Relations : candidates[r].oid \in shared
    /\ \A r, s \in Relations : r # s => candidates[r].oid # candidates[s].oid

ProbeLocks ==
    /\ phase = "locks"
    /\ \/ /\ LocksHeld
          /\ phase' = IF entry \in Endpoints THEN "active" ELSE "prepare"
          /\ UNCHANGED <<serverVars, session, openVars, shared, readVars>>
       \/ FailOpen

\* The canonical contexts read and validate the plan of every fingerprint while they open, and then
\* probe the locks again (_require_relation_locks_unchanged).
Prepared ==
    \/ LocksHeld /\ phase' = "active" /\ UNCHANGED <<serverVars, session, openVars, shared, readVars>>
    \/ FailOpen

PrepareOriginalRelations == phase = "prepare" /\ entry = "original_probe" /\ Prepared
PrepareGreengageRelations == phase = "prepare" /\ entry = "greengage_probe" /\ Prepared

-----------------------------------------------------------------------------
(* Reads: threads share the context through _query_lock.                   *)

ReaderAt(t, step) == reader[t].step = step
Advance(t, step) == reader' = [reader EXCEPT ![t].step = step]

\* _lose, under the query lock: the first failure closes the session, once.
Lose ==
    IF phase = "active" THEN phase' = "lost" /\ CloseSession
    ELSE UNCHANGED <<phase, session, shared>>

\* _require_relation and _require_active under the lock.  Fingerprints are planned first; a key
\* summary, exact rows and a manifest are executed at once (_execute_read).
BeginRead(t, r, read) ==
    /\ ReaderAt(t, "idle") /\ phase = "active" /\ entry \in Endpoints
    /\ holder = {} /\ Cardinality(answers) < MaxReads
    /\ holder' = {t}
    /\ reader' = [reader EXCEPT ![t] = [step |-> IF read = "fingerprint" THEN "plan" ELSE "execute",
                                       read |-> read, relation |-> r, seen |-> {}]]
    /\ UNCHANGED <<serverVars, session, phase, openVars, shared, answers>>

\* read_relation_manifest takes its deadline from the budget before it locks; a spent budget retires
\* the context.
ManifestOutOfTime(t) ==
    /\ ReaderAt(t, "idle") /\ phase = "active" /\ entry \in Endpoints
    /\ reader' = [reader EXCEPT ![t] = Retiring]
    /\ UNCHANGED <<serverVars, session, phase, openVars, shared, holder, answers>>

\* _restore_invariants of greengage_endpoint: settings unchanged inside the snapshot.
RestoreGreengageInvariants == session = "open"

\* _restore_invariants of original_greenplum_endpoint: also the same snapshot and backend.
RestoreOriginalInvariants == session = "open" /\ shared # {}

\* EXPLAIN of a range fingerprint and its validation, between two restorations of the invariants.
PlanGreengageFingerprints(t) ==
    /\ ReaderAt(t, "plan") /\ entry = "greengage" /\ RestoreGreengageInvariants
    /\ Advance(t, "execute")
    /\ UNCHANGED <<serverVars, session, phase, openVars, shared, holder, answers>>

PlanOriginalFingerprints(t) ==
    /\ ReaderAt(t, "plan") /\ entry = "original" /\ RestoreOriginalInvariants
    /\ Advance(t, "execute")
    /\ UNCHANGED <<serverVars, session, phase, openVars, shared, holder, answers>>

\* What the statement returns: the relation its name denotes now, whether its rows are those of the
\* snapshot, on how many segments it keeps them, and the segments that answered.
RowsSeen(r, segments) ==
    [oid |-> catalog.oid[r],
     shape |-> IF truncated[catalog.oid[r]] > snapshot.at THEN 0 ELSE catalog.shape[r],
     policy |-> catalog.policy[r],
     segments |-> segments]

\* A new gang may reach expanded primaries; only a fingerprint tells.
Untold == 0
Segments(read) == IF read = "fingerprint" THEN {Topology, catalog.primaries} ELSE {Untold}

\* fetch_rows and fetch_bounded_rows with _require_query_provenance: the row type is the sealed one.
Fetch(t, step) ==
    \E segments \in Segments(reader[t].read) :
      LET seen == RowsSeen(reader[t].relation, segments)
      IN  /\ seen.oid = candidates[reader[t].relation].oid
          /\ reader' = [reader EXCEPT ![t].step = step, ![t].seen = @ \cup {seen}]

\* One statement, for fingerprints of all ranges too; the lock is released with the rows unparsed.
ExecuteGreengageRead(t) ==
    /\ ReaderAt(t, "execute") /\ entry = "greengage" /\ RestoreGreengageInvariants
    /\ Fetch(t, "parse") /\ holder' = {}
    /\ UNCHANGED <<serverVars, session, phase, openVars, shared, answers>>

\* Fingerprints are one statement per range, each planned before it is executed, under one hold of
\* the lock.
ExecuteOriginalRead(t) ==
    /\ ReaderAt(t, "execute") /\ entry = "original" /\ RestoreOriginalInvariants
    /\ \/ Fetch(t, "parse") /\ holder' = {}
       \/ reader[t].read = "fingerprint" /\ Fetch(t, "plan") /\ UNCHANGED holder
    /\ UNCHANGED <<serverVars, session, phase, openVars, shared, answers>>

\* Any failure under the lock loses the context.
ReadFails(t) ==
    /\ reader[t].step \in {"plan", "execute"}
    /\ Lose /\ holder' = {} /\ reader' = [reader EXCEPT ![t] = Idle]
    /\ UNCHANGED <<serverVars, openVars, answers>>

\* _parse_range_fingerprints, _parse_range_fingerprint and parse_greenplum_canonical_fingerprint:
\* the segments that answered are the primaries of the topology.
SegmentsMatch_Unchecked(seen) == TRUE
SegmentsMatch(seen) == seen.segments = Topology

\* The rows parse and are returned, or the context is retired.
Answer(t) ==
    /\ answers' = answers \cup {[read |-> reader[t].read, relation |-> reader[t].relation,
                                seen |-> seen] : seen \in reader[t].seen}
    /\ reader' = [reader EXCEPT ![t] = Idle]
    /\ UNCHANGED <<serverVars, session, phase, openVars, shared, holder>>

RefuseRows(t) ==
    /\ ReaderAt(t, "parse") /\ reader' = [reader EXCEPT ![t] = Retiring]
    /\ UNCHANGED <<serverVars, session, phase, openVars, shared, holder, answers>>

\* _parse_range_fingerprint(s)
ParseFingerprints(t) ==
    /\ ReaderAt(t, "parse") /\ reader[t].read = "fingerprint"
    /\ \A seen \in reader[t].seen : SegmentsMatch(seen)
    /\ Answer(t)

\* _parse_key_summary, _parse_exact_rows and _parse_manifest_record: these rows say nothing of the
\* segments they come from.
ParseRecords(t) ==
    /\ ReaderAt(t, "parse") /\ reader[t].read = "records"
    /\ Answer(t)

\* _retire: rows that do not parse lose the context, after the lock was free for other threads.
Retire(t) ==
    /\ ReaderAt(t, "retire") /\ holder = {}
    /\ Lose /\ reader' = [reader EXCEPT ![t] = Idle]
    /\ UNCHANGED <<serverVars, openVars, holder, answers>>

\* read_canonical_fingerprints of the canonical contexts: every relation in one critical section,
\* rows parsed inside it.
CanonicalRead(segments) ==
    LET seen == [r \in Relations |-> RowsSeen(r, segments)]
    IN  IF \A r \in Relations : SegmentsMatch(seen[r])
        THEN /\ answers' = answers \cup
                  {[read |-> "fingerprint", relation |-> r, seen |-> seen[r]] : r \in Relations}
             /\ UNCHANGED <<phase, session, shared>>
        ELSE Lose /\ UNCHANGED answers

ReadOriginalFingerprints ==
    /\ phase = "active" /\ entry = "original_probe" /\ holder = {}
    /\ (\E segments \in Segments("fingerprint") : CanonicalRead(segments))
       \/ (Lose /\ UNCHANGED answers)
    /\ UNCHANGED <<serverVars, openVars, reader, holder>>

ReadGreengageFingerprints ==
    /\ phase = "active" /\ entry = "greengage_probe" /\ holder = {}
    /\ (\E segments \in Segments("fingerprint") : CanonicalRead(segments))
       \/ (Lose /\ UNCHANGED answers)
    /\ UNCHANGED <<serverVars, openVars, reader, holder>>

\* close and __exit__
Close ==
    /\ phase \in {"active", "lost"} /\ holder = {}
    /\ phase' = "closed"
    /\ IF phase = "active" THEN CloseSession ELSE UNCHANGED <<session, shared>>
    /\ UNCHANGED <<serverVars, openVars, readVars>>

-----------------------------------------------------------------------------
OtherSession == (\E r \in Relations : OtherSessionLocks(r)) \/ OtherSessionCommits

Opening ==
    \/ ConnectEndpoint \/ ConnectOriginalProbe \/ ConnectGreengageProbe
    \/ \E r \in Relations : DiscoverCandidate(r) \/ DiscoverProbeCandidate(r)
    \/ BeginTransaction \/ LockRelations \/ ProbeGreengageServer \/ ProbeOriginalServer
    \/ \E r \in Relations : SealCandidate(r)
    \/ ProbeLocks \/ PrepareOriginalRelations \/ PrepareGreengageRelations

Reading ==
    \/ \E t \in Readers :
         \/ \E r \in Relations, read \in Reads : BeginRead(t, r, read)
         \/ ManifestOutOfTime(t) \/ PlanGreengageFingerprints(t) \/ PlanOriginalFingerprints(t)
         \/ ExecuteGreengageRead(t) \/ ExecuteOriginalRead(t) \/ ReadFails(t)
         \/ ParseFingerprints(t) \/ ParseRecords(t) \/ RefuseRows(t) \/ Retire(t)
    \/ ReadOriginalFingerprints \/ ReadGreengageFingerprints \/ Close

Next == OtherSession \/ Opening \/ Reading
Spec == Init /\ [][Next]_vars

-----------------------------------------------------------------------------
\* Every read a context of the family answers is of its snapshot (greengage_endpoint.py:1130): the
\* relation is the one the snapshot has under that name, with the shape the snapshot has, which is
\* the shape the query was compiled for, not emptied since, and on as many segments.  On the Greengage
\* endpoint these are all primaries of the snapshot, whatever joins the cluster before the read
\* (greengage_endpoint.py:1181).  A fingerprint was answered by exactly those primaries; the other
\* reads do not say who answered.  And the one session is closed exactly when the context or its open
\* has ended (greengage_endpoint.py:904), although a thread may fail between two reads of another
\* and retire the context late.
GreenplumReadsAreOfTheSnapshot ==
    /\ \A a \in answers :
         /\ a.seen.oid = snapshot.catalog.oid[a.relation]
         /\ a.seen.shape = snapshot.catalog.shape[a.relation]
         /\ a.seen.shape = candidates[a.relation].shape
         /\ a.seen.policy = snapshot.catalog.policy[a.relation]
         /\ entry = "greengage" => a.seen.policy = snapshot.catalog.primaries
         /\ a.read = "fingerprint" => a.seen.segments = snapshot.catalog.primaries
    /\ phase = "active" => session = "open" /\ \A r \in Relations : catalog.oid[r] \in shared
    /\ phase \in {"failed", "lost", "closed"} => session # "open" /\ shared = {}

=============================================================================
