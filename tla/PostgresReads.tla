---------------------------- MODULE PostgresReads ----------------------------
(***************************************************************************)
(* The protected read context of PostgreSQL (postgres.py and, when legacy, *)
(* postgres_legacy.py).  Discovery happens in autocommit, before the       *)
(* transaction; the discovered relations are locked by NAME; only then is  *)
(* the snapshot taken, the locks proved by OID and the relation graph read *)
(* again inside the snapshot.  Another session replaces, truncates,        *)
(* attaches, creates and detaches relations at any step; a TRUNCATE or a   *)
(* rebound name is visible through an older snapshot, so the order of      *)
(* these steps is what makes the reads sound.                              *)
(***************************************************************************)
EXTENDS Naturals, FiniteSets, SequencesExt

CONSTANTS
    Names,        \* relation names, numbered from 1: their order is the lock order
    Bound,        \* names that exist initially
    FrozenRoot,   \* name acquired with its inheritance descendants
    Physical,     \* name acquired as one physical table
    MaxAttempts,  \* PostgresRetryPolicy.max_attempts
    MaxChanges,   \* bound: changes other sessions commit
    MaxReads      \* bound: reads of an open context

PostgresReadsAssumption ==
    /\ IsFiniteSet(Names) /\ Names \subseteq 1..Cardinality(Names) /\ Bound \subseteq Names
    /\ FrozenRoot \in Bound /\ Physical \in Bound
    /\ MaxAttempts \in Nat \ {0} /\ MaxChanges \in Nat /\ MaxReads \in Nat

VARIABLES
    legacy,      \* TRUE for the PostgreSQL 9.6 profile
    catalog,     \* [bind: name -> OID (0 = none), edges: set of [parent, child, detaching]]
    truncated,   \* OID -> time of its last TRUNCATE (0 = never)
    clock,       \* changes committed: the time snapshots refer to
    exclusive,   \* OIDs the other session holds in ACCESS EXCLUSIVE mode
    connection,  \* "none", "open" or "closed"
    phase,       \* where the open is, then the context's state
    attempt,     \* acquisition attempts
    connects,    \* connections tried in this attempt
    candidates,  \* acquired name -> candidate discovered before the transaction
    shared,      \* OIDs held in ACCESS SHARE mode
    turn,        \* members of UniqueLockCandidates locked in this transaction
    snapshot,    \* [at: time, catalog]
    sealed,      \* acquired names inspected in the snapshot
    portal,      \* acquired name whose server cursor is open, 0 = none
    reads        \* reads answered: [of, oids, at]

vars == <<legacy, catalog, truncated, clock, exclusive, connection, phase, attempt, connects, candidates,
          shared, turn, snapshot, sealed, portal, reads>>
serverVars == <<legacy, catalog, truncated, clock, exclusive>>
contextVars == <<candidates, shared, snapshot, sealed, portal, reads>>

Acquired == {FrozenRoot, Physical}
OIDs == 1..(Cardinality(Names) + MaxChanges)
NoCandidate == [root |-> 0, members |-> {}, edges |-> {}]
Initially == [bind |-> [n \in Names |-> IF n \in Bound THEN n ELSE 0], edges |-> {}]

Init ==
    /\ legacy \in BOOLEAN /\ catalog = Initially
    /\ truncated = [o \in OIDs |-> 0] /\ clock = 0 /\ exclusive = {}
    /\ connection = "none" /\ phase = "connect" /\ attempt = 1 /\ connects = 0
    /\ candidates = [n \in Acquired |-> NoCandidate]
    /\ shared = {} /\ turn = 0 /\ snapshot = [at |-> 0, catalog |-> Initially]
    /\ sealed = {} /\ portal = 0 /\ reads = {}

-----------------------------------------------------------------------------
(* The other session: at most one transaction at a time.                   *)

\* ACCESS EXCLUSIVE conflicts with every other lock of the relation.
OtherSessionLocks(o) ==
    /\ clock < MaxChanges /\ phase \notin {"failed", "closed"}
    /\ \E n \in Names : catalog.bind[n] = o
    /\ o \notin shared \cup exclusive
    /\ exclusive' = exclusive \cup {o}
    /\ UNCHANGED <<legacy, catalog, truncated, clock, connection, phase, attempt, connects, contextVars>>

NewOid == Cardinality(Names) + clock + 1

\* What a transaction commits: DROP of a locked relation, with or without a new CREATE, its TRUNCATE,
\* its ALTER TABLE ... INHERIT; or, without any such lock, CREATE TABLE ... INHERITS and the first
\* transaction of DETACH PARTITION CONCURRENTLY.
OtherSessionCommits ==
    /\ clock < MaxChanges /\ phase \notin {"failed", "closed"}
    /\ \/ \E n \in Names :
            /\ catalog.bind[n] \in exclusive
            /\ \E o \in {0, NewOid} :
                 catalog' = [bind |-> [catalog.bind EXCEPT ![n] = o],
                             edges |-> {e \in catalog.edges :
                                          catalog.bind[n] \notin {e.parent, e.child}}]
            /\ UNCHANGED truncated
       \/ \E o \in exclusive :
            /\ truncated' = [truncated EXCEPT ![o] = clock + 1]
            /\ UNCHANGED catalog
       \/ \E o \in exclusive \ {catalog.bind[FrozenRoot]} :
            /\ catalog.bind[FrozenRoot] # 0 /\ \A e \in catalog.edges : e.child # o
            /\ catalog' = [catalog EXCEPT !.edges = @ \cup
                            {[parent |-> catalog.bind[FrozenRoot], child |-> o,
                              detaching |-> FALSE]}]
            /\ UNCHANGED truncated
       \/ \E n \in Names :
            /\ catalog.bind[n] = 0 /\ catalog.bind[FrozenRoot] # 0
            /\ catalog' = [bind |-> [catalog.bind EXCEPT ![n] = NewOid],
                           edges |-> catalog.edges \cup
                              {[parent |-> catalog.bind[FrozenRoot], child |-> NewOid,
                                detaching |-> FALSE]}]
            /\ UNCHANGED truncated
       \/ /\ ~legacy
          /\ \E e \in catalog.edges :
               /\ ~e.detaching
               /\ catalog' = [catalog EXCEPT !.edges = (@ \ {e}) \cup
                                {[e EXCEPT !.detaching = TRUE]}]
          /\ UNCHANGED truncated
    /\ clock' = clock + 1 /\ exclusive' = {}
    /\ UNCHANGED <<legacy, connection, phase, attempt, connects, contextVars>>

OtherSessionRollsBack ==
    /\ exclusive # {} /\ exclusive' = {}
    /\ UNCHANGED <<legacy, catalog, truncated, clock, connection, phase, attempt, connects, contextVars>>

-----------------------------------------------------------------------------
(* Opening.                                                                *)

\* Closing the connection ends its transaction and frees its locks.
CloseConnection ==
    /\ connection' = IF connection = "open" THEN "closed" ELSE connection
    /\ shared' = {}

\* psycopg errors, a lock or statement timeout, an exhausted budget or a passed deadline, and
\* metadata that is invalid before the transaction: the attempt ends without a retry.
FailOpen ==
    /\ phase' = "failed" /\ CloseConnection
    /\ UNCHANGED <<serverVars, attempt, connects, candidates, snapshot, sealed, portal, reads>>

\* _execute_setup_bounded, _execute_source_command and the bounded fetch: a refused or failed setup
\* query.
SetupQueryFails == FailOpen

\* _profile_and_evidence and _validate_profile: encodings, time zone, isolation and read-only mode.
ProfileUnsupported == FailOpen

\* PostgresAcquisitionRaceError: the attempt's connection is closed and the whole acquisition is
\* retried on a new one, at most max_attempts times.
RetryAfterRace ==
    /\ CloseConnection
    /\ phase' = IF attempt = MaxAttempts THEN "failed" ELSE "connect"
    /\ attempt' = IF attempt = MaxAttempts THEN attempt ELSE attempt + 1
    /\ connects' = 0 /\ sealed' = {}
    /\ UNCHANGED <<serverVars, candidates, snapshot, portal, reads>>

\* _connect_protected and _connect_legacy_protected: an OperationalError is retried, any other
\* error ends the open.
ConnectProtected ==
    /\ phase = "connect"
    /\ connects' = connects + 1
    /\ \/ phase' = "discover" /\ connection' = "open"
       \/ phase' = (IF connects' = MaxAttempts THEN "failed" ELSE "connect") /\ UNCHANGED connection
       \/ phase' = "failed" /\ UNCHANGED connection
    /\ candidates' = [n \in Acquired |-> NoCandidate]
    /\ UNCHANGED <<serverVars, attempt, shared, snapshot, sealed, portal, reads>>

\* The recursive pg_inherits query: the relation and its descendants (two levels reach every
\* relation of this catalog: OtherSessionCommits attaches to the root only).
Descendants(c, o) == {o} \cup {e.child : e \in {x \in c.edges : x.parent = o}}

MemberOf(c, o) == [oid |-> o, name |-> CHOOSE n \in Names : c.bind[n] = o]

\* _discover_physical_relation_candidate and _physical_member_candidate_from_row
PhysicalCandidate(c, n) ==
    [root |-> c.bind[n], members |-> {MemberOf(c, c.bind[n])}, edges |-> {}]

\* _discover_frozen_relation_candidate, _frozen_candidate_from_rows, _member_candidate_from_values
FrozenCandidate(c, n) ==
    LET members == Descendants(c, c.bind[n])
    IN  [root |-> c.bind[n],
         members |-> {MemberOf(c, o) : o \in members},
         edges |-> {e \in c.edges : e.parent \in members}]

\* _discover_legacy_relation_candidate: a 9.6 server has no detach state.
LegacyCandidate(c, n) ==
    [FrozenCandidate(c, n) EXCEPT !.edges = {[e EXCEPT !.detaching = FALSE] : e \in @}]

\* _discover_relation_candidate
Candidate(c, n) ==
    CASE n # FrozenRoot -> PhysicalCandidate(c, n)
      [] n = FrozenRoot /\ ~legacy -> FrozenCandidate(c, n)
      [] n = FrozenRoot /\ legacy -> LegacyCandidate(c, n)

\* An edge pending detachment is a race, from either discovery.
DetachPending(candidate) == \E e \in candidate.edges : e.detaching

\* _open_protected_once: one autocommit query per acquisition, each at its own time.
DiscoverRelation(n) ==
    /\ phase = "discover" /\ candidates[n] = NoCandidate
    /\ \A m \in Acquired : m < n => candidates[m] # NoCandidate
    /\ \/ /\ catalog.bind[n] # 0 /\ ~DetachPending(Candidate(catalog, n))
          /\ candidates' = [candidates EXCEPT ![n] = Candidate(catalog, n)]
          /\ phase' = IF \A m \in Acquired : candidates'[m] # NoCandidate THEN "begin"
                                                                        ELSE "discover"
          /\ UNCHANGED <<serverVars, connection, attempt, connects, shared, snapshot, sealed, portal, reads>>
       \/ catalog.bind[n] # 0 /\ DetachPending(Candidate(catalog, n)) /\ RetryAfterRace
       \/ SetupQueryFails

\* _unique_lock_candidates: the members of all candidates, each OID once, by name then OID.  An OID
\* discovered under two names ends the open.
LockMembers == UNION {candidates[n].members : n \in Acquired}
LocksBefore(a, b) == a.name < b.name \/ (a.name = b.name /\ a.oid < b.oid)
UniqueLockCandidates == SetToSortSeq(LockMembers, LocksBefore)
ConflictingIdentities == \E a, b \in LockMembers : a.oid = b.oid /\ a.name # b.name

BeginTransaction ==
    /\ phase = "begin"
    /\ \/ /\ ~ConflictingIdentities /\ phase' = "lock"
          /\ UNCHANGED <<serverVars, connection, attempt, connects, contextVars>>
       \/ FailOpen

\* The locks are taken in this order, one turn each; a name that was rebound locks another OID.
LockTurns == Len(UniqueLockCandidates)

\* _lock_candidate_relation: LOCK TABLE ONLY resolves the name now, and waits for the other session.
LockCandidateRelation ==
    /\ phase = "lock" /\ turn < LockTurns
    /\ LET o == catalog.bind[UniqueLockCandidates[turn + 1].name]
       IN  \/ /\ o # 0 /\ o \notin exclusive
              /\ shared' = shared \cup {o} /\ turn' = turn + 1
              /\ UNCHANGED <<serverVars, connection, phase, attempt, connects, candidates, snapshot,
                             sealed, portal, reads>>
           \/ o = 0 /\ RetryAfterRace /\ turn' = 0

\* _configure_protected_lock_timeouts: SET LOCAL lock_timeout before every lock, so a wait ends.
LockTimesOut_NeverSet == FALSE
LockTimesOut == phase = "lock" /\ turn < LockTurns /\ FailOpen /\ UNCHANGED turn

\* _configure_protected_snapshot_invariants is the transaction's first query: it fixes the snapshot.
ConfigureSnapshotInvariants ==
    /\ phase = "lock" /\ turn = LockTurns
    /\ \/ /\ snapshot' = [at |-> clock, catalog |-> catalog]
          /\ phase' = "prove"
          /\ UNCHANGED <<serverVars, connection, attempt, connects, candidates, shared, sealed, portal, reads>>
       \/ FailOpen
    /\ turn' = 0

\* _capture_protected_snapshot: pg_locks holds an
\* AccessShareLock for every discovered OID.
LocksProven == \A m \in LockMembers : m.oid \in shared

CaptureSnapshot ==
    /\ phase = "prove" /\ ~legacy /\ UNCHANGED turn
    /\ \/ /\ LocksProven /\ phase' = "seal"
          /\ UNCHANGED <<serverVars, connection, attempt, connects, contextVars>>
       \/ ~LocksProven /\ RetryAfterRace
       \/ ProfileUnsupported

\* _capture_legacy_protected_snapshot: the same proof, from the 9.6 catalog functions.
CaptureLegacySnapshot ==
    /\ phase = "prove" /\ legacy /\ UNCHANGED turn
    /\ \/ /\ LocksProven /\ phase' = "pgcrypto"
          /\ UNCHANGED <<serverVars, connection, attempt, connects, contextVars>>
       \/ ~LocksProven /\ RetryAfterRace
       \/ ProfileUnsupported

\* _validate_legacy_profile and _validate_legacy_pgcrypto: the 9.6 server hashes with pgcrypto.
ValidateLegacyPgcrypto ==
    /\ phase = "pgcrypto" /\ UNCHANGED turn
    /\ \/ phase' = "seal" /\ UNCHANGED <<serverVars, connection, attempt, connects, contextVars>>
       \/ FailOpen

\* _seal_protected_candidate: the graph the snapshot sees is the discovered one.
FinalCandidateMatches_Unchecked(n) == TRUE
FinalCandidateMatches(n) ==
    /\ snapshot.catalog.bind[n] # 0
    /\ Candidate(snapshot.catalog, n) = candidates[n]
    /\ ~DetachPending(candidates[n])

\* _validate_protected_context_closure: the locks of the evidence are exactly the members' OIDs, and
\* every composition reaches all of its members from its root.
ContextClosure ==
    /\ shared = {m.oid : m \in LockMembers}
    /\ \A n \in Acquired :
         /\ candidates[n].root \in {m.oid : m \in candidates[n].members}
         /\ \A m \in candidates[n].members :
              m.oid = candidates[n].root \/ \E e \in candidates[n].edges : e.child = m.oid

\* _inspect_protected_candidate and _inspect_protected_member; when the last relation is sealed, the
\* context.
InspectCandidate(n) ==
    /\ phase = "seal" /\ n \notin sealed /\ UNCHANGED turn
    /\ \/ /\ FinalCandidateMatches(n)
          /\ sealed' = sealed \cup {n}
          /\ phase' = IF sealed' = Acquired THEN "active" ELSE "seal"
          /\ phase' = "active" => ContextClosure
          /\ UNCHANGED <<serverVars, connection, attempt, connects, candidates, shared, snapshot,
                         reads, portal>>
       \/ ~FinalCandidateMatches(n) /\ RetryAfterRace
       \/ SetupQueryFails

-----------------------------------------------------------------------------
(* Reads of an open context.                                               *)

\* _require_compiled_origin_types: the row type of every member the statement names.  The server
\* resolves the names when it plans the statement.
OriginTypesMatch(n) == \A m \in candidates[n].members : catalog.bind[m.name] = m.oid

\* The rows an explicit ONLY scan of the members returns: those of the snapshot, except that a
\* relation truncated since then is empty.
RowsSeen(n) ==
    {[oid |-> m.oid, lost |-> truncated[m.oid] > snapshot.at] : m \in candidates[n].members}

\* The server's or the driver's error loses the context; any other (limits, budget, deadline,
\* provenance) leaves it active, its portal closed.
LoseContext ==
    /\ phase' = "lost" /\ CloseConnection /\ portal' = 0
    /\ UNCHANGED <<serverVars, attempt, connects, turn, candidates, snapshot, sealed, reads>>

\* _execute_compiled_query_before_deadline, up to the description of the portal.
ExecuteCompiledQuery(n) ==
    /\ phase = "active" /\ portal = 0 /\ Cardinality(reads) < MaxReads
    /\ \/ /\ OriginTypesMatch(n) /\ portal' = n
          /\ UNCHANGED <<serverVars, connection, phase, attempt, connects, turn, candidates, shared,
                         snapshot, sealed, reads>>
       \/ LoseContext

\* _fetch_bounded_rows_before_deadline and _require_compiled_query_provenance.
FetchBoundedRows ==
    /\ phase = "active" /\ portal # 0 /\ ~legacy
    /\ \/ /\ portal' = 0
          /\ reads' \in {reads, reads \cup {[of |-> portal, rows |-> RowsSeen(portal),
                                          at |-> snapshot.at]}}
          /\ UNCHANGED <<serverVars, connection, phase, attempt, connects, turn, candidates, shared,
                         snapshot, sealed>>
       \/ LoseContext

\* _LegacyCursor: FETCH FORWARD and CLOSE of the declared portal; a CLOSE that fails after another
\* error is only noted.
FetchLegacyPortal ==
    /\ phase = "active" /\ portal # 0 /\ legacy
    /\ \/ /\ portal' = 0
          /\ reads' \in {reads, reads \cup {[of |-> portal, rows |-> RowsSeen(portal),
                                          at |-> snapshot.at]}}
          /\ UNCHANGED <<serverVars, connection, phase, attempt, connects, turn, candidates, shared,
                         snapshot, sealed>>
       \/ LoseContext

\* PostgresReadContext.close: ROLLBACK when active, and the connection closed whatever it answers.
Close ==
    /\ phase \in {"active", "lost"} /\ portal = 0 /\ CloseConnection /\ phase' = "closed"
    /\ UNCHANGED <<serverVars, attempt, connects, candidates, snapshot, sealed, reads, turn, portal>>

-----------------------------------------------------------------------------
OtherSession ==
    /\ UNCHANGED turn
    /\ (\E o \in OIDs : OtherSessionLocks(o)) \/ OtherSessionCommits \/ OtherSessionRollsBack

Opening ==
    \/ /\ UNCHANGED turn
       /\ ConnectProtected \/ (\E n \in Acquired : DiscoverRelation(n)) \/ BeginTransaction
    \/ LockCandidateRelation \/ LockTimesOut
    \/ ConfigureSnapshotInvariants \/ CaptureSnapshot \/ CaptureLegacySnapshot
    \/ ValidateLegacyPgcrypto
    \/ \E n \in Acquired : InspectCandidate(n)

Reading ==
    \/ \E n \in Acquired : ExecuteCompiledQuery(n)
    \/ FetchBoundedRows \/ FetchLegacyPortal \/ Close

Next == OtherSession \/ Opening \/ Reading

\* The open is a thread of this process; nothing is assumed of the other session.
Spec == Init /\ [][Next]_vars /\ WF_vars(Opening)

-----------------------------------------------------------------------------
\* Every read of an open context returns the rows the snapshot holds, of exactly the relations that
\* make up the acquired relation in the snapshot (postgres.py:2445): no descendant attached or
\* created since the discovery is missing, none was replaced under its name, and none was truncated
\* after the snapshot, whatever the other session commits between any two steps.
PostgresReadsAreOfTheSnapshot ==
    /\ \A r \in reads :
         /\ {x.oid : x \in r.rows} =
                (IF r.of = FrozenRoot
                 THEN Descendants(snapshot.catalog, snapshot.catalog.bind[r.of])
                 ELSE {snapshot.catalog.bind[r.of]})
         /\ \A x \in r.rows : ~x.lost
         /\ r.at = snapshot.at
    /\ phase = "active" => \A n \in Acquired : OriginTypesMatch(n)

\* Every open ends, with a context or an error, although the other session may sit on an exclusive
\* lock for ever and the graph may keep changing (postgres.py:2932), and a failed open holds no
\* connection and no lock (postgres.py:2499).
OpenEnded == phase \in {"failed", "active", "lost", "closed"}
EndedHoldsNothing == phase \in {"failed", "closed"} => connection # "open" /\ shared = {}
PostgresOpenEnds == <>OpenEnded /\ []EndedHoldsNothing

=============================================================================
