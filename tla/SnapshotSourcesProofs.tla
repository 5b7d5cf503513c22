----------------------- MODULE SnapshotSourcesProofs ------------------------
(***************************************************************************)
(* Proofs about the three sources of SnapshotSources.                      *)
(*                                                                         *)
(* PostgreSQL and Greenplum rest on one argument.  ACCESS EXCLUSIVE and    *)
(* ACCESS SHARE exclude each other, so from the snapshot on a relation     *)
(* that is locked has the name, the shape and the rows the snapshot saw    *)
(* (PgHeld, GpHeld).  That the locks taken by name are those of the        *)
(* discovered OIDs, and that the snapshot's graph is the discovered one,   *)
(* is checked before the context is handed out (PgSealed, GpSealed);       *)
(* nothing the other session does afterwards reaches what is locked.       *)
(*                                                                         *)
(* The SQL Server transport, whose queries other threads cancel            *)
(* (MssqlTransport): a native cancel in flight is counted, and the owner   *)
(* withdraws its handle only at a count of zero, so every native call      *)
(* finds the handle of the query it names (SupervisorOK, CallsCounted);    *)
(* the request is recorded in the same critical section that reads the     *)
(* handle, so the owner decides the query by it (RequestOK, OutcomeOK).    *)
(* The SNAPSHOT context over it (MssqlReads): an answer is accepted only   *)
(* with the witness of the object inspected and of the helper profiled     *)
(* (MssqlAnchors), and every phase says whether the transport is open      *)
(* (MssqlSession).                                                         *)
(***************************************************************************)
EXTENDS SnapshotSources, FiniteSetTheorems, TLAPS

-----------------------------------------------------------------------------
(* The PostgreSQL context, for any set of names, any number of changes by  *)
(* the other session and any number of acquisition attempts.               *)

PgEdges == [parent : Postgres!OIDs, child : Postgres!OIDs, detaching : BOOLEAN]

(* A catalog: every child of an edge still has a name.                     *)
PgCatalog(c) ==
    /\ c \in [bind : [Names -> Postgres!OIDs \cup {0}], edges : SUBSET PgEdges]
    /\ \A e \in c.edges : \E n \in Names : c.bind[n] = e.child

(* The server: an OID is locked exclusively only while it has a name, and  *)
(* never together with a shared lock.                                      *)
PgServer ==
    /\ legacy \in BOOLEAN /\ clock \in Nat /\ clock <= PostgresChanges
    /\ PgCatalog(catalog)
    /\ truncated \in [Postgres!OIDs -> Nat]
    /\ \A o \in Postgres!OIDs : truncated[o] <= clock
    /\ exclusive \subseteq Postgres!OIDs
    /\ \A o \in exclusive : \E n \in Names : catalog.bind[n] = o
    /\ exclusive \cap shared = {} /\ 0 \notin shared

(* From the snapshot on, what is locked is as the snapshot saw it.         *)
PgHeldPhases == {"prove", "pgcrypto", "seal", "active"}
PgHeld ==
    phase \in PgHeldPhases =>
        /\ \A o \in shared \cap Postgres!OIDs : truncated[o] <= snapshot.at
        /\ \A n \in Names :
              snapshot.catalog.bind[n] \in shared => catalog.bind[n] = snapshot.catalog.bind[n]

(* The relations that make up an acquired one in the snapshot.             *)
PgMemberOids(n) ==
    IF n = FrozenRoot THEN Postgres!Descendants(snapshot.catalog, snapshot.catalog.bind[n])
                      ELSE {snapshot.catalog.bind[n]}
PgMatched(n) ==
    /\ snapshot.catalog.bind[n] # 0
    /\ candidates[n].members =
          {Postgres!MemberOf(snapshot.catalog, o) : o \in PgMemberOids(n)}

(* What has been inspected is what the snapshot holds, and it is locked.   *)
PgOpened == {"active", "lost", "closed"}
PgSealed ==
    /\ PgCatalog(snapshot.catalog) /\ snapshot.at \in Nat
    /\ sealed \subseteq Postgres!Acquired
    /\ sealed # {} => phase \in PgOpened \cup {"seal", "failed"}
    /\ phase \in PgOpened => sealed = Postgres!Acquired
    /\ \A n \in sealed : PgMatched(n)
    /\ phase \in {"pgcrypto", "seal", "active"} => Postgres!LocksProven

(* The portal and the reads belong to an open context.                     *)
PgReads ==
    /\ portal # 0 => portal \in Postgres!Acquired /\ phase = "active"
    /\ reads # {} => phase \in PgOpened
    /\ \A r \in reads :
          /\ r.of \in Postgres!Acquired /\ r.at = snapshot.at
          /\ {x.oid : x \in r.rows} = PgMemberOids(r.of)
          /\ \A x \in r.rows : ~x.lost

(* A connection and its locks live exactly as long as the open needs them. *)
PgConnection ==
    phase \in {"connect", "failed", "lost", "closed"} => connection # "open" /\ shared = {}

PgInv == engine = "postgres" => PgServer /\ PgHeld /\ PgSealed /\ PgReads /\ PgConnection

(* The instance counts and bounds sets as this module does.                *)
LEMMA PgCounting ==
    /\ \A S : Postgres!Cardinality(S) = Cardinality(S)
    /\ \A S : Postgres!IsFiniteSet(S) <=> IsFiniteSet(S)
<1>1. ASSUME NEW S PROVE Postgres!Cardinality(S) = Cardinality(S)
  BY Zenon DEF Postgres!Cardinality, Cardinality
<1>2. ASSUME NEW S PROVE Postgres!IsFiniteSet(S) <=> IsFiniteSet(S)
  BY Zenon DEF Postgres!IsFiniteSet, IsFiniteSet
<1> QED
  BY <1>1, <1>2

(* What the constants give: OIDs are numbers and the names are not 0.      *)
LEMMA PgConstants ==
    /\ Postgres!OIDs \subseteq Nat \ {0} /\ Names \subseteq Postgres!OIDs
    /\ Postgres!Acquired \subseteq Names /\ 0 \notin Postgres!Acquired
    /\ FrozenRoot \in Names /\ PostgresChanges \in Nat /\ Cardinality(Names) \in Nat
    /\ Bound \subseteq Names
<1>1. /\ IsFiniteSet(Names) /\ Names \subseteq 1..Cardinality(Names) /\ Bound \subseteq Names
      /\ FrozenRoot \in Bound /\ Physical \in Bound /\ PostgresChanges \in Nat
  BY PgCounting, SnapshotSourcesAssumption DEF Postgres!PostgresReadsAssumption
<1>2. Cardinality(Names) \in Nat
  BY <1>1, FS_CardinalityType
<1> QED
  BY <1>1, <1>2, PgCounting DEF Postgres!OIDs, Postgres!Acquired

(* Nothing is locked, sealed or read yet.                                  *)
LEMMA PgInit ==
    Init => PgInv
<1> SUFFICES ASSUME Init, engine = "postgres"
             PROVE  PgServer /\ PgHeld /\ PgSealed /\ PgReads /\ PgConnection
  BY DEF PgInv
<1>1. Postgres!Init
  BY DEF Init
<1>2. PgCatalog(Postgres!Initially)
  BY PgConstants DEF PgCatalog, Postgres!Initially
<1>3. PgServer
  BY <1>1, <1>2, PgConstants DEF Postgres!Init, PgServer
<1>4. PgHeld /\ PgReads /\ PgConnection
  BY <1>1 DEF Postgres!Init, PgHeld, PgHeldPhases, PgReads, PgConnection
<1>5. PgSealed
  BY <1>1, <1>2 DEF Postgres!Init, PgSealed, PgOpened
<1> QED
  BY <1>3, <1>4, <1>5

(* The other session: what it changes it has locked exclusively, or it had *)
(* no name, so nothing that is held in share mode changes.                 *)
LEMMA PgOtherSessionStep ==
    ASSUME PgServer, PgHeld, Postgres!OtherSession
    PROVE  PgServer' /\ PgHeld'
<1>0. /\ legacy' = legacy /\ phase' = phase /\ shared' = shared /\ snapshot' = snapshot
  BY DEF Postgres!OtherSession, Postgres!OtherSessionLocks, Postgres!OtherSessionCommits,
         Postgres!OtherSessionRollsBack, Postgres!contextVars
<1>1. ASSUME NEW o \in Postgres!OIDs, Postgres!OtherSessionLocks(o)
      PROVE  PgServer' /\ PgHeld'
  BY <1>0, <1>1 DEF Postgres!OtherSessionLocks, PgServer, PgHeld, PgCatalog
<1>2. CASE Postgres!OtherSessionRollsBack
  BY <1>0, <1>2 DEF Postgres!OtherSessionRollsBack, PgServer, PgHeld, PgCatalog
<1>3. CASE Postgres!OtherSessionCommits
  <2>1. /\ clock' = clock + 1 /\ clock' \in Nat /\ clock' <= PostgresChanges /\ exclusive' = {}
    BY <1>3, PgConstants DEF Postgres!OtherSessionCommits, PgServer
  <2>2. Postgres!NewOid \in Postgres!OIDs
    BY <2>1, PgConstants, PgCounting DEF Postgres!NewOid, Postgres!OIDs, PgServer
  <2>3. ASSUME catalog' = catalog, NEW o \in exclusive,
               truncated' = [truncated EXCEPT ![o] = clock + 1]
        PROVE  PgServer' /\ PgHeld'
    <3>1. truncated' \in [Postgres!OIDs -> Nat] /\ \A p \in Postgres!OIDs : truncated'[p] <= clock'
      BY <2>1, <2>3 DEF PgServer
    <3>2. \A p \in shared \cap Postgres!OIDs : truncated'[p] = truncated[p]
      BY <2>3 DEF PgServer
    <3>3. PgServer'
      BY <1>0, <2>1, <2>3, <3>1 DEF PgServer, PgCatalog
    <3> QED
      BY <1>0, <2>3, <3>2, <3>3 DEF PgHeld
  <2>4. ASSUME truncated' = truncated, PgCatalog(catalog'),
               \A n \in Names : catalog'.bind[n] = catalog.bind[n] \/ catalog.bind[n] \notin shared
        PROVE  PgServer' /\ PgHeld'
    <3>1. PgServer'
      BY <1>0, <2>1, <2>4 DEF PgServer
    <3>2. PgHeld'
      BY <1>0, <2>4 DEF PgHeld
    <3> QED
      BY <3>1, <3>2
  <2>5. ASSUME NEW n \in Names, catalog.bind[n] \in exclusive, truncated' = truncated,
               NEW o \in {0, Postgres!NewOid},
               catalog' = [bind |-> [catalog.bind EXCEPT ![n] = o],
                           edges |-> {e \in catalog.edges :
                                        catalog.bind[n] \notin {e.parent, e.child}}]
        PROVE  PgServer' /\ PgHeld'
    <3>1. catalog'.bind \in [Names -> Postgres!OIDs \cup {0}] /\ catalog'.edges \subseteq PgEdges
      BY <2>2, <2>5 DEF PgServer, PgCatalog
    <3>2. \A m \in Names : catalog'.bind[m] = IF m = n THEN o ELSE catalog.bind[m]
      BY <2>5 DEF PgServer, PgCatalog
    <3>3. ASSUME NEW e \in catalog'.edges PROVE \E m \in Names : catalog'.bind[m] = e.child
      <4>1. e \in catalog.edges /\ e.child # catalog.bind[n]
        BY <2>5, <3>3
      <4>2. PICK m \in Names : catalog.bind[m] = e.child
        BY <4>1 DEF PgServer, PgCatalog
      <4> QED
        BY <3>2, <4>1, <4>2
    <3>4. PgCatalog(catalog')
      BY <2>5, <3>1, <3>3 DEF PgCatalog
    <3>5. catalog.bind[n] \notin shared
      BY <2>5 DEF PgServer
    <3> QED
      BY <2>4, <2>5, <3>2, <3>4, <3>5
  <2>6. ASSUME NEW o \in exclusive, catalog.bind[FrozenRoot] # 0, truncated' = truncated,
               catalog' = [catalog EXCEPT !.edges = @ \cup
                             {[parent |-> catalog.bind[FrozenRoot], child |-> o,
                               detaching |-> FALSE]}]
        PROVE  PgServer' /\ PgHeld'
    <3>1. catalog.bind[FrozenRoot] \in Postgres!OIDs
      BY <2>6, PgConstants DEF PgServer, PgCatalog
    <3>2. [parent |-> catalog.bind[FrozenRoot], child |-> o, detaching |-> FALSE] \in PgEdges
      BY <3>1 DEF PgServer, PgEdges
    <3>3. catalog' = [bind |-> catalog.bind,
                         edges |-> catalog.edges \cup
                            {[parent |-> catalog.bind[FrozenRoot], child |-> o,
                              detaching |-> FALSE]}]
      BY <2>6 DEF PgServer, PgCatalog
    <3>4. catalog'.bind = catalog.bind /\ catalog'.edges \subseteq PgEdges
      BY <3>2, <3>3 DEF PgServer, PgCatalog
    <3>5. \A e \in catalog'.edges : \E m \in Names : catalog'.bind[m] = e.child
      BY <3>3, <3>4 DEF PgServer, PgCatalog
    <3>6. PgCatalog(catalog')
      BY <3>3, <3>4, <3>5 DEF PgServer, PgCatalog
    <3> QED
      BY <2>4, <2>6, <3>4, <3>6
  <2>7. ASSUME NEW n \in Names, catalog.bind[n] = 0, catalog.bind[FrozenRoot] # 0,
               truncated' = truncated,
               catalog' = [bind |-> [catalog.bind EXCEPT ![n] = Postgres!NewOid],
                           edges |-> catalog.edges \cup
                              {[parent |-> catalog.bind[FrozenRoot], child |-> Postgres!NewOid,
                                detaching |-> FALSE]}]
        PROVE  PgServer' /\ PgHeld'
    <3>1. catalog.bind[FrozenRoot] \in Postgres!OIDs
      BY <2>7, PgConstants DEF PgServer, PgCatalog
    <3>2. [parent |-> catalog.bind[FrozenRoot], child |-> Postgres!NewOid, detaching |-> FALSE]
             \in PgEdges
      BY <2>2, <3>1 DEF PgEdges
    <3>3. catalog'.bind \in [Names -> Postgres!OIDs \cup {0}] /\ catalog'.edges \subseteq PgEdges
      BY <2>2, <2>7, <3>2 DEF PgServer, PgCatalog
    <3>4. \A m \in Names : catalog'.bind[m] = IF m = n THEN Postgres!NewOid ELSE catalog.bind[m]
      BY <2>7 DEF PgServer, PgCatalog
    <3>5. ASSUME NEW e \in catalog'.edges PROVE \E m \in Names : catalog'.bind[m] = e.child
      <4>1. CASE e \in catalog.edges
        <5>1. PICK m \in Names : catalog.bind[m] = e.child
          BY <4>1 DEF PgServer, PgCatalog
        <5>2. e.child # 0
          BY <4>1, PgConstants DEF PgServer, PgCatalog, PgEdges
        <5> QED
          BY <2>7, <3>4, <5>1, <5>2
      <4>2. CASE e \notin catalog.edges
        BY <2>7, <3>4, <4>2
      <4> QED
        BY <4>1, <4>2
    <3>6. PgCatalog(catalog')
      BY <2>7, <3>3, <3>5 DEF PgCatalog
    <3>7. 0 \notin shared
      BY DEF PgServer
    <3> QED
      BY <2>4, <2>7, <3>4, <3>6, <3>7
  <2>8. ASSUME NEW e \in catalog.edges, truncated' = truncated,
               catalog' = [catalog EXCEPT !.edges = (@ \ {e}) \cup
                             {[e EXCEPT !.detaching = TRUE]}]
        PROVE  PgServer' /\ PgHeld'
    <3>1. /\ [e EXCEPT !.detaching = TRUE] \in PgEdges
          /\ [e EXCEPT !.detaching = TRUE].child = e.child
      BY DEF PgServer, PgCatalog, PgEdges
    <3>2. catalog' = [bind |-> catalog.bind,
                      edges |-> (catalog.edges \ {e}) \cup {[e EXCEPT !.detaching = TRUE]}]
      BY <2>8 DEF PgServer, PgCatalog
    <3>3. catalog'.bind = catalog.bind /\ catalog'.edges \subseteq PgEdges
      BY <3>1, <3>2 DEF PgServer, PgCatalog
    <3>4. ASSUME NEW x \in catalog'.edges PROVE \E m \in Names : catalog'.bind[m] = x.child
      <4>1. PICK y \in catalog.edges : y.child = x.child
        BY <3>1, <3>2, <3>4
      <4> QED
        BY <3>3, <4>1 DEF PgServer, PgCatalog
    <3>5. PgCatalog(catalog')
      BY <3>2, <3>3, <3>4 DEF PgServer, PgCatalog
    <3> QED
      BY <2>4, <2>8, <3>3, <3>5
  <2> QED
    BY <1>3, <2>3, <2>5, <2>6, <2>7, <2>8 DEF Postgres!OtherSessionCommits
<1> QED
  BY <1>1, <1>2, <1>3 DEF Postgres!OtherSession

PgContext == PgSealed /\ PgReads /\ PgConnection

(* An open or a context that ends, for a retry or for good, frees the      *)
(* locks and keeps what was read.                                          *)
LEMMA PgEndStep ==
    ASSUME PgServer, PgContext, UNCHANGED Postgres!serverVars,
           Postgres!CloseConnection, UNCHANGED <<candidates, snapshot, reads>>,
           \/ /\ phase \notin PgOpened /\ portal' = portal
              /\ \/ phase' = "failed" /\ sealed' \in {sealed, {}}
                 \/ phase' \in {"connect", "failed"} /\ sealed' = {}
           \/ /\ phase \in {"active", "lost"} /\ phase' \in {"lost", "closed"}
              /\ sealed' = sealed /\ portal' = 0
    PROVE  PgServer' /\ PgHeld' /\ PgContext'
<1>1. shared' = {} /\ connection' # "open"
  BY DEF Postgres!CloseConnection
<1>2. PgServer'
  BY <1>1 DEF PgServer, PgCatalog, Postgres!serverVars
<1>3. phase' \in {"connect", "failed", "lost", "closed"}
  OBVIOUS
<1>4. PgHeld' /\ PgConnection'
  BY <1>1, <1>3 DEF PgHeld, PgHeldPhases, PgConnection
<1>5. PgSealed'
  BY <1>3 DEF PgContext, PgSealed, PgOpened, PgMatched, PgMemberOids, PgCatalog
<1>6. PgReads'
  BY <1>3 DEF PgContext, PgReads, PgOpened, PgMemberOids
<1> QED
  BY <1>2, <1>4, <1>5, <1>6 DEF PgContext

(* The ways an open ends before there is a context.                        *)
LEMMA PgOpenFails ==
    ASSUME PgServer, PgContext, phase \notin PgOpened,
           Postgres!FailOpen \/ Postgres!RetryAfterRace
    PROVE  PgServer' /\ PgHeld' /\ PgContext'
BY PgEndStep DEF Postgres!FailOpen, Postgres!RetryAfterRace

(* A step of the open that keeps connection and locks; it may discover     *)
(* candidates before there is a snapshot.                                  *)
LEMMA PgProgress ==
    ASSUME PgServer, PgContext, UNCHANGED Postgres!serverVars,
           phase \notin PgOpened, phase' \in {"connect", "discover", "begin", "lock", "failed"},
           phase' \in {"connect", "failed"} => connection' # "open" /\ shared' = {},
           UNCHANGED <<shared, snapshot, sealed, portal, reads>>,
           phase \notin {"seal", "failed"}
    PROVE  PgServer' /\ PgHeld' /\ PgContext'
<1>1. PgServer'
  BY DEF PgServer, PgCatalog, Postgres!serverVars
<1>2. PgHeld' /\ PgConnection'
  BY DEF PgHeld, PgHeldPhases, PgConnection
<1>3. CASE sealed = {}
  <2>1. PgSealed' /\ PgReads'
    BY <1>3 DEF PgContext, PgSealed, PgReads, PgOpened, PgCatalog
  <2> QED
    BY <1>1, <1>2, <2>1 DEF PgContext
<1>4. CASE sealed # {}
  BY <1>4 DEF PgContext, PgSealed
<1> QED
  BY <1>3, <1>4

(* The candidate of the snapshot has the members the snapshot holds.       *)
LEMMA PgFinalCandidate ==
    ASSUME PgServer, NEW n \in Postgres!Acquired, Postgres!FinalCandidateMatches(n)
    PROVE  PgMatched(n)
<1>1. Postgres!Candidate(snapshot.catalog, n) = candidates[n] /\ snapshot.catalog.bind[n] # 0
  BY DEF Postgres!FinalCandidateMatches
<1>2. CASE n # FrozenRoot
  <2>1. candidates[n].members = {Postgres!MemberOf(snapshot.catalog, snapshot.catalog.bind[n])}
    BY <1>1, <1>2 DEF Postgres!Candidate, Postgres!PhysicalCandidate
  <2> QED
    BY <1>1, <1>2, <2>1 DEF PgMatched, PgMemberOids
<1>3. CASE n = FrozenRoot
  <2>1. candidates[n].members =
           {Postgres!MemberOf(snapshot.catalog, o) :
              o \in Postgres!Descendants(snapshot.catalog, snapshot.catalog.bind[n])}
    <3>1. CASE ~legacy
      BY <1>1, <1>3, <3>1 DEF Postgres!Candidate, Postgres!FrozenCandidate
    <3>2. CASE legacy
      BY <1>1, <1>3, <3>2 DEF Postgres!Candidate, Postgres!LegacyCandidate,
                              Postgres!FrozenCandidate
    <3> QED
      BY <3>1, <3>2
  <2> QED
    BY <1>1, <1>3, <2>1 DEF PgMatched, PgMemberOids
<1> QED
  BY <1>2, <1>3

(* Every member of a matched candidate has its OID's name in the snapshot, *)
(* and the OIDs are those the snapshot holds.                              *)
LEMMA PgMembers ==
    ASSUME PgCatalog(snapshot.catalog), NEW n \in Postgres!Acquired, PgMatched(n)
    PROVE  /\ \A m \in candidates[n].members :
                 /\ m.oid \in Postgres!OIDs /\ m.name \in Names
                 /\ snapshot.catalog.bind[m.name] = m.oid
           /\ {m.oid : m \in candidates[n].members} = PgMemberOids(n)
<1>1. n \in Names
  BY PgConstants
<1>2. ASSUME NEW o \in PgMemberOids(n)
      PROVE  o \in Postgres!OIDs /\ \E k \in Names : snapshot.catalog.bind[k] = o
  <2>1. CASE o = snapshot.catalog.bind[n]
    BY <1>1, <2>1 DEF PgMatched, PgCatalog
  <2>2. CASE \E e \in snapshot.catalog.edges : o = e.child
    BY <2>2 DEF PgCatalog, PgEdges
  <2> QED
    BY <1>2, <2>1, <2>2 DEF PgMemberOids, Postgres!Descendants
<1>3. ASSUME NEW o \in PgMemberOids(n)
      PROVE  /\ Postgres!MemberOf(snapshot.catalog, o).oid = o
             /\ Postgres!MemberOf(snapshot.catalog, o).name \in Names
             /\ snapshot.catalog.bind[Postgres!MemberOf(snapshot.catalog, o).name] = o
  BY <1>2 DEF Postgres!MemberOf
<1>4. candidates[n].members = {Postgres!MemberOf(snapshot.catalog, o) : o \in PgMemberOids(n)}
  BY DEF PgMatched
<1> QED
  BY <1>2, <1>3, <1>4

(* Opening: discovery, locks, snapshot, proof of the locks and seal.       *)
LEMMA PgOpeningStep ==
    ASSUME PgServer, PgHeld, PgContext, Postgres!Opening
    PROVE  PgServer' /\ PgHeld' /\ PgContext'
<1>1. CASE Postgres!ConnectProtected
  <2>1. phase' \in {"connect", "failed"} => connection' # "open" /\ shared' = {}
    BY <1>1 DEF Postgres!ConnectProtected, PgContext, PgConnection
  <2>2. /\ phase = "connect" /\ phase' \in {"connect", "discover", "failed"}
        /\ UNCHANGED Postgres!serverVars /\ UNCHANGED <<shared, snapshot, sealed, portal, reads>>
    BY <1>1 DEF Postgres!ConnectProtected
  <2> QED
    BY <2>1, <2>2, PgProgress DEF PgOpened
<1>2. ASSUME NEW n \in Postgres!Acquired, Postgres!DiscoverRelation(n)
      PROVE  PgServer' /\ PgHeld' /\ PgContext'
  <2>1. CASE Postgres!FailOpen \/ Postgres!RetryAfterRace
    BY <1>2, <2>1, PgOpenFails DEF Postgres!DiscoverRelation, PgOpened
  <2>2. CASE /\ phase' \in {"begin", "discover"} /\ UNCHANGED Postgres!serverVars
             /\ UNCHANGED <<shared, snapshot, sealed, portal, reads>>
    BY <1>2, <2>2, PgProgress DEF Postgres!DiscoverRelation, PgOpened
  <2> QED
    BY <1>2, <2>1, <2>2 DEF Postgres!DiscoverRelation, Postgres!SetupQueryFails
<1>3. CASE Postgres!BeginTransaction
  <2>1. CASE Postgres!FailOpen
    BY <1>3, <2>1, PgOpenFails DEF Postgres!BeginTransaction, PgOpened
  <2>2. CASE phase' = "lock" /\ UNCHANGED Postgres!serverVars /\ UNCHANGED Postgres!contextVars
    BY <1>3, <2>2, PgProgress DEF Postgres!BeginTransaction, PgOpened, Postgres!contextVars
  <2> QED
    BY <1>3, <2>1, <2>2 DEF Postgres!BeginTransaction
<1>4. CASE Postgres!LockCandidateRelation
  <2>1. CASE Postgres!RetryAfterRace
    BY <1>4, <2>1, PgOpenFails DEF Postgres!LockCandidateRelation, PgOpened
  <2>2. CASE ~Postgres!RetryAfterRace
    <3>1. PICK o : /\ o # 0 /\ o \notin exclusive /\ shared' = shared \cup {o}
                   /\ UNCHANGED <<Postgres!serverVars, phase, candidates, snapshot, sealed,
                                  portal, reads>>
      BY <1>4, <2>2 DEF Postgres!LockCandidateRelation
    <3>2. phase = "lock"
      BY <1>4 DEF Postgres!LockCandidateRelation
    <3>3. PgServer'
      BY <3>1 DEF PgServer, PgCatalog, Postgres!serverVars
    <3>4. PgHeld' /\ PgContext'
      BY <3>1, <3>2 DEF PgHeld, PgHeldPhases, PgContext, PgSealed, PgReads, PgConnection,
         PgOpened, PgCatalog
    <3> QED
      BY <3>3, <3>4
  <2> QED
    BY <2>1, <2>2
<1>5. CASE Postgres!LockTimesOut
  BY <1>5, PgOpenFails DEF Postgres!LockTimesOut, PgOpened
<1>6. CASE Postgres!ConfigureSnapshotInvariants
  <2>1. phase = "lock"
    BY <1>6 DEF Postgres!ConfigureSnapshotInvariants
  <2>2. CASE Postgres!FailOpen
    BY <2>1, <2>2, PgOpenFails DEF PgOpened
  <2>3. CASE /\ snapshot' = [at |-> clock, catalog |-> catalog] /\ phase' = "prove"
             /\ UNCHANGED <<Postgres!serverVars, candidates, shared, sealed, portal, reads>>
    <3>1. PgServer'
      BY <2>3 DEF PgServer, PgCatalog, Postgres!serverVars
    <3>2. PgHeld'
      BY <2>3 DEF PgServer, PgHeld, Postgres!serverVars
    <3>3. PgContext'
      BY <2>1, <2>3 DEF PgServer, PgContext, PgSealed, PgReads, PgConnection, PgOpened, PgCatalog,
         Postgres!serverVars
    <3> QED
      BY <3>1, <3>2, <3>3
  <2> QED
    BY <1>6, <2>2, <2>3 DEF Postgres!ConfigureSnapshotInvariants
<1>7. CASE Postgres!CaptureSnapshot \/ Postgres!CaptureLegacySnapshot
           \/ Postgres!ValidateLegacyPgcrypto
  <2>1. phase \in {"prove", "pgcrypto"}
    BY <1>7 DEF Postgres!CaptureSnapshot, Postgres!CaptureLegacySnapshot,
       Postgres!ValidateLegacyPgcrypto
  <2>2. CASE Postgres!FailOpen \/ Postgres!RetryAfterRace
    BY <2>1, <2>2, PgOpenFails DEF PgOpened
  <2>3. CASE /\ phase' \in {"pgcrypto", "seal"} /\ Postgres!LocksProven
             /\ UNCHANGED <<Postgres!serverVars, Postgres!contextVars>>
    <3>1. PgServer' /\ PgHeld'
      BY <2>1, <2>3 DEF PgServer, PgHeld, PgHeldPhases, PgCatalog, Postgres!serverVars,
         Postgres!contextVars
    <3>2. Postgres!LocksProven'
      BY <2>3 DEF Postgres!LocksProven, Postgres!LockMembers, Postgres!contextVars
    <3>3. PgContext'
      BY <2>1, <2>3, <3>2 DEF PgContext, PgSealed, PgReads, PgConnection, PgOpened, PgCatalog,
         Postgres!contextVars
    <3> QED
      BY <3>1, <3>3
  <2> QED
    BY <1>7, <2>2, <2>3 DEF Postgres!CaptureSnapshot, Postgres!CaptureLegacySnapshot,
       Postgres!ValidateLegacyPgcrypto, Postgres!ProfileUnsupported, PgContext, PgSealed
<1>8. ASSUME NEW n \in Postgres!Acquired, Postgres!InspectCandidate(n)
      PROVE  PgServer' /\ PgHeld' /\ PgContext'
  <2>1. phase = "seal"
    BY <1>8 DEF Postgres!InspectCandidate
  <2>2. CASE Postgres!FailOpen \/ Postgres!RetryAfterRace
    BY <2>1, <2>2, PgOpenFails DEF PgOpened
  <2>3. CASE /\ Postgres!FinalCandidateMatches(n) /\ sealed' = sealed \cup {n}
             /\ phase' = IF sealed' = Postgres!Acquired THEN "active" ELSE "seal"
             /\ UNCHANGED <<Postgres!serverVars, candidates, shared, snapshot, reads, portal>>
    <3>1. PgServer' /\ PgHeld'
      BY <2>1, <2>3 DEF PgServer, PgHeld, PgHeldPhases, PgCatalog, Postgres!serverVars
    <3>2. PgMatched(n)
      BY <2>3, PgFinalCandidate
    <3>3. \A k \in sealed' : PgMatched(k)'
      BY <2>3, <3>2 DEF PgContext, PgSealed, PgMatched, PgMemberOids
    <3>4. Postgres!LocksProven'
      BY <2>1, <2>3 DEF PgContext, PgSealed, Postgres!LocksProven, Postgres!LockMembers
    <3>5. PgSealed'
      BY <2>3, <3>3, <3>4 DEF PgContext, PgSealed, PgOpened, PgCatalog
    <3>6. PgReads' /\ PgConnection'
      BY <2>1, <2>3 DEF PgContext, PgReads, PgConnection, PgOpened, PgMemberOids
    <3> QED
      BY <3>1, <3>5, <3>6 DEF PgContext
  <2> QED
    BY <1>8, <2>2, <2>3 DEF Postgres!InspectCandidate, Postgres!SetupQueryFails
<1> QED
  BY <1>1, <1>2, <1>3, <1>4, <1>5, <1>6, <1>7, <1>8 DEF Postgres!Opening

(* A read of an open context sees the rows of the snapshot's members: all  *)
(* of them are locked, so none was truncated since and every name a        *)
(* statement uses still denotes the inspected OID.                         *)
LEMMA PgActive ==
    ASSUME PgServer, PgHeld, PgContext, phase = "active", NEW n \in Postgres!Acquired
    PROVE  /\ {x.oid : x \in Postgres!RowsSeen(n)} = PgMemberOids(n)
           /\ \A x \in Postgres!RowsSeen(n) : ~x.lost
           /\ Postgres!OriginTypesMatch(n)
<1>1. PgMatched(n) /\ PgCatalog(snapshot.catalog) /\ Postgres!LocksProven
  BY DEF PgContext, PgSealed, PgOpened
<1>2. /\ \A m \in candidates[n].members :
            /\ m.oid \in Postgres!OIDs /\ m.name \in Names
            /\ snapshot.catalog.bind[m.name] = m.oid
      /\ {m.oid : m \in candidates[n].members} = PgMemberOids(n)
  BY <1>1, PgMembers
<1>3. \A m \in candidates[n].members : m.oid \in shared
  BY <1>1 DEF Postgres!LocksProven, Postgres!LockMembers
<1>4. \A m \in candidates[n].members :
         truncated[m.oid] <= snapshot.at /\ catalog.bind[m.name] = m.oid
  BY <1>2, <1>3 DEF PgHeld, PgHeldPhases
<1>5. ASSUME NEW m \in candidates[n].members PROVE ~(truncated[m.oid] > snapshot.at)
  <2>1. truncated[m.oid] \in Nat /\ snapshot.at \in Nat
    BY <1>2 DEF PgServer, PgContext, PgSealed
  <2> QED
    BY <1>4, <2>1
<1>6. ASSUME NEW x \in Postgres!RowsSeen(n)
      PROVE  ~x.lost /\ \E m \in candidates[n].members : x.oid = m.oid
  <2>1. PICK m \in candidates[n].members :
           x = [oid |-> m.oid, lost |-> truncated[m.oid] > snapshot.at]
    BY <1>6 DEF Postgres!RowsSeen
  <2> QED
    BY <1>5, <2>1
<1>7. ASSUME NEW m \in candidates[n].members
      PROVE  \E x \in Postgres!RowsSeen(n) : x.oid = m.oid
  <2>1. [oid |-> m.oid, lost |-> truncated[m.oid] > snapshot.at] \in Postgres!RowsSeen(n)
    BY DEF Postgres!RowsSeen
  <2> QED
    BY <2>1
<1>8. {x.oid : x \in Postgres!RowsSeen(n)} = {m.oid : m \in candidates[n].members}
  BY <1>6, <1>7
<1> QED
  BY <1>2, <1>4, <1>6, <1>8 DEF Postgres!OriginTypesMatch

(* Reading and closing.                                                    *)
LEMMA PgReadingStep ==
    ASSUME PgServer, PgHeld, PgContext, Postgres!Reading
    PROVE  PgServer' /\ PgHeld' /\ PgContext'
<1>1. CASE (phase = "active" /\ Postgres!LoseContext) \/ Postgres!Close
  <2>1. portal' = 0
    BY <1>1 DEF Postgres!LoseContext, Postgres!Close
  <2> QED
    BY <1>1, <2>1, PgEndStep DEF Postgres!LoseContext, Postgres!Close
<1>2. CASE /\ phase = "active" /\ portal' \in Postgres!Acquired \cup {0}
           /\ UNCHANGED <<Postgres!serverVars, connection, phase, candidates, shared, snapshot,
                          sealed>>
           /\ \A r \in reads' :
                 \/ r \in reads
                 \/ /\ portal # 0
                    /\ r = [of |-> portal, rows |-> Postgres!RowsSeen(portal), at |-> snapshot.at]
  <2>1. PgServer' /\ PgHeld'
    BY <1>2 DEF PgServer, PgHeld, PgCatalog, Postgres!serverVars
  <2>2. Postgres!LocksProven'
    BY <1>2 DEF PgContext, PgSealed, Postgres!LocksProven, Postgres!LockMembers
  <2>3. PgSealed' /\ PgConnection'
    BY <1>2, <2>2
       DEF PgContext, PgSealed, PgConnection, PgOpened, PgCatalog, PgMatched, PgMemberOids
  <2>4. ASSUME NEW r \in reads'
        PROVE  /\ r.of \in Postgres!Acquired /\ r.at = snapshot.at
               /\ {x.oid : x \in r.rows} = PgMemberOids(r.of)
               /\ \A x \in r.rows : ~x.lost
    <3>1. CASE r \in reads
      BY <3>1 DEF PgContext, PgReads
    <3>2. CASE r \notin reads
      <4>1. portal \in Postgres!Acquired
        BY <1>2, <3>2 DEF PgContext, PgReads
      <4>2. r.of = portal /\ r.rows = Postgres!RowsSeen(portal) /\ r.at = snapshot.at
        BY <1>2, <3>2
      <4> QED
        BY <1>2, <4>1, <4>2, PgActive
    <3> QED
      BY <3>1, <3>2
  <2>5. \A r \in reads' : PgMemberOids(r.of)' = PgMemberOids(r.of)
    BY <1>2 DEF PgMemberOids
  <2>6. PgReads'
    BY <1>2, <2>4, <2>5 DEF PgReads, PgOpened
  <2> QED
    BY <2>1, <2>3, <2>6 DEF PgContext
<1>3. ASSUME NEW n \in Postgres!Acquired, Postgres!ExecuteCompiledQuery(n)
      PROVE  PgServer' /\ PgHeld' /\ PgContext'
  BY <1>1, <1>2, <1>3 DEF Postgres!ExecuteCompiledQuery
<1>4. CASE Postgres!FetchBoundedRows \/ Postgres!FetchLegacyPortal
  BY <1>1, <1>2, <1>4 DEF Postgres!FetchBoundedRows, Postgres!FetchLegacyPortal
<1> QED
  BY <1>1, <1>3, <1>4 DEF Postgres!Reading

(* The invariant of the PostgreSQL context holds of every behaviour.       *)
THEOREM PostgresInvariance ==
    Spec => []PgInv
<1>1. Init => PgInv
  BY PgInit
<1>2. PgInv /\ [Next]_vars => PgInv'
  <2> SUFFICES ASSUME PgInv, [Next]_vars, engine' = "postgres"
               PROVE  PgServer' /\ PgHeld' /\ PgContext'
    BY DEF PgInv, PgContext
  <2>1. engine' = engine
    BY DEF Next, vars, PostgresLeaves
  <2>2. PgServer /\ PgHeld /\ PgContext
    BY <2>1 DEF PgInv, PgContext
  <2>3. CASE Postgres!OtherSession
    <3>1. /\ phase' = phase /\ connection' = connection
          /\ UNCHANGED <<candidates, shared, snapshot, sealed, portal, reads>>
      BY <2>3 DEF Postgres!OtherSession, Postgres!OtherSessionLocks,
         Postgres!OtherSessionCommits, Postgres!OtherSessionRollsBack, Postgres!contextVars
    <3>2. PgContext'
      BY <2>2, <3>1 DEF PgContext, PgSealed, PgReads, PgConnection, PgOpened, PgCatalog,
         PgMatched, PgMemberOids, Postgres!LocksProven, Postgres!LockMembers
    <3> QED
      BY <2>2, <2>3, <3>2, PgOtherSessionStep
  <2>4. CASE Postgres!Opening \/ Postgres!Reading
    BY <2>2, <2>4, PgOpeningStep, PgReadingStep
  <2>5. CASE vars' = vars
    <3>1. /\ legacy' = legacy /\ clock' = clock /\ catalog' = catalog
          /\ truncated' = truncated /\ exclusive' = exclusive
          /\ candidates' = candidates /\ shared' = shared /\ sealed' = sealed
      BY <2>5, Zenon DEF vars, catalogVars, postgresOnly
    <3>2. /\ phase' = phase /\ snapshot' = snapshot /\ connection' = connection
          /\ portal' = portal /\ reads' = reads
      BY <2>5, Zenon DEF vars, contextVars, postgresOnly
    <3>3. PgServer'
      BY <2>2, <3>1 DEF PgServer, PgCatalog
    <3>4. PgHeld'
      BY <2>2, <3>1, <3>2 DEF PgHeld
    <3>5. PgSealed'
      BY <2>2, <3>1, <3>2 DEF PgContext, PgSealed, PgCatalog, PgMatched, PgMemberOids,
         Postgres!LocksProven, Postgres!LockMembers
    <3>6. PgReads' /\ PgConnection'
      BY <2>2, <3>1, <3>2 DEF PgContext, PgReads, PgConnection, PgMemberOids
    <3> QED
      BY <3>3, <3>4, <3>5, <3>6 DEF PgContext
  <2> QED
    BY <2>1, <2>3, <2>4, <2>5 DEF Next, Postgres!Next
<1> QED
  BY <1>1, <1>2, PTL DEF Spec

(* Whatever another session commits between discovery, lock, snapshot and  *)
(* inspection, however often the acquisition is retried, every read of a   *)
(* PostgreSQL context returns the rows its snapshot holds of exactly the   *)
(* relations that make up the acquired one (postgres.py:2445, 2994).       *)
THEOREM PostgresReadsTheSnapshot ==
    Spec => []PostgresReadsAreOfTheSnapshot
<1>1. PgInv => PostgresReadsAreOfTheSnapshot
  <2> SUFFICES ASSUME engine = "postgres", PgServer, PgHeld, PgContext
               PROVE  Postgres!PostgresReadsAreOfTheSnapshot
    BY DEF PostgresReadsAreOfTheSnapshot, PgInv, PgContext
  <2>1. phase = "active" => \A n \in Postgres!Acquired : Postgres!OriginTypesMatch(n)
    BY PgActive
  <2> QED
    BY <2>1 DEF Postgres!PostgresReadsAreOfTheSnapshot, PgContext, PgReads, PgMemberOids
<1> QED
  BY <1>1, PostgresInvariance, PTL

(* An open that failed and a context that closed hold no connection and    *)
(* no lock (postgres.py:2499).                                             *)
THEOREM PostgresEndsHoldNothing ==
    Spec => [](engine = "postgres" => Postgres!EndedHoldsNothing)
<1>1. PgInv => (engine = "postgres" => Postgres!EndedHoldsNothing)
  BY DEF PgInv, PgConnection, Postgres!EndedHoldsNothing
<1> QED
  BY <1>1, PostgresInvariance, PTL

-----------------------------------------------------------------------------
(* The contexts of the Greenplum family, for any set of relations, any     *)
(* number of reader threads, of changes and of attempts.                   *)

GpCatalogs ==
    [oid : [Relations -> Greenplum!OIDs], shape : [Relations -> Nat],
     policy : [Relations -> Nat], primaries : Nat]
GpRows == [oid : Greenplum!OIDs, shape : Nat, policy : Nat, segments : Nat]
GpSteps == {"idle", "plan", "execute", "parse", "retire"}
GpReaders == [step : GpSteps, read : Greenplum!Reads, relation : Relations \cup {0},
              seen : SUBSET GpRows]

GpServer ==
    /\ entry \in Greenplum!Entries /\ clock \in Nat /\ clock <= GreenplumChanges
    /\ catalog \in GpCatalogs
    /\ truncated \in [Greenplum!OIDs -> Nat]
    /\ \A o \in Greenplum!OIDs : truncated[o] <= clock
    /\ exclusive \cap shared = {}

(* From the snapshot on, a relation that is locked is as the snapshot saw  *)
(* it.                                                                     *)
GpHeldPhases == {"seal", "locks", "prepare", "active"}
GpHeld ==
    phase \in GpHeldPhases =>
        \A r \in Relations :
            snapshot.catalog.oid[r] \in shared =>
                /\ catalog.oid[r] = snapshot.catalog.oid[r]
                /\ catalog.shape[r] = snapshot.catalog.shape[r]
                /\ catalog.policy[r] = snapshot.catalog.policy[r]
                /\ truncated[snapshot.catalog.oid[r]] <= snapshot.at

(* The Greengage endpoint seals only what is distributed over every        *)
(* primary.                                                                *)
GpSpread(r) == entry = "greengage" => snapshot.catalog.policy[r] = snapshot.catalog.primaries

(* What has been sealed is what the snapshot holds, and it is locked.      *)
GpOpened == {"active", "lost", "closed"}
GpSealed ==
    /\ snapshot \in [at : Nat, catalog : GpCatalogs]
    /\ sealed \subseteq Relations
    /\ sealed # {} => phase \in GpOpened \cup {"seal", "locks", "prepare", "failed"}
    /\ phase \in GpOpened \cup {"locks", "prepare"} => sealed = Relations
    /\ \A r \in sealed : Greenplum!CandidateUnchanged(r) /\ GpSpread(r)
    /\ phase \in {"prepare", "active"} => Greenplum!LocksHeld

(* The session and its locks live exactly as long as the open and the      *)
(* context need them.                                                      *)
GpSession ==
    /\ session # "open" => shared = {}
    /\ phase \in {"connect", "failed", "lost", "closed"} <=> session # "open"

(* What a thread has seen, and what was answered, is of the snapshot.      *)
GpSeen(r, seen) ==
    /\ seen.oid = snapshot.catalog.oid[r] /\ seen.shape = snapshot.catalog.shape[r]
    /\ seen.policy = snapshot.catalog.policy[r]
GpAnswered(a) ==
    /\ a.relation \in Relations /\ GpSeen(a.relation, a.seen)
    /\ a.read = "fingerprint" => a.seen.segments = snapshot.catalog.primaries
GpReads ==
    /\ reader \in [Readers -> GpReaders]
    /\ phase \notin GpOpened => answers = {} /\ \A t \in Readers : reader[t] = Greenplum!Idle
    /\ \A t \in Readers :
          /\ reader[t].step \in {"plan", "execute", "parse"} => reader[t].relation \in Relations
          /\ \A seen \in reader[t].seen : GpSeen(reader[t].relation, seen)
    /\ \A a \in answers : GpAnswered(a)

GpContext == GpSealed /\ GpSession /\ GpReads
GpInv == engine = "greenplum" => GpServer /\ GpHeld /\ GpContext

(* The instance counts sets as this module does.                           *)
LEMMA GpCounting ==
    /\ \A S : Greenplum!Cardinality(S) = Cardinality(S)
    /\ \A S : Greenplum!IsFiniteSet(S) <=> IsFiniteSet(S)
<1>1. ASSUME NEW S PROVE Greenplum!Cardinality(S) = Cardinality(S)
  BY Zenon DEF Greenplum!Cardinality, Cardinality
<1>2. ASSUME NEW S PROVE Greenplum!IsFiniteSet(S) <=> IsFiniteSet(S)
  BY Zenon DEF Greenplum!IsFiniteSet, IsFiniteSet
<1> QED
  BY <1>1, <1>2

(* What the constants give: OIDs are numbers and include the names.        *)
LEMMA GpConstants ==
    /\ Greenplum!OIDs \subseteq Nat /\ Relations \subseteq Greenplum!OIDs \ {0}
    /\ 0 \in Greenplum!OIDs /\ GreenplumChanges \in Nat /\ Cardinality(Relations) \in Nat
    /\ Relations # {}
<1>1. /\ IsFiniteSet(Relations) /\ Relations \subseteq 1..Cardinality(Relations)
      /\ Relations # {} /\ GreenplumChanges \in Nat
  BY GpCounting, SnapshotSourcesAssumption DEF Greenplum!GreenplumReadsAssumption
<1>2. Cardinality(Relations) \in Nat
  BY <1>1, FS_CardinalityType
<1> QED
  BY <1>1, <1>2, GpCounting DEF Greenplum!OIDs

(* Nothing is locked, sealed or read yet.                                  *)
LEMMA GpInit ==
    Init => GpInv
<1> SUFFICES ASSUME Init, engine = "greenplum" PROVE GpServer /\ GpHeld /\ GpContext
  BY DEF GpInv
<1>1. Greenplum!Init
  BY DEF Init
<1>2. catalog \in GpCatalogs
  BY <1>1, GpConstants DEF Greenplum!Init, GpCatalogs
<1>3. GpServer
  BY <1>1, <1>2, GpConstants DEF Greenplum!Init, GpServer
<1>4. GpHeld /\ GpSession
  BY <1>1 DEF Greenplum!Init, GpHeld, GpHeldPhases, GpSession
<1>5. GpSealed
  BY <1>1, <1>2 DEF Greenplum!Init, GpSealed, GpOpened
<1>6. Greenplum!Idle \in GpReaders
  BY DEF Greenplum!Idle, Greenplum!Reads, GpReaders, GpSteps
<1>7. GpReads
  BY <1>1, <1>6 DEF Greenplum!Init, GpReads, Greenplum!Idle
<1> QED
  BY <1>3, <1>4, <1>5, <1>7 DEF GpContext

(* The other session changes only relations it has locked exclusively, so  *)
(* nothing that is held in share mode changes.                             *)
LEMMA GpOtherSessionStep ==
    ASSUME GpServer, GpHeld, GpContext, Greenplum!OtherSession
    PROVE  GpServer' /\ GpHeld'
<1>0. entry' = entry /\ phase' = phase /\ shared' = shared /\ snapshot' = snapshot
  BY DEF Greenplum!OtherSession, Greenplum!OtherSessionLocks, Greenplum!OtherSessionCommits,
         Greenplum!openVars
<1>1. ASSUME NEW r \in Relations, Greenplum!OtherSessionLocks(r)
      PROVE  GpServer' /\ GpHeld'
  BY <1>0, <1>1 DEF Greenplum!OtherSessionLocks, GpServer, GpHeld
<1>2. CASE Greenplum!OtherSessionCommits
  <2>1. /\ clock' = clock + 1 /\ clock' \in Nat /\ clock' <= GreenplumChanges /\ exclusive' = {}
    BY <1>2, GpConstants DEF Greenplum!OtherSessionCommits, GpServer
  <2>2. Cardinality(Relations) + clock + 1 \in Greenplum!OIDs
    BY <2>1, GpConstants, GpCounting DEF Greenplum!OIDs, GpServer
  <2>3. ASSUME truncated' = truncated, catalog' \in GpCatalogs,
               \A s \in Relations : \/ /\ catalog'.oid[s] = catalog.oid[s]
                                       /\ catalog'.shape[s] = catalog.shape[s]
                                       /\ catalog'.policy[s] = catalog.policy[s]
                                    \/ catalog.oid[s] \notin shared
        PROVE  GpServer' /\ GpHeld'
    <3>1. GpServer'
      BY <1>0, <2>1, <2>3 DEF GpServer
    <3>2. GpHeld'
      BY <1>0, <2>3 DEF GpHeld
    <3> QED
      BY <3>1, <3>2
  <2>4. ASSUME NEW r \in Relations, catalog.oid[r] \in exclusive, catalog' = catalog,
               truncated' = [truncated EXCEPT ![catalog.oid[r]] = clock + 1]
        PROVE  GpServer' /\ GpHeld'
    <3>1. /\ truncated' \in [Greenplum!OIDs -> Nat]
          /\ \A o \in Greenplum!OIDs : truncated'[o] <= clock'
      <4>1. /\ truncated \in [Greenplum!OIDs -> Nat] /\ clock \in Nat
            /\ \A o \in Greenplum!OIDs : truncated[o] <= clock
        BY DEF GpServer
      <4>2. PICK p : truncated' = [truncated EXCEPT ![p] = clock + 1]
        BY <2>4
      <4>3. \A o \in Greenplum!OIDs : truncated'[o] = IF o = p THEN clock + 1 ELSE truncated[o]
        BY <4>1, <4>2
      <4>4. truncated' = [o \in Greenplum!OIDs |-> truncated'[o]]
        BY <4>1, <4>2
      <4>5. \A o \in Greenplum!OIDs : truncated'[o] \in Nat /\ truncated'[o] <= clock + 1
        BY <4>1, <4>3
      <4> QED
        BY <2>1, <4>4, <4>5
    <3>2. \A o \in shared \cap Greenplum!OIDs : truncated'[o] = truncated[o]
      BY <2>4 DEF GpServer
    <3>3. \A s \in Relations : snapshot.catalog.oid[s] \in Greenplum!OIDs
      BY DEF GpContext, GpSealed, GpCatalogs
    <3>4. GpServer'
      BY <1>0, <2>1, <2>4, <3>1 DEF GpServer
    <3>5. GpHeld'
      BY <1>0, <2>4, <3>2, <3>3 DEF GpHeld
    <3> QED
      BY <3>4, <3>5
  <2>5. ASSUME NEW r \in Relations, catalog.oid[r] \in exclusive, truncated' = truncated,
               \/ \E o \in {0, Cardinality(Relations) + clock + 1} :
                    catalog' = [catalog EXCEPT !.oid[r] = o]
               \/ catalog' = [catalog EXCEPT !.shape[r] = @ + 1]
               \/ catalog' = [catalog EXCEPT !.policy[r] = catalog.primaries]
        PROVE  GpServer' /\ GpHeld'
    <3>1. catalog' \in GpCatalogs
      BY <2>2, <2>5, GpConstants DEF GpServer, GpCatalogs
    <3>2. \A s \in Relations \ {r} : /\ catalog'.oid[s] = catalog.oid[s]
                                     /\ catalog'.shape[s] = catalog.shape[s]
                                     /\ catalog'.policy[s] = catalog.policy[s]
      BY <2>5 DEF GpServer, GpCatalogs
    <3>3. catalog.oid[r] \notin shared
      BY <2>5 DEF GpServer
    <3> QED
      BY <2>3, <2>5, <3>1, <3>2, <3>3
  <2>6. ASSUME catalog' = [catalog EXCEPT !.primaries = @ + 1], truncated' = truncated
        PROVE  GpServer' /\ GpHeld'
    <3>1. /\ catalog' \in GpCatalogs /\ catalog'.oid = catalog.oid
          /\ catalog'.shape = catalog.shape /\ catalog'.policy = catalog.policy
      BY <2>6 DEF GpServer, GpCatalogs
    <3> QED
      BY <2>3, <2>6, <3>1
  <2> QED
    BY <1>2, <2>4, <2>5, <2>6, GpCounting DEF Greenplum!OtherSessionCommits
<1> QED
  BY <1>1, <1>2 DEF Greenplum!OtherSession

(* The ways an open ends, for a retry or for good, before there is a       *)
(* context: the session is closed and its locks are free.                  *)
LEMMA GpOpenFails ==
    ASSUME GpServer, GpContext, phase \notin GpOpened,
           Greenplum!FailOpen \/ Greenplum!RetryGreengage \/ Greenplum!RetryOriginal
    PROVE  GpServer' /\ GpHeld' /\ GpContext'
<1>1. Greenplum!CloseSession /\ UNCHANGED Greenplum!serverVars /\ UNCHANGED Greenplum!readVars
  BY DEF Greenplum!FailOpen, Greenplum!RetryGreengage, Greenplum!RetryOriginal
<1>2. session' # "open" /\ shared' = {}
  BY <1>1 DEF Greenplum!CloseSession, Greenplum!CloseGreengageSession,
     Greenplum!CloseOriginalSession, GpContext, GpSession
<1>3. phase' \in {"connect", "failed"} /\ snapshot' = snapshot
  BY DEF Greenplum!FailOpen, Greenplum!RetryGreengage, Greenplum!RetryOriginal,
     Greenplum!openVars
<1>4. GpServer'
  BY <1>1, <1>2 DEF GpServer, Greenplum!serverVars
<1>5. GpHeld' /\ GpSession'
  BY <1>2, <1>3 DEF GpHeld, GpHeldPhases, GpSession
<1>6. GpReads'
  BY <1>1, <1>3 DEF GpContext, GpReads, GpSeen, GpAnswered, GpOpened, Greenplum!readVars,
     Greenplum!Idle
<1>7. CASE sealed' = {}
  BY <1>3, <1>4, <1>5, <1>6, <1>7 DEF GpContext, GpSealed, GpOpened
<1>8. CASE Greenplum!FailOpen
  <2>1. /\ phase' = "failed" /\ entry' = entry
        /\ UNCHANGED <<candidates, snapshot, sealed>>
    BY <1>8 DEF Greenplum!FailOpen, Greenplum!openVars, Greenplum!serverVars
  <2>2. \A r \in sealed : Greenplum!CandidateUnchanged(r)' /\ GpSpread(r)'
    BY <2>1 DEF GpContext, GpSealed, GpSpread, Greenplum!CandidateUnchanged, Greenplum!Identity,
       Greenplum!GreengageRelationCatalog, Greenplum!OriginalRelationCatalog
  <2>3. GpSealed'
    BY <2>1, <2>2 DEF GpContext, GpSealed, GpOpened
  <2> QED
    BY <1>4, <1>5, <1>6, <2>3 DEF GpContext
<1> QED
  BY <1>7, <1>8 DEF Greenplum!RetryGreengage, Greenplum!RetryOriginal

(* A step of the open before the snapshot: candidates, session and locks   *)
(* may change.                                                             *)
LEMMA GpProgress ==
    ASSUME GpServer, GpContext, UNCHANGED Greenplum!serverVars,
           phase \in {"connect", "discover", "begin", "lock"},
           phase' \in {"connect", "discover", "begin", "lock", "failed"},
           phase' \in {"connect", "failed"} <=> session' # "open",
           session' # "open" => shared' = {}, exclusive \cap shared' = {},
           UNCHANGED <<snapshot, sealed, Greenplum!readVars>>
    PROVE  GpServer' /\ GpHeld' /\ GpContext'
<1>1. GpServer'
  BY DEF GpServer, Greenplum!serverVars
<1>2. GpHeld' /\ GpSession'
  BY DEF GpHeld, GpHeldPhases, GpSession
<1>3. GpSealed'
  BY DEF GpContext, GpSealed, GpOpened
<1>4. GpReads'
  BY DEF GpContext, GpReads, GpSeen, GpAnswered, GpOpened, Greenplum!readVars,
     Greenplum!Idle
<1> QED
  BY <1>1, <1>2, <1>3, <1>4 DEF GpContext

(* A step of the open after the snapshot that keeps the session.           *)
LEMMA GpConfirm ==
    ASSUME GpServer, GpHeld, GpContext, UNCHANGED Greenplum!serverVars,
           phase \in {"seal", "locks", "prepare"},
           phase' \in {"seal", "locks", "prepare", "active"},
           UNCHANGED <<session, shared, candidates, snapshot, Greenplum!readVars>>,
           sealed' \subseteq Relations,
           \A r \in sealed' \ sealed : Greenplum!CandidateUnchanged(r) /\ GpSpread(r),
           phase' # "seal" => sealed' = Relations,
           phase' \in {"prepare", "active"} => Greenplum!LocksHeld
    PROVE  GpServer' /\ GpHeld' /\ GpContext'
<1>1. GpServer'
  BY DEF GpServer, Greenplum!serverVars
<1>2. GpHeld' /\ GpSession'
  BY DEF GpHeld, GpHeldPhases, GpContext, GpSession, Greenplum!serverVars
<1>3. \A r \in sealed' : Greenplum!CandidateUnchanged(r)' /\ GpSpread(r)'
  BY DEF GpContext, GpSealed, GpSpread, Greenplum!CandidateUnchanged, Greenplum!Identity,
     Greenplum!GreengageRelationCatalog, Greenplum!OriginalRelationCatalog,
     Greenplum!serverVars
<1>4. Greenplum!LocksHeld => Greenplum!LocksHeld'
  BY DEF Greenplum!LocksHeld
<1>5. GpSealed'
  BY <1>3, <1>4 DEF GpContext, GpSealed, GpOpened
<1>6. GpReads'
  BY DEF GpContext, GpReads, GpSeen, GpAnswered, GpOpened, Greenplum!readVars,
     Greenplum!Idle
<1> QED
  BY <1>1, <1>2, <1>5, <1>6 DEF GpContext

(* Opening: connection, discovery, locks, snapshot, seal, proof of the     *)
(* locks.                                                                  *)
LEMMA GpOpeningStep ==
    ASSUME GpServer, GpHeld, GpContext, Greenplum!Opening
    PROVE  GpServer' /\ GpHeld' /\ GpContext'
<1>0. GpSession /\ exclusive \cap shared = {}
  BY DEF GpContext, GpServer
<1>f. ASSUME phase \notin GpOpened,
             Greenplum!FailOpen \/ Greenplum!RetryGreengage \/ Greenplum!RetryOriginal
      PROVE  GpServer' /\ GpHeld' /\ GpContext'
  BY <1>f, GpOpenFails
<1>1. CASE Greenplum!ConnectEndpoint
  <2>1. CASE Greenplum!Connected("discover")
    BY <1>0, <1>1, <2>1, GpProgress
       DEF Greenplum!ConnectEndpoint, Greenplum!Connected, Greenplum!openVars
  <2> QED
    BY <1>1, <1>f, <2>1 DEF Greenplum!ConnectEndpoint, GpOpened
<1>2. CASE Greenplum!ConnectOriginalProbe \/ Greenplum!ConnectGreengageProbe
  <2>1. phase = "connect" /\ session # "open" /\ shared = {}
    BY <1>0, <1>2 DEF Greenplum!ConnectOriginalProbe, Greenplum!ConnectGreengageProbe, GpSession
  <2>2. /\ UNCHANGED Greenplum!serverVars
        /\ UNCHANGED <<snapshot, sealed, shared, Greenplum!readVars>>
        /\ \/ session' = "open" /\ phase' \in {"begin", "discover"}
           \/ session' = session /\ phase' \in {"connect", "failed"}
    BY <1>2 DEF Greenplum!ConnectOriginalProbe, Greenplum!ConnectGreengageProbe,
       Greenplum!Connected, Greenplum!openVars
  <2> QED
    BY <2>1, <2>2, GpProgress
<1>3. ASSUME NEW r \in Relations, Greenplum!DiscoverCandidate(r)
      PROVE  GpServer' /\ GpHeld' /\ GpContext'
  <2>1. CASE Greenplum!FailOpen
    BY <1>3, <1>f, <2>1 DEF Greenplum!DiscoverCandidate, GpOpened
  <2>2. CASE ~Greenplum!FailOpen
    <3>1. /\ phase = "discover" /\ session = "open" /\ session' = session
          /\ phase' \in {"begin", "discover"}
          /\ UNCHANGED Greenplum!serverVars
          /\ UNCHANGED <<snapshot, sealed, shared, Greenplum!readVars>>
      BY <1>0, <1>3, <2>2 DEF Greenplum!DiscoverCandidate, GpSession
    <3> QED
      BY <1>0, <3>1, GpProgress
  <2> QED
    BY <2>1, <2>2
<1>4. ASSUME NEW r \in Relations, Greenplum!DiscoverProbeCandidate(r)
      PROVE  GpServer' /\ GpHeld' /\ GpContext'
  <2>1. CASE Greenplum!FailOpen
    BY <1>4, <1>f, <2>1 DEF Greenplum!DiscoverProbeCandidate, GpOpened
  <2>2. CASE ~Greenplum!FailOpen
    <3>1. /\ phase = "discover" /\ session = "open"
          /\ UNCHANGED Greenplum!serverVars
          /\ UNCHANGED <<snapshot, sealed, Greenplum!readVars>>
          /\ \/ phase' = "connect" /\ Greenplum!CloseSession
             \/ phase' = phase /\ UNCHANGED <<session, shared>>
      BY <1>0, <1>4, <2>2 DEF Greenplum!DiscoverProbeCandidate, GpSession
    <3>2. \/ phase' = "connect" /\ session' = "closed" /\ shared' = {}
          \/ phase' = phase /\ session' = session /\ shared' = shared
      BY <3>1 DEF Greenplum!CloseSession, Greenplum!CloseGreengageSession,
         Greenplum!CloseOriginalSession
    <3> QED
      BY <1>0, <3>1, <3>2, GpProgress
  <2> QED
    BY <2>1, <2>2
<1>5. CASE Greenplum!BeginTransaction
  <2>1. CASE Greenplum!FailOpen
    BY <1>5, <1>f, <2>1 DEF Greenplum!BeginTransaction, GpOpened
  <2>2. CASE ~Greenplum!FailOpen
    <3>1. /\ phase = "begin" /\ session = "open" /\ session' = session /\ phase' = "lock"
          /\ UNCHANGED Greenplum!serverVars
          /\ UNCHANGED <<snapshot, sealed, shared, Greenplum!readVars>>
      BY <1>0, <1>5, <2>2 DEF Greenplum!BeginTransaction, GpSession, Greenplum!openVars
    <3> QED
      BY <1>0, <3>1, GpProgress
  <2> QED
    BY <2>1, <2>2
<1>6. CASE Greenplum!LockRelations
  <2>1. CASE Greenplum!FailOpen
    BY <1>6, <1>f, <2>1 DEF Greenplum!LockRelations, GpOpened
  <2>2. CASE ~Greenplum!FailOpen
    <3>1. PICK o : /\ o \notin exclusive /\ shared' = shared \cup {o}
                   /\ UNCHANGED Greenplum!serverVars
                   /\ UNCHANGED <<session, phase, snapshot, sealed, Greenplum!readVars>>
      BY <1>6, <2>2 DEF Greenplum!LockRelations
    <3>2. phase = "lock" /\ session = "open"
      BY <1>0, <1>6 DEF Greenplum!LockRelations, GpSession
    <3> QED
      BY <1>0, <3>1, <3>2, GpProgress
  <2> QED
    BY <2>1, <2>2
<1>7. CASE Greenplum!ProbeGreengageServer \/ Greenplum!ProbeOriginalServer
  <2>1. phase = "lock"
    BY <1>7 DEF Greenplum!ProbeGreengageServer, Greenplum!ProbeOriginalServer
  <2>2. CASE Greenplum!FailOpen
    BY <1>f, <2>1, <2>2 DEF GpOpened
  <2>3. CASE ~Greenplum!FailOpen
    <3>1. /\ snapshot' = [at |-> clock, catalog |-> catalog] /\ phase' = "seal"
          /\ UNCHANGED <<Greenplum!serverVars, session, candidates, sealed, shared>>
          /\ UNCHANGED Greenplum!readVars
      BY <1>7, <2>3 DEF Greenplum!ProbeGreengageServer, Greenplum!ProbeOriginalServer
    <3>2. GpServer'
      BY <3>1 DEF GpServer, Greenplum!serverVars
    <3>3. GpHeld'
      BY <3>1 DEF GpServer, GpHeld, GpCatalogs, Greenplum!serverVars
    <3>4. GpSession' /\ GpSealed'
      BY <2>1, <3>1 DEF GpServer, GpContext, GpSession, GpSealed, GpOpened
    <3>5. GpReads'
      BY <2>1, <3>1 DEF GpContext, GpReads, GpOpened, Greenplum!readVars, Greenplum!Idle
    <3> QED
      BY <3>2, <3>3, <3>4, <3>5 DEF GpContext
  <2> QED
    BY <2>2, <2>3
<1>8. ASSUME NEW r \in Relations, Greenplum!SealCandidate(r)
      PROVE  GpServer' /\ GpHeld' /\ GpContext'
  <2>1. phase = "seal"
    BY <1>8 DEF Greenplum!SealCandidate
  <2>2. CASE Greenplum!FailOpen \/ Greenplum!Race
    BY <1>f, <2>1, <2>2 DEF Greenplum!Race, GpOpened
  <2>3. CASE ~(Greenplum!FailOpen \/ Greenplum!Race)
    <3>1. /\ Greenplum!CandidateUnchanged(r) /\ sealed' = sealed \cup {r}
          /\ entry = "greengage" => candidates[r].policy = Greenplum!Topology
          /\ phase' = IF sealed' = Relations THEN "locks" ELSE "seal"
          /\ UNCHANGED Greenplum!serverVars
          /\ UNCHANGED <<session, candidates, snapshot, shared, Greenplum!readVars>>
      BY <1>8, <2>3 DEF Greenplum!SealCandidate, Greenplum!SealsGreengageCandidate,
         Greenplum!SealsOriginalCandidate, Greenplum!Greengage
    <3>2. GpSpread(r)
      BY <3>1 DEF GpSpread, Greenplum!CandidateUnchanged, Greenplum!Identity, Greenplum!Greengage,
         Greenplum!GreengageRelationCatalog, Greenplum!Topology
    <3>3. /\ sealed' \subseteq Relations
          /\ \A s \in sealed' \ sealed : Greenplum!CandidateUnchanged(s) /\ GpSpread(s)
      BY <3>1, <3>2 DEF GpContext, GpSealed
    <3> QED
      BY <2>1, <3>1, <3>3, GpConfirm
  <2> QED
    BY <2>2, <2>3
<1>9. CASE \/ Greenplum!ProbeLocks \/ Greenplum!PrepareOriginalRelations
           \/ Greenplum!PrepareGreengageRelations
  <2>1. phase \in {"locks", "prepare"}
    BY <1>9 DEF Greenplum!ProbeLocks, Greenplum!PrepareOriginalRelations,
       Greenplum!PrepareGreengageRelations
  <2>2. CASE Greenplum!FailOpen
    BY <1>f, <2>1, <2>2 DEF GpOpened
  <2>3. CASE ~Greenplum!FailOpen
    <3>1. /\ Greenplum!LocksHeld /\ phase' \in {"prepare", "active"}
          /\ UNCHANGED Greenplum!serverVars
          /\ UNCHANGED <<session, candidates, snapshot, sealed, shared, Greenplum!readVars>>
      BY <1>9, <2>3 DEF Greenplum!ProbeLocks, Greenplum!PrepareOriginalRelations,
         Greenplum!PrepareGreengageRelations, Greenplum!Prepared, Greenplum!openVars
    <3>2. sealed = Relations
      BY <2>1 DEF GpContext, GpSealed
    <3> QED
      BY <2>1, <3>1, <3>2, GpConfirm
  <2> QED
    BY <2>2, <2>3
<1> QED
  BY <1>1, <1>2, <1>3, <1>4, <1>5, <1>6, <1>7, <1>8, <1>9 DEF Greenplum!Opening

(* In an active context every relation is locked, so a statement sees it   *)
(* as the snapshot does.                                                   *)
LEMMA GpActive ==
    ASSUME GpServer, GpHeld, GpContext, phase = "active", NEW r \in Relations
    PROVE  /\ catalog.oid[r] \in shared
           /\ \A read \in Greenplum!Reads : \A segments \in Greenplum!Segments(read) :
                 /\ Greenplum!RowsSeen(r, segments) \in GpRows
                 /\ GpSeen(r, Greenplum!RowsSeen(r, segments))
                 /\ Greenplum!RowsSeen(r, segments).segments = segments
<1>1. Greenplum!CandidateUnchanged(r) /\ Greenplum!LocksHeld
  BY DEF GpContext, GpSealed, GpOpened
<1>2. candidates[r].oid = snapshot.catalog.oid[r]
  BY <1>1 DEF Greenplum!CandidateUnchanged, Greenplum!Identity,
     Greenplum!GreengageRelationCatalog, Greenplum!OriginalRelationCatalog
<1>3. snapshot.catalog.oid[r] \in shared
  BY <1>1, <1>2 DEF Greenplum!LocksHeld
<1>4. /\ catalog.oid[r] = snapshot.catalog.oid[r]
      /\ catalog.shape[r] = snapshot.catalog.shape[r]
      /\ catalog.policy[r] = snapshot.catalog.policy[r]
      /\ truncated[catalog.oid[r]] <= snapshot.at
  BY <1>3 DEF GpHeld, GpHeldPhases
<1>5. /\ catalog.oid[r] \in Greenplum!OIDs /\ catalog.shape[r] \in Nat
      /\ catalog.policy[r] \in Nat
      /\ \A read \in Greenplum!Reads : Greenplum!Segments(read) \subseteq Nat
      /\ truncated[catalog.oid[r]] \in Nat /\ snapshot.at \in Nat
  BY DEF GpServer, GpCatalogs, GpContext, GpSealed, Greenplum!Topology, Greenplum!Segments,
     Greenplum!Untold
<1>6. ~(truncated[catalog.oid[r]] > snapshot.at)
  BY <1>4, <1>5
<1> QED
  BY <1>3, <1>4, <1>5, <1>6 DEF Greenplum!RowsSeen, GpRows, GpSeen

(* A step of a reader that leaves the context as it is.                    *)
LEMMA GpReaderStep ==
    ASSUME GpServer, GpHeld, GpContext, UNCHANGED Greenplum!serverVars,
           UNCHANGED <<session, phase, candidates, snapshot, sealed, shared>>, GpReads'
    PROVE  GpServer' /\ GpHeld' /\ GpContext'
<1>1. GpServer' /\ GpHeld' /\ GpSession'
  BY DEF GpServer, GpHeld, GpContext, GpSession, Greenplum!serverVars
<1>2. \A r \in sealed : Greenplum!CandidateUnchanged(r)' /\ GpSpread(r)'
  BY DEF GpContext, GpSealed, GpSpread, Greenplum!CandidateUnchanged, Greenplum!Identity,
     Greenplum!GreengageRelationCatalog, Greenplum!OriginalRelationCatalog,
     Greenplum!serverVars
<1>3. Greenplum!LocksHeld => Greenplum!LocksHeld'
  BY DEF Greenplum!LocksHeld
<1>4. GpSealed'
  BY <1>2, <1>3 DEF GpContext, GpSealed
<1> QED
  BY <1>1, <1>4 DEF GpContext

(* A context that is lost or closed, under whatever its readers do.        *)
LEMMA GpEndStep ==
    ASSUME GpServer, GpHeld, GpContext, UNCHANGED Greenplum!serverVars,
           phase \in GpOpened, phase' \in {"lost", "closed"},
           IF phase = "active" THEN Greenplum!CloseSession ELSE UNCHANGED <<session, shared>>,
           UNCHANGED <<candidates, snapshot, sealed>>, GpReads'
    PROVE  GpServer' /\ GpHeld' /\ GpContext'
<1>1. session' # "open" /\ shared' = {}
  BY DEF Greenplum!CloseSession, Greenplum!CloseGreengageSession,
     Greenplum!CloseOriginalSession, GpContext, GpSession, GpOpened
<1>2. GpServer' /\ GpHeld' /\ GpSession'
  BY <1>1 DEF GpServer, GpHeld, GpHeldPhases, GpSession, Greenplum!serverVars
<1>3. \A r \in sealed : Greenplum!CandidateUnchanged(r)' /\ GpSpread(r)'
  BY DEF GpContext, GpSealed, GpSpread, Greenplum!CandidateUnchanged, Greenplum!Identity,
     Greenplum!GreengageRelationCatalog, Greenplum!OriginalRelationCatalog,
     Greenplum!serverVars
<1>4. GpSealed'
  BY <1>3 DEF GpContext, GpSealed, GpOpened
<1> QED
  BY <1>2, <1>4 DEF GpContext

(* What one thread does to its own record.                                 *)
LEMMA GpReaderUpdate ==
    ASSUME GpReads, NEW t \in Readers, NEW new \in GpReaders,
           reader' = [reader EXCEPT ![t] = new],
           phase' \in GpOpened, snapshot' = snapshot,
           new.step \in {"plan", "execute", "parse"} => new.relation \in Relations,
           \A seen \in new.seen : GpSeen(new.relation, seen),
           \A a \in answers' : a \in answers \/ GpAnswered(a)
    PROVE  GpReads'
<1>1. reader' \in [Readers -> GpReaders]
  BY DEF GpReads
<1>2. \A u \in Readers : reader'[u] = IF u = t THEN new ELSE reader[u]
  BY DEF GpReads
<1>3. ASSUME NEW u \in Readers
      PROVE  /\ reader'[u].step \in {"plan", "execute", "parse"} =>
                   reader'[u].relation \in Relations
             /\ \A seen \in reader'[u].seen : GpSeen(reader'[u].relation, seen)
  BY <1>2 DEF GpReads
<1>4. \A a \in answers' : GpAnswered(a)
  BY DEF GpReads
<1> QED
  BY <1>1, <1>3, <1>4 DEF GpReads, GpSeen, GpAnswered

(* What a thread fetches is of the snapshot, since the context is active   *)
(* while its session is open.                                              *)
LEMMA GpFetch ==
    ASSUME GpServer, GpHeld, GpContext, NEW t \in Readers, reader[t].step = "execute",
           session = "open", NEW step \in {"parse", "plan"}, Greenplum!Fetch(t, step),
           UNCHANGED <<phase, snapshot, answers>>
    PROVE  GpReads'
<1>1. phase = "active" /\ GpReads
  BY DEF GpContext, GpReads, GpSession, GpOpened, Greenplum!Idle
<1>2. reader[t] \in GpReaders /\ reader[t].relation \in Relations
  BY <1>1 DEF GpReads
<1>3. PICK segments \in Greenplum!Segments(reader[t].read) :
         reader' = [reader EXCEPT ![t].step = step,
                                  ![t].seen = @ \cup
                                     {Greenplum!RowsSeen(reader[t].relation, segments)}]
  BY DEF Greenplum!Fetch
<1>4. PICK seen : seen = Greenplum!RowsSeen(reader[t].relation, segments)
  OBVIOUS
<1>5. seen \in GpRows /\ GpSeen(reader[t].relation, seen)
  BY <1>1, <1>2, <1>4, GpActive DEF GpReaders
<1>6. PICK new : new = [reader[t] EXCEPT !.step = step, !.seen = @ \cup {seen}]
  OBVIOUS
<1>7. /\ new \in GpReaders /\ new.step = step /\ new.relation = reader[t].relation
      /\ new.seen = reader[t].seen \cup {seen}
  BY <1>2, <1>5, <1>6 DEF GpReaders, GpSteps
<1>8. reader' = [reader EXCEPT ![t] = new]
  BY <1>1, <1>3, <1>4, <1>6 DEF GpReads
<1>9. \A s \in new.seen : GpSeen(new.relation, s)
  BY <1>1, <1>5, <1>7 DEF GpReads
<1> QED
  BY <1>1, <1>2, <1>7, <1>8, <1>9, GpReaderUpdate DEF GpOpened

(* A thread that only moves on to another step.                            *)
LEMMA GpAdvance ==
    ASSUME GpReads, NEW t \in Readers, NEW step \in GpSteps, Greenplum!Advance(t, step),
           step \in {"plan", "execute", "parse"} => reader[t].relation \in Relations,
           phase' \in GpOpened, UNCHANGED <<snapshot, answers>>
    PROVE  GpReads'
<1>1. reader[t] \in GpReaders
  BY DEF GpReads
<1>2. PICK new : new = [reader[t] EXCEPT !.step = step]
  OBVIOUS
<1>3. /\ new \in GpReaders /\ new.step = step /\ new.relation = reader[t].relation
      /\ new.seen = reader[t].seen
  BY <1>1, <1>2 DEF GpReaders
<1>4. reader' = [reader EXCEPT ![t] = new]
  BY <1>2 DEF Greenplum!Advance, GpReads
<1> QED
  BY <1>3, <1>4, GpReaderUpdate DEF GpReads

(* The steps of one reader thread.                                         *)
LEMMA GpThreadStep ==
    ASSUME GpServer, GpHeld, GpContext, NEW t \in Readers,
           \/ \E r \in Relations, read \in Greenplum!Reads : Greenplum!BeginRead(t, r, read)
           \/ Greenplum!ManifestOutOfTime(t)
           \/ Greenplum!PlanGreengageFingerprints(t) \/ Greenplum!PlanOriginalFingerprints(t)
           \/ Greenplum!ExecuteGreengageRead(t) \/ Greenplum!ExecuteOriginalRead(t)
           \/ Greenplum!ReadFails(t) \/ Greenplum!ParseFingerprints(t)
           \/ Greenplum!ParseRecords(t) \/ Greenplum!RefuseRows(t) \/ Greenplum!Retire(t)
    PROVE  GpServer' /\ GpHeld' /\ GpContext'
<1>1. GpReads /\ (reader[t].step # "idle" => phase \in GpOpened)
  BY DEF GpContext, GpReads, Greenplum!Idle
<1>2. reader[t] \in GpReaders
  BY <1>1 DEF GpReads
<1>i. /\ Greenplum!Idle \in GpReaders /\ Greenplum!Idle.step = "idle" /\ Greenplum!Idle.seen = {}
      /\ Greenplum!Retiring \in GpReaders /\ Greenplum!Retiring.step = "retire"
      /\ Greenplum!Retiring.seen = {}
  BY DEF Greenplum!Idle, Greenplum!Retiring, GpReaders, GpSteps, Greenplum!Reads
<1>3. ASSUME NEW r \in Relations, NEW read \in Greenplum!Reads, Greenplum!BeginRead(t, r, read)
      PROVE  GpServer' /\ GpHeld' /\ GpContext'
  <2>1. PICK new : new = [step |-> IF read = "fingerprint" THEN "plan" ELSE "execute",
                          read |-> read, relation |-> r, seen |-> {}]
    OBVIOUS
  <2>2. new \in GpReaders /\ new.relation = r /\ new.seen = {}
    BY <2>1 DEF GpReaders, GpSteps
  <2>3. /\ reader' = [reader EXCEPT ![t] = new] /\ phase = "active"
        /\ UNCHANGED Greenplum!serverVars
        /\ UNCHANGED <<session, phase, candidates, snapshot, sealed, shared, answers>>
    BY <1>3, <2>1 DEF Greenplum!BeginRead, Greenplum!openVars
  <2>4. GpReads'
    BY <1>1, <2>2, <2>3, GpReaderUpdate DEF GpOpened
  <2> QED
    BY <2>3, <2>4, GpReaderStep
<1>4. CASE Greenplum!PlanGreengageFingerprints(t) \/ Greenplum!PlanOriginalFingerprints(t)
  <2>1. /\ Greenplum!Advance(t, "execute") /\ reader[t].step = "plan"
        /\ UNCHANGED Greenplum!serverVars
        /\ UNCHANGED <<session, phase, candidates, snapshot, sealed, shared, answers>>
    BY <1>4 DEF Greenplum!PlanGreengageFingerprints, Greenplum!PlanOriginalFingerprints,
       Greenplum!ReaderAt, Greenplum!openVars
  <2>2. GpReads'
    BY <1>1, <2>1, GpAdvance DEF GpReads, GpSteps
  <2> QED
    BY <2>1, <2>2, GpReaderStep
<1>5. CASE Greenplum!ExecuteGreengageRead(t) \/ Greenplum!ExecuteOriginalRead(t)
  <2>1. PICK step \in {"parse", "plan"} : Greenplum!Fetch(t, step)
    BY <1>5 DEF Greenplum!ExecuteGreengageRead, Greenplum!ExecuteOriginalRead
  <2>2. /\ reader[t].step = "execute" /\ session = "open" /\ UNCHANGED Greenplum!serverVars
        /\ UNCHANGED <<session, phase, candidates, snapshot, sealed, shared, answers>>
    BY <1>5 DEF Greenplum!ExecuteGreengageRead, Greenplum!ExecuteOriginalRead,
       Greenplum!RestoreGreengageInvariants, Greenplum!RestoreOriginalInvariants,
       Greenplum!ReaderAt, Greenplum!openVars
  <2>3. GpReads'
    BY <2>1, <2>2, GpFetch
  <2> QED
    BY <2>2, <2>3, GpReaderStep
<1>6. CASE Greenplum!ReadFails(t) \/ Greenplum!Retire(t)
  <2>1. /\ Greenplum!Lose /\ reader' = [reader EXCEPT ![t] = Greenplum!Idle]
        /\ phase \in GpOpened /\ UNCHANGED Greenplum!serverVars
        /\ UNCHANGED <<candidates, snapshot, sealed, answers>>
    BY <1>1, <1>6 DEF Greenplum!ReadFails, Greenplum!Retire, Greenplum!ReaderAt,
       Greenplum!openVars
  <2>2. /\ phase' \in {"lost", "closed"}
        /\ IF phase = "active" THEN Greenplum!CloseSession ELSE UNCHANGED <<session, shared>>
    BY <2>1 DEF Greenplum!Lose, GpOpened
  <2>3. GpReads'
    BY <1>1, <1>i, <2>1, <2>2, GpReaderUpdate DEF GpOpened
  <2> QED
    BY <2>1, <2>2, <2>3, GpEndStep
<1>7. CASE Greenplum!ManifestOutOfTime(t) \/ Greenplum!RefuseRows(t)
  <2>1. /\ reader' = [reader EXCEPT ![t] = Greenplum!Retiring]
        /\ phase \in GpOpened /\ UNCHANGED Greenplum!serverVars
        /\ UNCHANGED <<session, phase, candidates, snapshot, sealed, shared, answers>>
    BY <1>1, <1>7 DEF Greenplum!ManifestOutOfTime, Greenplum!RefuseRows, Greenplum!ReaderAt,
       Greenplum!openVars, GpOpened
  <2>2. GpReads'
    BY <1>1, <1>i, <2>1, GpReaderUpdate
  <2> QED
    BY <2>1, <2>2, GpReaderStep
<1>8. CASE Greenplum!ParseFingerprints(t) \/ Greenplum!ParseRecords(t)
  <2>1. /\ reader[t].step = "parse" /\ phase \in GpOpened /\ UNCHANGED Greenplum!serverVars
        /\ UNCHANGED <<session, phase, candidates, snapshot, sealed, shared>>
        /\ answers' = answers \cup
              {[read |-> reader[t].read, relation |-> reader[t].relation, seen |-> seen]
               : seen \in reader[t].seen}
        /\ reader' = [reader EXCEPT ![t] = Greenplum!Idle]
        /\ reader[t].read = "fingerprint" =>
              \A seen \in reader[t].seen : Greenplum!SegmentsMatch(seen)
    BY <1>1, <1>8 DEF Greenplum!ParseFingerprints, Greenplum!ParseRecords, Greenplum!Answer,
       Greenplum!ReaderAt, Greenplum!openVars
  <2>2. ASSUME NEW a \in answers', a \notin answers PROVE GpAnswered(a)
    <3>1. PICK seen \in reader[t].seen :
             a = [read |-> reader[t].read, relation |-> reader[t].relation, seen |-> seen]
      BY <2>1, <2>2
    <3>2. a.read = reader[t].read /\ a.relation = reader[t].relation /\ a.seen = seen
      BY <3>1
    <3> QED
      BY <1>1, <2>1, <3>1, <3>2
         DEF GpReads, GpAnswered, Greenplum!SegmentsMatch, Greenplum!Topology
  <2>3. GpReads'
    BY <1>1, <1>i, <2>1, <2>2, GpReaderUpdate
  <2> QED
    BY <2>1, <2>3, GpReaderStep
<1> QED
  BY <1>3, <1>4, <1>5, <1>6, <1>7, <1>8

(* Reading and closing.                                                    *)
LEMMA GpReadingStep ==
    ASSUME GpServer, GpHeld, GpContext, Greenplum!Reading
    PROVE  GpServer' /\ GpHeld' /\ GpContext'
<1>1. GpReads
  BY DEF GpContext
<1>2. CASE Greenplum!Close
  <2>1. /\ phase \in GpOpened /\ phase' = "closed" /\ UNCHANGED Greenplum!serverVars
        /\ UNCHANGED <<candidates, snapshot, sealed>> /\ UNCHANGED Greenplum!readVars
        /\ IF phase = "active" THEN Greenplum!CloseSession ELSE UNCHANGED <<session, shared>>
    BY <1>2 DEF Greenplum!Close, Greenplum!openVars, GpOpened
  <2>2. GpReads'
    BY <1>1, <2>1 DEF GpReads, GpSeen, GpAnswered, GpOpened, Greenplum!readVars
  <2> QED
    BY <2>1, <2>2, GpEndStep
<1>3. CASE Greenplum!ReadOriginalFingerprints \/ Greenplum!ReadGreengageFingerprints
  <2>1. /\ phase = "active" /\ reader' = reader /\ UNCHANGED Greenplum!serverVars
        /\ UNCHANGED <<candidates, snapshot, sealed>>
        /\ \/ \E segments \in Greenplum!Segments("fingerprint") : Greenplum!CanonicalRead(segments)
           \/ Greenplum!Lose /\ UNCHANGED answers
    BY <1>3 DEF Greenplum!ReadOriginalFingerprints, Greenplum!ReadGreengageFingerprints,
       Greenplum!openVars
  <2>2. CASE Greenplum!Lose /\ UNCHANGED answers
    <3>1. phase' = "lost" /\ Greenplum!CloseSession
      BY <2>1, <2>2 DEF Greenplum!Lose
    <3>2. GpReads'
      BY <1>1, <2>1, <2>2, <3>1 DEF GpReads, GpSeen, GpAnswered, GpOpened
    <3> QED
      BY <2>1, <3>1, <3>2, GpEndStep DEF GpOpened
  <2>3. ASSUME NEW segments \in Greenplum!Segments("fingerprint"),
               \A r \in Relations : Greenplum!SegmentsMatch(Greenplum!RowsSeen(r, segments)),
               answers' = answers \cup
                 {[read |-> "fingerprint", relation |-> r,
                   seen |-> Greenplum!RowsSeen(r, segments)] : r \in Relations},
               UNCHANGED <<phase, session, shared>>
        PROVE  GpServer' /\ GpHeld' /\ GpContext'
    <3>1. ASSUME NEW a \in answers', a \notin answers PROVE GpAnswered(a)
      <4>1. PICK r \in Relations : a = [read |-> "fingerprint", relation |-> r,
                                       seen |-> Greenplum!RowsSeen(r, segments)]
        BY <2>3, <3>1
      <4>2. a.relation = r /\ a.seen = Greenplum!RowsSeen(r, segments)
        BY <4>1
      <4>3. GpSeen(r, Greenplum!RowsSeen(r, segments))
        BY <2>1, GpActive DEF Greenplum!Reads
      <4> QED
        BY <2>3, <4>2, <4>3 DEF GpAnswered, Greenplum!SegmentsMatch, Greenplum!Topology
    <3>2. GpReads'
      BY <1>1, <2>1, <2>3, <3>1 DEF GpReads, GpSeen, GpAnswered, GpOpened
    <3> QED
      BY <2>1, <2>3, <3>2, GpReaderStep
  <2>4. ASSUME NEW segments \in Greenplum!Segments("fingerprint"),
               Greenplum!CanonicalRead(segments)
        PROVE  GpServer' /\ GpHeld' /\ GpContext'
    <3>1. CASE Greenplum!Lose /\ UNCHANGED answers
      BY <2>2, <3>1
    <3>2. CASE ~(Greenplum!Lose /\ UNCHANGED answers)
      BY <2>3, <2>4, <3>2 DEF Greenplum!CanonicalRead
    <3> QED
      BY <3>1, <3>2
  <2> QED
    BY <2>1, <2>2, <2>4
<1> QED
  BY <1>2, <1>3, GpThreadStep DEF Greenplum!Reading

(* The invariant of the Greenplum contexts holds of every behaviour.       *)
THEOREM GreenplumInvariance ==
    Spec => []GpInv
<1>1. Init => GpInv
  BY GpInit
<1>2. GpInv /\ [Next]_vars => GpInv'
  <2> SUFFICES ASSUME GpInv, [Next]_vars, engine' = "greenplum"
               PROVE  GpServer' /\ GpHeld' /\ GpContext'
    BY DEF GpInv
  <2>1. engine' = engine
    BY DEF Next, vars, PostgresLeaves
  <2>2. GpServer /\ GpHeld /\ GpContext
    BY <2>1 DEF GpInv
  <2>3. ASSUME UNCHANGED <<entry, session, phase, candidates, snapshot, sealed, shared, reader,
                           answers>>
        PROVE  GpContext'
    BY <2>2, <2>3 DEF GpContext, GpSealed, GpSpread, GpSession, GpReads, GpSeen, GpAnswered,
       Greenplum!CandidateUnchanged, Greenplum!Identity, Greenplum!LocksHeld,
       Greenplum!GreengageRelationCatalog, Greenplum!OriginalRelationCatalog
  <2>4. CASE Greenplum!OtherSession
    <3>1. UNCHANGED <<entry, session, phase, candidates, snapshot, sealed, shared, reader,
                      answers>>
      BY <2>4 DEF Greenplum!OtherSession, Greenplum!OtherSessionLocks,
         Greenplum!OtherSessionCommits, Greenplum!openVars, Greenplum!readVars
    <3> QED
      BY <2>2, <2>3, <2>4, <3>1, GpOtherSessionStep
  <2>5. CASE Greenplum!Opening \/ Greenplum!Reading
    BY <2>2, <2>5, GpOpeningStep, GpReadingStep
  <2>6. CASE vars' = vars
    <3>1. /\ UNCHANGED <<entry, session, phase, candidates, snapshot, sealed, shared, reader,
                         answers>>
          /\ UNCHANGED <<catalog, truncated, clock, exclusive>>
      BY <2>6 DEF vars, contextVars, catalogVars, greenplumOnly
    <3>2. GpServer' /\ GpHeld'
      BY <2>2, <3>1 DEF GpServer, GpHeld
    <3> QED
      BY <2>3, <3>1, <3>2
  <2> QED
    BY <2>1, <2>4, <2>5, <2>6 DEF Next, Greenplum!Next
<1> QED
  BY <1>1, <1>2, PTL DEF Spec

(* Every read a Greenplum or Greengage context answers is of its snapshot, *)
(* a fingerprint from exactly its primaries, for any number of threads     *)
(* that read, fail and retire the context, and                             *)
(* the session is closed exactly when the context or its open has ended    *)
(* (greengage_endpoint.py:904, 1130).                                      *)
THEOREM GreenplumReadsTheSnapshot ==
    Spec => []GreenplumReadsAreOfTheSnapshot
<1>1. GpInv => GreenplumReadsAreOfTheSnapshot
  <2> SUFFICES ASSUME engine = "greenplum", GpServer, GpHeld, GpContext
               PROVE  Greenplum!GreenplumReadsAreOfTheSnapshot
    BY DEF GreenplumReadsAreOfTheSnapshot, GpInv
  <2>1. phase = "active" => session = "open" /\ \A r \in Relations : catalog.oid[r] \in shared
    BY GpActive DEF GpContext, GpSession
  <2>2. phase \in {"failed", "lost", "closed"} => session # "open" /\ shared = {}
    BY DEF GpContext, GpSession
  <2>3. ASSUME NEW a \in answers
        PROVE  /\ a.seen.oid = snapshot.catalog.oid[a.relation]
               /\ a.seen.shape = snapshot.catalog.shape[a.relation]
               /\ a.seen.shape = candidates[a.relation].shape
               /\ a.seen.policy = snapshot.catalog.policy[a.relation]
               /\ entry = "greengage" => a.seen.policy = snapshot.catalog.primaries
               /\ a.read = "fingerprint" => a.seen.segments = snapshot.catalog.primaries
    <3>1. a.relation \in sealed
      BY DEF GpContext, GpSealed, GpReads, GpAnswered, GpOpened
    <3>2. candidates[a.relation].shape = snapshot.catalog.shape[a.relation] /\ GpSpread(a.relation)
      <4>1. PICK r \in sealed : r = a.relation
        BY <3>1
      <4>2. Greenplum!CandidateUnchanged(r) /\ GpSpread(r)
        BY DEF GpContext, GpSealed
      <4> QED
        BY <4>1, <4>2 DEF Greenplum!CandidateUnchanged, Greenplum!Identity,
           Greenplum!GreengageRelationCatalog, Greenplum!OriginalRelationCatalog
    <3> QED
      BY <3>2 DEF GpContext, GpReads, GpSeen, GpAnswered, GpSpread
  <2> QED
    BY <2>1, <2>2, <2>3 DEF Greenplum!GreenplumReadsAreOfTheSnapshot
<1> QED
  BY <1>1, GreenplumInvariance, PTL

-----------------------------------------------------------------------------
(* The SQL Server transport, for any number of supervisor threads.         *)

(* Where the owner thread is, by what the supervisors may do meanwhile.    *)
Hidden == {"idle", "publish", "close_cursor", "close_connection"}
Live == {"published", "dispatch", "executed", "fetch", "fetched", "empty", "drain",
         "drained", "ended", "finish", "detach"}
Withdrawn == {"interrupt", "confirm", "retire_error", "retire"}
OwnerPcs == Hidden \cup Live \cup Withdrawn
Causes == {"none", "cancelled", "timeout", "failed", "close_failed", "unconfirmed"}
Calling == {"loop", "native", "after", "waiting"}
SupervisorPcs == Calling \cup {"idle", "done"}
Answers == {"none", "refused", "timeout", "acknowledged"}
Handles == {{}} \cup {{q} : q \in Queries}
SupervisorState ==
    [pc : SupervisorPcs, target : Handles, answer : Answers, expired : BOOLEAN]

TransportType ==
    /\ closed \in BOOLEAN /\ cancelRequested \in BOOLEAN /\ cancelCalls \in Nat
    /\ owner \in [pc : OwnerPcs, query : Handles, cause : Causes]
    /\ outcome \in [Queries -> Causes \cup {"refused", "returned"}]
    /\ supervisor \in [Supervisors -> SupervisorState]
    /\ requested \subseteq Queries

(* The handle the supervisors see is that of the query the owner is in.    *)
HandleOK ==
    /\ owner.pc \in Hidden => activeQuery = {} /\ activeCursor = {}
    /\ owner.pc \in Live =>
          /\ activeQuery = owner.query /\ activeCursor = owner.query
          /\ owner.query \subseteq openCursors
    /\ owner.pc \in Withdrawn => activeCursor = {}
    /\ owner.pc \in Live \cup Withdrawn \cup {"publish", "close_cursor"} => owner.query # {}
    /\ owner.pc = "idle" => owner.query = {}
    /\ owner.pc \in Live \cup {"publish"} => ~closed
    /\ owner.pc = "publish" => owner.query \subseteq openCursors
    /\ owner.pc = "close_connection" => closed
    /\ ~closed => wire = "open"

(* What the owner knows of a request to cancel its query.                  *)
RequestOK ==
    /\ owner.pc \in Live /\ cancelRequested => owner.query \subseteq requested
    /\ \A q \in requested :
          q \in owner.query =>
             /\ owner.pc \notin {"publish", "retire_error", "close_cursor"}
             /\ owner.pc \in Live => cancelRequested
             /\ owner.pc \in {"interrupt", "confirm"} => owner.cause = "cancelled"
             /\ owner.pc \in {"retire", "close_connection"} =>
                   owner.cause \in {"cancelled", "unconfirmed"}
    /\ owner.cause = "cancelled" => owner.query \subseteq requested
    /\ owner.pc = "retire_error" => owner.cause = "failed"
    /\ owner.pc \in {"retire", "close_connection"} /\ owner.cause \in {"cancelled", "timeout"}
          => owner.query \cap running = {}

(* What was answered, and what was not answered yet.                       *)
OutcomeOK ==
    /\ \A q \in owner.query : outcome[q] = "none"
    /\ \A q \in requested : \/ outcome[q] \in {"cancelled", "unconfirmed"}
                            \/ outcome[q] = "none" /\ q \in owner.query
    /\ \A q \in Queries : outcome[q] = "cancelled" => q \in requested /\ closed

(* What each supervisor relies on, inside its call and after it.           *)
SupervisorOK ==
    \A s \in Supervisors :
        /\ supervisor[s].pc \in Calling =>
              supervisor[s].target # {} /\ supervisor[s].target \subseteq requested
        /\ supervisor[s].pc = "native" =>
              /\ activeQuery = supervisor[s].target
              /\ activeCursor = supervisor[s].target
        /\ supervisor[s].answer = "acknowledged" =>
              /\ supervisor[s].pc = "done"
              /\ supervisor[s].target # {} /\ supervisor[s].target \subseteq requested
              /\ activeCursor # supervisor[s].target

NativeCalls == {s \in Supervisors : supervisor[s].pc = "native"}
CallsCounted == IsFiniteSet(NativeCalls) /\ cancelCalls = Cardinality(NativeCalls)

TransportInv ==
    /\ TransportType
    /\ HandleOK
    /\ RequestOK
    /\ OutcomeOK
    /\ SupervisorOK
    /\ CallsCounted

(* A counter at zero means that no native cancel is in flight.             *)
LEMMA NoneInFlight ==
    ASSUME TransportInv, cancelCalls = 0 \/ activeCursor = {}
    PROVE  \A s \in Supervisors : supervisor[s].pc # "native"
<1>1. CASE cancelCalls = 0
  <2>1. NativeCalls = {}
    BY <1>1, FS_EmptySet DEF TransportInv, CallsCounted
  <2> QED
    BY <2>1 DEF NativeCalls
<1>2. CASE activeCursor = {}
  BY <1>2 DEF TransportInv, SupervisorOK, Calling
<1> QED
  BY <1>1, <1>2

(* A step of the owner that withdraws or publishes a handle while no       *)
(* native cancel is in flight keeps what the supervisors rely on.          *)
LEMMA OwnerKeepsSupervisors ==
    ASSUME TransportInv, supervisor' = supervisor, requested' = requested,
           cancelCalls' = cancelCalls,
           \/ activeQuery' = activeQuery /\ activeCursor' = activeCursor
           \/ /\ cancelCalls = 0 \/ activeCursor = {}
              /\ activeCursor' \cap requested = {}
    PROVE  SupervisorOK' /\ CallsCounted'
<1>1. CallsCounted'
  BY DEF TransportInv, CallsCounted, NativeCalls
<1>2. CASE activeQuery' = activeQuery /\ activeCursor' = activeCursor
  BY <1>1, <1>2 DEF TransportInv, SupervisorOK
<1>3. CASE (cancelCalls = 0 \/ activeCursor = {}) /\ activeCursor' \cap requested = {}
  <2>1. \A s \in Supervisors : supervisor[s].pc # "native"
    BY <1>3, NoneInFlight
  <2> QED
    BY <1>1, <1>3, <2>1 DEF TransportInv, SupervisorOK
<1> QED
  BY <1>2, <1>3

(* The owner moves on within a call.                                       *)
LEMMA GoToStep ==
    ASSUME TransportType, NEW pc \in OwnerPcs, NEW cause \in Causes,
           owner' = [owner EXCEPT !.pc = pc, !.cause = cause]
    PROVE  /\ owner' \in [pc : OwnerPcs, query : Handles, cause : Causes]
           /\ owner'.pc = pc /\ owner'.query = owner.query /\ owner'.cause = cause
BY DEF TransportType

(* Before a query: the transport is set up, rolled back or closed.         *)
LEMMA IdleStep ==
    ASSUME TransportInv, Transport!SetUpOrRollBackFails \/ Transport!Close
    PROVE  TransportInv'
<1>1. /\ owner.pc = "idle" /\ owner.query = {}
      /\ activeQuery = {} /\ activeCursor = {}
  BY DEF TransportInv, HandleOK, Hidden, Transport!SetUpOrRollBackFails, Transport!Close,
         Transport!OwnerIdle
<1>2. /\ closed' = TRUE /\ activeQuery' = {} /\ activeCursor' = {}
      /\ cancelRequested' \in BOOLEAN
      /\ owner' = [owner EXCEPT !.pc = "close_connection", !.cause = "none"]
      /\ UNCHANGED <<cancelCalls, wire, openCursors, running, received, outcome, supervisor,
                     requested>>
  BY <1>1 DEF TransportInv, TransportType, Transport!SetUpOrRollBackFails, Transport!Close,
              Transport!RetireAfterSetupError, Transport!ClearActiveQuery, Transport!GoTo,
              Transport!driverVars
<1>3. /\ owner' \in [pc : OwnerPcs, query : Handles, cause : Causes]
      /\ owner'.pc = "close_connection" /\ owner'.query = {} /\ owner'.cause = "none"
  <2>1. "close_connection" \in OwnerPcs /\ "none" \in Causes
    BY DEF OwnerPcs, Hidden, Causes
  <2> QED
    BY <1>1, <1>2, <2>1, GoToStep DEF TransportInv
<1>4. TransportType'
  BY <1>2, <1>3 DEF TransportInv, TransportType
<1>5. HandleOK'
  BY <1>2, <1>3 DEF HandleOK, Hidden, Live, Withdrawn
<1>6. RequestOK' /\ OutcomeOK'
  BY <1>1, <1>2, <1>3 DEF TransportInv, TransportType, RequestOK, OutcomeOK, Live
<1>7. SupervisorOK' /\ CallsCounted'
  BY <1>1, <1>2, OwnerKeepsSupervisors
<1> QED
  BY <1>4, <1>5, <1>6, <1>7 DEF TransportInv


(* The call of the owner ends with an answer for its query.                *)
LEMMA AnswerStep ==
    ASSUME TransportInv, NEW result \in Causes \cup {"refused", "returned"},
           Transport!Answer(result)
    PROVE  /\ owner' \in [pc : OwnerPcs, query : Handles, cause : Causes]
           /\ owner'.pc = "idle" /\ owner'.query = {} /\ owner'.cause = "none"
           /\ outcome' \in [Queries -> Causes \cup {"refused", "returned"}]
           /\ \A q \in Queries :
                 outcome'[q] = IF q \in owner.query THEN result ELSE outcome[q]
<1>1. /\ owner' = [pc |-> "idle", query |-> {}, cause |-> "none"]
      /\ outcome' = [q \in Queries |-> IF q \in owner.query THEN result ELSE outcome[q]]
  BY DEF Transport!Answer, Transport!Idle
<1>2. "idle" \in OwnerPcs /\ {} \in Handles /\ "none" \in Causes
  BY DEF OwnerPcs, Hidden, Handles, Causes
<1>3. owner' \in [pc : OwnerPcs, query : Handles, cause : Causes]
  BY <1>1, <1>2
<1>4. outcome' \in [Queries -> Causes \cup {"refused", "returned"}]
  BY <1>1 DEF TransportInv, TransportType
<1> QED
  BY <1>1, <1>3, <1>4

(* A query that was not answered is in nobody's hands while the owner is   *)
(* idle.                                                                   *)
LEMMA UnansweredIsUnrequested ==
    ASSUME TransportInv, NEW q \in Queries, outcome[q] = "none", q \notin owner.query
    PROVE  q \notin requested
BY DEF TransportInv, OutcomeOK

(* A query is refused, gets a cursor, or fails to get one.                 *)
LEMMA StartQueryStep ==
    ASSUME TransportInv, NEW q \in Queries, Transport!StartQuery(q)
    PROVE  TransportInv'
<1>1. /\ owner.pc = "idle" /\ owner.query = {}
      /\ activeQuery = {} /\ activeCursor = {} /\ outcome[q] = "none"
  BY DEF TransportInv, HandleOK, Hidden, Transport!StartQuery, Transport!OwnerIdle
<1>2. UNCHANGED <<closed, activeQuery, activeCursor, cancelRequested, cancelCalls, wire,
                  running, supervisor, requested>>
  BY DEF Transport!StartQuery, Transport!sharedVars
<1>3. q \notin requested
  BY <1>1, UnansweredIsUnrequested
<1>4. SupervisorOK' /\ CallsCounted'
  BY <1>2, OwnerKeepsSupervisors
<1>5. CASE /\ outcome' = [outcome EXCEPT ![q] = "refused"]
           /\ UNCHANGED <<owner, openCursors>>
  <2>1. /\ outcome' \in [Queries -> Causes \cup {"refused", "returned"}]
        /\ outcome'[q] = "refused"
        /\ \A o \in Queries : o # q => outcome'[o] = outcome[o]
    BY <1>5 DEF TransportInv, TransportType
  <2>2. TransportType'
    BY <1>2, <1>5, <2>1 DEF TransportInv, TransportType
  <2>3. HandleOK' /\ RequestOK'
    BY <1>2, <1>5 DEF TransportInv, HandleOK, RequestOK
  <2>4. OutcomeOK'
    BY <1>1, <1>2, <1>3, <1>5, <2>1 DEF TransportInv, TransportType, OutcomeOK
  <2> QED
    BY <1>4, <2>2, <2>3, <2>4 DEF TransportInv
<1>6. CASE /\ ~closed /\ UNCHANGED outcome
           /\ \/ /\ openCursors' = openCursors \cup {q}
                 /\ owner' = [pc |-> "publish", query |-> {q}, cause |-> "none"]
              \/ /\ openCursors' = openCursors
                 /\ owner' = [pc |-> "retire_error", query |-> {q}, cause |-> "failed"]
  <2>1. /\ owner'.query = {q}
        /\ \/ owner'.pc = "publish" /\ owner'.cause = "none" /\ q \in openCursors'
           \/ owner'.pc = "retire_error" /\ owner'.cause = "failed"
    BY <1>6
  <2>2. owner' \in [pc : OwnerPcs, query : Handles, cause : Causes]
    <3>1. {q} \in Handles /\ "publish" \in OwnerPcs /\ "retire_error" \in OwnerPcs
      BY DEF Handles, OwnerPcs, Hidden, Withdrawn
    <3>2. "none" \in Causes /\ "failed" \in Causes
      BY DEF Causes
    <3> QED
      BY <1>6, <3>1, <3>2
  <2>3. TransportType'
    BY <1>2, <1>6, <2>2 DEF TransportInv, TransportType
  <2>4. HandleOK'
    BY <1>1, <1>2, <1>6, <2>1 DEF TransportInv, HandleOK, Hidden, Live, Withdrawn
  <2>5. RequestOK'
    BY <1>2, <1>3, <2>1 DEF TransportInv, RequestOK, Live
  <2>6. OutcomeOK'
    BY <1>1, <1>2, <1>3, <1>6, <2>1 DEF TransportInv, OutcomeOK
  <2> QED
    BY <1>4, <2>3, <2>4, <2>5, <2>6 DEF TransportInv
<1> QED
  BY <1>5, <1>6 DEF Transport!StartQuery

(* The cursor is published to the supervisors, or closed again.            *)
LEMMA PublishStep ==
    ASSUME TransportInv, Transport!PublishActiveQuery
    PROVE  TransportInv'
<1>1. /\ owner.pc = "publish" /\ owner.query # {} /\ ~closed
      /\ activeQuery = {} /\ activeCursor = {} /\ owner.query \subseteq openCursors
      /\ owner.query \cap requested = {}
  BY DEF TransportInv, HandleOK, Hidden, RequestOK, Transport!PublishActiveQuery
<1>2. UNCHANGED <<closed, cancelCalls, wire, running, supervisor, requested>>
  BY DEF Transport!PublishActiveQuery, Transport!sharedVars, Transport!driverVars
<1>3. owner.query \subseteq Queries
  BY DEF TransportInv, TransportType, Handles
<1>4. CASE /\ Transport!Answer("failed")
           /\ UNCHANGED <<activeQuery, activeCursor, cancelRequested>>
  <2>1. /\ owner' \in [pc : OwnerPcs, query : Handles, cause : Causes]
        /\ owner'.pc = "idle" /\ owner'.query = {} /\ owner'.cause = "none"
        /\ outcome' \in [Queries -> Causes \cup {"refused", "returned"}]
        /\ \A q \in Queries :
              outcome'[q] = IF q \in owner.query THEN "failed" ELSE outcome[q]
    <3>1. "failed" \in Causes \cup {"refused", "returned"}
      BY DEF Causes
    <3> QED
      BY <1>4, <3>1, AnswerStep
  <2>2. TransportType'
    BY <1>2, <1>4, <2>1 DEF TransportInv, TransportType
  <2>3. HandleOK' /\ RequestOK'
    BY <1>1, <1>2, <1>4, <2>1
       DEF TransportInv, HandleOK, RequestOK, Hidden, Live, Withdrawn
  <2>4. OutcomeOK'
    BY <1>1, <1>2, <1>3, <2>1 DEF TransportInv, TransportType, OutcomeOK
  <2>5. SupervisorOK' /\ CallsCounted'
    BY <1>2, <1>4, OwnerKeepsSupervisors
  <2> QED
    BY <2>2, <2>3, <2>4, <2>5 DEF TransportInv
<1>5. CASE /\ activeQuery' = owner.query /\ activeCursor' = owner.query
           /\ cancelRequested' = FALSE
           /\ Transport!Step("published")
           /\ UNCHANGED <<openCursors, outcome>>
  <2>1. /\ owner' \in [pc : OwnerPcs, query : Handles, cause : Causes]
        /\ owner'.pc = "published" /\ owner'.query = owner.query
        /\ owner'.cause = owner.cause
    <3>1. "published" \in OwnerPcs /\ owner.cause \in Causes
      BY DEF OwnerPcs, Live, TransportInv, TransportType
    <3> QED
      BY <1>5, <3>1, GoToStep DEF TransportInv, Transport!Step, Transport!GoTo
  <2>2. TransportType'
    BY <1>2, <1>5, <2>1 DEF TransportInv, TransportType
  <2>3. HandleOK'
    BY <1>1, <1>2, <1>5, <2>1 DEF TransportInv, HandleOK, Hidden, Live, Withdrawn
  <2>4. RequestOK' /\ OutcomeOK'
    BY <1>1, <1>2, <1>5, <2>1 DEF TransportInv, RequestOK, OutcomeOK, Live
  <2>5. SupervisorOK' /\ CallsCounted'
    BY <1>1, <1>2, <1>5, OwnerKeepsSupervisors
  <2> QED
    BY <2>2, <2>3, <2>4, <2>5 DEF TransportInv
<1> QED
  BY <1>4, <1>5 DEF Transport!PublishActiveQuery, Transport!sharedVars, Transport!driverVars

(* While its handle is published the owner moves only within the query.    *)
LEMMA LiveStep ==
    ASSUME TransportInv, owner.pc \in Live, NEW pc \in Live, NEW cause \in Causes,
           cause = "cancelled" => owner.query \subseteq requested,
           Transport!GoTo(pc, cause),
           UNCHANGED <<closed, activeQuery, activeCursor, cancelRequested, cancelCalls, wire,
                       openCursors, outcome, supervisor, requested>>
    PROVE  TransportInv'
<1>1. /\ owner' \in [pc : OwnerPcs, query : Handles, cause : Causes]
      /\ owner'.pc = pc /\ owner'.query = owner.query /\ owner'.cause = cause
  <2>1. pc \in OwnerPcs
    BY DEF OwnerPcs
  <2> QED
    BY <2>1, GoToStep DEF TransportInv, Transport!GoTo
<1>2. TransportType'
  BY <1>1 DEF TransportInv, TransportType
<1>3. HandleOK'
  BY <1>1 DEF TransportInv, HandleOK, Hidden, Live, Withdrawn
<1>4. RequestOK' /\ OutcomeOK'
  BY <1>1 DEF TransportInv, RequestOK, OutcomeOK, Live
<1>5. SupervisorOK' /\ CallsCounted'
  BY OwnerKeepsSupervisors
<1> QED
  BY <1>2, <1>3, <1>4, <1>5 DEF TransportInv

(* The check after a driver call, and the driver calls themselves.         *)
LEMMA CheckStep ==
    ASSUME TransportInv, NEW from \in Live, NEW to \in Live,
           Transport!CheckCancelled(from, to)
    PROVE  TransportInv'
<1>1. owner.pc \in Live /\ owner.cause \in Causes /\ "cancelled" \in Causes
  BY DEF Transport!CheckCancelled, TransportInv, TransportType, Causes
<1>2. UNCHANGED <<closed, activeQuery, activeCursor, cancelRequested, cancelCalls, wire,
                  openCursors, outcome, supervisor, requested>>
  BY DEF Transport!CheckCancelled, Transport!sharedVars, Transport!driverVars
<1>3. "detach" \in Live
  BY DEF Live
<1>4. CASE Transport!IsCancelRequested /\ Transport!GoTo("detach", "cancelled")
  <2>1. owner.query \subseteq requested
    BY <1>1, <1>4 DEF Transport!IsCancelRequested, TransportInv, RequestOK
  <2> QED
    BY <1>1, <1>2, <1>3, <1>4, <2>1, LiveStep
<1>5. CASE Transport!GoTo(to, owner.cause)
  <2>1. owner.cause = "cancelled" => owner.query \subseteq requested
    BY DEF TransportInv, RequestOK
  <2> QED
    BY <1>1, <1>2, <1>5, <2>1, LiveStep
<1> QED
  BY <1>4, <1>5 DEF Transport!CheckCancelled, Transport!Step

(* Dispatch, fetches and the drain of the results.                         *)
LEMMA DriverCallStep ==
    ASSUME TransportInv,
           Transport!Dispatch \/ Transport!Fetch \/ Transport!DrainTerminalResults
    PROVE  TransportInv'
<1>1. owner.pc \in Live /\ owner.cause \in Causes
  BY DEF Transport!Dispatch, Transport!Fetch, Transport!DrainTerminalResults, Live,
         TransportInv, TransportType
<1>2. UNCHANGED <<closed, activeQuery, activeCursor, cancelRequested, cancelCalls, wire,
                  openCursors, outcome, supervisor, requested>>
  BY DEF Transport!Dispatch, Transport!Fetch, Transport!DrainTerminalResults,
         Transport!sharedVars
<1>3. owner.cause = "cancelled" => owner.query \subseteq requested
  BY DEF TransportInv, RequestOK
<1>4. \/ \E pc \in Live : Transport!GoTo(pc, owner.cause)
      \/ \E cause \in Causes \ {"cancelled"} : Transport!GoTo("detach", cause)
  BY DEF Transport!Dispatch, Transport!Fetch, Transport!DrainTerminalResults,
         Transport!DriverCallFails, Transport!LocalFailure, Transport!Step, Live, Causes
<1>5. "detach" \in Live
  BY DEF Live
<1> QED
  BY <1>1, <1>2, <1>3, <1>4, <1>5, LiveStep

(* The last look at the flag: a request seen here ends the query as        *)
(* cancelled, and one that comes later finds no handle.                    *)
LEMMA FinishStep ==
    ASSUME TransportInv, Transport!FinishSuccess
    PROVE  TransportInv'
<1>1. owner.pc = "finish" /\ owner.pc \in Live /\ owner.cause \in Causes
  BY DEF Transport!FinishSuccess, Live, TransportInv, TransportType
<1>2. UNCHANGED <<closed, cancelCalls, wire, openCursors, running, outcome, supervisor,
                  requested>>
  BY DEF Transport!FinishSuccess, Transport!driverVars
<1>3. CASE /\ cancelRequested /\ Transport!GoTo("detach", "cancelled")
           /\ UNCHANGED <<activeQuery, activeCursor, cancelRequested>>
  <2>1. "detach" \in Live /\ "cancelled" \in Causes /\ owner.query \subseteq requested
    BY <1>1, <1>3 DEF Live, Causes, TransportInv, RequestOK
  <2> QED
    BY <1>1, <1>2, <1>3, <2>1, LiveStep
<1>4. CASE /\ ~cancelRequested /\ cancelCalls = 0
           /\ activeQuery' = {} /\ activeCursor' = {} /\ cancelRequested' = FALSE
           /\ Transport!GoTo("close_cursor", owner.cause)
  <2>1. /\ owner' \in [pc : OwnerPcs, query : Handles, cause : Causes]
        /\ owner'.pc = "close_cursor" /\ owner'.query = owner.query
        /\ owner'.cause = owner.cause
    <3>1. "close_cursor" \in OwnerPcs
      BY DEF OwnerPcs, Hidden
    <3> QED
      BY <1>1, <1>4, <3>1, GoToStep DEF TransportInv, Transport!GoTo
  <2>2. \A q \in requested : q \notin owner.query
    BY <1>1, <1>4 DEF TransportInv, RequestOK
  <2>3. TransportType'
    BY <1>2, <1>4, <2>1 DEF TransportInv, TransportType
  <2>4. HandleOK'
    BY <1>1, <1>2, <1>4, <2>1 DEF TransportInv, HandleOK, Hidden, Live, Withdrawn
  <2>5. RequestOK' /\ OutcomeOK'
    BY <1>2, <2>1, <2>2 DEF TransportInv, RequestOK, OutcomeOK, Live
  <2>6. SupervisorOK' /\ CallsCounted'
    BY <1>2, <1>4, OwnerKeepsSupervisors
  <2> QED
    BY <2>3, <2>4, <2>5, <2>6 DEF TransportInv
<1> QED
  BY <1>3, <1>4 DEF Transport!FinishSuccess, Transport!ClearActiveQuery, Transport!Step

(* Rows are returned only for a query nobody asked to cancel.              *)
LEMMA CloseCursorStep ==
    ASSUME TransportInv, Transport!CloseFinishedCursor
    PROVE  TransportInv'
<1>1. /\ owner.pc = "close_cursor" /\ owner.query # {}
      /\ activeQuery = {} /\ activeCursor = {}
      /\ \A q \in requested : q \notin owner.query
  BY DEF Transport!CloseFinishedCursor, TransportInv, HandleOK, RequestOK, Hidden
<1>2. UNCHANGED <<closed, activeQuery, activeCursor, cancelRequested, cancelCalls, wire,
                  running, supervisor, requested>>
  BY DEF Transport!CloseFinishedCursor, Transport!sharedVars
<1>3. SupervisorOK' /\ CallsCounted'
  BY <1>2, OwnerKeepsSupervisors
<1>4. CASE Transport!Answer("returned")
  <2>1. /\ owner' \in [pc : OwnerPcs, query : Handles, cause : Causes]
        /\ owner'.pc = "idle" /\ owner'.query = {} /\ owner'.cause = "none"
        /\ outcome' \in [Queries -> Causes \cup {"refused", "returned"}]
        /\ \A q \in Queries :
              outcome'[q] = IF q \in owner.query THEN "returned" ELSE outcome[q]
    BY <1>4, AnswerStep
  <2>2. TransportType'
    BY <1>2, <2>1 DEF TransportInv, TransportType
  <2>3. HandleOK' /\ RequestOK'
    BY <1>1, <1>2, <2>1 DEF TransportInv, HandleOK, RequestOK, Hidden, Live, Withdrawn
  <2>4. OutcomeOK'
    BY <1>1, <1>2, <2>1 DEF TransportInv, TransportType, OutcomeOK
  <2> QED
    BY <1>3, <2>2, <2>3, <2>4 DEF TransportInv
<1>5. CASE Transport!GoTo("retire", "close_failed") /\ UNCHANGED <<openCursors, outcome>>
  <2>1. /\ owner' \in [pc : OwnerPcs, query : Handles, cause : Causes]
        /\ owner'.pc = "retire" /\ owner'.query = owner.query
        /\ owner'.cause = "close_failed"
    <3>1. "retire" \in OwnerPcs /\ "close_failed" \in Causes
      BY DEF OwnerPcs, Withdrawn, Causes
    <3> QED
      BY <1>5, <3>1, GoToStep DEF TransportInv, Transport!GoTo
  <2>2. TransportType'
    BY <1>2, <1>5, <2>1 DEF TransportInv, TransportType
  <2>3. HandleOK' /\ RequestOK' /\ OutcomeOK'
    BY <1>1, <1>2, <1>5, <2>1
       DEF TransportInv, HandleOK, RequestOK, OutcomeOK, Hidden, Live, Withdrawn
  <2> QED
    BY <1>3, <2>2, <2>3 DEF TransportInv
<1> QED
  BY <1>4, <1>5 DEF Transport!CloseFinishedCursor

(* The handle is taken from the supervisors once no native cancel is in    *)
(* flight; a request that was accepted until then decides the end.         *)
LEMMA DetachStep ==
    ASSUME TransportInv, Transport!DetachTerminalCursor
    PROVE  TransportInv'
<1>1. /\ owner.pc = "detach" /\ owner.query # {} /\ ~closed /\ cancelCalls = 0
      /\ activeQuery = owner.query /\ activeCursor = owner.query
  BY DEF Transport!DetachTerminalCursor, TransportInv, HandleOK, Live
<1>2. UNCHANGED <<closed, activeQuery, cancelRequested, cancelCalls, wire, openCursors,
                  running, outcome, supervisor, requested>>
  BY DEF Transport!DetachTerminalCursor, Transport!driverVars
<1>3. /\ cancelRequested => owner.query \subseteq requested
      /\ ~cancelRequested => \A q \in requested : q \notin owner.query
      /\ owner.cause = "cancelled" => owner.query \subseteq requested
      /\ cancelRequested \in BOOLEAN
      /\ owner.cause \in Causes
  BY <1>1 DEF TransportInv, RequestOK, Live, TransportType
<1>4. PICK pc \in {"interrupt", "retire_error", "confirm"}, cause \in Causes :
         /\ activeCursor' = {}
         /\ owner' = [owner EXCEPT !.pc = pc, !.cause = cause]
         /\ pc = "retire_error" => ~cancelRequested /\ cause = "failed"
         /\ cancelRequested => cause = "cancelled"
         /\ ~cancelRequested /\ cause = "cancelled" => owner.cause = "cancelled"
  <2> DEFINE to == CASE owner.cause = "none" -> "interrupt"
                     [] owner.cause = "failed" /\ ~cancelRequested -> "retire_error"
                     [] OTHER -> "confirm"
             why == CASE cancelRequested -> "cancelled"
                      [] ~cancelRequested /\ owner.cause = "none" -> "failed"
                      [] OTHER -> owner.cause
  <2>1. activeCursor' = {} /\ owner' = [owner EXCEPT !.pc = to, !.cause = why]
    BY <1>1 DEF Transport!DetachTerminalCursor, Transport!GoTo
  <2>2. to \in {"interrupt", "retire_error", "confirm"}
    OBVIOUS
  <2>3. cancelRequested => to # "retire_error" /\ why = "cancelled"
    BY <1>3
  <2>4. ~cancelRequested => /\ why \in Causes
                            /\ why = "cancelled" => owner.cause = "cancelled"
                            /\ to = "retire_error" => why = "failed"
    BY <1>3 DEF Causes
  <2>5. why \in Causes
    BY <1>3, <2>3, <2>4 DEF Causes
  <2> HIDE DEF to, why
  <2> QED
    BY <1>3, <2>1, <2>2, <2>3, <2>4, <2>5
<1>5. /\ owner' \in [pc : OwnerPcs, query : Handles, cause : Causes]
      /\ owner'.pc = pc /\ owner'.query = owner.query /\ owner'.cause = cause
  <2>1. pc \in OwnerPcs
    BY DEF OwnerPcs, Withdrawn
  <2> QED
    BY <1>4, <2>1, GoToStep DEF TransportInv
<1>6. TransportType'
  BY <1>2, <1>5 DEF TransportInv, TransportType
<1>7. HandleOK'
  BY <1>1, <1>2, <1>4, <1>5 DEF TransportInv, HandleOK, Hidden, Live, Withdrawn
<1>8. RequestOK'
  BY <1>2, <1>3, <1>4, <1>5 DEF RequestOK, Live
<1>9. OutcomeOK'
  BY <1>2, <1>5 DEF TransportInv, OutcomeOK
<1>10. SupervisorOK' /\ CallsCounted'
  BY <1>1, <1>2, <1>4, OwnerKeepsSupervisors
<1> QED
  BY <1>6, <1>7, <1>8, <1>9, <1>10 DEF TransportInv

(* After the handle is withdrawn the owner interrupts the statement,       *)
(* confirms its end and retires the connection.                            *)
LEMMA WithdrawnStep ==
    ASSUME TransportInv,
           \/ Transport!Interrupt
           \/ Transport!ConfirmDetachedTerminalStatement
           \/ Transport!RetireAfterQueryError
    PROVE  TransportInv'
<1>1. /\ owner.pc \in {"interrupt", "confirm", "retire_error"} /\ owner.query # {}
      /\ activeCursor = {} /\ owner.cause \in Causes
  BY DEF TransportInv, TransportType, HandleOK, Withdrawn, Transport!Interrupt,
         Transport!ConfirmDetachedTerminalStatement, Transport!RetireAfterQueryError
<1>2. /\ UNCHANGED <<closed, activeQuery, cancelRequested, cancelCalls, wire, outcome,
                     supervisor, requested>>
      /\ activeCursor' = {}
  BY <1>1 DEF Transport!Interrupt, Transport!ConfirmDetachedTerminalStatement,
              Transport!RetireAfterQueryError, Transport!sharedVars, Transport!driverVars
<1>3. PICK pc \in {"confirm", "retire"}, cause \in Causes :
         /\ owner' = [owner EXCEPT !.pc = pc, !.cause = cause]
         /\ cause \in {owner.cause, "unconfirmed"}
         /\ pc = "confirm" => owner.pc = "interrupt" /\ cause = owner.cause
         /\ pc = "retire" /\ cause # "unconfirmed" /\ owner.pc = "confirm" =>
               running' = running \ owner.query
         /\ pc = "retire" => owner.pc \in {"confirm", "retire_error"}
         /\ running' \subseteq running
  <2>1. CASE Transport!Interrupt
    BY <1>1, <2>1 DEF Transport!Interrupt, Transport!Step, Transport!GoTo,
                      Transport!driverVars
  <2>2. CASE Transport!ConfirmDetachedTerminalStatement
    BY <1>1, <2>2 DEF Transport!ConfirmDetachedTerminalStatement, Transport!Step,
                      Transport!GoTo, Causes
  <2>3. CASE Transport!RetireAfterQueryError
    BY <1>1, <2>3 DEF Transport!RetireAfterQueryError, Transport!Step, Transport!GoTo
  <2> QED
    BY <2>1, <2>2, <2>3
<1>4. /\ owner' \in [pc : OwnerPcs, query : Handles, cause : Causes]
      /\ owner'.pc = pc /\ owner'.query = owner.query /\ owner'.cause = cause
  <2>1. pc \in OwnerPcs
    BY DEF OwnerPcs, Withdrawn
  <2> QED
    BY <1>3, <2>1, GoToStep DEF TransportInv
<1>5. TransportType'
  BY <1>2, <1>4 DEF TransportInv, TransportType
<1>6. HandleOK'
  BY <1>1, <1>2, <1>4 DEF TransportInv, HandleOK, Hidden, Live, Withdrawn
<1>7. RequestOK'
  <2>1. owner'.cause = "cancelled" => owner'.query \subseteq requested'
    BY <1>2, <1>3, <1>4 DEF TransportInv, RequestOK
  <2>2. ASSUME NEW q \in requested, q \in owner.query
        PROVE  pc \in {"confirm", "retire"} /\ cause \in {"cancelled", "unconfirmed"}
               /\ (pc = "confirm" => cause = "cancelled")
    BY <1>1, <1>3, <2>2 DEF TransportInv, RequestOK
  <2>3. pc = "retire" /\ cause \in {"cancelled", "timeout"} => owner.query \cap running' = {}
    BY <1>1, <1>3 DEF TransportInv, RequestOK
  <2> QED
    BY <1>2, <1>4, <2>1, <2>2, <2>3 DEF RequestOK, Live
<1>8. OutcomeOK'
  BY <1>2, <1>4 DEF TransportInv, OutcomeOK
<1>9. SupervisorOK' /\ CallsCounted'
  BY <1>1, <1>2, OwnerKeepsSupervisors
<1> QED
  BY <1>5, <1>6, <1>7, <1>8, <1>9 DEF TransportInv

(* The transport is closed to every thread before its connection is.       *)
LEMMA RetireStep ==
    ASSUME TransportInv, Transport!RetireConnection
    PROVE  TransportInv'
<1>1. /\ owner.pc = "retire" /\ owner.query # {} /\ activeCursor = {}
      /\ owner.cause \in Causes
  BY DEF TransportInv, TransportType, HandleOK, Withdrawn, Transport!RetireConnection
<1>2. /\ UNCHANGED <<cancelCalls, wire, openCursors, running, outcome, supervisor, requested>>
      /\ closed' = TRUE /\ activeQuery' = {} /\ activeCursor' = {}
      /\ cancelRequested' = FALSE
  BY DEF Transport!RetireConnection, Transport!ClearActiveQuery, Transport!driverVars
<1>3. /\ owner' \in [pc : OwnerPcs, query : Handles, cause : Causes]
      /\ owner'.pc = "close_connection" /\ owner'.query = owner.query
      /\ owner'.cause = owner.cause
  <2>1. "close_connection" \in OwnerPcs
    BY DEF OwnerPcs, Hidden
  <2> QED
    BY <1>1, <2>1, GoToStep
       DEF TransportInv, Transport!RetireConnection, Transport!Step, Transport!GoTo
<1>4. TransportType'
  BY <1>2, <1>3 DEF TransportInv, TransportType
<1>5. HandleOK' /\ RequestOK' /\ OutcomeOK'
  BY <1>1, <1>2, <1>3
     DEF TransportInv, HandleOK, RequestOK, OutcomeOK, Hidden, Live, Withdrawn
<1>6. SupervisorOK' /\ CallsCounted'
  BY <1>1, <1>2, OwnerKeepsSupervisors
<1> QED
  BY <1>4, <1>5, <1>6 DEF TransportInv

(* The caller is told the cause the critical sections settled.             *)
LEMMA CloseConnectionStep ==
    ASSUME TransportInv, Transport!CloseConnection
    PROVE  TransportInv'
<1>1. /\ owner.pc = "close_connection" /\ closed /\ owner.cause \in Causes
      /\ activeQuery = {} /\ activeCursor = {}
  BY DEF TransportInv, TransportType, HandleOK, Hidden, Transport!CloseConnection
<1>2. UNCHANGED <<closed, activeQuery, activeCursor, cancelRequested, cancelCalls, supervisor,
                  requested>>
  BY DEF Transport!CloseConnection, Transport!sharedVars
<1>3. /\ owner' \in [pc : OwnerPcs, query : Handles, cause : Causes]
      /\ owner'.pc = "idle" /\ owner'.query = {} /\ owner'.cause = "none"
      /\ outcome' \in [Queries -> Causes \cup {"refused", "returned"}]
      /\ \A q \in Queries :
            outcome'[q] = IF q \in owner.query THEN owner.cause ELSE outcome[q]
  <2>1. CASE owner.query = {} /\ owner' = Transport!Idle /\ UNCHANGED outcome
    <3>1. "idle" \in OwnerPcs /\ {} \in Handles /\ "none" \in Causes
      BY DEF OwnerPcs, Hidden, Handles, Causes
    <3> QED
      BY <2>1, <3>1 DEF Transport!Idle, TransportInv, TransportType
  <2>2. CASE Transport!Answer(owner.cause)
    <3>1. PICK result \in Causes : result = owner.cause
      BY <1>1
    <3>2. Transport!Answer(result)
      BY <2>2, <3>1 DEF Transport!Answer
    <3> QED
      BY <3>1, <3>2, AnswerStep
  <2> QED
    BY <2>1, <2>2 DEF Transport!CloseConnection
<1>4. TransportType'
  BY <1>2, <1>3 DEF TransportInv, TransportType
<1>5. HandleOK' /\ RequestOK'
  BY <1>1, <1>2, <1>3 DEF TransportInv, HandleOK, RequestOK, Hidden, Live, Withdrawn
<1>6. OutcomeOK'
  <2>1. \A q \in requested : q \in owner.query => owner.cause \in {"cancelled", "unconfirmed"}
    BY <1>1 DEF TransportInv, RequestOK
  <2>2. owner.cause = "cancelled" => owner.query \subseteq requested
    BY DEF TransportInv, RequestOK
  <2> QED
    BY <1>1, <1>2, <1>3, <2>1, <2>2 DEF TransportInv, TransportType, OutcomeOK
<1>7. SupervisorOK' /\ CallsCounted'
  BY <1>2, OwnerKeepsSupervisors
<1> QED
  BY <1>4, <1>5, <1>6, <1>7 DEF TransportInv

(* A request is accepted only while the handle it names is published.      *)
LEMMA RequestCancelStep ==
    ASSUME TransportInv, NEW s \in Supervisors, NEW q \in Queries,
           Transport!RequestCancel(s, q)
    PROVE  TransportInv'
<1> DEFINE accepted == ~closed /\ activeQuery = {q} /\ activeCursor # {}
<1>1. UNCHANGED <<closed, activeQuery, activeCursor, cancelCalls, wire, openCursors, running,
                  owner, outcome>>
  BY DEF Transport!RequestCancel, Transport!driverVars
<1>2. /\ cancelRequested' = (cancelRequested \/ accepted)
      /\ requested' = IF accepted THEN requested \cup {q} ELSE requested
      /\ supervisor[s].pc = "idle"
      /\ supervisor' = [supervisor EXCEPT
            ![s].target = {q},
            ![s].pc = IF ~accepted THEN "done" ELSE IF cancelRequested THEN "waiting" ELSE "loop",
            ![s].answer = IF accepted THEN "none" ELSE "refused"]
  BY DEF Transport!RequestCancel
<1>3. accepted => owner.pc \in Live /\ owner.query = {q} /\ activeCursor = {q}
  BY DEF TransportInv, TransportType, HandleOK, OwnerPcs
<1>4. /\ supervisor' \in [Supervisors -> SupervisorState]
      /\ \A o \in Supervisors : o # s => supervisor'[o] = supervisor[o]
      /\ supervisor'[s].target = {q}
      /\ supervisor'[s].answer # "acknowledged"
      /\ supervisor'[s].pc # "native"
      /\ supervisor'[s].pc \in Calling => accepted
  <2>1. {q} \in Handles
    BY DEF Handles
  <2> HIDE DEF accepted
  <2> QED
    BY <1>2, <2>1 DEF TransportInv, TransportType, SupervisorState, SupervisorPcs,
                      Calling, Answers
<1> HIDE DEF accepted
<1>5. TransportType'
  BY <1>1, <1>2, <1>4 DEF TransportInv, TransportType
<1>6. HandleOK'
  BY <1>1 DEF TransportInv, HandleOK
<1>7. RequestOK'
  BY <1>1, <1>2, <1>3 DEF TransportInv, TransportType, RequestOK, Live
<1>8. OutcomeOK'
  BY <1>1, <1>2, <1>3 DEF TransportInv, OutcomeOK
<1>9. SupervisorOK'
  BY <1>1, <1>2, <1>4 DEF TransportInv, SupervisorOK
<1>10. CallsCounted'
  <2>1. NativeCalls' = NativeCalls
    BY <1>2, <1>4 DEF NativeCalls
  <2> QED
    BY <1>1, <2>1 DEF TransportInv, CallsCounted
<1> QED
  BY <1>5, <1>6, <1>7, <1>8, <1>9, <1>10 DEF TransportInv

(* A supervisor moves on within its call.                                  *)
LEMMA MoveStep ==
    ASSUME TransportInv, NEW s \in Supervisors, NEW pc \in SupervisorPcs, NEW answer \in Answers,
           Transport!Move(s, pc, answer)
    PROVE  /\ supervisor' \in [Supervisors -> SupervisorState]
           /\ \A o \in Supervisors : o # s => supervisor'[o] = supervisor[o]
           /\ supervisor'[s].target = supervisor[s].target
           /\ supervisor'[s].pc = pc /\ supervisor'[s].answer = answer
BY DEF TransportInv, TransportType, SupervisorState, Transport!Move

(* A supervisor that takes no part in a native call changes its own state  *)
(* only; it may be told "acknowledged" once the handle is gone.            *)
LEMMA QuietStep ==
    ASSUME TransportInv, NEW s \in Supervisors,
           UNCHANGED <<closed, activeQuery, activeCursor, cancelRequested, cancelCalls, wire,
                       openCursors, running, owner, outcome, requested>>,
           supervisor' \in [Supervisors -> SupervisorState],
           \A o \in Supervisors : o # s => supervisor'[o] = supervisor[o],
           supervisor'[s].target = supervisor[s].target,
           supervisor[s].pc \in Calling,
           supervisor'[s].pc = "native" <=> supervisor[s].pc = "native",
           supervisor'[s].answer = "acknowledged" =>
              supervisor'[s].pc = "done" /\ ~Transport!HandleIsActive(s)
    PROVE  TransportInv'
<1>1. TransportType' /\ HandleOK' /\ RequestOK' /\ OutcomeOK'
  BY DEF TransportInv, TransportType, HandleOK, RequestOK, OutcomeOK
<1>2. activeCursor # {} => activeCursor = activeQuery
  BY DEF TransportInv, TransportType, HandleOK, OwnerPcs
<1>3. supervisor[s].target # {} /\ supervisor[s].target \subseteq requested
  BY DEF TransportInv, SupervisorOK
<1>4. SupervisorOK'
  BY <1>2, <1>3 DEF TransportInv, SupervisorOK, Transport!HandleIsActive
<1>5. CallsCounted'
  <2>1. NativeCalls' = NativeCalls
    BY DEF NativeCalls
  <2> QED
    BY <2>1 DEF TransportInv, CallsCounted
<1> QED
  BY <1>1, <1>4, <1>5 DEF TransportInv

(* The native call is announced while the handle is published, and counted *)
(* back when it returns.                                                   *)
LEMMA NativeStep ==
    ASSUME TransportInv, NEW s \in Supervisors,
           UNCHANGED <<closed, activeQuery, activeCursor, cancelRequested, wire, openCursors,
                       running, owner, outcome, requested>>,
           \/ /\ supervisor[s].pc = "loop" /\ Transport!HandleIsActive(s)
              /\ Transport!Move(s, "native", "none") /\ cancelCalls' = cancelCalls + 1
           \/ /\ supervisor[s].pc = "native"
              /\ Transport!Move(s, "after", "none") /\ cancelCalls' = cancelCalls - 1
    PROVE  TransportInv'
<1>1. /\ supervisor' \in [Supervisors -> SupervisorState]
      /\ \A o \in Supervisors : o # s => supervisor'[o] = supervisor[o]
      /\ supervisor'[s].target = supervisor[s].target
      /\ supervisor'[s].answer = "none"
      /\ supervisor[s].pc = "loop" => supervisor'[s].pc = "native"
      /\ supervisor[s].pc = "native" => supervisor'[s].pc = "after"
  <2>1. {"native", "after"} \subseteq SupervisorPcs /\ "none" \in Answers
    BY DEF SupervisorPcs, Calling, Answers
  <2> QED
    BY <2>1, MoveStep
<1>2. /\ supervisor[s].pc \in Calling
      /\ supervisor[s].target # {} /\ supervisor[s].target \subseteq requested
  BY DEF TransportInv, SupervisorOK, Calling
<1>3. activeCursor # {} => activeCursor = activeQuery
  BY DEF TransportInv, TransportType, HandleOK, OwnerPcs
<1>4. /\ IsFiniteSet(NativeCalls) /\ cancelCalls = Cardinality(NativeCalls)
      /\ Cardinality(NativeCalls) \in Nat
  BY FS_CardinalityType DEF TransportInv, CallsCounted
<1>5. HandleOK' /\ RequestOK' /\ OutcomeOK'
  BY DEF TransportInv, HandleOK, RequestOK, OutcomeOK
<1>6. SupervisorOK'
  BY <1>1, <1>2, <1>3 DEF TransportInv, SupervisorOK, Transport!HandleIsActive
<1>7. CallsCounted'
  <2>1. CASE supervisor[s].pc = "loop"
    <3>1. NativeCalls' = NativeCalls \cup {s} /\ s \notin NativeCalls
      BY <1>1, <2>1 DEF NativeCalls
    <3> QED
      BY <1>4, <2>1, <3>1, FS_AddElement DEF CallsCounted
  <2>2. CASE supervisor[s].pc = "native"
    <3>1. NativeCalls' = NativeCalls \ {s} /\ s \in NativeCalls
      BY <1>1, <2>2 DEF NativeCalls
    <3> QED
      BY <1>4, <2>2, <3>1, FS_RemoveElement DEF CallsCounted
  <2> QED
    BY <2>1, <2>2
<1>8. TransportType'
  <2>1. cancelCalls' \in Nat
    BY <1>7, FS_CardinalityType DEF CallsCounted
  <2> QED
    BY <1>1, <2>1 DEF TransportInv, TransportType
<1> QED
  BY <1>5, <1>6, <1>7, <1>8 DEF TransportInv

(* Every step of a supervisor inside its call.                             *)
LEMMA SupervisorStep ==
    ASSUME TransportInv, NEW s \in Supervisors, Transport!SupervisorContinues(s)
    PROVE  TransportInv'
<1>1. UNCHANGED <<closed, activeQuery, activeCursor, cancelRequested, wire, openCursors,
                  running, owner, outcome, requested>>
  BY DEF Transport!SupervisorContinues, Transport!CancelLoop, Transport!NativeCancelReturns,
         Transport!AwaitAcknowledgement, Transport!DeadlinePasses, Transport!sharedVars,
         Transport!driverVars
<1>2. ASSUME NEW pc \in SupervisorPcs \ {"native"}, NEW answer \in Answers,
             Transport!Move(s, pc, answer), cancelCalls' = cancelCalls,
             supervisor[s].pc \in Calling \ {"native"},
             answer = "acknowledged" => pc = "done" /\ ~Transport!HandleIsActive(s)
      PROVE  TransportInv'
  <2>1. /\ supervisor' \in [Supervisors -> SupervisorState]
        /\ \A o \in Supervisors : o # s => supervisor'[o] = supervisor[o]
        /\ supervisor'[s].target = supervisor[s].target
        /\ supervisor'[s].pc = pc /\ supervisor'[s].answer = answer
    BY <1>2, MoveStep
  <2> QED
    BY <1>1, <1>2, <2>1, QuietStep
<1>7. /\ {"done", "loop"} \subseteq SupervisorPcs \ {"native"}
      /\ {"none", "timeout", "acknowledged"} \subseteq Answers
  BY DEF SupervisorPcs, Calling, Answers
<1>3. CASE Transport!CancelLoop(s)
  <2>1. supervisor[s].pc = "loop" /\ supervisor[s].pc \in Calling
    BY <1>3 DEF Transport!CancelLoop, Calling
  <2>2. \/ Transport!Move(s, "done", "timeout") /\ UNCHANGED cancelCalls
        \/ /\ ~Transport!HandleIsActive(s)
           /\ Transport!Move(s, "done", "acknowledged") /\ UNCHANGED cancelCalls
        \/ /\ Transport!HandleIsActive(s)
           /\ Transport!Move(s, "native", "none") /\ cancelCalls' = cancelCalls + 1
    BY <1>3 DEF Transport!CancelLoop
  <2>3. CASE Transport!Move(s, "done", "timeout") /\ UNCHANGED cancelCalls
    BY <1>2, <1>7, <2>1, <2>3
  <2>4. CASE /\ ~Transport!HandleIsActive(s)
             /\ Transport!Move(s, "done", "acknowledged") /\ UNCHANGED cancelCalls
    BY <1>2, <1>7, <2>1, <2>4
  <2>5. CASE /\ Transport!HandleIsActive(s)
             /\ Transport!Move(s, "native", "none") /\ cancelCalls' = cancelCalls + 1
    BY <1>1, <2>1, <2>5, NativeStep
  <2> QED
    BY <2>2, <2>3, <2>4, <2>5
<1>4. CASE Transport!NativeCancelReturns(s)
  BY <1>1, <1>4, NativeStep DEF Transport!NativeCancelReturns
<1>5. CASE Transport!AwaitAcknowledgement(s)
  <2>1. /\ supervisor[s].pc \in {"after", "waiting"} /\ supervisor[s].pc \in Calling
        /\ cancelCalls' = cancelCalls
    BY <1>5 DEF Transport!AwaitAcknowledgement, Calling, Transport!sharedVars
  <2>2. \/ Transport!Move(s, "done", "timeout")
        \/ ~Transport!HandleIsActive(s) /\ Transport!Move(s, "done", "acknowledged")
        \/ Transport!Move(s, "loop", "none")
    BY <1>5 DEF Transport!AwaitAcknowledgement
  <2> QED
    BY <1>2, <1>7, <2>1, <2>2
<1>6. CASE Transport!DeadlinePasses(s)
  <2>1. /\ supervisor[s].pc \in Calling /\ cancelCalls' = cancelCalls
        /\ supervisor' = [supervisor EXCEPT ![s].expired = TRUE]
    BY <1>6 DEF Transport!DeadlinePasses, Calling, Transport!sharedVars
  <2>2. /\ supervisor' \in [Supervisors -> SupervisorState]
        /\ \A o \in Supervisors : o # s => supervisor'[o] = supervisor[o]
        /\ supervisor'[s].target = supervisor[s].target
        /\ supervisor'[s].pc = supervisor[s].pc
        /\ supervisor'[s].answer = supervisor[s].answer
    BY <2>1 DEF TransportInv, TransportType, SupervisorState
  <2>3. supervisor[s].answer # "acknowledged"
    BY <2>1 DEF TransportInv, SupervisorOK, Calling
  <2> QED
    BY <1>1, <2>1, <2>2, <2>3, QuietStep
<1> QED
  BY <1>3, <1>4, <1>5, <1>6 DEF Transport!SupervisorContinues

(* Every step of the transport preserves the invariant.                    *)
LEMMA TransportStep ==
    ASSUME TransportInv, Transport!Next
    PROVE  TransportInv'
<1>1. CASE Transport!OwnerContinues
  <2>1. {"published", "dispatch", "executed", "fetch", "fetched", "empty", "drain",
         "drained", "ended", "finish"} \subseteq Live
    BY DEF Live
  <2>2. ASSUME \/ Transport!CheckCancelled("published", "dispatch")
               \/ Transport!CheckCancelled("executed", "fetch")
               \/ Transport!CheckCancelled("fetched", "fetch")
               \/ Transport!CheckCancelled("empty", "drain")
               \/ Transport!CheckCancelled("drained", "drain")
               \/ Transport!CheckCancelled("ended", "finish")
        PROVE  TransportInv'
    BY <2>1, <2>2, CheckStep
  <2> QED
    BY <1>1, <2>2, PublishStep, DriverCallStep, FinishStep, CloseCursorStep, DetachStep,
       WithdrawnStep, RetireStep, CloseConnectionStep
       DEF Transport!OwnerContinues
<1> QED
  BY <1>1, IdleStep, StartQueryStep, SupervisorStep, RequestCancelStep DEF Transport!Next

(* The transport's invariant holds in every reachable state, whichever     *)
(* engine is read.                                                         *)
THEOREM TransportInvariance == Spec => []TransportInv
<1>1. Init => TransportInv
  <2> SUFFICES ASSUME Transport!Init PROVE TransportInv
    BY DEF Init
  <2>1. /\ closed = FALSE /\ activeQuery = {} /\ activeCursor = {}
        /\ cancelRequested = FALSE /\ cancelCalls = 0 /\ wire = "open"
        /\ owner = [pc |-> "idle", query |-> {}, cause |-> "none"]
        /\ outcome = [q \in Queries |-> "none"] /\ requested = {}
        /\ supervisor = [s \in Supervisors |->
              [pc |-> "idle", target |-> {}, answer |-> "none", expired |-> FALSE]]
    BY DEF Transport!Init, Transport!Idle
  <2>2. "idle" \in OwnerPcs /\ {} \in Handles /\ "none" \in Causes
    BY DEF OwnerPcs, Hidden, Handles, Causes
  <2>3. TransportType
    BY <2>1, <2>2
       DEF TransportType, SupervisorState, SupervisorPcs, Answers
  <2>4. HandleOK /\ RequestOK /\ OutcomeOK
    BY <2>1 DEF HandleOK, RequestOK, OutcomeOK, Hidden, Live, Withdrawn
  <2>5. SupervisorOK
    BY <2>1 DEF SupervisorOK, Calling
  <2>6. CallsCounted
    <3>1. NativeCalls = {}
      BY <2>1 DEF NativeCalls
    <3> QED
      BY <2>1, <3>1, FS_EmptySet DEF CallsCounted
  <2> QED
    BY <2>3, <2>4, <2>5, <2>6 DEF TransportInv
<1>2. TransportInv /\ [Next]_vars => TransportInv'
  <2> SUFFICES ASSUME TransportInv, [Next]_vars PROVE TransportInv'
    OBVIOUS
  <2>1. CASE UNCHANGED transportVars
    <3>1. NativeCalls' = NativeCalls
      BY <2>1 DEF NativeCalls, transportVars
    <3> QED
      BY <2>1, <3>1 DEF TransportInv, TransportType, HandleOK, RequestOK, OutcomeOK,
                        SupervisorOK, CallsCounted, transportVars
  <2>2. CASE Transport!Next
    BY <2>2, TransportStep
  <2> QED
    BY <2>1, <2>2 DEF Next, vars, PostgresLeaves
<1> QED
  BY <1>1, <1>2, PTL DEF Spec

(* A native cancel reaches the query it names, that query only, and        *)
(* decides it, for any number of queries and of threads that cancel them   *)
(* (cancel, _detach_terminal_cursor and _finish_success of mssql.py).      *)
THEOREM CancellationsAreExact == Spec => []CancellationIsExact
<1>1. TransportInv => CancellationIsExact
  <2> SUFFICES ASSUME TransportInv PROVE CancellationIsExact
    OBVIOUS
  <2>1. Transport!NativeCancelHitsItsQuery
    <3> SUFFICES ASSUME NEW s \in Supervisors, supervisor[s].pc = "native"
                 PROVE  /\ supervisor[s].target \subseteq openCursors
                        /\ activeQuery = supervisor[s].target
                        /\ activeCursor = supervisor[s].target
                        /\ wire = "open"
      BY DEF Transport!NativeCancelHitsItsQuery
    <3>1. /\ activeQuery = supervisor[s].target /\ activeCursor = supervisor[s].target
          /\ activeCursor # {}
      BY DEF TransportInv, SupervisorOK, Calling
    <3>2. owner.pc \in Live
      BY <3>1 DEF TransportInv, TransportType, HandleOK, OwnerPcs
    <3> QED
      BY <3>1, <3>2 DEF TransportInv, HandleOK
  <2>2. Transport!CancellationIsDecisive
    BY DEF TransportInv, TransportType, RequestOK, OutcomeOK, SupervisorOK,
           Transport!CancellationIsDecisive
  <2> QED
    BY <2>1, <2>2 DEF CancellationIsExact, Transport!CancellationIsExact
<1> QED
  BY <1>1, TransportInvariance, PTL

-----------------------------------------------------------------------------
(* The SQL Server context, for any set of relations, any number of changes *)
(* by other sessions and any budget.                                       *)

MssqlOpening == {"profile", "configure", "snapshot", "inspect"}
MssqlPhases == MssqlOpening \cup {"connect", "active", "lost", "closed", "failed"}

(* The transport follows the phase, and every query is charged.            *)
MssqlSession ==
    /\ phase \in MssqlPhases /\ transport \in {"none", "open", "closed"}
    /\ queries \in Nat /\ queries <= MaxQueries
    /\ phase = "connect" => transport = "none"
    /\ phase \in MssqlOpening \cup {"active"} => transport = "open"
    /\ phase \in {"failed", "closed"} => transport # "open"

(* What the open established stays: the profiled helper is the expected    *)
(* one, and every answer carries the snapshot, the inspected object and    *)
(* that helper.                                                            *)
MssqlAnchors ==
    /\ identity = [r \in Relations |-> identity[r]]
    /\ Legacy /\ phase \in {"configure", "snapshot", "inspect", "active"} =>
          profile.helper = Mssql!ExpectedHelper
    /\ answers # {} => phase \in {"active", "lost", "closed"}
    /\ \A a \in answers :
          /\ a.rows = snapshot
          /\ a.object = identity[a.relation]
          /\ Legacy => a.helper = Mssql!ExpectedHelper

MssqlInv == engine = "mssql" => MssqlSession /\ MssqlAnchors

(* A new context has used nothing and anchored nothing.                    *)
LEMMA MssqlInit ==
    Init => MssqlInv
<1> SUFFICES ASSUME Init, engine = "mssql" PROVE MssqlSession /\ MssqlAnchors
  BY DEF MssqlInv
<1>1. Mssql!Init
  BY DEF Init
<1>2. MaxQueries \in Nat
  BY SnapshotSourcesAssumption DEF Mssql!MssqlReadsAssumption
<1> QED
  BY <1>1, <1>2 DEF Mssql!Init, MssqlSession, MssqlAnchors, MssqlPhases, MssqlOpening

(* A step of the context follows the phases and the budget.                *)
LEMMA MssqlSessionStep ==
    ASSUME MssqlSession, Mssql!Next
    PROVE  MssqlSession'
<1>0. MaxQueries \in Nat
  BY SnapshotSourcesAssumption DEF Mssql!MssqlReadsAssumption
<1>a. queries < MaxQueries => queries + 1 \in Nat /\ queries + 1 <= MaxQueries
  BY <1>0 DEF MssqlSession
<1>b. ASSUME queries' \in {queries, queries + 1}, queries' <= MaxQueries
      PROVE  queries' \in Nat
  BY <1>b DEF MssqlSession
<1> USE DEF MssqlSession, MssqlPhases, MssqlOpening
<1>1. CASE Mssql!OtherSessionChanges
  BY <1>1 DEF Mssql!OtherSessionChanges
<1>2. CASE Mssql!OpenTransport
  BY <1>2, <1>a DEF Mssql!OpenTransport, Mssql!OpenTransportOnce
<1>3. CASE Mssql!ReadProfile
  BY <1>3, <1>a, <1>b DEF Mssql!ReadProfile, Mssql!Charged, Mssql!OpeningQueryFails,
     Mssql!FailOpen, Mssql!CloseOpeningTransport
<1>4. CASE Mssql!ConfigureSnapshot
  BY <1>4 DEF Mssql!ConfigureSnapshot
<1>5. CASE Mssql!ReadSnapshotEvidence
  BY <1>5, <1>a, <1>b DEF Mssql!ReadSnapshotEvidence, Mssql!Charged, Mssql!OpeningQueryFails,
     Mssql!FailOpen, Mssql!CloseOpeningTransport
<1>6. ASSUME NEW r \in Relations, Mssql!InspectRelation(r) \/ Mssql!InspectColumns(r)
      PROVE  MssqlSession'
  BY <1>6, <1>a DEF Mssql!InspectRelation, Mssql!InspectColumns, Mssql!Charged
<1>7. CASE Mssql!InspectionFails
  BY <1>7, <1>b DEF Mssql!InspectionFails, Mssql!FailOpen, Mssql!CloseOpeningTransport
<1>8. ASSUME NEW r \in Relations, Mssql!Read(r) \/ Mssql!ReadLosesProvenance(r)
      PROVE  MssqlSession'
  BY <1>8, <1>a DEF Mssql!Read, Mssql!ReadLosesProvenance, Mssql!Charged
<1>9. CASE Mssql!ReadFails
  BY <1>9, <1>b DEF Mssql!ReadFails
<1>10. CASE Mssql!Close
  BY <1>10 DEF Mssql!Close, Mssql!CloseOpeningTransport
<1> QED
  BY <1>1, <1>2, <1>3, <1>4, <1>5, <1>6, <1>7, <1>8, <1>9, <1>10 DEF Mssql!Next

(* A step of the context keeps its anchors: whatever other sessions        *)
(* replaced, an answer is accepted only with the witness of the inspected  *)
(* object and of the profiled helper.                                      *)
LEMMA MssqlAnchorsStep ==
    ASSUME MssqlSession, MssqlAnchors, Mssql!Next
    PROVE  MssqlAnchors'
<1>1. CASE Mssql!OtherSessionChanges
  BY <1>1 DEF Mssql!OtherSessionChanges, Mssql!contextVars, MssqlAnchors
<1>2. CASE Mssql!OpenTransport
  BY <1>2 DEF Mssql!OpenTransport, MssqlAnchors
<1>3. CASE Mssql!ReadProfile
  BY <1>3 DEF Mssql!ReadProfile, Mssql!HelperSupported, Mssql!OpeningQueryFails, Mssql!FailOpen,
     MssqlAnchors
<1>4. CASE Mssql!ConfigureSnapshot
  BY <1>4 DEF Mssql!ConfigureSnapshot, MssqlAnchors
<1>5. CASE Mssql!ReadSnapshotEvidence
  BY <1>5 DEF Mssql!ReadSnapshotEvidence, Mssql!OpeningQueryFails, Mssql!FailOpen, MssqlAnchors
<1>6. ASSUME NEW r \in Relations, Mssql!InspectRelation(r) \/ Mssql!InspectColumns(r)
      PROVE  MssqlAnchors'
  BY <1>6 DEF Mssql!InspectRelation, Mssql!InspectColumns, MssqlAnchors
<1>7. CASE Mssql!InspectionFails
  BY <1>7 DEF Mssql!InspectionFails, Mssql!FailOpen, MssqlAnchors
<1>8. ASSUME NEW r \in Relations, Mssql!Read(r) \/ Mssql!ReadLosesProvenance(r)
      PROVE  MssqlAnchors'
  <2>1. CASE Mssql!ReadLosesProvenance(r)
    BY <2>1 DEF Mssql!ReadLosesProvenance, MssqlAnchors
  <2>2. CASE Mssql!Read(r)
    <3>1. /\ server.object[r] = identity[r]
          /\ Legacy => server.helper = Mssql!ExpectedHelper
      BY <2>2 DEF Mssql!Read, Mssql!WitnessValid, Mssql!OriginWitness, MssqlAnchors
    <3>2. \A a \in answers' :
             \/ a \in answers
             \/ a.relation = r /\ a.object = server.object[r] /\ a.helper = server.helper
                /\ a.rows = snapshot
      BY <2>2 DEF Mssql!Read
    <3>3. /\ phase = "active" /\ phase' = phase /\ snapshot' = snapshot
          /\ identity' = identity /\ profile' = profile
      BY <2>2 DEF Mssql!Read
    <3> QED
      BY <3>1, <3>2, <3>3 DEF MssqlAnchors
  <2> QED
    BY <1>8, <2>1, <2>2
<1>9. CASE Mssql!ReadFails
  BY <1>9 DEF Mssql!ReadFails, Mssql!contextVars, MssqlAnchors
<1>10. CASE Mssql!Close
  BY <1>10 DEF Mssql!Close, Mssql!contextVars, MssqlAnchors
<1> QED
  BY <1>1, <1>2, <1>3, <1>4, <1>5, <1>6, <1>7, <1>8, <1>9, <1>10 DEF Mssql!Next

(* The invariant of the SQL Server context holds of every behaviour.       *)
THEOREM MssqlInvariance ==
    Spec => []MssqlInv
<1>1. Init => MssqlInv
  BY MssqlInit
<1>2. MssqlInv /\ [Next]_vars => MssqlInv'
  <2> SUFFICES ASSUME MssqlInv, [Next]_vars, engine' = "mssql"
               PROVE  MssqlSession' /\ MssqlAnchors'
    BY DEF MssqlInv
  <2>1. engine' = engine
    BY DEF Next, vars, PostgresLeaves
  <2>2. CASE Mssql!Next
    BY <2>1, <2>2, MssqlSessionStep, MssqlAnchorsStep DEF MssqlInv
  <2>3. CASE vars' = vars
    BY <2>1, <2>3 DEF MssqlInv, MssqlSession, MssqlAnchors, vars, contextVars, mssqlOnly
  <2> QED
    BY <2>1, <2>2, <2>3 DEF Next
<1> QED
  BY <1>1, <1>2, PTL DEF Spec

(* Whatever other sessions write, replace or reconfigure between any two   *)
(* queries, every answer of a SQL Server context is of one snapshot, of    *)
(* the inspected object and of the expected helper, a context that ended   *)
(* holds no session, and the budget is never exceeded (mssql.py:1971,      *)
(* 2851).                                                                  *)
THEOREM MssqlContextsAreSound ==
    Spec => []MssqlContextIsSound
<1>1. MssqlInv => MssqlContextIsSound
  BY DEF MssqlInv, MssqlSession, MssqlAnchors, MssqlContextIsSound, Mssql!MssqlContextIsSound,
     Mssql!MssqlReadsAreAnchored, Mssql!MssqlSessionsAreReleased, MssqlOpening, MssqlPhases
<1> QED
  BY <1>1, MssqlInvariance, PTL

=============================================================================
