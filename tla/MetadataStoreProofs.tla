------------------------ MODULE MetadataStoreProofs -------------------------
(***************************************************************************)
(* Proofs about MetadataStore: migrations are applied once and             *)
(* registrations are durable, for any number of processes, packages,       *)
(* requests, attempts and faults.                                          *)
(*                                                                         *)
(* Migrations: only the holder of the advisory lock is past "lock", so     *)
(* what it read of the journal is still the journal when it commits, and   *)
(* the rows of its transaction are exactly the versions the journal does   *)
(* not have (MigratorOK).  Registrations: two open transactions never hold *)
(* the same key, and a key a transaction holds is not stored, so a row is  *)
(* the only one of its key when it is committed (KeysApart); every record  *)
(* a registration has read back is stored or its own (RegistrarOK).        *)
(***************************************************************************)
EXTENDS MetadataStore, FiniteSetTheorems, SequenceTheorems, TLAPS

(* The rows of a registration, and of the migration journal.               *)
Datasets == {q.reference : q \in Requests} \cup {q.target : q \in Requests}
Digests == {q.digest : q \in Requests}
Ids == (Callers \X Datasets) \cup (Callers \X {"contract", "artifact"})
Definitions == [digest : Digests, reference : Ids, target : Ids]
RegistryTables == {"dataset_versions", "contract_versions", "code_artifacts"}
RegistryRow ==
    [table : RegistryTables, key : Datasets \cup {q.revision : q \in Requests} \cup Ids,
     id : Ids, value : Datasets \cup Definitions \cup Digests]
JournalRow == [table : {"migrations"}, key : Nat, id : Migrators, value : Checksums]

Closed ==
    {"absent", "done", "connection_error", "crashed", "profile_error", "lock_timeout",
     "history_error", "apply_error", "schema_behind", "conflict", "readable", "unreadable"}
CallRecord ==
    [step : Open \cup Closed, attempt : Nat, records : Seq(Checksums \cup RegistryRow)]

StoreType ==
    /\ package \in [Migrators -> Packages] /\ request \in [Registrars -> Requests]
    /\ journal \in Seq(Checksums)
    /\ rows \subseteq RegistryRow
    /\ call \in [Callers -> CallRecord]
    /\ own \in [Callers -> SUBSET (RegistryRow \cup JournalRow)]
    /\ \A c \in Registrars : own[c] \subseteq RegistryRow
    /\ advisory \subseteq Callers

(* One migrator at a time is past the advisory lock.                       *)
LockOK ==
    /\ \A c, d \in advisory : c = d
    /\ \A c \in Migrators : call[c].step \in {"history", "apply", "commit"} => c \in advisory

JournalOK == schema = journal /\ \E p \in Packages : IsPrefix(journal, p)

(* What a migrator has applied is its package beyond the journal.          *)
MigratorOK(c) ==
    /\ call[c].step \in {"begin", "lock", "history"} => own[c] = {}
    /\ call[c].step \in {"apply", "commit"} =>
          /\ IsPrefix(journal, package[c])
          /\ Len(journal) <= Len(call[c].records)
          /\ IsPrefix(call[c].records, package[c])
          /\ \A row \in own[c] : row.table = "migrations" /\ row.key <= Len(call[c].records)
          /\ IsFiniteSet(own[c])
          /\ Cardinality(own[c]) = Len(call[c].records) - Len(journal)
    /\ call[c].step = "commit" => call[c].records = package[c]
    /\ call[c].step = "done" => IsPrefix(package[c], journal)
    /\ call[c].step # "apply_error"

SameKey(r, s) == r.table = s.table /\ r.key = s.key

(* No key has two rows, stored or about to be.                             *)
KeysApart ==
    /\ \A r, s \in rows : SameKey(r, s) => r = s
    /\ \A c \in Registrars : \A r \in rows \cup own[c], s \in own[c] : SameKey(r, s) => r = s
    /\ \A c, d \in Registrars :
          c # d => \A r \in own[c], s \in own[d] : ~SameKey(r, s)

(* The dataset versions of the contracts of T are in S.                    *)
ContractsBound(T, S) ==
    \A r \in T : r.table = "contract_versions" =>
        \A id \in {r.value.reference, r.value.target} :
            \E d \in S : d.table = "dataset_versions" /\ d.id = id
BindingsOK ==
    /\ ContractsBound(rows, rows)
    /\ \A c \in Registrars : ContractsBound(own[c], rows \cup own[c])

(* What a registration has read back so far is what it asked for.          *)
Requested(records, q) ==
    /\ \A k \in 1..Len(records) : k \in {1, 2} => records[k].table = "dataset_versions"
    /\ Len(records) >= 3 => records[3].value.digest = q.digest
    /\ Len(records) >= 4 => records[4].value = q.digest
RegistrarOK(c) ==
    /\ call[c].step \in {"begin", "schema"} => own[c] = {} /\ call[c].records = <<>>
    /\ call[c].step \in {"register", "commit", "done"} =>
          /\ IsPrefix(Runtime, journal)
          /\ Len(call[c].records) <= 4
          /\ Requested(call[c].records, request[c])
          /\ \A k \in 1..Len(call[c].records) :
                call[c].records[k] \in rows \cup (IF call[c].step = "done" THEN {} ELSE own[c])
    /\ call[c].step \in {"commit", "done"} => Len(call[c].records) = 4
    /\ call[c].step # "unreadable"

StoreInv ==
    /\ StoreType
    /\ LockOK
    /\ JournalOK
    /\ \A c \in Migrators : MigratorOK(c)
    /\ KeysApart
    /\ BindingsOK
    /\ \A c \in Registrars : RegistrarOK(c)

-----------------------------------------------------------------------------
(* Prefixes, element by element.                                           *)
LEMMA PrefixElements ==
    ASSUME NEW S, NEW s \in Seq(S), NEW t \in Seq(S)
    PROVE  IsPrefix(s, t) <=> Len(s) <= Len(t) /\ \A i \in 1..Len(s) : s[i] = t[i]
<1>1. Len(s) \in Nat /\ Len(t) \in Nat /\ \A i \in 1..Len(s) : s[i] \in S
  BY LenProperties, ElementOfSeq
<1>2. SubSeq(s, 1, Len(s)) = s
  BY SubSeqFull
<1>3. ASSUME Len(s) <= Len(t)
      PROVE  /\ SubSeq(t, 1, Len(s)) \in Seq(S) /\ Len(SubSeq(t, 1, Len(s))) = Len(s)
             /\ \A i \in 1..Len(s) : SubSeq(t, 1, Len(s))[i] = t[i]
  <2>1. \A i \in 1..Len(s) : t[i] \in S
    BY <1>1, <1>3, ElementOfSeq
  <2>2. /\ SubSeq(t, 1, Len(s)) \in Seq(S)
        /\ Len(SubSeq(t, 1, Len(s))) = IF 1 <= Len(s) THEN Len(s) - 1 + 1 ELSE 0
        /\ \A i \in 1..(Len(s) - 1 + 1) : SubSeq(t, 1, Len(s))[i] = t[1 + i - 1]
    BY <1>1, <2>1, SubSeqProperties
  <2> QED
    BY <1>1, <2>2
<1>4. ASSUME Len(s) <= Len(t), \A i \in 1..Len(s) : s[i] = t[i]
      PROVE  s = SubSeq(t, 1, Len(s))
  BY <1>3, <1>4, SeqEqual
<1> QED
  BY <1>2, <1>3, <1>4 DEF IsPrefix

(* Prefix is reflexive and transitive, and a prefix of full length is the  *)
(* sequence.                                                               *)
LEMMA PrefixOrder ==
    ASSUME NEW S, NEW s \in Seq(S), NEW t \in Seq(S), NEW u \in Seq(S)
    PROVE  /\ IsPrefix(s, s)
           /\ IsPrefix(s, t) /\ IsPrefix(t, u) => IsPrefix(s, u)
           /\ IsPrefix(s, t) /\ Len(s) = Len(t) => s = t
<1>1. Len(s) \in Nat /\ Len(t) \in Nat /\ Len(u) \in Nat
  BY LenProperties
<1>2. IsPrefix(s, s)
  BY <1>1, PrefixElements
<1>3. ASSUME IsPrefix(s, t), IsPrefix(t, u) PROVE IsPrefix(s, u)
  <2>1. /\ Len(s) <= Len(t) /\ \A i \in 1..Len(s) : s[i] = t[i]
        /\ Len(t) <= Len(u) /\ \A i \in 1..Len(t) : t[i] = u[i]
    BY <1>3, PrefixElements
  <2>2. Len(s) <= Len(u) /\ \A i \in 1..Len(s) : s[i] = u[i]
    BY <1>1, <2>1
  <2> QED
    BY <2>2, PrefixElements
<1>4. ASSUME IsPrefix(s, t), Len(s) = Len(t) PROVE s = t
  <2>1. \A i \in 1..Len(s) : s[i] = t[i]
    BY <1>4, PrefixElements
  <2> QED
    BY <1>4, <2>1, SeqEqual, Zenon
<1> QED
  BY <1>2, <1>3, <1>4

(* The rest of a sequence after a prefix completes the prefix.             *)
LEMMA PrefixCompleted ==
    ASSUME NEW S, NEW s \in Seq(S), NEW t \in Seq(S), IsPrefix(s, t)
    PROVE  s \o SubSeq(t, Len(s) + 1, Len(t)) = t
<1>1. /\ Len(s) \in Nat /\ Len(t) \in Nat /\ Len(s) <= Len(t)
      /\ \A i \in 1..Len(s) : s[i] = t[i]
  BY LenProperties, PrefixElements
<1>2. SubSeq(t, 1, Len(s)) = s /\ SubSeq(t, 1, Len(t)) = t
  BY SubSeqFull DEF IsPrefix
<1>3. SubSeq(t, 1, Len(s)) \o SubSeq(t, Len(s) + 1, Len(t)) = SubSeq(t, 1, Len(t))
  <2>1. 1 \in 1..(Len(t) + 1) /\ Len(s) \in (1 - 1)..Len(t) /\ Len(t) \in Len(s)..Len(t)
    BY <1>1
  <2> QED
    BY <2>1, ConcatAdjacentSubSeq
<1> QED
  BY <1>2, <1>3, Zenon

(* The constants.                                                          *)
LEMMA StoreConstants ==
    /\ Packages \subseteq Seq(Checksums) /\ Runtime \in Seq(Checksums) /\ Runtime \in Packages
    /\ \A c \in Registrars : c \notin Migrators
    /\ Migrators \subseteq Callers /\ Registrars \subseteq Callers
BY MetadataStoreAssumption DEF Callers

(* At the start nothing is stored and nobody is past the first step.       *)
LEMMA StoreInit ==
    Init => StoreInv
<1> SUFFICES ASSUME Init PROVE StoreInv
  OBVIOUS
<1>1. /\ <<>> \in Seq(Checksums) /\ <<>> \in Seq(Checksums \cup RegistryRow)
  BY EmptySeq
<1>2. \A c \in Callers : /\ call[c].step \in {"begin", "absent"} /\ call[c].records = <<>>
                         /\ call[c] \in CallRecord
  BY <1>1 DEF Init, CallRecord, Open, Closed
<1>3. StoreType
  BY <1>1, <1>2, StoreConstants DEF Init, StoreType
<1>4. LockOK
  BY <1>2, StoreConstants DEF Init, LockOK
<1>5. IsPrefix(<<>>, Runtime)
  <2>1. Len(<<>>) = 0 /\ Len(Runtime) \in Nat
    BY StoreConstants, EmptySeq, LenProperties
  <2>2. Len(<<>>) <= Len(Runtime) /\ \A i \in 1..Len(<<>>) : <<>>[i] = Runtime[i]
    BY <2>1
  <2> QED
    BY <1>1, <2>2, StoreConstants, PrefixElements
<1>6. JournalOK
  BY <1>5, StoreConstants DEF Init, JournalOK
<1>7. \A c \in Migrators : MigratorOK(c)
  BY <1>2, StoreConstants DEF Init, MigratorOK
<1>8. \A c \in Registrars : RegistrarOK(c)
  BY <1>2, StoreConstants DEF Init, RegistrarOK
<1>9. KeysApart /\ BindingsOK
  BY StoreConstants DEF Init, KeysApart, BindingsOK, ContractsBound
<1> QED
  BY <1>3, <1>4, <1>6, <1>7, <1>8, <1>9 DEF StoreInv

(* A step of one caller that stores nothing leaves the others as they are. *)
LEMMA OthersKept ==
    ASSUME StoreInv, NEW c \in Callers, UNCHANGED <<package, request, journal, rows>>,
           NEW new \in CallRecord, call' = [call EXCEPT ![c] = new],
           NEW mine, own' = [own EXCEPT ![c] = mine]
    PROVE  /\ call' \in [Callers -> CallRecord]
           /\ call'[c] = new /\ own'[c] = mine
           /\ \A d \in Callers \ {c} : call'[d] = call[d] /\ own'[d] = own[d]
           /\ \A d \in Migrators \ {c} : MigratorOK(d)'
           /\ \A d \in Registrars \ {c} : RegistrarOK(d)'
<1>1. /\ call' \in [Callers -> CallRecord] /\ call'[c] = new /\ own'[c] = mine
      /\ \A d \in Callers \ {c} : call'[d] = call[d] /\ own'[d] = own[d]
  BY DEF StoreInv, StoreType
<1>2. ASSUME NEW d \in Migrators \ {c} PROVE MigratorOK(d)'
  <2>1. call'[d] = call[d] /\ own'[d] = own[d] /\ MigratorOK(d)
    BY <1>1, StoreConstants DEF StoreInv
  <2> QED
    BY <2>1 DEF MigratorOK
<1>3. ASSUME NEW d \in Registrars \ {c} PROVE RegistrarOK(d)'
  <2>1. call'[d] = call[d] /\ own'[d] = own[d] /\ RegistrarOK(d)
    BY <1>1, StoreConstants DEF StoreInv
  <2> QED
    BY <2>1 DEF RegistrarOK, Requested
<1> QED
  BY <1>1, <1>2, <1>3

(* A transaction that ends without effect: the call fails, crashes or      *)
(* starts again.                                                           *)
LEMMA EndStep ==
    ASSUME StoreInv, NEW c \in Callers, UNCHANGED <<package, request, journal, schema, rows>>,
           NEW new \in CallRecord, call' = [call EXCEPT ![c] = new],
           \/ new.step \in Closed \ {"done", "apply_error", "unreadable"}
           \/ new.step = "begin" /\ new.records = <<>>,
           own' = [own EXCEPT ![c] = {}], advisory' = advisory \ {c}
    PROVE  StoreInv'
<1>1. /\ call' \in [Callers -> CallRecord]
      /\ call'[c] = new /\ own'[c] = {}
      /\ \A d \in Callers \ {c} : call'[d] = call[d] /\ own'[d] = own[d]
      /\ \A d \in Migrators \ {c} : MigratorOK(d)'
      /\ \A d \in Registrars \ {c} : RegistrarOK(d)'
  BY OthersKept
<1>2. StoreType'
  BY <1>1 DEF StoreInv, StoreType
<1>3. LockOK'
  BY <1>1, StoreConstants DEF StoreInv, LockOK, Closed
<1>4. JournalOK'
  BY DEF StoreInv, JournalOK
<1>5. MigratorOK(c)' /\ RegistrarOK(c)'
  BY <1>1 DEF MigratorOK, RegistrarOK, Closed
<1>6. \A d \in Registrars : own'[d] \subseteq own[d]
  BY <1>1, StoreConstants
<1>7. KeysApart'
  BY <1>6 DEF StoreInv, KeysApart
<1>8. ASSUME NEW d \in Registrars PROVE ContractsBound(own'[d], rows \cup own'[d])
  BY <1>1, StoreConstants DEF StoreInv, BindingsOK, ContractsBound
<1>9. BindingsOK'
  BY <1>8 DEF StoreInv, BindingsOK, ContractsBound
<1> QED
  BY <1>1, <1>2, <1>3, <1>4, <1>5, <1>7, <1>9 DEF StoreInv

(* A step of one caller that stores nothing and keeps its transaction.     *)
LEMMA MoveStep ==
    ASSUME StoreInv, NEW c \in Callers,
           UNCHANGED <<package, request, journal, schema, rows, own>>,
           NEW new \in CallRecord, call' = [call EXCEPT ![c] = new],
           advisory' \subseteq Callers, LockOK',
           c \in Migrators => MigratorOK(c)', c \in Registrars => RegistrarOK(c)'
    PROVE  StoreInv'
<1>1. own' = [own EXCEPT ![c] = own[c]]
  BY DEF StoreInv, StoreType
<1>2. /\ call' \in [Callers -> CallRecord]
      /\ \A d \in Migrators \ {c} : MigratorOK(d)'
      /\ \A d \in Registrars \ {c} : RegistrarOK(d)'
  BY <1>1, OthersKept
<1>3. StoreType'
  BY <1>2 DEF StoreInv, StoreType
<1>4. JournalOK' /\ KeysApart' /\ BindingsOK'
  BY DEF StoreInv, JournalOK, KeysApart, BindingsOK, ContractsBound
<1> QED
  BY <1>2, <1>3, <1>4 DEF StoreInv

(* What Goto does to a caller.                                             *)
LEMMA GotoStep ==
    ASSUME StoreInv, NEW c \in Callers, NEW step \in Open \cup Closed, Goto(c, step)
    PROVE  \E new \in CallRecord :
              /\ call' = [call EXCEPT ![c] = new] /\ call'[c] = new
              /\ new.step = step /\ new.records = call[c].records
<1>1. call \in [Callers -> CallRecord] /\ call[c] \in CallRecord
  BY DEF StoreInv, StoreType
<1>2. PICK new : new = [call[c] EXCEPT !.step = step]
  OBVIOUS
<1>3. new \in CallRecord /\ new.step = step /\ new.records = call[c].records
  BY <1>1, <1>2 DEF CallRecord
<1>4. call' = [call EXCEPT ![c] = new] /\ call'[c] = new
  BY <1>1, <1>2 DEF Goto
<1> QED
  BY <1>3, <1>4

(* A call that fails, crashes or starts again.                             *)
LEMMA CallEnds ==
    ASSUME StoreInv, NEW c \in Callers, Rollback(c),
           \/ \E step \in Closed \ {"done", "apply_error", "unreadable"} : Goto(c, step)
           \/ RetryOrGiveUp(c)
    PROVE  StoreInv'
<1>1. call \in [Callers -> CallRecord] /\ call[c] \in CallRecord
  BY DEF StoreInv, StoreType
<1>2. CASE \E step \in Closed \ {"done", "apply_error", "unreadable"} : Goto(c, step)
  <2>1. PICK step \in Closed \ {"done", "apply_error", "unreadable"} : Goto(c, step)
    BY <1>2
  <2>2. PICK new \in CallRecord : call' = [call EXCEPT ![c] = new] /\ new.step = step
    BY <2>1, GotoStep
  <2> QED
    BY <2>2, EndStep DEF Rollback
<1>3. CASE RetryOrGiveUp(c)
  <2>1. PICK new : /\ call' = [call EXCEPT ![c] = new]
                   /\ new = IF call[c].attempt = MaxAttempts
                            THEN [call[c] EXCEPT !.step = "connection_error"]
                            ELSE [step |-> "begin", attempt |-> call[c].attempt + 1,
                                  records |-> <<>>]
    BY <1>3 DEF RetryOrGiveUp
  <2>2. <<>> \in Seq(Checksums \cup RegistryRow)
    BY EmptySeq
  <2>3. call[c].attempt \in Nat /\ call[c].attempt + 1 \in Nat
    BY <1>1 DEF CallRecord
  <2>4. /\ new \in CallRecord
        /\ new.step = "connection_error" \/ (new.step = "begin" /\ new.records = <<>>)
    <3>1. CASE call[c].attempt = MaxAttempts
      BY <1>1, <2>1, <3>1 DEF CallRecord, Closed
    <3>2. CASE call[c].attempt # MaxAttempts
      BY <2>1, <2>2, <2>3, <3>2 DEF CallRecord, Open
    <3> QED
      BY <3>1, <3>2
  <2> QED
    BY <2>1, <2>4, EndStep DEF Rollback, Closed
<1> QED
  BY <1>2, <1>3

(* The steps both kinds of callers take before COMMIT.                     *)
LEMMA BeginStep ==
    ASSUME StoreInv, NEW c \in Callers, BeginTransaction(c) \/ ConnectionLost(c) \/ Crash(c)
    PROVE  StoreInv'
<1>1. CASE ConnectionLost(c)
  BY <1>1, CallEnds DEF ConnectionLost
<1>2. CASE Crash(c)
  BY <1>2, CallEnds DEF Crash, Closed
<1>3. CASE BeginTransaction(c)
  <2>1. CASE Ends(c, "profile_error")
    BY <2>1, CallEnds DEF Ends, Closed
  <2>2. CASE ~Ends(c, "profile_error")
    <3>1. PICK step \in {"lock", "schema"} :
             /\ Goto(c, step) /\ step = IF c \in Migrators THEN "lock" ELSE "schema"
      BY <1>3, <2>2 DEF BeginTransaction
    <3>2. PICK new \in CallRecord :
             /\ call' = [call EXCEPT ![c] = new] /\ call'[c] = new
             /\ new.step = step /\ new.records = call[c].records
      BY <3>1, GotoStep DEF Open
    <3>3. /\ call[c].step = "begin"
          /\ UNCHANGED <<package, request, journal, schema, rows, own, advisory>>
      BY <1>3, <2>2 DEF BeginTransaction, At
    <3>4. c \in Migrators => MigratorOK(c)'
      BY <3>1, <3>2, <3>3 DEF StoreInv, MigratorOK
    <3>5. c \in Registrars => RegistrarOK(c)'
      BY <3>1, <3>2, <3>3, StoreConstants DEF StoreInv, RegistrarOK
    <3>6. LockOK'
      BY <3>2, <3>3, StoreConstants DEF StoreInv, StoreType, LockOK
    <3>7. advisory' \subseteq Callers
      BY <3>3 DEF StoreInv, StoreType
    <3> QED
      BY <3>2, <3>3, <3>4, <3>5, <3>6, <3>7, MoveStep
  <2> QED
    BY <2>1, <2>2
<1> QED
  BY <1>1, <1>2, <1>3

(* A migrator: lock, history, the migrations it lacks.                     *)
LEMMA MigratorSteps ==
    ASSUME StoreInv, NEW c \in Migrators, MigratorStep(c)
    PROVE  StoreInv'
<1>0. c \in Callers /\ c \notin Registrars /\ MigratorOK(c)
  BY StoreConstants DEF StoreInv
<1>t. /\ call \in [Callers -> CallRecord] /\ call[c] \in CallRecord
      /\ journal \in Seq(Checksums) /\ package[c] \in Seq(Checksums)
      /\ Len(journal) \in Nat /\ Len(package[c]) \in Nat
      /\ own \in [Callers -> SUBSET (RegistryRow \cup JournalRow)]
  BY <1>0, StoreConstants, LenProperties DEF StoreInv, StoreType
<1>1. CASE TakeMigrationLock(c)
  <2>1. PICK new \in CallRecord :
           /\ call' = [call EXCEPT ![c] = new] /\ call'[c] = new
           /\ new.step = "history" /\ new.records = call[c].records
    BY <1>0, <1>1, GotoStep DEF TakeMigrationLock, Open
  <2>2. /\ call[c].step = "lock" /\ advisory = {} /\ advisory' = {c}
        /\ UNCHANGED <<package, request, journal, schema, rows, own>>
    BY <1>1 DEF TakeMigrationLock, At
  <2>3. LockOK'
    BY <1>0, <1>t, <2>1, <2>2, StoreConstants DEF StoreInv, LockOK
  <2>4. MigratorOK(c)'
    BY <1>0, <2>1, <2>2 DEF MigratorOK
  <2> QED
    BY <1>0, <2>1, <2>2, <2>3, <2>4, MoveStep
<1>2. CASE LockWaitTimesOut(c)
  BY <1>0, <1>2, CallEnds DEF LockWaitTimesOut, Ends, Closed
<1>3. CASE CheckHistory(c)
  <2>1. CASE Ends(c, "history_error")
    BY <1>0, <2>1, CallEnds DEF Ends, Closed
  <2>2. CASE ~Ends(c, "history_error")
    <3>1. /\ IsPrefix(journal, package[c]) /\ call[c].step = "history"
          /\ call' = [call EXCEPT ![c].step = "apply", ![c].records = journal]
          /\ UNCHANGED <<package, request, journal, schema, rows, own, advisory>>
      BY <1>3, <2>2 DEF CheckHistory, At, HistoryIsPrefix
    <3>2. PICK new : new = [call[c] EXCEPT !.step = "apply", !.records = journal]
      OBVIOUS
    <3>3. journal \in Seq(Checksums \cup RegistryRow)
      BY <1>t, SeqMonotonic
    <3>4. new \in CallRecord /\ new.step = "apply" /\ new.records = journal
      BY <1>t, <3>2, <3>3 DEF CallRecord, Open
    <3>5. call' = [call EXCEPT ![c] = new] /\ call'[c] = new
      BY <1>0, <1>t, <3>1, <3>2
    <3>6. own[c] = {} /\ IsFiniteSet(own[c]) /\ Cardinality(own[c]) = 0
      BY <1>0, <3>1, FS_EmptySet DEF MigratorOK
    <3>7. MigratorOK(c)'
      BY <1>t, <3>1, <3>4, <3>5, <3>6 DEF MigratorOK
    <3>8. LockOK' /\ advisory' \subseteq Callers
      BY <1>t, <3>1, <3>4, <3>5, StoreConstants DEF StoreInv, StoreType, LockOK
    <3> QED
      BY <1>0, <3>1, <3>4, <3>5, <3>7, <3>8, MoveStep
  <2> QED
    BY <2>1, <2>2
<1>4. CASE AllApplied(c)
  <2>1. PICK new \in CallRecord :
           /\ call' = [call EXCEPT ![c] = new] /\ call'[c] = new
           /\ new.step = "commit" /\ new.records = call[c].records
    BY <1>0, <1>4, GotoStep DEF AllApplied, Open
  <2>2. /\ call[c].step = "apply" /\ Len(call[c].records) = Len(package[c])
        /\ UNCHANGED <<package, request, journal, schema, rows, own, advisory>>
    BY <1>4 DEF AllApplied, At
  <2>3. call[c].records = package[c]
    <3>1. call[c].records \in Seq(Checksums \cup RegistryRow)
      BY <1>t DEF CallRecord
    <3>2. package[c] \in Seq(Checksums \cup RegistryRow)
      BY <1>t, SeqMonotonic
    <3> QED
      BY <1>0, <2>2, <3>1, <3>2, PrefixOrder DEF MigratorOK
  <2>4. MigratorOK(c)'
    BY <1>0, <2>1, <2>2, <2>3 DEF MigratorOK
  <2>5. LockOK' /\ advisory' \subseteq Callers
    BY <1>t, <2>1, <2>2, StoreConstants DEF StoreInv, StoreType, LockOK
  <2> QED
    BY <1>0, <2>1, <2>2, <2>4, <2>5, MoveStep
<1>5. CASE ApplyMigration(c)
  <2>1. PICK version : version = Len(call[c].records) + 1
    OBVIOUS
  <2>2. PICK row : row = [table |-> "migrations", key |-> version, id |-> c,
                          value |-> package[c][version]]
    OBVIOUS
  <2>3. /\ call[c].step = "apply" /\ version <= Len(package[c])
        /\ IF version <= Len(journal) THEN Ends(c, "apply_error")
           ELSE /\ own' = [own EXCEPT ![c] = @ \cup {row}]
                /\ call' = [call EXCEPT ![c].records = Append(@, row.value)]
                /\ UNCHANGED <<package, request, journal, schema, rows, advisory, faults>>
    BY <1>5, <2>1, <2>2 DEF ApplyMigration, At
  <2>4. /\ call[c].records \in Seq(Checksums \cup RegistryRow)
        /\ Len(call[c].records) \in Nat /\ Len(journal) <= Len(call[c].records)
    BY <1>0, <1>t, <2>3, LenProperties DEF MigratorOK, CallRecord
  <2>5. version \in Nat /\ ~(version <= Len(journal)) /\ version \in 1..Len(package[c])
    BY <1>t, <2>1, <2>3, <2>4
  <2>6. row.value = package[c][version] /\ package[c][version] \in Checksums
    BY <1>t, <2>2, <2>5, ElementOfSeq
  <2>7. PICK mine : mine = own[c] \cup {row}
    OBVIOUS
  <2>8. PICK new : new = [call[c] EXCEPT !.records = Append(@, row.value)]
    OBVIOUS
  <2>9. /\ Append(call[c].records, row.value) \in Seq(Checksums \cup RegistryRow)
        /\ Len(Append(call[c].records, row.value)) = version
        /\ \A i \in 1..version : Append(call[c].records, row.value)[i] =
              IF i = version THEN row.value ELSE call[c].records[i]
    BY <2>1, <2>4, <2>6, AppendProperties
  <2>10. /\ new \in CallRecord /\ new.step = "apply"
         /\ new.records = Append(call[c].records, row.value)
    BY <1>t, <2>3, <2>8, <2>9 DEF CallRecord
  <2>11. call' = [call EXCEPT ![c] = new] /\ own' = [own EXCEPT ![c] = mine]
    BY <1>0, <1>t, <2>3, <2>5, <2>7, <2>8
  <2>12. /\ call' \in [Callers -> CallRecord]
         /\ call'[c] = new /\ own'[c] = mine
         /\ \A d \in Callers \ {c} : call'[d] = call[d] /\ own'[d] = own[d]
         /\ \A d \in Migrators \ {c} : MigratorOK(d)'
         /\ \A d \in Registrars \ {c} : RegistrarOK(d)'
    BY <1>0, <2>3, <2>5, <2>10, <2>11, OthersKept
  <2>13. row \in JournalRow
    BY <2>2, <2>5, <2>6 DEF JournalRow
  <2>14. StoreType'
    BY <1>0, <2>3, <2>5, <2>7, <2>11, <2>12, <2>13 DEF StoreInv, StoreType
  <2>15. \A d \in Registrars : own'[d] = own[d]
    BY <1>0, <2>12, StoreConstants
  <2>16. LockOK' /\ JournalOK'
    BY <2>3, <2>5, <2>10, <2>12, StoreConstants DEF StoreInv, LockOK, JournalOK
  <2>17. KeysApart' /\ BindingsOK'
    BY <2>3, <2>5, <2>15 DEF StoreInv, KeysApart, BindingsOK, ContractsBound
  <2>18. IsPrefix(new.records, package[c])
    <3>1. package[c] \in Seq(Checksums \cup RegistryRow)
      BY <1>t, SeqMonotonic
    <3>2. \A i \in 1..Len(call[c].records) : call[c].records[i] = package[c][i]
      BY <1>0, <2>3, <2>4, <3>1, PrefixElements DEF MigratorOK
    <3>3. \A i \in 1..version : new.records[i] = package[c][i]
      BY <2>1, <2>4, <2>5, <2>6, <2>9, <2>10, <3>2
    <3>4. new.records \in Seq(Checksums \cup RegistryRow) /\ Len(new.records) = version
      BY <2>9, <2>10
    <3>5. Len(new.records) <= Len(package[c])
      BY <2>3, <3>4
    <3> QED
      BY <3>1, <3>3, <3>4, <3>5, PrefixElements, Zenon
  <2>19. /\ IsFiniteSet(own[c]) /\ Cardinality(own[c]) = Len(call[c].records) - Len(journal)
         /\ \A r \in own[c] : r.table = "migrations" /\ r.key <= Len(call[c].records)
    BY <1>0, <2>3 DEF MigratorOK
  <2>20. row \notin own[c] /\ row.key = version /\ row.table = "migrations"
    BY <2>1, <2>2, <2>4, <2>5, <2>19
  <2>21. IsFiniteSet(mine) /\ Cardinality(mine) = version - Len(journal)
    <3>1. IsFiniteSet(mine) /\ Cardinality(mine) = Cardinality(own[c]) + 1
      BY <2>7, <2>19, <2>20, FS_AddElement
    <3> QED
      BY <1>t, <2>1, <2>4, <2>19, <3>1
  <2>22. \A r \in mine : r.table = "migrations" /\ r.key <= version
    <3>1. \A r \in own[c] : r.key \in Nat
      BY <1>0, <1>t, <2>19 DEF JournalRow, RegistryRow, RegistryTables
    <3> QED
      BY <2>1, <2>4, <2>5, <2>7, <2>19, <2>20, <3>1
  <2>23. MigratorOK(c)'
    <3>1. Len(journal) <= version /\ IsPrefix(journal, package[c])
      BY <1>0, <1>t, <2>3, <2>5 DEF MigratorOK
    <3> QED
      BY <2>3, <2>5, <2>9, <2>10, <2>12, <2>18, <2>21, <2>22, <3>1 DEF MigratorOK
  <2> QED
    BY <1>0, <2>12, <2>14, <2>16, <2>17, <2>23 DEF StoreInv
<1> QED
  BY <1>1, <1>2, <1>3, <1>4, <1>5 DEF MigratorStep

(* The row a registration inserts next: of its table, and bound to the     *)
(* dataset versions it has read back.                                      *)
LEMMA NextRowOK ==
    ASSUME StoreInv, NEW c \in Registrars, call[c].step = "register",
           Len(call[c].records) < 4
    PROVE  /\ NextRow(c) \in RegistryRow
           /\ Len(call[c].records) < 2 <=> NextRow(c).table = "dataset_versions"
           /\ Len(call[c].records) = 2 =>
                 /\ NextRow(c).value.digest = request[c].digest
                 /\ NextRow(c).value.reference = call[c].records[1].id
                 /\ NextRow(c).value.target = call[c].records[2].id
           /\ Len(call[c].records) = 2 <=> NextRow(c).table = "contract_versions"
           /\ Len(call[c].records) = 3 => NextRow(c).value = request[c].digest
<1>1. c \in Callers /\ request[c] \in Requests /\ RegistrarOK(c)
  BY StoreConstants DEF StoreInv, StoreType
<1>2. /\ call[c].records \in Seq(Checksums \cup RegistryRow) /\ Len(call[c].records) \in Nat
  BY <1>1, LenProperties DEF StoreInv, StoreType, CallRecord
<1>3. \A k \in 1..Len(call[c].records) : call[c].records[k] \in RegistryRow
  BY <1>1 DEF RegistrarOK, StoreInv, StoreType
<1>4. CASE Len(call[c].records) = 0
  <2>1. NextRow(c) = DatasetRow(c, request[c].reference)
    BY <1>4 DEF NextRow
  <2> QED
    BY <1>1, <1>4, <2>1 DEF DatasetRow, RegistryRow, RegistryTables, Ids, Datasets
<1>5. CASE Len(call[c].records) = 1
  <2>1. NextRow(c) = DatasetRow(c, request[c].target)
    BY <1>5 DEF NextRow
  <2> QED
    BY <1>1, <1>5, <2>1 DEF DatasetRow, RegistryRow, RegistryTables, Ids, Datasets
<1>6. CASE Len(call[c].records) = 2
  <2>1. NextRow(c) = ContractRow(c)
    BY <1>6 DEF NextRow
  <2>2. call[c].records[1].id \in Ids /\ call[c].records[2].id \in Ids
    BY <1>3, <1>6 DEF RegistryRow
  <2>3. PICK value : value = [digest |-> request[c].digest, reference |-> call[c].records[1].id,
                              target |-> call[c].records[2].id]
    OBVIOUS
  <2>4. value \in Definitions
    BY <1>1, <2>2, <2>3 DEF Definitions, Digests
  <2>5. ContractRow(c) = [table |-> "contract_versions", key |-> request[c].revision,
                          id |-> <<c, "contract">>, value |-> value]
    BY <2>3 DEF ContractRow
  <2>6. <<c, "contract">> \in Ids /\ request[c].revision \in {q.revision : q \in Requests}
    BY <1>1 DEF Ids
  <2>7. NextRow(c) \in RegistryRow
    BY <2>1, <2>4, <2>5, <2>6 DEF RegistryRow, RegistryTables
  <2> QED
    BY <1>6, <2>1, <2>3, <2>5, <2>7
<1>7. CASE Len(call[c].records) = 3
  <2>1. NextRow(c) = ArtifactRow(c)
    BY <1>7 DEF NextRow
  <2>2. <<c, "artifact">> \in Ids /\ request[c].digest \in Digests
    BY <1>1 DEF Ids, Digests
  <2> QED
    BY <1>7, <2>1, <2>2 DEF ArtifactRow, RegistryRow, RegistryTables
<1>8. Len(call[c].records) \in {0, 1, 2, 3}
  <2>1. PICK n \in Nat : n = Len(call[c].records)
    BY <1>2
  <2>2. n < 4 => n \in {0, 1, 2, 3}
    OBVIOUS
  <2> QED
    BY <2>1, <2>2
<1> QED
  BY <1>4, <1>5, <1>6, <1>7, <1>8

(* INSERT ... ON CONFLICT DO NOTHING and the SELECT after it: the row of   *)
(* the key is stored or new, and it is what was asked for.                 *)
LEMMA RegisterStep ==
    ASSUME StoreInv, NEW c \in Registrars, RegisterRow(c, NextRow(c))
    PROVE  StoreInv'
<1>1. c \in Callers /\ c \notin Migrators /\ RegistrarOK(c)
  BY StoreConstants DEF StoreInv
<1>2. PICK row : row = NextRow(c)
  OBVIOUS
<1>3. PICK mine : mine = IF StoredUnder(c, row) = {} THEN {row} ELSE {}
  OBVIOUS
<1>4. PICK stored : stored = CHOOSE s \in StoredUnder(c, row) \cup mine : TRUE
  OBVIOUS
<1>5. /\ call[c].step = "register" /\ Len(call[c].records) < 4
      /\ ~ \E d \in Callers : Blocks(d, c, row)
      /\ \/ /\ Matches(stored, row)
            /\ own' = [own EXCEPT ![c] = @ \cup mine]
            /\ call' = [call EXCEPT ![c].records = Append(@, stored)]
            /\ UNCHANGED <<package, request, journal, schema, rows, advisory, faults>>
         \/ Ends(c, "conflict")
  BY <1>2, <1>3, <1>4 DEF RegisterRow, At
<1>6. CASE Ends(c, "conflict")
  BY <1>1, <1>6, CallEnds DEF Ends, Closed
<1>7. CASE /\ Matches(stored, row)
           /\ own' = [own EXCEPT ![c] = @ \cup mine]
           /\ call' = [call EXCEPT ![c].records = Append(@, stored)]
           /\ UNCHANGED <<package, request, journal, schema, rows, advisory, faults>>
  <2>1. /\ row \in RegistryRow
        /\ Len(call[c].records) < 2 <=> row.table = "dataset_versions"
        /\ Len(call[c].records) = 2 =>
              /\ row.value.digest = request[c].digest
              /\ row.value.reference = call[c].records[1].id
              /\ row.value.target = call[c].records[2].id
        /\ Len(call[c].records) = 2 <=> row.table = "contract_versions"
        /\ Len(call[c].records) = 3 => row.value = request[c].digest
    BY <1>2, <1>5, NextRowOK
  <2>2. /\ call \in [Callers -> CallRecord] /\ call[c] \in CallRecord
        /\ call[c].records \in Seq(Checksums \cup RegistryRow) /\ Len(call[c].records) \in Nat
        /\ own[c] \subseteq RegistryRow /\ rows \subseteq RegistryRow
        /\ own \in [Callers -> SUBSET (RegistryRow \cup JournalRow)]
    BY <1>1, LenProperties DEF StoreInv, StoreType, CallRecord
  <2>3. stored \in StoredUnder(c, row) \cup mine
    BY <1>3, <1>4
  <2>4. /\ stored \in rows \cup own[c] \cup mine /\ stored \in RegistryRow
        /\ stored.table = row.table /\ stored.value = row.value
    <3>1. stored \in rows \cup own[c] \cup mine /\ stored.table = row.table
      BY <1>3, <2>3 DEF StoredUnder
    <3>2. stored.value = row.value
      BY <1>7 DEF Matches, DatasetMatches, ContractMatches, ArtifactMatches
    <3> QED
      BY <1>3, <2>1, <2>2, <3>1, <3>2
  <2>5. PICK new : new = [call[c] EXCEPT !.records = Append(@, stored)]
    OBVIOUS
  <2>6. PICK n \in Nat : n = Len(call[c].records) + 1 /\ Len(call[c].records) = n - 1
    <3>1. Len(call[c].records) \in Nat
      BY <2>2
    <3> QED
      BY <3>1
  <2>7. /\ Append(call[c].records, stored) \in Seq(Checksums \cup RegistryRow)
        /\ Len(Append(call[c].records, stored)) = n
        /\ \A k \in 1..n : Append(call[c].records, stored)[k] =
              IF k = n THEN stored ELSE call[c].records[k]
    BY <2>2, <2>4, <2>6, AppendProperties
  <2>8. /\ new \in CallRecord /\ new.step = "register"
        /\ new.records = Append(call[c].records, stored)
    BY <1>5, <2>2, <2>5, <2>7 DEF CallRecord
  <2>9. PICK all : all = own[c] \cup mine
    OBVIOUS
  <2>10. call' = [call EXCEPT ![c] = new] /\ own' = [own EXCEPT ![c] = all]
    BY <1>1, <1>7, <2>2, <2>5, <2>9
  <2>11. /\ call' \in [Callers -> CallRecord]
         /\ call'[c] = new /\ own'[c] = all
         /\ \A d \in Callers \ {c} : call'[d] = call[d] /\ own'[d] = own[d]
         /\ \A d \in Migrators \ {c} : MigratorOK(d)'
         /\ \A d \in Registrars \ {c} : RegistrarOK(d)'
    BY <1>1, <1>7, <2>8, <2>10, OthersKept
  <2>12. all \subseteq RegistryRow /\ mine \subseteq {row}
    BY <1>3, <2>1, <2>2, <2>9
  <2>13. StoreType'
    BY <1>7, <2>10, <2>11, <2>12 DEF StoreInv, StoreType
  <2>14. LockOK' /\ JournalOK'
    BY <1>1, <1>7, <2>11, StoreConstants DEF StoreInv, LockOK, JournalOK
  <2>15. KeysApart'
    <3>1. ASSUME NEW r \in rows \cup all, NEW s \in mine, SameKey(r, s) PROVE r = s
      BY <1>3, <2>9, <3>1 DEF StoredUnder, SameKey
    <3>2. ASSUME NEW d \in Registrars, d # c, NEW r \in own[d], NEW s \in mine
          PROVE  ~SameKey(r, s)
      BY <1>3, <1>5, <3>2, StoreConstants DEF Blocks, SameKey
    <3>3. ASSUME NEW r \in rows \cup all, NEW s \in all, SameKey(r, s) PROVE r = s
      BY <2>9, <3>1, <3>3 DEF StoreInv, KeysApart, SameKey
    <3>4. ASSUME NEW d \in Registrars, d # c, NEW r \in own[d], NEW s \in all
          PROVE  ~SameKey(r, s) /\ ~SameKey(s, r)
      BY <2>9, <3>2, <3>4 DEF StoreInv, KeysApart, SameKey
    <3> QED
      BY <1>7, <2>11, <3>3, <3>4, StoreConstants DEF StoreInv, KeysApart
  <2>16. \A k \in 1..n : new.records[k] \in rows \cup all
    <3>1. \A k \in 1..Len(call[c].records) : call[c].records[k] \in rows \cup own[c]
      BY <1>1, <1>5 DEF RegistrarOK
    <3>2. ASSUME NEW k \in 1..n PROVE new.records[k] \in rows \cup all
      <4>1. CASE k = n
        BY <2>4, <2>7, <2>8, <2>9, <4>1
      <4>2. CASE k # n
        <5>1. k \in 1..Len(call[c].records)
          BY <2>2, <2>6, <4>2
        <5> QED
          BY <2>7, <2>8, <2>9, <3>1, <4>2, <5>1
      <4> QED
        BY <4>1, <4>2
    <3> QED
      BY <3>2
  <2>17. Requested(new.records, request[c])
    <3>1. Requested(call[c].records, request[c])
      BY <1>1, <1>5 DEF RegistrarOK
    <3>2. n \in {1, 2, 3, 4} /\ Len(new.records) = n
      BY <1>5, <2>2, <2>6, <2>7, <2>8
    <3>3. ASSUME NEW k \in 1..n, k \in {1, 2} PROVE new.records[k].table = "dataset_versions"
      <4>1. CASE k = n
        BY <2>1, <2>2, <2>4, <2>6, <2>7, <2>8, <3>3, <4>1
      <4>2. CASE k # n
        <5>1. k \in 1..Len(call[c].records)
          BY <2>2, <2>6, <4>2
        <5> QED
          BY <2>7, <2>8, <3>1, <3>3, <4>2, <5>1 DEF Requested
      <4> QED
        BY <4>1, <4>2
    <3>4. n >= 3 => new.records[3].value.digest = request[c].digest
      <4>1. CASE n = 3
        <5>1. Len(call[c].records) = 2
          <6>1. \A l : l = n - 1 /\ n = 3 => l = 2
            OBVIOUS
          <6> QED
            BY <2>6, <4>1, <6>1, Zenon
        <5>2. new.records[n] = stored
          BY <2>7, <2>8, <4>1
        <5> QED
          BY <2>1, <2>4, <4>1, <5>1, <5>2
      <4>2. CASE n = 4
        BY <2>2, <2>6, <2>7, <2>8, <3>1, <4>2 DEF Requested
      <4> QED
        BY <3>2, <4>1, <4>2
    <3>5. ASSUME n >= 4 PROVE new.records[4].value = request[c].digest
      <4>1. n = 4
        BY <3>2, <3>5
      <4>2. Len(call[c].records) = 3
        <5>1. \A l : l = n - 1 /\ n = 4 => l = 3
          OBVIOUS
        <5> QED
          BY <2>6, <4>1, <5>1, Zenon
      <4>3. new.records[n] = stored
        BY <2>7, <2>8, <4>1
      <4> QED
        BY <2>1, <2>4, <4>1, <4>2, <4>3
    <3>6. \A k \in 1..Len(new.records) : k \in {1, 2} => new.records[k].table = "dataset_versions"
      BY <3>2, <3>3
    <3>7. Len(new.records) >= 3 => new.records[3].value.digest = request[c].digest
      BY <3>2, <3>4
    <3>8. Len(new.records) >= 4 => new.records[4].value = request[c].digest
      BY <3>2, <3>5
    <3> QED
      BY <3>6, <3>7, <3>8, Zenon DEF Requested
  <2>18. RegistrarOK(c)'
    <3>1. n <= 4 /\ IsPrefix(Runtime, journal)
      BY <1>1, <1>5, <2>2, <2>6 DEF RegistrarOK
    <3>2. /\ call'[c].step = "register" /\ call'[c].records = new.records
          /\ Len(call'[c].records) = n /\ own'[c] = all
          /\ rows' = rows /\ request' = request /\ journal' = journal
      BY <1>7, <2>7, <2>8, <2>11
    <3>3. Requested(call'[c].records, request'[c])
      BY <2>17, <3>2
    <3>4. \A k \in 1..Len(call'[c].records) : call'[c].records[k] \in rows' \cup own'[c]
      BY <2>16, <3>2
    <3> QED
      BY <3>1, <3>2, <3>3, <3>4 DEF RegistrarOK
  <2>19. BindingsOK'
    <3>1. ContractsBound(own[c], rows \cup own[c])
      BY DEF StoreInv, BindingsOK
    <3>2. ASSUME row.table = "contract_versions",
                 NEW id \in {row.value.reference, row.value.target}
          PROVE  \E d \in rows \cup own[c] : d.table = "dataset_versions" /\ d.id = id
      <4>1. PICK k \in {1, 2} : id = call[c].records[k].id
        BY <2>1, <3>2
      <4>2. k \in 1..Len(call[c].records)
        BY <2>1, <3>2
      <4>3. /\ call[c].records[k] \in rows \cup own[c]
            /\ call[c].records[k].table = "dataset_versions"
        BY <1>1, <1>5, <4>2 DEF RegistrarOK, Requested
      <4> QED
        BY <4>1, <4>3
    <3>3. ContractsBound(all, rows \cup all)
      BY <2>9, <2>12, <3>1, <3>2 DEF ContractsBound
    <3>4. ASSUME NEW d \in Registrars PROVE ContractsBound(own'[d], rows \cup own'[d])
      <4>1. CASE d = c
        BY <2>11, <3>3, <4>1
      <4>2. CASE d # c
        BY <2>11, <4>2, StoreConstants DEF StoreInv, BindingsOK
      <4> QED
        BY <4>1, <4>2
    <3> QED
      BY <1>7, <3>4 DEF StoreInv, BindingsOK, ContractsBound
  <2> QED
    BY <1>1, <2>11, <2>13, <2>14, <2>15, <2>18, <2>19 DEF StoreInv
<1> QED
  BY <1>5, <1>6, <1>7

(* What is left of a call once its transaction has committed: a result, or *)
(* an answer lost.                                                         *)
After(c, new) ==
    \/ new.step = "done" /\ new.records = call[c].records
    \/ new.step = "connection_error"
    \/ new.step = "begin" /\ new.records = <<>>

(* COMMIT of a migration: the journal becomes its package.                 *)
LEMMA MigrationCommits ==
    ASSUME StoreInv, NEW c \in Migrators, Committed(c),
           NEW new \in CallRecord, call' = [call EXCEPT ![c] = new], After(c, new)
    PROVE  StoreInv'
<1>1. /\ c \in Callers /\ c \notin Registrars /\ MigratorOK(c)
      /\ call \in [Callers -> CallRecord] /\ call[c] \in CallRecord
      /\ journal \in Seq(Checksums) /\ package[c] \in Seq(Checksums)
      /\ Len(journal) \in Nat /\ Len(package[c]) \in Nat
      /\ own \in [Callers -> SUBSET (RegistryRow \cup JournalRow)]
  BY StoreConstants, LenProperties DEF StoreInv, StoreType
<1>2. PICK mine : mine = own[c]
  OBVIOUS
<1>3. /\ call[c].step = "commit" /\ call[c].records = package[c]
      /\ IsPrefix(journal, package[c])
      /\ \A row \in mine : row.table = "migrations"
      /\ IsFiniteSet(mine) /\ Cardinality(mine) = Len(package[c]) - Len(journal)
  BY <1>1, <1>2 DEF Committed, At, MigratorOK
<1>4. PICK versions : versions = {row \in own[c] : row.table = "migrations"}
  OBVIOUS
<1>5. versions = mine
  BY <1>2, <1>3, <1>4
<1>6. PICK rest : rest = SubSeq(call[c].records, Len(call[c].records) - Cardinality(versions) + 1,
                                Len(call[c].records))
  OBVIOUS
<1>7. /\ journal' = journal \o rest /\ schema' = schema \o rest
      /\ UNCHANGED <<package, request, rows>>
      /\ own' = [own EXCEPT ![c] = {}] /\ advisory' = advisory \ {c}
  BY <1>4, <1>6 DEF Committed, Applied
<1>8. Len(package[c]) - Cardinality(versions) + 1 = Len(journal) + 1
  BY <1>1, <1>3, <1>5
<1>9. rest = SubSeq(package[c], Len(journal) + 1, Len(package[c]))
  BY <1>3, <1>6, <1>8
<1>10. journal' = package[c] /\ schema' = package[c]
  BY <1>1, <1>3, <1>7, <1>9, PrefixCompleted DEF StoreInv, JournalOK
<1>11. /\ call' \in [Callers -> CallRecord] /\ call'[c] = new /\ own'[c] = {}
       /\ \A d \in Callers \ {c} : call'[d] = call[d] /\ own'[d] = own[d]
  BY <1>1, <1>7
<1>12. IsPrefix(journal', package[c]) /\ IsPrefix(package[c], journal')
  BY <1>1, <1>10, PrefixOrder
<1>13. ASSUME NEW p \in Seq(Checksums), IsPrefix(p, journal) PROVE IsPrefix(p, journal')
  BY <1>1, <1>3, <1>10, <1>13, PrefixOrder
<1>14. StoreType'
  <2>1. /\ journal' \in Seq(Checksums) /\ rows' \subseteq RegistryRow
        /\ advisory' \subseteq Callers
    BY <1>1, <1>7, <1>10 DEF StoreInv, StoreType
  <2>2. own' \in [Callers -> SUBSET (RegistryRow \cup JournalRow)]
    BY <1>1, <1>7
  <2>3. \A d \in Registrars : own'[d] \subseteq RegistryRow
    BY <1>1, <1>11, StoreConstants DEF StoreInv, StoreType
  <2> QED
    BY <1>7, <1>11, <2>1, <2>2, <2>3 DEF StoreInv, StoreType
<1>15. LockOK'
  BY <1>7, <1>11, StoreConstants DEF StoreInv, LockOK, After
<1>16. JournalOK'
  BY <1>1, <1>10, <1>12 DEF JournalOK, StoreInv, StoreType
<1>17. MigratorOK(c)'
  BY <1>7, <1>11, <1>12 DEF MigratorOK, After
<1>18. ASSUME NEW d \in Migrators, d # c PROVE MigratorOK(d)'
  <2>1. /\ call'[d] = call[d] /\ own'[d] = own[d] /\ package'[d] = package[d]
        /\ MigratorOK(d) /\ package[d] \in Seq(Checksums)
    BY <1>7, <1>11, <1>18, StoreConstants DEF StoreInv, StoreType
  <2>2. call[d].step \notin {"history", "apply", "commit"}
    BY <1>3, <1>18 DEF StoreInv, LockOK
  <2> QED
    BY <1>13, <2>1, <2>2 DEF MigratorOK
<1>19. ASSUME NEW d \in Registrars PROVE RegistrarOK(d)'
  <2>1. /\ call'[d] = call[d] /\ own'[d] = own[d] /\ request' = request /\ rows' = rows
        /\ RegistrarOK(d)
    BY <1>1, <1>7, <1>11, <1>19, StoreConstants DEF StoreInv
  <2>2. IsPrefix(Runtime, journal) => IsPrefix(Runtime, journal')
    BY <1>13, StoreConstants
  <2> QED
    BY <2>1, <2>2 DEF RegistrarOK, Requested
<1>20. \A d \in Registrars : own'[d] = own[d]
  BY <1>1, <1>11, StoreConstants
<1>21. KeysApart' /\ BindingsOK'
  BY <1>7, <1>20 DEF StoreInv, KeysApart, BindingsOK, ContractsBound
<1> QED
  BY <1>14, <1>15, <1>16, <1>17, <1>18, <1>19, <1>21 DEF StoreInv

(* COMMIT of a registration: its rows are stored, each the only one of its *)
(* key.                                                                    *)
LEMMA RegistrationCommits ==
    ASSUME StoreInv, NEW c \in Registrars, Committed(c),
           NEW new \in CallRecord, call' = [call EXCEPT ![c] = new], After(c, new)
    PROVE  StoreInv'
<1>1. /\ c \in Callers /\ c \notin Migrators /\ RegistrarOK(c)
      /\ call \in [Callers -> CallRecord] /\ call[c] \in CallRecord
      /\ own \in [Callers -> SUBSET (RegistryRow \cup JournalRow)]
  BY StoreConstants DEF StoreInv, StoreType
<1>2. /\ call[c].step = "commit" /\ rows' = rows \cup own[c]
      /\ UNCHANGED <<package, request, journal, schema>>
      /\ own' = [own EXCEPT ![c] = {}] /\ advisory' = advisory \ {c}
  BY <1>1 DEF Committed, Applied, At
<1>3. /\ call' \in [Callers -> CallRecord] /\ call'[c] = new /\ own'[c] = {}
      /\ \A d \in Callers \ {c} : call'[d] = call[d] /\ own'[d] = own[d]
  BY <1>1, <1>2
<1>4. StoreType'
  <2>1. rows' \subseteq RegistryRow /\ advisory' \subseteq Callers
    BY <1>2 DEF StoreInv, StoreType
  <2>2. own' \in [Callers -> SUBSET (RegistryRow \cup JournalRow)]
    BY <1>1, <1>2
  <2>3. \A d \in Registrars : own'[d] \subseteq RegistryRow
    BY <1>3, StoreConstants DEF StoreInv, StoreType
  <2> QED
    BY <1>2, <1>3, <2>1, <2>2, <2>3 DEF StoreInv, StoreType
<1>5. LockOK' /\ JournalOK'
  <2>1. \A d \in Migrators : call'[d] = call[d] /\ d # c
    BY <1>1, <1>3, StoreConstants
  <2> QED
    BY <1>2, <2>1 DEF StoreInv, LockOK, JournalOK
<1>6. ASSUME NEW d \in Migrators PROVE MigratorOK(d)'
  <2>1. call'[d] = call[d] /\ own'[d] = own[d] /\ MigratorOK(d)
    BY <1>1, <1>3, StoreConstants DEF StoreInv
  <2> QED
    BY <1>2, <2>1 DEF MigratorOK
<1>7. RegistrarOK(c)'
  <2>1. /\ Len(call[c].records) = 4 /\ IsPrefix(Runtime, journal)
        /\ Requested(call[c].records, request[c])
        /\ \A k \in 1..Len(call[c].records) : call[c].records[k] \in rows \cup own[c]
    BY <1>1, <1>2 DEF RegistrarOK
  <2>2. CASE new.step = "done" /\ new.records = call[c].records
    <3>1. /\ call'[c].step = "done" /\ call'[c].records = call[c].records
          /\ request' = request /\ journal' = journal
      BY <1>2, <1>3, <2>2
    <3>2. Len(call'[c].records) <= 4
      <4>1. \A n : n = 4 => n <= 4
        OBVIOUS
      <4> QED
        BY <2>1, <3>1, <4>1, Zenon
    <3>3. Requested(call'[c].records, request'[c])
      BY <2>1, <3>1
    <3>4. \A k \in 1..Len(call'[c].records) : call'[c].records[k] \in rows'
      BY <1>2, <2>1, <3>1
    <3> QED
      BY <2>1, <3>1, <3>2, <3>3, <3>4 DEF RegistrarOK
  <2>3. CASE new.step = "connection_error" \/ (new.step = "begin" /\ new.records = <<>>)
    BY <1>3, <2>3 DEF RegistrarOK
  <2> QED
    BY <2>2, <2>3 DEF After
<1>8. ASSUME NEW d \in Registrars, d # c PROVE RegistrarOK(d)'
  <2>1. call'[d] = call[d] /\ own'[d] = own[d] /\ RegistrarOK(d)
    BY <1>3, <1>8, StoreConstants DEF StoreInv
  <2> QED
    BY <1>2, <2>1 DEF RegistrarOK, Requested
<1>9. KeysApart'
  <2>1. ASSUME NEW r \in rows', NEW s \in rows', SameKey(r, s) PROVE r = s
    BY <1>2, <2>1 DEF StoreInv, KeysApart, SameKey
  <2>2. ASSUME NEW d \in Registrars, d # c, NEW r \in rows' \cup own[d], NEW s \in own[d],
               SameKey(r, s)
        PROVE  r = s
    BY <1>2, <2>2 DEF StoreInv, KeysApart, SameKey
  <2> QED
    BY <1>3, <2>1, <2>2, StoreConstants DEF StoreInv, KeysApart
<1>10. BindingsOK'
  <2>1. ContractsBound(rows', rows')
    BY <1>2 DEF StoreInv, BindingsOK, ContractsBound
  <2>2. ASSUME NEW d \in Registrars PROVE ContractsBound(own'[d], rows' \cup own'[d])
    <3>1. CASE d = c
      BY <1>3, <3>1 DEF ContractsBound
    <3>2. CASE d # c
      BY <1>2, <1>3, <3>2, StoreConstants DEF StoreInv, BindingsOK, ContractsBound
    <3> QED
      BY <3>1, <3>2
  <2> QED
    BY <2>1, <2>2 DEF BindingsOK, ContractsBound
<1> QED
  BY <1>4, <1>5, <1>6, <1>7, <1>8, <1>9, <1>10 DEF StoreInv

(* COMMIT, answered or not.                                                *)
LEMMA CommitSteps ==
    ASSUME StoreInv, NEW c \in Callers, Commit(c) \/ CommitReplyLost(c)
    PROVE  StoreInv'
<1>1. call \in [Callers -> CallRecord] /\ call[c] \in CallRecord /\ Committed(c)
  BY DEF StoreInv, StoreType, Commit, CommitReplyLost
<1>2. \E new \in CallRecord : call' = [call EXCEPT ![c] = new] /\ After(c, new)
  <2>1. CASE Commit(c)
    <3>1. PICK new \in CallRecord : /\ call' = [call EXCEPT ![c] = new]
                                    /\ new.step = "done" /\ new.records = call[c].records
      BY <2>1, GotoStep DEF Commit, Closed
    <3> QED
      BY <3>1 DEF After
  <2>2. CASE CommitReplyLost(c)
    <3>1. PICK new : /\ call' = [call EXCEPT ![c] = new]
                     /\ new = IF call[c].attempt = MaxAttempts
                              THEN [call[c] EXCEPT !.step = "connection_error"]
                              ELSE [step |-> "begin", attempt |-> call[c].attempt + 1,
                                    records |-> <<>>]
      BY <2>2 DEF CommitReplyLost, RetryOrGiveUp
    <3>2. <<>> \in Seq(Checksums \cup RegistryRow)
      BY EmptySeq
    <3>3. call[c].attempt \in Nat /\ call[c].attempt + 1 \in Nat
      BY <1>1 DEF CallRecord
    <3>4. /\ new \in CallRecord
          /\ new.step = "connection_error" \/ (new.step = "begin" /\ new.records = <<>>)
      <4>1. CASE call[c].attempt = MaxAttempts
        BY <1>1, <3>1, <4>1 DEF CallRecord, Closed
      <4>2. CASE call[c].attempt # MaxAttempts
        BY <3>1, <3>2, <3>3, <4>2 DEF CallRecord, Open
      <4> QED
        BY <4>1, <4>2
    <3> QED
      BY <3>1, <3>4 DEF After
  <2> QED
    BY <2>1, <2>2
<1> QED
  BY <1>1, <1>2, MigrationCommits, RegistrationCommits DEF Callers

(* A registration: the schema, its rows, and reading it back.              *)
LEMMA RegistrarSteps ==
    ASSUME StoreInv, NEW c \in Registrars, RegistrarStep(c)
    PROVE  StoreInv'
<1>1. c \in Callers /\ c \notin Migrators /\ RegistrarOK(c)
  BY StoreConstants DEF StoreInv
<1>2. call[c].records \in Seq(Checksums \cup RegistryRow) /\ Len(call[c].records) \in Nat
  BY <1>1, LenProperties DEF StoreInv, StoreType, CallRecord
<1>3. CASE RequireCurrentSchema(c)
  <2>1. CASE Ends(c, "schema_behind")
    BY <1>1, <2>1, CallEnds DEF Ends, Closed
  <2>2. CASE ~Ends(c, "schema_behind")
    <3>1. /\ call[c].step = "schema" /\ journal = Runtime /\ Goto(c, "register")
          /\ UNCHANGED <<package, request, journal, schema, rows, own, advisory>>
      BY <1>3, <2>2 DEF RequireCurrentSchema, At
    <3>2. PICK new \in CallRecord :
             /\ call' = [call EXCEPT ![c] = new] /\ call'[c] = new
             /\ new.step = "register" /\ new.records = call[c].records
      BY <1>1, <3>1, GotoStep DEF Open
    <3>3. call[c].records = <<>> /\ Len(call[c].records) = 0
      BY <1>1, <3>1, EmptySeq DEF RegistrarOK
    <3>4. IsPrefix(Runtime, journal)
      BY <3>1, StoreConstants, PrefixOrder
    <3>5. RegistrarOK(c)'
      BY <3>1, <3>2, <3>3, <3>4 DEF RegistrarOK, Requested
    <3>6. LockOK' /\ advisory' \subseteq Callers
      BY <1>1, <3>1, <3>2, StoreConstants DEF StoreInv, StoreType, LockOK
    <3> QED
      BY <1>1, <3>1, <3>2, <3>5, <3>6, MoveStep
  <2> QED
    BY <2>1, <2>2
<1>4. CASE RegisterDataset(c) \/ RegisterContract(c) \/ RegisterCodeArtifact(c)
  BY <1>4, RegisterStep DEF RegisterDataset, RegisterContract, RegisterCodeArtifact
<1>5. CASE Registered(c)
  <2>1. PICK new \in CallRecord :
           /\ call' = [call EXCEPT ![c] = new] /\ call'[c] = new
           /\ new.step = "commit" /\ new.records = call[c].records
    BY <1>1, <1>5, GotoStep DEF Registered, Open
  <2>2. /\ call[c].step = "register" /\ Len(call[c].records) = 4
        /\ UNCHANGED <<package, request, journal, schema, rows, own, advisory>>
    BY <1>5 DEF Registered, At
  <2>3. RegistrarOK(c)'
    BY <1>1, <2>1, <2>2 DEF RegistrarOK, Requested
  <2>4. LockOK' /\ advisory' \subseteq Callers
    BY <1>1, <2>1, <2>2, StoreConstants DEF StoreInv, StoreType, LockOK
  <2> QED
    BY <1>1, <2>1, <2>2, <2>3, <2>4, MoveStep
<1>6. CASE BlockedInsertCancelled(c)
  BY <1>1, <1>6, CallEnds DEF BlockedInsertCancelled
<1>7. CASE ReadRegistration(c)
  <2>1. call[c].step = "done" /\ Readable(c)
    BY <1>1, <1>7 DEF ReadRegistration, At, RegistrarOK, Readable
  <2>2. PICK step \in {"schema_behind", "readable"} : Goto(c, step)
    BY <1>7, <2>1 DEF ReadRegistration
  <2>3. PICK new \in CallRecord :
           /\ call' = [call EXCEPT ![c] = new] /\ call'[c] = new /\ new.step = step
    BY <1>1, <2>2, GotoStep DEF Closed
  <2>4. UNCHANGED <<package, request, journal, schema, rows, own, advisory>>
    BY <1>7 DEF ReadRegistration
  <2>5. RegistrarOK(c)'
    BY <2>2, <2>3 DEF RegistrarOK
  <2>6. LockOK' /\ advisory' \subseteq Callers
    BY <1>1, <2>2, <2>3, <2>4, StoreConstants DEF StoreInv, StoreType, LockOK
  <2> QED
    BY <1>1, <2>3, <2>4, <2>5, <2>6, MoveStep
<1> QED
  BY <1>3, <1>4, <1>5, <1>6, <1>7 DEF RegistrarStep

(* Every step keeps the invariant.                                         *)
LEMMA StoreInductive ==
    StoreInv /\ [Next]_vars => StoreInv'
<1> SUFFICES ASSUME StoreInv, [Next]_vars PROVE StoreInv'
  OBVIOUS
<1>1. ASSUME NEW c \in Callers, CallStep(c) PROVE StoreInv'
  BY <1>1, BeginStep, CommitSteps DEF CallStep
<1>2. CASE UNCHANGED vars
  BY <1>2 DEF vars, StoreInv, StoreType, LockOK, JournalOK, MigratorOK, KeysApart, BindingsOK,
              ContractsBound, RegistrarOK, Requested
<1> QED
  BY <1>1, <1>2, MigratorSteps, RegistrarSteps DEF Next

(* The invariant gives what is promised of migrations and registrations.   *)
LEMMA StoreInvIsEnough ==
    StoreInv => MetadataIsDurable
<1> SUFFICES ASSUME StoreInv PROVE MetadataIsDurable
  OBVIOUS
<1>1. MigrationsApplyOnce
  BY DEF StoreInv, JournalOK, MigratorOK, MigrationsApplyOnce, At
<1>2. ASSUME NEW c \in Registrars
      PROVE  /\ ~At(c, "unreadable")
             /\ At(c, "done") => /\ Readable(c)
                                 /\ call[c].records[3].value.digest = request[c].digest
                                 /\ call[c].records[4].value = request[c].digest
  BY DEF StoreInv, RegistrarOK, Requested, At, Readable
<1>3. \A r, s \in rows : r.table = s.table /\ r.key = s.key => r = s
  BY DEF StoreInv, KeysApart, SameKey
<1>4. ContractsBound(rows, rows)
  BY DEF StoreInv, BindingsOK
<1>5. RegistrationsAreDurable
  BY <1>2, <1>3, <1>4 DEF RegistrationsAreDurable, ContractsBound
<1> QED
  BY <1>1, <1>5 DEF MetadataIsDurable

(* The inductive invariant: one migrator past the advisory lock, one row   *)
(* per key stored or about to be (persistence/postgres.py:249, 426).       *)
THEOREM StoreInvariance == Spec => []StoreInv
  BY StoreInit, StoreInductive, PTL DEF Spec

(* A migration that is answered is in the journal once and whole, and a    *)
(* registration that is answered is stored as it was asked for and reads   *)
(* back as it was returned, whatever the other callers, lost answers and   *)
(* crashes did (persistence/postgres.py:249, 426, 495).                    *)
THEOREM MetadataStaysDurable == Spec => []MetadataIsDurable
  BY StoreInvariance, StoreInvIsEnough, PTL
=============================================================================
