---------------------------- MODULE ClickHouseReads ----------------------------
(***************************************************************************)
(* The protected ClickHouse context of clickhouse_endpoint.py over the     *)
(* strategies of clickhouse_readiness.py, clickhouse_projection.py and     *)
(* clickhouse_legacy.py.  ClickHouse requests share no snapshot, so a      *)
(* context is a discipline: observe the published version, its catalog     *)
(* entry, mutations, parts and fingerprint, observe them again, let the    *)
(* comparison read, and observe everything once more when it closes.  Each *)
(* request is one step, and the publisher and the administrators of the    *)
(* server act between any two of them.                                     *)
(*                                                                         *)
(* The server is external.  What it does is never undone here: the code    *)
(* itself lists as a limitation that equal observations before and after   *)
(* "cannot exclude transient writes that revert" (clickhouse_legacy.py:111 *)
(* and clickhouse_projection.py:77).  Sealing a table is the exception: it *)
(* is opened and sealed again at will.                                     *)
(***************************************************************************)
EXTENDS Naturals, Sequences, FiniteSets

CONSTANTS
  Heads,               \* successive heads of the readiness table, whose newest revision leads
  Contents,            \* successive contents of the version table
  ManifestCounts,      \* <<physical, logical>> rows of the projection manifest
  MaxMutationRecords,  \* the request's max_mutation_records
  Ceilings,            \* result-row ceilings a server profile may have
  MaxReads,            \* bound: source reads of one context
  MaxChanges           \* bound: changes made to the server

ClickHouseReadsAssumption ==
  /\ Heads \in Seq([revision: Nat, status: {"complete", "building", "twice"}]) \ {<<>>}
  /\ \A i, j \in DOMAIN Heads: i <= j => Heads[i].revision <= Heads[j].revision
  /\ Contents \in Seq([count: Nat, logical: Nat, ties: BOOLEAN, valid: BOOLEAN]) \ {<<>>}
  /\ ManifestCounts \in Nat \X Nat
  /\ MaxMutationRecords \in Nat \ {0}
  /\ Ceilings \subseteq Nat \ {0}
  /\ MaxReads \in Nat /\ MaxChanges \in Nat

Strategies == {"plain", "replacing", "legacy"}
TableNames == {"readiness", "version"}

(* The named version the manifest locates and the head it was issued with. *)
ManifestId == 1
ManifestServer == 1
ManifestRevision == 1

VARIABLES
  strategy,   \* which acquisition the request names
  evidence,   \* the minimum evidence it asks for
  profile,    \* what the server profile reports
  server,     \* the server the endpoint reaches
  tables,     \* the two tables there
  changes,    \* changes made so far (bounded by MaxChanges)
  phase,      \* ClickHouseProtectedContextState, and the steps of opening and closing
  transport,  \* "open" or "closed"
  todo,       \* observations still to make in this phase
  partial,    \* answers to the requests of the current observation
  bound,      \* the last observation of each kind, <<>> if none
  drift,      \* an observation differed from the one before, not yet decided
  seen,       \* what the server held at each source read
  confirmed,  \* the context holds a final confirmation
  outcome     \* what opening or closing came to

vars == << strategy, evidence, profile, server, tables, changes, phase, transport, todo,
           partial, bound, drift, seen, confirmed, outcome >>

serverVars == << server, tables, changes >>
requestVars == << strategy, evidence, profile >>

--------------------------------------------------------------------------------
(***************************************************************************)
(* The observations each phase makes, in order, and the requests of each.  *)
(***************************************************************************)

NamedVersion == << "ready_identity", "ready", "identity", "ready", "ready_identity", "identity" >>
NamedVersionConfirmation == << "ready", "ready_identity", "identity", "ready" >>

(* acquire_clickhouse_merge_tree_projection and its siblings.              *)
PlainAcquisition ==
  NamedVersion
  \o << "mutations", "runtime", "relation", "fingerprint", "mutations", "runtime" >>
  \o NamedVersionConfirmation

ReplacingAcquisition ==
  NamedVersion
  \o << "mutations", "runtime", "ties", "counts", "relation", "fingerprint",
        "ties", "counts", "mutations", "runtime" >>
  \o NamedVersionConfirmation

LegacyAcquisition ==
  << "legacy_ready", "legacy_source", "relation", "fingerprint", "legacy_source",
     "legacy_ready" >>

AcquisitionOf == [plain |-> PlainAcquisition, replacing |-> ReplacingAcquisition,
                  legacy |-> LegacyAcquisition]

(* confirm_clickhouse_merge_tree_projection and its siblings.              *)
PlainConfirmation ==
  << "mutations", "runtime", "fingerprint", "mutations", "runtime" >> \o NamedVersionConfirmation

ReplacingConfirmation ==
  << "mutations", "runtime", "ties", "counts", "fingerprint", "ties", "counts", "mutations",
     "runtime" >> \o NamedVersionConfirmation

LegacyConfirmation ==
  << "legacy_ready", "legacy_source", "fingerprint", "legacy_source", "legacy_ready" >>

ConfirmationOf == [plain |-> PlainConfirmation, replacing |-> ReplacingConfirmation,
                   legacy |-> LegacyConfirmation]

IdentityRequests == << "catalog", "policies", "columns" >>
LegacyWitness == << "catalog", "columns", "policies", "settings", "mutations", "parts" >>

Requests ==
  [ready_identity |-> IdentityRequests, identity |-> IdentityRequests,
   ready |-> << "head" >>, mutations |-> << "mutations" >>, runtime |-> << "settings", "parts" >>,
   ties |-> << "ties" >>, counts |-> << "counts" >>, relation |-> << "relation" >>,
   fingerprint |-> << "fingerprint" >>,
   legacy_source |-> LegacyWitness, legacy_ready |-> LegacyWitness \o << "head" >>]

Kinds == DOMAIN Requests
Legacy == strategy = "legacy"
TableOf(kind) == IF kind \in {"ready_identity", "ready", "legacy_ready"} THEN "readiness"
                                                                       ELSE "version"
IdentityKind(kind) == IF TableOf(kind) = "readiness" THEN "ready_identity" ELSE "identity"

(* An observation whose difference is decided at once; the others of a     *)
(* phase are compared together when the last of them is in.                *)
ComparedAtOnce == {"ready_identity", "ready", "identity"}
GroupEnds(rest) == rest = <<>> \/ Head(rest) = "ready"

--------------------------------------------------------------------------------
(***************************************************************************)
(* What one request returns.                                               *)
(***************************************************************************)

Table(kind) == tables[TableOf(kind)]
Content == Contents[tables["version"].rows]
Hidden == tables["version"].policies > 0
VisibleCount(n) == IF Hidden /\ n > 0 THEN n - 1 ELSE n
RowsOf(kind) == IF TableOf(kind) = "version" THEN Content.count ELSE tables["readiness"].rows
CurrentHead == Heads[tables["readiness"].rows]

(* _inspect_clickhouse_table, _require_no_clickhouse_row_policies and      *)
(* _inspect_clickhouse_columns, and the same for 21.8, whose catalog knows *)
(* no table_readonly.                                                      *)
TableCatalog(t) == << t.id, t.shape, t.sealed >>
RowPolicies(t) == << t.policies >>
TableColumns(t) == << t.shape >>
LegacyCatalog(t) == << t.id, t.shape >>
LegacyColumns(t) == << t.shape >>
LegacyPolicies(t) == << t.policies >>

(* _read_current_readiness and the query of _observe_legacy_readiness.     *)
ReadinessHead == << CurrentHead.revision, CurrentHead.status >>

(* _read_mutation_witness and the two requests of _read_runtime_witness:   *)
(* part and row totals, whatever the parts hold.                           *)
MutationWitness(t) == t.mutations
RuntimeSettings(t) == << t.sidecars = "projection" >>
RuntimeParts(t) == << t.parts, t.sidecars = "patch", Content.count >>

(* The legacy witness digests the part inventory itself; a killed mutation *)
(* is not among the fields 21.8 has, so it reads as one that is done.      *)
LegacyMutations(t) ==
  [i \in DOMAIN t.mutations |-> IF t.mutations[i] = "killed" THEN "done" ELSE t.mutations[i]]
LegacySafety(t) == << t.sidecars = "projection" >>
LegacyParts(t, kind) == << t.parts, t.rows, RowsOf(kind) >>

(* inspect_clickhouse_canonical_relation and the canonical fingerprint, of *)
(* the table as a reader sees it; the two requests only Replacing makes.   *)
CanonicalRelation(t) == << t.shape >>
CanonicalFingerprint(t) ==
  << t.rows, Hidden, VisibleCount(Content.count), VisibleCount(Content.logical), Content.valid >>
VersionTies == << Content.ties >>
ReplacingCounts == << VisibleCount(Content.count), VisibleCount(Content.logical) >>

Payload(kind, request) ==
  LET t == Table(kind) IN
  CASE request = "catalog" -> IF Legacy THEN LegacyCatalog(t) ELSE TableCatalog(t)
    [] request = "policies" -> IF Legacy THEN LegacyPolicies(t) ELSE RowPolicies(t)
    [] request = "columns" -> IF Legacy THEN LegacyColumns(t) ELSE TableColumns(t)
    [] request = "head" -> ReadinessHead
    [] request = "mutations" -> IF Legacy THEN LegacyMutations(t) ELSE MutationWitness(t)
    [] request = "settings" -> IF Legacy THEN LegacySafety(t) ELSE RuntimeSettings(t)
    [] request = "parts" -> IF Legacy THEN LegacyParts(t, kind) ELSE RuntimeParts(t)
    [] request = "relation" -> CanonicalRelation(t)
    [] request = "fingerprint" -> CanonicalFingerprint(t)
    [] request = "ties" -> VersionTies
    [] request = "counts" -> ReplacingCounts

(* Which server answered is part of every catalog answer; the canonical    *)
(* queries do not ask.                                                     *)
Answer(kind, request) ==
  [server |-> IF request \in {"relation", "fingerprint"} THEN ManifestServer ELSE server,
   value |-> Payload(kind, request)]

(* _require_matching_server_uuid and _require_observed_server: the server  *)
(* an answer must come from, 0 when the answer establishes it.             *)
ExpectedServer(kind, request) ==
  IF request \in {"relation", "fingerprint"} THEN 0
  ELSE IF request = "catalog" THEN IF Legacy THEN ManifestServer ELSE 0
  ELSE IF kind \in {"ready_identity", "identity", "legacy_source", "legacy_ready"}
    THEN partial[1].server
  ELSE bound[IdentityKind(kind)][1].server

--------------------------------------------------------------------------------
(***************************************************************************)
(* What the code makes of an answer.                                       *)
(***************************************************************************)

(* effective_clickhouse_projection_request: the mutation inventory leaves  *)
(* room for its overflow sentinel below the profile's row ceiling.  It is  *)
(* the endpoint that applies it, to the plain strategy only.               *)
MutationCap ==
  IF strategy = "plain" /\ profile.ceiling - 1 < MaxMutationRecords THEN profile.ceiling - 1
                                                            ELSE MaxMutationRecords

(* _classify_mutation_witness: a killed or failed mutation raises; the     *)
(* legacy witness refuses a pending or failed one.                         *)
Holds(value, statuses) == \E i \in DOMAIN value : value[i] \in statuses
MutationsRaise(value) == Len(value) > MutationCap \/ Holds(value, {"failed", "killed"})
LegacyMutationsRaise(value) ==
  Len(value) > MutationCap \/ Holds(value, {"failed", "pending"})

(* The trusted manifest names the UUID and the digest of the definition,   *)
(* which require_clickhouse_legacy_plain_merge_tree_ddl reads as well.     *)
LegacyDefinitionRaises(value) == value # << ManifestId, 1 >>

(* An answer that ends the phase with an exception.                        *)
AnswerRaises(kind, request, answer) ==
  LET value == answer.value
      expected == ExpectedServer(kind, request)
  IN  \/ expected # 0 /\ answer.server # expected
      \/ request = "catalog" /\ value[1] = 0
      \/ request = "catalog" /\ kind = "legacy_source" /\ LegacyDefinitionRaises(value)
      \/ request = "policies" /\ value[1] > 0 /\ ~Legacy
      \/ request = "mutations" /\ ~Legacy /\ MutationsRaise(value)
      \/ request = "mutations" /\ Legacy /\ LegacyMutationsRaise(value)
      \/ request = "settings" /\ value[1]
      \/ request = "parts" /\ ~Legacy /\ value[2]
      \/ request = "ties" /\ value[1]
      \/ request = "fingerprint" /\ ~value[5]

(* _require_locator_identity, _require_sealed_named_version_identity and   *)
(* _require_plain_immutable_version_identity for the version, whose        *)
(* columns are then checked by _require_requested_columns or               *)
(* _require_replacing_profile; a readiness table must be writable.         *)
PlainColumnsRaise(observation) == strategy = "plain" /\ observation[3].value # << 1 >>
ReplacingProfileRaises(observation) == strategy = "replacing" /\ observation[3].value # << 1 >>

VersionIdentityRaises(observation) ==
  \/ observation[1].value[1] # ManifestId \/ ~observation[1].value[3]
  \/ PlainColumnsRaise(observation) \/ ReplacingProfileRaises(observation)

ReadyIdentityRaises(observation) ==
  observation[1].value[3] \/ observation[3].value # << 1 >>

(* ClickHouseLegacyTableWitness keeps the policy count it read and refuses *)
(* one that is not zero.                                                   *)
LegacyWitnessRaises(kind, observation) ==
  observation[3].value[1] > 0 \/ (kind = "legacy_ready" /\ observation[2].value # << 1 >>)

PartRows(observation) == observation[Len(observation)].value[3]

(* The row counts that must agree: the parts and the fingerprint, and for  *)
(* Replacing the manifest, the parts, the counts and the fingerprint.      *)
FingerprintRaises(observation) ==
  LET value == observation[1].value IN
  CASE strategy = "plain" -> phase = "acquire" /\ value[3] # PartRows(bound["runtime"])
    [] strategy = "replacing" -> phase = "acquire" /\ value[4] # bound["counts"][1].value[2]
    [] strategy = "legacy" -> value[3] # bound["legacy_source"][6].value[3]

CountsRaise(observation) ==
  /\ phase = "acquire" /\ bound["counts"] = <<>>
  /\ \/ observation[1].value # ManifestCounts
     \/ observation[1].value[1] # PartRows(bound["runtime"])

RuntimeRaises(observation, rest) ==
  /\ strategy = "replacing" /\ GroupEnds(rest)
  /\ PartRows(observation) # bound["counts"][1].value[1]

(* The relation binds the columns the identity showed.                     *)
RelationRaises(observation) ==
  observation[1].value # (IF Legacy THEN bound["legacy_source"][2] ELSE bound["identity"][3]).value

ObservationRaises(kind, observation, rest) ==
  \/ kind = "identity" /\ VersionIdentityRaises(observation)
  \/ kind = "ready_identity" /\ ReadyIdentityRaises(observation)
  \/ kind \in {"legacy_source", "legacy_ready"} /\ LegacyWitnessRaises(kind, observation)
  \/ kind = "fingerprint" /\ FingerprintRaises(observation)
  \/ kind = "counts" /\ CountsRaise(observation)
  \/ kind = "runtime" /\ RuntimeRaises(observation, rest)
  \/ kind = "relation" /\ RelationRaises(observation)

(* validate_relation_manifest_readiness: an incomplete head, or two rows   *)
(* of one revision (_current_readiness_records), is an early outcome; so   *)
(* is a head that is not the manifest's publication, which the modern      *)
(* strategy compares once and the legacy one every time.                   *)
NotReady(kind, observation) ==
  LET head == observation[Len(observation)].value IN
  /\ kind \in {"ready", "legacy_ready"}
  /\ \/ head[2] # "complete"
     \/ head[1] # ManifestRevision /\ (Legacy \/ bound["ready"] = <<>>)

(* A pending mutation: not ready while acquiring, a changed cut when it is *)
(* the first observation of the confirmation.                              *)
MutationOutcome(kind, observation, rest) ==
  IF kind # "mutations" \/ ~Holds(observation[1].value, {"pending"}) THEN "go"
  ELSE IF phase = "acquire" THEN "not_ready"
  ELSE IF Len(rest) = Len(ConfirmationOf[strategy]) - 1 THEN "cut_mismatch" ELSE "go"

(* The comparison that leaves the fingerprint of the confirmation out.     *)
Differs_FingerprintIgnored(kind, observation) ==
  kind \notin {"ties", "relation", "fingerprint"} /\ bound[kind] # <<>>
    /\ bound[kind] # observation

(* The observation differs from the one of its kind before it, in this     *)
(* phase or in the binding.                                                *)
Differs(kind, observation) ==
  kind \notin {"ties", "relation"} /\ bound[kind] # <<>> /\ bound[kind] # observation

CutMismatch(kind, observation, rest) ==
  \/ kind \in ComparedAtOnce /\ Differs(kind, observation)
  \/ kind \notin ComparedAtOnce /\ GroupEnds(rest) /\ (drift \/ Differs(kind, observation))

Verdict(kind, observation, rest) ==
  IF ObservationRaises(kind, observation, rest) THEN "raised"
  ELSE IF NotReady(kind, observation) THEN "not_ready"
  ELSE IF MutationOutcome(kind, observation, rest) # "go"
         THEN MutationOutcome(kind, observation, rest)
  ELSE IF CutMismatch(kind, observation, rest) THEN "cut_mismatch" ELSE "go"

--------------------------------------------------------------------------------
(***************************************************************************)
(* Opening, observing, reading and closing.                                *)
(***************************************************************************)

Free == [id |-> ManifestId, sealed |-> FALSE, shape |-> 1, policies |-> 0, mutations |-> <<>>,
         sidecars |-> "none", parts |-> 1, rows |-> 1]

NoBinding == [kind \in Kinds |-> <<>>]

Init ==
  /\ strategy \in Strategies /\ evidence \in {"asserted", "verified"}
  /\ profile \in [ceiling: Ceilings, locked: BOOLEAN, guards: BOOLEAN]
  /\ Legacy \/ profile.guards       \* only 21.8 is asked for its guards
  /\ server = ManifestServer /\ changes = 0
  /\ \E history \in {<<>>, << "done", "done" >>} :
       tables = [readiness |-> Free,
                 version |-> [Free EXCEPT !.sealed = strategy # "legacy",
                                          !.mutations = history]]
  /\ phase = "opening" /\ transport = "closed" /\ outcome = "none"
  /\ todo = <<>> /\ partial = <<>> /\ bound = NoBinding /\ drift = FALSE
  /\ seen = {} /\ confirmed = FALSE

(* The phase ends with an exception or an outcome: opening closes the      *)
(* transport (_lose does so for a context) and nothing was confirmed.      *)
EndWith(result) ==
  /\ phase' = IF phase = "confirm" \/ phase = "active" THEN "lost" ELSE "returned"
  /\ transport' = "closed" /\ outcome' = result /\ todo' = <<>> /\ partial' = <<>>
  /\ UNCHANGED << bound, drift, seen, confirmed >>

(* open_budgeted_clickhouse_transport fails, or opens.                     *)
OpenTransport ==
  /\ phase = "opening"
  /\ \/ EndWith("raised")
     \/ /\ phase' = "profile" /\ transport' = "open"
        /\ UNCHANGED << todo, partial, bound, drift, seen, confirmed, outcome >>
  /\ UNCHANGED << requestVars, serverVars >>

(* _require_clickhouse_profile_baseline: user, database, UTC, readonly and *)
(* the resource settings locked within positive ceilings.                  *)
BaselineAccepted == profile.locked

(* _require_legacy_clickhouse_profile: also the locked settings that keep  *)
(* 21.8 from answering through a projection or after the client left.      *)
LegacyProfileAccepted == profile.guards /\ BaselineAccepted

(* effective_clickhouse_projection_request, called by the endpoint for the *)
(* plain strategy, refuses a ceiling without room for the sentinel.        *)
RequestAdmitted == strategy = "plain" => profile.ceiling > 1

(* _require_legacy_query_limits: the widest catalog answer must fit.       *)
LegacyRequestAdmitted == profile.ceiling > 1

(* inspect_clickhouse_server_profile or its legacy sibling, the admission  *)
(* of the request, and the refusal of evidence no strategy can give.       *)
ProfileEnds(accepted) ==
  /\ phase = "profile"
  /\ \/ EndWith("raised")
     \/ accepted /\ evidence = "verified" /\ EndWith("unsupported")
     \/ /\ accepted /\ evidence = "asserted"
        /\ phase' = "acquire" /\ todo' = AcquisitionOf[strategy]
        /\ UNCHANGED << transport, partial, bound, drift, seen, confirmed, outcome >>
  /\ UNCHANGED << requestVars, serverVars >>

InspectServerProfile == ~Legacy /\ ProfileEnds(BaselineAccepted /\ RequestAdmitted)
InspectLegacyServerProfile ==
  Legacy /\ ProfileEnds(LegacyProfileAccepted /\ LegacyRequestAdmitted)

(* The phase's last observation agreed.  The binding stands and a context  *)
(* is built on it ...                                                      *)
BindProtectedContext ==
  phase = "acquire" /\ ~Legacy /\ phase' = "active" /\ UNCHANGED << transport, confirmed, outcome >>

BindLegacyContext ==
  phase = "acquire" /\ Legacy /\ phase' = "active" /\ UNCHANGED << transport, confirmed, outcome >>

(* ... or the context holds its confirmation and closes its transport,     *)
(* which may fail and leaves it LOST with the confirmation set.            *)
KeepConfirmation ==
  /\ phase = "confirm" /\ confirmed' = TRUE /\ transport' = "closed"
  /\ \/ phase' = "closed" /\ outcome' = "confirmed"
     \/ phase' = "lost" /\ outcome' = "cleanup"

Complete == BindProtectedContext \/ BindLegacyContext \/ KeepConfirmation

(* One observation is in: it is refused, differs, or is kept.              *)
Conclude(kind, observation) ==
  LET rest == Tail(todo)
      verdict == Verdict(kind, observation, rest)
  IN  \/ verdict # "go" /\ EndWith(verdict)
      \/ /\ verdict = "go"
         /\ bound' = [bound EXCEPT ![kind] = observation]
         /\ drift' = (~GroupEnds(rest) /\ (drift \/ Differs(kind, observation)))
         /\ todo' = rest /\ partial' = <<>>
         /\ IF rest = <<>> THEN Complete ELSE UNCHANGED << phase, transport, confirmed, outcome >>
         /\ UNCHANGED seen

(* One request of an acquisition or a confirmation.                        *)
Observe ==
  /\ phase \in {"acquire", "confirm"} /\ todo # <<>>
  /\ LET kind == Head(todo)
         request == Requests[kind][Len(partial) + 1]
         answer == Answer(kind, request)
     IN  IF AnswerRaises(kind, request, answer) THEN EndWith("raised")
         ELSE IF Len(partial) + 1 = Len(Requests[kind])
                THEN Conclude(kind, Append(partial, answer))
         ELSE /\ partial' = Append(partial, answer)
              /\ UNCHANGED << phase, transport, todo, bound, drift, seen, confirmed, outcome >>
  /\ UNCHANGED << requestVars, serverVars >>

(* A request that fails, exceeds its limit, the deadline or the source     *)
(* budget ends the phase.                                                  *)
RequestFails ==
  /\ phase \in {"acquire", "confirm"}
  /\ EndWith("raised")
  /\ UNCHANGED << requestVars, serverVars >>

(* read_integer_key_summary, read_integer_range_fingerprints and           *)
(* read_integer_range_rows: the answer is that of the table by its name.   *)
SourceRead ==
  /\ phase = "active" /\ Cardinality(seen) < MaxReads /\ tables["version"].id # 0
  /\ seen' = seen \cup {[server |-> server, id |-> tables["version"].id,
                         rows |-> tables["version"].rows, hidden |-> Hidden,
                         head |-> CurrentHead.revision]}
  /\ UNCHANGED << phase, transport, todo, partial, bound, drift, confirmed, outcome >>
  /\ UNCHANGED << requestVars, serverVars >>

(* A read that fails or whose answer is refused retires the context.       *)
SourceReadFails ==
  /\ phase = "active"
  /\ EndWith("raised")
  /\ UNCHANGED << requestVars, serverVars >>

(* close(): an active context starts its confirmation.                     *)
Close ==
  /\ phase = "active"
  /\ phase' = "confirm" /\ todo' = ConfirmationOf[strategy]
  /\ UNCHANGED << transport, partial, bound, drift, seen, confirmed, outcome >>
  /\ UNCHANGED << requestVars, serverVars >>

--------------------------------------------------------------------------------
(***************************************************************************)
(* The publisher and the administrators.  A sealed table takes no writes,  *)
(* mutations or merges; 21.8 cannot seal one.                              *)
(***************************************************************************)

Change(t, table) ==
  /\ changes < MaxChanges /\ phase \in {"acquire", "active", "confirm"}
  /\ changes' = changes + 1 /\ tables' = [tables EXCEPT ![t] = table]
  /\ UNCHANGED << requestVars, server, phase, transport, todo, partial, bound, drift, seen,
                  confirmed, outcome >>

LastRows(t) == IF t = "version" THEN Len(Contents) ELSE Len(Heads)
Writable(t) == tables[t].id # 0 /\ ~tables[t].sealed

WriteRows(t) ==
  /\ Writable(t) /\ tables[t].rows < LastRows(t)
  /\ \E n \in {0, 1} : Change(t, [tables[t] EXCEPT !.rows = @ + 1, !.parts = @ + n])

MergeParts(t) ==
  /\ Writable(t) /\ tables[t].parts > 1
  /\ Change(t, [tables[t] EXCEPT !.parts = @ - 1])

Mutate(t) ==
  /\ Writable(t) /\ Len(tables[t].mutations) <= MaxMutationRecords
  /\ Change(t, [tables[t] EXCEPT !.mutations = Append(@, "pending")])

EndMutation(t) ==
  \E i \in DOMAIN tables[t].mutations :
    /\ tables[t].mutations[i] = "pending" /\ tables[t].rows < LastRows(t)
    /\ \/ Change(t, [tables[t] EXCEPT !.mutations[i] = "done", !.rows = @ + 1])
       \/ \E s \in {"failed", "killed"} : Change(t, [tables[t] EXCEPT !.mutations[i] = s])

SetReadonly ==
  /\ ~Legacy /\ tables["version"].id # 0
  /\ Change("version", [tables["version"] EXCEPT !.sealed = ~@])

AlterTable(t) ==
  /\ Writable(t) /\ tables[t].shape = 1
  /\ \/ Change(t, [tables[t] EXCEPT !.shape = 2])
     \/ tables[t].sidecars = "none"
        /\ \E s \in {"projection", "patch"} : Change(t, [tables[t] EXCEPT !.sidecars = s])

AddPolicy(t) ==
  tables[t].policies = 0 /\ Change(t, [tables[t] EXCEPT !.policies = 1])

DropTable(t) ==
  tables[t].id = ManifestId /\ Change(t, [tables[t] EXCEPT !.id = 0])

RecreateTable(t) ==
  /\ tables[t].id = 0
  /\ Change(t, [Free EXCEPT !.id = ManifestId + 1, !.rows = tables[t].rows,
                            !.sealed = tables[t].sealed])

(* The endpoint's name comes to reach another server, with a copy of the   *)
(* version that may be older or newer.                                     *)
Failover ==
  /\ changes < MaxChanges /\ server = ManifestServer
  /\ phase \in {"acquire", "active", "confirm"}
  /\ server' = server + 1 /\ changes' = changes + 1
  /\ \E r \in DOMAIN Contents : tables' = [tables EXCEPT !["version"].rows = r]
  /\ UNCHANGED << requestVars, phase, transport, todo, partial, bound, drift, seen, confirmed,
                  outcome >>

Next ==
  \/ OpenTransport \/ InspectServerProfile \/ InspectLegacyServerProfile \/ Observe \/ RequestFails
  \/ SourceRead \/ SourceReadFails \/ Close
  \/ \E t \in TableNames : \/ WriteRows(t) \/ MergeParts(t) \/ Mutate(t) \/ EndMutation(t)
                            \/ AlterTable(t) \/ AddPolicy(t) \/ DropTable(t) \/ RecreateTable(t)
  \/ SetReadonly \/ Failover

Spec == Init /\ [][Next]_vars

--------------------------------------------------------------------------------
(***************************************************************************)
(* Properties                                                              *)
(***************************************************************************)

BoundServer == bound[IF Legacy THEN "legacy_source" ELSE "identity"][1].server

(* Every read of a context that came to hold a final confirmation          *)
(* (clickhouse_endpoint.py:611) found the content whose fingerprint was    *)
(* bound and confirmed, of the version the manifest locates, unfiltered by *)
(* a row policy, on the server the context was bound to and while the      *)
(* manifest's publication was the head: whatever happened between the      *)
(* requests, and although no two of them share a snapshot.                 *)
ConfirmedReadsAreOfOneVersion ==
  confirmed =>
    \A s \in seen : /\ s.id = ManifestId /\ s.server = BoundServer
                    /\ s.rows = bound["fingerprint"][1].value[1] /\ ~s.hidden
                    /\ s.head = ManifestRevision
================================================================================
