--------------------------- MODULE SourceRequests ---------------------------
(***************************************************************************)
(* The requests a protected context makes of a source, taken apart.        *)
(*                                                                         *)
(*   "context"    a ClickHouse side, whose requests share no snapshot: its *)
(*                observations and confirmations (ClickHouseReads)         *)
(*   "transport"  the transport below it, with its worker processes        *)
(*                (ClickHouseTransport)                                    *)
(*   "read"       what one comparison read of each of the five engines     *)
(*                means, and what its decoder accepts (RangeReads)         *)
(*   "plan"       for Greenplum and Greengage, the validation of the plan  *)
(*                that must precede a fingerprint read (DistributedPlans)  *)
(*                                                                         *)
(* A context sees of its transport only that it opens or not and that a    *)
(* request answers or raises; the transport sees only that it is called.   *)
(* A rejected plan raises before the read, an accepted one leaves nothing  *)
(* behind.  So a behaviour is one of a single part, with the variables of  *)
(* the others Unused; same-named variables stand for the part's own.       *)
(***************************************************************************)
EXTENDS Naturals, Sequences

CONSTANTS
    Parts,                                     \* the parts that are looked at
    Heads, Contents, ManifestCounts,           \* of the ClickHouse context
    MaxMutationRecords, Ceilings, MaxReads, MaxChanges,
    MaxAttempts, MaxCalls,                     \* of its transport
    Keys, Homes, MaxRows, RangeLists, RecordLimits,  \* of a read
    Ranges, PlanChanges                        \* of a plan

VARIABLES
    part,
    strategy, evidence, profile, server, tables, changes, phase, transport, todo, partial,
    bound, drift, seen, confirmed, outcome,
    protocol, state, attempt, owner, call, calls, error, worker, proc, reply, query, kill,
    late, clock, genuine, result,
    engine, table, ranges, operation, limit, seeds, disturbed,
    validator, plan

Context == INSTANCE ClickHouseReads
Transport == INSTANCE ClickHouseTransport
Reads == INSTANCE RangeReads
Plans == INSTANCE DistributedPlans WITH MaxChanges <- PlanChanges

ASSUME SourceRequestsAssumption ==
    /\ Context!ClickHouseReadsAssumption
    /\ Transport!ClickHouseTransportAssumption
    /\ Reads!RangeReadsAssumption
    /\ Plans!DistributedPlansAssumption

contextOnly == <<strategy, evidence, profile, server, tables, phase, transport, todo, partial,
                 bound, drift, seen, confirmed, outcome>>
transportOnly == <<protocol, state, attempt, owner, call, calls, error, worker, proc, query,
                   kill, late, clock, genuine>>
readOnly == <<engine, table, ranges, operation, limit, seeds, disturbed>>
planOnly == <<validator, plan>>
contextVars == <<contextOnly, changes>>
transportVars == <<transportOnly, reply, result>>
readVars == <<readOnly, reply, result>>
planVars == <<planOnly, changes>>
vars == <<part, contextOnly, transportOnly, readOnly, planOnly, changes, reply, result>>

Unused == "unused"
ContextUnused ==
    /\ strategy = Unused /\ evidence = Unused /\ profile = Unused /\ server = Unused
    /\ tables = Unused /\ phase = Unused /\ transport = Unused
    /\ todo = Unused /\ partial = Unused /\ bound = Unused /\ drift = Unused
    /\ seen = Unused /\ confirmed = FALSE /\ outcome = Unused
TransportUnused ==
    /\ protocol = Unused /\ state = Unused /\ attempt = Unused /\ owner = Unused
    /\ call = Unused /\ calls = Unused /\ error = Unused /\ worker = Unused
    /\ proc = Unused /\ query = Unused /\ kill = Unused
    /\ late = Unused /\ clock = Unused /\ genuine = Unused
ReadUnused ==
    /\ engine = Unused /\ table = Unused /\ ranges = Unused /\ operation = Unused
    /\ limit = Unused /\ seeds = Unused /\ disturbed = Unused
PlanUnused == validator = Unused /\ plan = Unused

Init ==
    /\ part \in Parts
    /\ \/ /\ part = "context" /\ Context!Init
          /\ TransportUnused /\ ReadUnused /\ PlanUnused /\ reply = Unused /\ result = Unused
       \/ /\ part = "transport" /\ Transport!Init
          /\ ContextUnused /\ ReadUnused /\ PlanUnused /\ changes = Unused
       \/ /\ part = "read" /\ Reads!Init
          /\ ContextUnused /\ TransportUnused /\ PlanUnused /\ changes = Unused
       \/ /\ part = "plan" /\ Plans!Init
          /\ ContextUnused /\ TransportUnused /\ ReadUnused /\ reply = Unused /\ result = Unused

Next ==
    \/ /\ part = "context" /\ Context!Next
       /\ UNCHANGED <<part, transportOnly, readOnly, planOnly, reply, result>>
    \/ /\ part = "transport" /\ Transport!Next
       /\ UNCHANGED <<part, contextOnly, readOnly, planOnly, changes>>
    \/ /\ part = "read" /\ Reads!Next
       /\ UNCHANGED <<part, contextOnly, transportOnly, planOnly, changes>>
    \/ /\ part = "plan" /\ Plans!Next
       /\ UNCHANGED <<part, contextOnly, transportOnly, readOnly, reply, result>>

Spec == Init /\ [][Next]_vars

-----------------------------------------------------------------------------
(* Reads that end with a final confirmation all found one version, on one  *)
(* server, under the head the manifest names, although no two requests     *)
(* share a snapshot (clickhouse_endpoint.py:611).                          *)
ConfirmedReadsAreOfOneVersion == part = "context" => Context!ConfirmedReadsAreOfOneVersion

(* The source slot is given back, or the open tried again, only when the   *)
(* server works on no query of the transport, none can still arrive and no *)
(* worker process is left (clickhouse.py:1404, 1763).                      *)
ReleasedSlotIsIdle == part = "transport" => Transport!ReleasedSlotIsIdle

(* A payload handed to the caller is the whole answer of its own query,    *)
(* and the next call cannot take a late outcome for its own                *)
(* (clickhouse_http.py:659, 1083).                                         *)
ReturnedAnswerIsWhole == part = "transport" => Transport!ReturnedAnswerIsWhole

(* An accepted read means the same in every engine, whatever rows lie on   *)
(* the bounds of a range (clickhouse_endpoint_sql.py:272), and a reply     *)
(* that was cut, reordered or duplicated is refused or still well formed   *)
(* (greengage_endpoint.py:1770).                                           *)
AcceptedReadsAreTrue == part = "read" => Reads!AcceptedReadsAreTrue

(* A plan a validator accepts aggregates on the segments before any row    *)
(* moves, and the plans of the supported versions are accepted             *)
(* (greenplum_sql.py:753, greengage_endpoint_sql.py:462).                  *)
AggregatedBelowMotion == part = "plan" => Plans!AggregatedBelowMotion
=============================================================================
