---------------------------- MODULE RunLifecycle ----------------------------
(***************************************************************************)
(* The durable life of a run in the PostgreSQL metadata store              *)
(* (persistence/lifecycle.py): run claims, leased attempts, protected read *)
(* contexts, the input cut bound once per run, and the one outcome a run   *)
(* publishes.                                                              *)
(*                                                                         *)
(* Everything stored for one run is one value of db, because every writer  *)
(* except the claim takes the run row FOR UPDATE before it reads anything. *)
(* A writer transaction is three steps, so that time and other sessions    *)
(* move between them: an operation reads, checks and stages its rows;      *)
(* SendCommit re-reads the database clock against the lease read before    *)
(* the mutation (_commit_fenced_result); Commit makes the rows durable and *)
(* frees the lock.  A session may roll back at any point before Commit.    *)
(*                                                                         *)
(* A caller presents the RunAttemptRecord it holds, which may be stale or  *)
(* another invocation's: its token and revision are arbitrary here.  An    *)
(* operation that finds its own receipt changes nothing and is not a step; *)
(* CommitReconciliation models receipts, replays and the advisory locks on *)
(* operation UUIDs that protect them.  The unique indexes and CHECK        *)
(* constraints of the schema repeat what the code establishes and are left *)
(* out, so that the properties are shown of the code alone.  The one       *)
(* exception, where the schema is the only guard, is named.                *)
(***************************************************************************)
EXTENDS Naturals, Sequences, AttemptClosure

CONSTANTS
    Sessions,         \* database sessions that may be open at once
    RunIds,           \* candidate run UUIDs
    Invocations,      \* processes; each is its own owner token
    Requests,         \* request UUIDs
    Payloads,         \* canonical request payloads
    RequestOf,        \* the request UUID an invocation was given
    PayloadOf,        \* the request payload it computed
    ClickHouseSides,  \* the sides read through ClickHouse
    Cuts,             \* aligned input cuts
    BindingOps,       \* cut binding operation UUIDs a caller may present
    MaxAttempts,      \* execution_policy.max_attempts
    MaxRevision,      \* bound on lease renewals of one attempt
    MaxClock          \* bound on the database clock

FailedStatuses == {"incomplete", "error"}
EndedStatuses == FailedStatuses \cup {"completed", "abandoned"}
AttemptStatuses == EndedStatuses \cup {"running"}
Results == {"none", "completed", "partial"}

ASSUME ConstantsAssumption ==
    /\ RequestOf \in [Invocations -> Requests]
    /\ PayloadOf \in [Invocations -> Payloads]
    /\ MaxAttempts \in Nat \ {0}
    /\ MaxRevision \in Nat
    /\ MaxClock \in Nat
    /\ None \notin Requests \cup Payloads \cup Cuts \cup BindingOps

VARIABLES
    clock,   \* clock_timestamp() of the metadata server
    db,      \* committed rows, one aggregate per run
    txn      \* the writer transaction each session has open

vars == <<clock, db, txn>>

Times == Nat

Attempt ==
    [owner_token : Invocations, lease_revision : Nat, lease_expires_at : Times,
     status : AttemptStatuses, input_cut : Cuts \cup {None},
     observations : SUBSET Sides, contexts : [Sides -> ContextStates],
     closure_evidence : SUBSET Sides, result : Results, stable_reads : StableReads]

Run ==
    [request : Requests \cup {None}, payload : Payloads \cup {None},
     bound_cut : Cuts \cup {None}, cut_binding : BindingOps \cup {None},
     selected : Nat, attempts : Seq(Attempt)]

NoRun ==
    [request |-> None, payload |-> None, bound_cut |-> None, cut_binding |-> None,
     selected |-> 0, attempts |-> <<>>]

NewAttempt(owner, expiry) ==
    [owner_token |-> owner, lease_revision |-> 0, lease_expires_at |-> expiry,
     status |-> "running", input_cut |-> None, observations |-> {},
     contexts |-> [d \in Sides |-> "absent"], closure_evidence |-> {},
     result |-> "none", stable_reads |-> "unknown"]

Locks == ({"request"} \X Requests) \cup ({"run"} \X RunIds)

(* phase "staged": rows written, COMMIT not sent; "committing": sent.      *)
Transaction ==
    [phase : {"staged", "committing"}, lock : Locks, run : RunIds, rows : Run,
     fenced : BOOLEAN, lease : Times]

Idle == [phase |-> "idle"]

(* Rows, and the transactions that write them, have the columns and value  *)
(* sets of the schema (0002_run_lifecycle.sql); an open transaction holds  *)
(* one lock and targets one run.                                           *)
TypeOK ==
    /\ clock \in Times
    /\ db \in [RunIds -> Run]
    /\ txn \in [Sessions -> Transaction \cup {Idle}]

Init ==
    /\ clock = 0
    /\ db = [r \in RunIds |-> NoRun]
    /\ txn = [s \in Sessions |-> Idle]

-----------------------------------------------------------------------------
(* Transactions.  A definition X_Fault before a definition X is a faulty   *)
(* variant of X that shows a property to be sensitive to X; no behaviour   *)
(* of the model uses it.                                                   *)

Open(s) == txn[s].phase # "idle"

(* Advisory and row locks: taken when the transaction begins, held until   *)
(* it ends.                                                                *)
LockFree_NotTaken(lock) == TRUE
LockFree(lock) == \A s \in Sessions : Open(s) => txn[s].lock # lock

RunLock(r) == <<"run", r>>
RequestLock(q) == <<"request", q>>

Stage(s, lock, r, rows, fenced, lease) ==
    /\ txn[s] = Idle
    /\ txn' = [txn EXCEPT ![s] =
                 [phase |-> "staged", lock |-> lock, run |-> r, rows |-> rows,
                  fenced |-> fenced, lease |-> lease]]
    /\ UNCHANGED <<clock, db>>

(* _commit_fenced_result: the lease read before the mutation must still be *)
(* live; otherwise AttemptFenceError and the transaction is rolled back.   *)
CommitFence_NoRecheck(t) == TRUE
CommitFence(t) == t.fenced => t.lease > clock

SendCommit(s) ==
    /\ txn[s].phase = "staged"
    /\ CommitFence(txn[s])
    /\ txn' = [txn EXCEPT ![s].phase = "committing"]
    /\ UNCHANGED <<clock, db>>

Commit(s) ==
    /\ txn[s].phase = "committing"
    /\ db' = [db EXCEPT ![txn[s].run] = txn[s].rows]
    /\ txn' = [txn EXCEPT ![s] = Idle]
    /\ UNCHANGED clock

(* A raised error, a lost connection or a server restart.                  *)
Rollback(s) ==
    /\ Open(s)
    /\ txn' = [txn EXCEPT ![s] = Idle]
    /\ UNCHANGED <<clock, db>>

Tick ==
    /\ clock < MaxClock
    /\ clock' = clock + 1
    /\ UNCHANGED <<db, txn>>

-----------------------------------------------------------------------------
(* Operations.  i is the owner token and rev the lease revision of the     *)
(* record the caller presents; k is the ordinal of the attempt.            *)

ClaimRun(s, i, r) ==
    LET q == RequestOf[i] IN
    /\ LockFree(RequestLock(q))
    /\ \A other \in RunIds : db[other].request # q
    /\ db[r].request = None
    /\ \A o \in Sessions : Open(o) => txn[o].run # r   \* candidate UUIDs are fresh
    /\ Stage(s, RequestLock(q), r,
             [NoRun EXCEPT !.request = q, !.payload = PayloadOf[i]], FALSE, 0)

(* _claimed_run_from_row: the stored request is the caller's, in full.     *)
RequestMatches(r, i) ==
    /\ db[r].request = RequestOf[i]
    /\ db[r].payload = PayloadOf[i]

NotTerminal_Unchecked(run) == TRUE
NotTerminal(run) == run.selected = 0

NoneRunning_Unchecked(run) == TRUE
NoneRunning(run) ==
    \A k \in 1..Len(run.attempts) : run.attempts[k].status # "running"

(* A fresh process cannot continue attempts another process admitted.      *)
SameInvocation_Unchecked(run, i) == TRUE
SameInvocation(run, i) ==
    \A k \in 1..Len(run.attempts) : run.attempts[k].owner_token = i

StartAttempt(s, i, r, expiry) ==
    LET run == db[r] IN
    /\ LockFree(RunLock(r))
    /\ RequestMatches(r, i)
    /\ NotTerminal(run)
    /\ NoneRunning(run)
    /\ SameInvocation(run, i)
    /\ Len(run.attempts) < MaxAttempts
    /\ expiry > clock
    /\ Stage(s, RunLock(r), r,
             [run EXCEPT !.attempts = Append(@, NewAttempt(i, expiry))], TRUE, expiry)

(* _require_attempt_fence_row                                              *)
AttemptFence_AnyStatus(a, i, rev) ==
    /\ a.owner_token = i
    /\ a.lease_revision = rev
    /\ a.lease_expires_at > clock
AttemptFence(a, i, rev) ==
    /\ a.owner_token = i
    /\ a.lease_revision = rev
    /\ a.status = "running"
    /\ a.lease_expires_at > clock

PutAttempt(run, k, a) == [run EXCEPT !.attempts[k] = a]

(* Every operation on a running attempt: lock the run and the attempt,     *)
(* pass the fence, stage rows under the lease as read.                     *)
FencedWrite(s, i, r, k, rev, rows) ==
    /\ LockFree(RunLock(r))
    /\ RequestMatches(r, i)
    /\ AttemptFence(db[r].attempts[k], i, rev)
    /\ Stage(s, RunLock(r), r, rows, TRUE, db[r].attempts[k].lease_expires_at)

ExtendsLease(a, expiry) == expiry > a.lease_expires_at

RenewAttempt(s, i, r, k, rev, expiry) ==
    LET a == db[r].attempts[k] IN
    /\ rev < MaxRevision
    /\ ExtendsLease(a, expiry)
    /\ FencedWrite(s, i, r, k, rev,
         PutAttempt(db[r], k, [a EXCEPT !.lease_revision = @ + 1,
                                        !.lease_expires_at = expiry]))

(* One context per dataset of an attempt is the schema's guard.            *)
PersistContext(s, i, r, k, rev, d) ==
    LET a == db[r].attempts[k] IN
    /\ a.contexts[d] = "absent"
    /\ FencedWrite(s, i, r, k, rev,
         PutAttempt(db[r], k, [a EXCEPT !.contexts[d] = "active"]))

(* The first aligned cut is bound to the run; a later attempt must present *)
(* the same cut under the same binding operation.                          *)
CutAdmissible_AnyCut(run, cut, binding) == TRUE
CutAdmissible(run, cut, binding) ==
    run.bound_cut # None => /\ run.bound_cut = cut
                            /\ run.cut_binding = binding

(* _persist_observation: the context an observation refers to is stored as *)
(* active.                                                                 *)
ObservationAdmissible(a, d) == a.contexts[d] = "active"

PersistCut(s, i, r, k, rev, cut, binding) ==
    LET a == db[r].attempts[k] IN
    /\ \A other \in RunIds \ {r} : db[other].cut_binding # binding
    /\ NotTerminal(db[r])
    /\ CutAdmissible(db[r], cut, binding)
    /\ a.input_cut = None
    /\ \A d \in Sides : ObservationAdmissible(a, d)
    /\ FencedWrite(s, i, r, k, rev,
         [PutAttempt(db[r], k, [a EXCEPT !.input_cut = cut, !.observations = Sides])
            EXCEPT !.bound_cut = cut, !.cut_binding = binding])

(* _finish_context_once refuses to close a ClickHouse context;             *)
(* _close_clickhouse_context_once stores the final confirmation with it.   *)
GenericContextEndSupported(d) == d \notin ClickHouseSides

CloseContext(s, i, r, k, rev, d) ==
    LET a == db[r].attempts[k] IN
    /\ a.contexts[d] = "active"
    /\ GenericContextEndSupported(d)
    /\ FencedWrite(s, i, r, k, rev,
         PutAttempt(db[r], k, [a EXCEPT !.contexts[d] = "closed"]))

CloseClickHouseContext(s, i, r, k, rev, d) ==
    LET a == db[r].attempts[k] IN
    /\ a.contexts[d] = "active"
    /\ d \in ClickHouseSides
    /\ FencedWrite(s, i, r, k, rev,
         PutAttempt(db[r], k, [a EXCEPT !.contexts[d] = "closed",
                                        !.closure_evidence = @ \cup {d}]))

MarkContextLost(s, i, r, k, rev, d) ==
    LET a == db[r].attempts[k] IN
    /\ a.contexts[d] = "active"
    /\ FencedWrite(s, i, r, k, rev,
         PutAttempt(db[r], k, [a EXCEPT !.contexts[d] = "lost"]))

-----------------------------------------------------------------------------
(* Outcomes                                                                *)

EndAttempt_Swapped(run, k, status, result, level) ==
    PutAttempt(run, k, [run.attempts[k] EXCEPT !.status = result, !.result = status,
                                               !.stable_reads = level])
EndAttempt(run, k, status, result, level) ==
    PutAttempt(run, k, [run.attempts[k] EXCEPT !.status = status, !.result = result,
                                               !.stable_reads = level])

Select(run, k) == [run EXCEPT !.selected = k]

PersistRetryableOutcome(s, i, r, k, rev, status) ==
    /\ NotTerminal(db[r])
    /\ StoredAttemptClosure(db[r], db[r].attempts[k])
    /\ FencedWrite(s, i, r, k, rev, EndAttempt(db[r], k, status, "none", "unknown"))

PublishTerminalOutcome(s, i, r, k, rev, status) ==
    /\ NotTerminal(db[r])
    /\ StoredAttemptClosure(db[r], db[r].attempts[k])
    /\ FencedWrite(s, i, r, k, rev,
         Select(EndAttempt(db[r], k, status, "none", "unknown"), k))

PublishCompletedComparison(s, i, r, k, rev, level) ==
    /\ NotTerminal(db[r])
    /\ CompletedClosure(ClickHouseSides, db[r], db[r].attempts[k], level)
    /\ FencedWrite(s, i, r, k, rev,
         Select(EndAttempt(db[r], k, "completed", "completed", level), k))

RecordRetryablePartialComparison(s, i, r, k, rev, status, level) ==
    /\ NotTerminal(db[r])
    /\ PartialClosure(ClickHouseSides, db[r], db[r].attempts[k], level)
    /\ FencedWrite(s, i, r, k, rev, EndAttempt(db[r], k, status, "partial", level))

PublishTerminalPartialComparison(s, i, r, k, rev, status, level) ==
    /\ NotTerminal(db[r])
    /\ PartialClosure(ClickHouseSides, db[r], db[r].attempts[k], level)
    /\ FencedWrite(s, i, r, k, rev,
         Select(EndAttempt(db[r], k, status, "partial", level), k))

(* Maintenance: no owner token or revision is asked for, only an expired   *)
(* lease; every active context is lost; committed without a fence.         *)
LeaseExpired_Early(a) == a.lease_expires_at <= clock + 1
LeaseExpired(a) == a.lease_expires_at <= clock

AbandonAttempt(s, i, r, k) ==
    LET a == db[r].attempts[k]
        lost == [d \in Sides |-> IF a.contexts[d] = "active" THEN "lost" ELSE a.contexts[d]]
    IN
    /\ LockFree(RunLock(r))
    /\ RequestMatches(r, i)
    /\ a.status = "running"
    /\ LeaseExpired(a)
    /\ Stage(s, RunLock(r), r,
             PutAttempt(db[r], k, [a EXCEPT !.status = "abandoned", !.contexts = lost]),
             FALSE, 0)

-----------------------------------------------------------------------------
ContextStep(s, i, r, k, rev) ==
    \E d \in Sides :
        \/ PersistContext(s, i, r, k, rev, d)
        \/ CloseContext(s, i, r, k, rev, d)
        \/ CloseClickHouseContext(s, i, r, k, rev, d)
        \/ MarkContextLost(s, i, r, k, rev, d)

OutcomeStep(s, i, r, k, rev) ==
    \/ \E status \in FailedStatuses :
          \/ PersistRetryableOutcome(s, i, r, k, rev, status)
          \/ PublishTerminalOutcome(s, i, r, k, rev, status)
          \/ \E level \in StableReads :
                \/ RecordRetryablePartialComparison(s, i, r, k, rev, status, level)
                \/ PublishTerminalPartialComparison(s, i, r, k, rev, status, level)
    \/ \E level \in StableReads : PublishCompletedComparison(s, i, r, k, rev, level)

AttemptStep(s, i, r, k) ==
    \/ \E rev \in 0..MaxRevision :
          \/ \E expiry \in 1..MaxClock + 1 : RenewAttempt(s, i, r, k, rev, expiry)
          \/ ContextStep(s, i, r, k, rev)
          \/ \E cut \in Cuts, binding \in BindingOps :
                PersistCut(s, i, r, k, rev, cut, binding)
          \/ OutcomeStep(s, i, r, k, rev)
    \/ AbandonAttempt(s, i, r, k)

Next ==
    \/ Tick
    \/ \E s \in Sessions :
          \/ SendCommit(s)
          \/ Commit(s)
          \/ Rollback(s)
          \/ \E i \in Invocations, r \in RunIds :
                \/ ClaimRun(s, i, r)
                \/ \E expiry \in 1..MaxClock + 1 : StartAttempt(s, i, r, expiry)
                \/ \E k \in 1..Len(db[r].attempts) : AttemptStep(s, i, r, k)

Spec == Init /\ [][Next]_vars

-----------------------------------------------------------------------------
(* Safety                                                                  *)

Ended(a) == a.status \in EndedStatuses

(* A request UUID never names two runs, however many processes claim it at *)
(* once (claim_postgres_run under the request's advisory lock).            *)
OneRunPerRequest ==
    \A r1, r2 \in RunIds :
        db[r1].request # None /\ db[r1].request = db[r2].request => r1 = r2

(* Only the newest attempt of a run can be running, and none once an       *)
(* outcome is selected: no two processes ever execute the same run.        *)
OneRunningAttempt ==
    \A r \in RunIds : \A k \in 1..Len(db[r].attempts) :
        db[r].attempts[k].status = "running" =>
            k = Len(db[r].attempts) /\ db[r].selected = 0

(* All attempts of a run come from one invocation, the one whose full      *)
(* request the run stores, and stay within max_attempts: whole-run source  *)
(* budgets are kept in that process's memory (guides/postgresql.md:95).    *)
SingleInvocation ==
    \A r \in RunIds :
        /\ Len(db[r].attempts) <= MaxAttempts
        /\ \A k, l \in 1..Len(db[r].attempts) :
              /\ db[r].attempts[k].owner_token = db[r].attempts[l].owner_token
              /\ RequestMatches(r, db[r].attempts[k].owner_token)

(* However starts, abandonments and late records of several processes race *)
(* (_start_attempt_once, lifecycle.py:2219), one attempt runs at a time,   *)
(* and all of a run's attempts are of one invocation.                      *)
AttemptsAreExclusive ==
    /\ OneRunningAttempt
    /\ SingleInvocation

(* Every cut an attempt observed is the cut bound to its run, and it is    *)
(* stored with both observations or not at all.                            *)
CutAgreement ==
    \A r \in RunIds : \A k \in 1..Len(db[r].attempts) :
        LET a == db[r].attempts[k] IN
        IF a.input_cut = None
        THEN a.observations = {}
        ELSE a.observations = Sides /\ db[r].bound_cut = a.input_cut

(* What the readers validate (history, diff, terminal readback) holds of   *)
(* every ended attempt for ever: no active context, a completed result     *)
(* only with both contexts closed under the bound cut, a partial result    *)
(* only with both contexts ended, and asserted stable reads only with a    *)
(* confirmed ClickHouse closure.                                           *)
OutcomeReadable(cut, a) ==
    /\ \A d \in Sides : a.contexts[d] # "active"
    /\ a.result = "completed" <=> a.status = "completed"
    /\ a.result # "none" =>
          /\ a.input_cut # None
          /\ a.input_cut = cut
          /\ \A d \in Sides :
                IF a.result = "completed"
                THEN a.contexts[d] = "closed"
                ELSE a.contexts[d] \in {"closed", "lost"}
    /\ a.result = "completed" => a.stable_reads # "unknown"
    /\ a.stable_reads = "verified" => ClickHouseSides = {}
    /\ a.stable_reads = "asserted" =>
          \A d \in Sides : /\ a.contexts[d] = "closed"
                           /\ d \in ClickHouseSides => d \in a.closure_evidence

EndedAttemptsReadable ==
    \A r \in RunIds : \A k \in 1..Len(db[r].attempts) :
        Ended(db[r].attempts[k]) => OutcomeReadable(db[r].bound_cut, db[r].attempts[k])

(* The selected attempt is the last one and ended by publication, and a    *)
(* completed attempt is always the selected one.                           *)
SelectedOutcome ==
    \A r \in RunIds :
        /\ db[r].selected # 0 =>
              /\ db[r].selected = Len(db[r].attempts)
              /\ db[r].attempts[db[r].selected].status \in FailedStatuses \cup {"completed"}
        /\ \A k \in 1..Len(db[r].attempts) :
              db[r].attempts[k].status = "completed" => db[r].selected = k

-----------------------------------------------------------------------------
(* What no step may do                                                     *)

(* Once a run has a selected outcome nothing stored for it changes again.  *)
TerminalRunKept ==
    \A r \in RunIds : db[r].selected # 0 => db'[r] = db[r]

(* An attempt that has ended, abandoned ones included, is never written    *)
(* again: a process that lost its lease cannot add contexts, observations  *)
(* or a result to it.                                                      *)
EndedAttemptKept ==
    \A r \in RunIds : \A k \in 1..Len(db[r].attempts) :
        Ended(db[r].attempts[k]) =>
            /\ k <= Len(db'[r].attempts)
            /\ db'[r].attempts[k] = db[r].attempts[k]

(* The request, the first cut with its binding operation, and the owner of *)
(* an attempt are written once.                                            *)
FactsKept ==
    \A r \in RunIds :
        /\ db[r].request # None => /\ db'[r].request = db[r].request
                                   /\ db'[r].payload = db[r].payload
        /\ db[r].bound_cut # None => /\ db'[r].bound_cut = db[r].bound_cut
                                     /\ db'[r].cut_binding = db[r].cut_binding
        /\ \A k \in 1..Len(db[r].attempts) :
              /\ k <= Len(db'[r].attempts)
              /\ db'[r].attempts[k].owner_token = db[r].attempts[k].owner_token
              /\ db[r].attempts[k].input_cut # None =>
                    db'[r].attempts[k].input_cut = db[r].attempts[k].input_cut

(* What the store has recorded is final, whoever still holds an old record *)
(* of it (_require_attempt_fence_row, lifecycle.py:12056): a run with an   *)
(* outcome, an ended attempt, and the facts written once.                  *)
RecordsAreFinal ==
    [][TerminalRunKept /\ EndedAttemptKept /\ FactsKept]_vars

(* A lease is extended exactly when its revision grows, so a record with   *)
(* the current revision knows the current expiry.                          *)
LeaseFollowsRevision ==
    [][\A r \in RunIds : \A k \in 1..Len(db[r].attempts) :
          LET a == db[r].attempts[k]
              b == db'[r].attempts[k]
          IN  \/ /\ b.lease_revision = a.lease_revision
                 /\ b.lease_expires_at = a.lease_expires_at
              \/ /\ b.lease_revision = a.lease_revision + 1
                 /\ b.lease_expires_at > a.lease_expires_at]_vars

(* COMMIT of a write by an attempt's owner is only sent while the lease    *)
(* stored for that attempt is live: an extension the same transaction asks *)
(* for does not count.                                                     *)
CommitSentUnderLease ==
    \A s \in Sessions :
        txn[s].phase = "staged" /\ txn'[s].phase = "committing" =>
            \A k \in 1..Len(db[txn[s].run].attempts) :
                LET a == db[txn[s].run].attempts[k]
                    b == txn[s].rows.attempts[k]
                IN  b # a /\ b.status # "abandoned" => a.lease_expires_at > clock

(* The converse for maintenance: an attempt is only ever abandoned after   *)
(* the lease stored for it has expired.                                    *)
AbandonedAfterExpiry ==
    \A r \in RunIds : \A k \in 1..Len(db[r].attempts) :
        /\ db[r].attempts[k].status = "running"
        /\ db'[r].attempts[k].status = "abandoned"
        => db[r].attempts[k].lease_expires_at <= clock

(* A lease divides time between its owner and maintenance: the owner sends *)
(* no COMMIT after it (lifecycle.py:13371) and maintenance ends nothing    *)
(* before it (:4771).                                                      *)
LeaseIsHonoured ==
    [][CommitSentUnderLease /\ AbandonedAfterExpiry]_vars
-----------------------------------------------------------------------------
(* Refinement                                                              *)

OutcomeOf(run) ==
    IF run.selected = 0 THEN None
    ELSE [status |-> run.attempts[run.selected].status,
          result |-> run.attempts[run.selected].result,
          cut |-> run.attempts[run.selected].input_cut]

Promise == INSTANCE RunOutcome WITH
    request <- [r \in RunIds |-> db[r].request],
    payload <- [r \in RunIds |-> db[r].payload],
    cut <- [r \in RunIds |-> db[r].bound_cut],
    outcome <- [r \in RunIds |-> OutcomeOf(db[r])]

(* Seen from outside, claims, leases, retries and abandonment amount to    *)
(* one request, one cut and one final outcome per run (RunOutcome).        *)
ImplementsRunOutcome == Promise!Spec

=============================================================================
