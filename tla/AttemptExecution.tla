-------------------------- MODULE AttemptExecution --------------------------
(***************************************************************************)
(* One call of execute_check (application.py) against a metadata store     *)
(* that serves only this run: attempts are started, both sides are opened, *)
(* their contexts stored and their readiness read, the cut is bound, the   *)
(* rows are compared, every context is released and its end stored, and    *)
(* what is left is published or retried.                                   *)
(*                                                                         *)
(* Between any two steps the process may die.  Every source call may fail; *)
(* every metadata call may raise LifecyclePersistenceError, with its rows  *)
(* stored or not (a lost lease, a conflict, an unknown commit): what those *)
(* calls do inside is RunLifecycle and CommitReconciliation.               *)
(***************************************************************************)
EXTENDS Naturals, Sequences, AttemptFailure

CONSTANTS
    Cuts,         \* aligned input cuts the sources may present
    MaxAttempts,  \* execution.max_attempts
    Acquisitions  \* the sets of sides a contract may read through ClickHouse

ASSUME ExecutionAssumption ==
    /\ MaxAttempts \in Nat \ {0}
    /\ None \notin Cuts \cup Sides
    /\ \A c \in Acquisitions : c \subseteq Sides /\ c # Sides  \* _declared_clickhouse_direction

VARIABLES
    pc,        \* the step execute_check takes next
    side,      \* the side it is opening or releasing
    context,   \* the protected contexts held in memory
    receipt,   \* the sides whose PersistedReadContext was returned
    artifact,  \* the completed comparison, or None
    failure,   \* the failure of the attempt, or None
    cleanup,   \* the failure of releasing contexts, or None
    ending,    \* how the context just released ended
    broken,    \* a metadata call has raised
    store,     \* the run's rows in the metadata store
    reply      \* how the call ended

attemptVars == <<side, context, receipt, artifact, failure, cleanup, ending, broken>>
vars == <<pc, attemptVars, store, reply>>

Steps ==
    {"start", "open", "persist", "ready", "align", "compare", "close", "record_end",
     "settle", "publish", "stopped"}

Artifacts ==
    [verdict : {"match", "mismatch"}, structural : BOOLEAN, stable_reads : StableReads]

Attempt ==
    [status : {"running", "completed", "incomplete", "error"}, contexts : [Sides -> ContextStates],
     observations : SUBSET Sides, input_cut : Cuts \cup {None},
     closure_evidence : SUBSET Sides]

(* None is Python's: no record of the program.                             *)
ASSUME NoneAssumption ==
    None \notin Artifacts \cup Reasons \cup Partials \cup Failures \cup CleanupFailures

NewAttempt ==
    [status |-> "running", contexts |-> [d \in Sides |-> "absent"], observations |-> {},
     input_cut |-> None, closure_evidence |-> {}]

Pending == [kind |-> "none", status |-> None, verdict |-> None]
Ended(kind) == [kind |-> kind, status |-> None, verdict |-> None]

(* The locals of execute_check, _execute_attempt and                       *)
(* _close_attempt_resources, and the rows they have stored.                *)
TypeOK ==
    /\ pc \in Steps
    /\ side \in Sides
    /\ context \in [Sides -> ContextStates]
    /\ receipt \subseteq Sides
    /\ artifact \in Artifacts \cup {None}
    /\ failure = None \/ failure \in Failures
    /\ cleanup = None \/ cleanup \in CleanupFailures
    /\ ending \in {"closed", "lost", None}
    /\ broken \in BOOLEAN
    /\ store.clickhouse \in Acquisitions
    /\ store.bound_cut \in Cuts \cup {None}
    /\ store.selected \in 0..MaxAttempts
    /\ Len(store.attempts) <= MaxAttempts
    /\ \A k \in 1..Len(store.attempts) : store.attempts[k] \in Attempt
    /\ reply.kind \in {"none", "result", "raised", "refused", "crashed"}

Init ==
    /\ pc = "start"
    /\ side = "reference"
    /\ context = [d \in Sides |-> "absent"]
    /\ receipt = {}
    /\ artifact = None /\ failure = None /\ cleanup = None /\ ending = None
    /\ broken = FALSE
    /\ \E c \in Acquisitions :
          store = [clickhouse |-> c, bound_cut |-> None, selected |-> 0, attempts |-> <<>>]
    /\ reply = Pending

-----------------------------------------------------------------------------
(* The sides the bound contract reads through ClickHouse.                  *)
ClickHouseSides == store.clickhouse
Ordinal == Len(store.attempts)
Current == store.attempts[Ordinal]
WithCurrent(a) == [store EXCEPT !.attempts[Ordinal] = a]

(* The call is over; of its locals only the contexts matter any longer.    *)
Forget ==
    /\ receipt' = {}
    /\ artifact' = None /\ failure' = None /\ cleanup' = None /\ ending' = None
    /\ broken' = FALSE
    /\ UNCHANGED <<side, context>>

Stop(answer) ==
    /\ pc' = "stopped"
    /\ reply' = answer
    /\ Forget

(* The finally clause: release the opened sides, reference first.          *)
BeginCleanup ==
    /\ pc' = IF context["reference"] = "absent" THEN "settle" ELSE "close"
    /\ side' = "reference"

Fail(f) ==
    /\ failure' = f
    /\ BeginCleanup
    /\ UNCHANGED <<receipt, artifact, cleanup, ending, broken, store, reply>>

(* A metadata call raised outside the cleanup: nothing in _execute_attempt *)
(* catches it, but the contexts are still released.                        *)
RaiseAfterCleanup ==
    /\ broken' = TRUE
    /\ BeginCleanup
    /\ UNCHANGED <<context, receipt, artifact, failure, cleanup, ending, reply>>

(* The store admits max_attempts attempts.                                 *)
StartAttempt ==
    LET admitted == Ordinal < MaxAttempts
        rows == IF admitted THEN [store EXCEPT !.attempts = Append(@, NewAttempt)] ELSE store
    IN
    /\ pc = "start"
    /\ \/ /\ admitted
          /\ store' = rows
          /\ pc' = "open"
          /\ side' = "reference"
          /\ context' = [d \in Sides |-> "absent"]
          /\ receipt' = {}
          /\ artifact' = None /\ failure' = None /\ cleanup' = None /\ ending' = None
          /\ UNCHANGED <<broken, reply>>
       \/ /\ store' \in {store, rows}
          /\ Stop(Ended("raised"))

(* classify_check_acquisition: the contract itself is not executable.      *)
StaticOutcome ==
    /\ pc = "open" /\ side = "reference" /\ Ordinal = 1
    /\ failure' = FailureFromError("unsupported_capability")
    /\ pc' = "settle"
    /\ UNCHANGED <<side, context, receipt, artifact, cleanup, ending, broken, store, reply>>

EarlyCodes == {"not_ready", "cut_mismatch", "unsupported_capability"}
SourceErrorCodes == (IncompleteCodes \cup ErrorCodes)
                      \ {"not_ready", "cut_mismatch", "lossy_transport"}

(* _open_side: a context that cannot be opened is not a resource.  Only    *)
(* ClickHouse reads its readiness manifest while it opens.                 *)
OpenSide ==
    /\ pc = "open"
    /\ pc' = "persist"
    /\ context' = [context EXCEPT ![side] = "active"]
    /\ UNCHANGED <<side, receipt, artifact, failure, cleanup, ending, broken, store, reply>>

OpenSideFails(code) ==
    /\ pc = "open"
    /\ code \in SourceErrorCodes \cup (IF side \in ClickHouseSides THEN EarlyCodes ELSE {})
    /\ UNCHANGED context
    /\ Fail(FailureFromError(code))

PersistContext ==
    LET rows == WithCurrent([Current EXCEPT !.contexts[side] = "active"]) IN
    /\ pc = "persist"
    /\ \/ /\ store' = rows
          /\ pc' = "ready"
          /\ receipt' = receipt \cup {side}
          /\ UNCHANGED <<side, context, artifact, failure, cleanup, ending, broken, reply>>
       \/ /\ store' \in {store, rows}
          /\ RaiseAfterCleanup

ReadReadiness ==
    /\ pc = "ready"
    /\ pc' = IF side = "reference" THEN "open" ELSE "align"
    /\ side' = "target"
    /\ UNCHANGED <<context, receipt, artifact, failure, cleanup, ending, broken, store, reply>>

(* An early outcome leaves the context active; an error may lose it.       *)
ReadReadinessFails(code, lost) ==
    /\ pc = "ready"
    /\ side \notin ClickHouseSides
    /\ code \in SourceErrorCodes \cup EarlyCodes
    /\ lost => code \in SourceErrorCodes
    /\ context' = [context EXCEPT ![side] = IF lost THEN "lost" ELSE @]
    /\ Fail(FailureFromError(code))

CutNotAligned ==
    /\ pc = "align"
    /\ UNCHANGED context
    /\ Fail(FailureFromError("cut_mismatch"))

(* persist_postgres_aligned_input_cut raises InputCutMismatchError, a      *)
(* LifecyclePersistenceError, when a retry observes another cut.           *)
PersistCut(cut) ==
    LET admissible == store.bound_cut \in {None, cut}
        rows == IF admissible
                THEN [WithCurrent([Current EXCEPT !.input_cut = cut, !.observations = Sides])
                        EXCEPT !.bound_cut = cut]
                ELSE store
    IN
    /\ pc = "align"
    /\ \/ /\ admissible
          /\ store' = rows
          /\ pc' = "compare"
          /\ UNCHANGED <<attemptVars, reply>>
       \/ /\ store' \in {store, rows}
          /\ RaiseAfterCleanup

-----------------------------------------------------------------------------
(* Comparison                                                              *)

(* _comparison_stable_read_level                                           *)
StableReadLevel(ctx) ==
    CASE \E d \in Sides : ctx[d] # "active" -> "unknown"
      [] (\A d \in Sides : ctx[d] = "active") /\ ClickHouseSides # {} -> "asserted"
      [] OTHER -> "verified"

CompareCompletes(verdict, structural) ==
    /\ pc = "compare"
    /\ structural => verdict = "mismatch"
    /\ artifact' = [verdict |-> verdict, structural |-> structural,
                    stable_reads |-> StableReadLevel(context)]
    /\ UNCHANGED <<context, receipt, failure, cleanup, ending, broken, store, reply>>
    /\ BeginCleanup

(* The context an interruption loses: none when the coordinator itself     *)
(* stopped; a ClickHouse context does not survive an error of its own.     *)
(* _interruption_reason_code tells how a ClickHouse query that failed or   *)
(* ran out of time was ended.                                              *)
UnresolvedCodes(code, lost) ==
    IF lost \in ClickHouseSides /\ code \in {"budget_exhausted", "query_error"}
    THEN {code, "cancelled", "cancellation_unconfirmed"}
    ELSE {code}

CompareInterrupted(code, progress, lost, unresolved, contract) ==
    /\ pc = "compare"
    /\ code = "lossy_transport" => progress = "summarised" /\ lost = None
    /\ contract => code = "lossy_transport"
    /\ code = "cancelled" => lost \notin ClickHouseSides
    /\ unresolved \in UnresolvedCodes(code, lost)
    /\ context' = IF lost = None THEN context ELSE [context EXCEPT ![lost] = "lost"]
    /\ Fail(FailureFromComparisonInterruption(code,
              InterruptedPartial(progress, StableReadLevel(context'), unresolved, contract),
              contract))

(* MssqlLoweringError is no comparison error and leaves no partial result. *)
CompareNotLowered ==
    /\ pc = "compare"
    /\ UNCHANGED context
    /\ Fail(FailureFromError("unsupported_capability"))

-----------------------------------------------------------------------------
(* Release of contexts: _close_attempt_resources                           *)

Outcome(end, reason, additional) == [end |-> end, reason |-> reason, additional |-> additional]
CleanClose == Outcome("closed", None, {})
ContextLoss == Outcome("lost", Reason("snapshot_lost", "close_read_context"), {})
CleanupUncertain ==
    Outcome("lost", Reason("cancellation_unconfirmed", "close_read_context"), {})

(* What close() of a context in the given state may do, and the reason it  *)
(* becomes.  An active ClickHouse context is confirmed before it closes.   *)
CloseOutcomes(d, state) ==
    CASE d \in ClickHouseSides /\ state = "active" ->
           {CleanClose, CleanupUncertain,
            Outcome("lost", Reason("cancellation_unconfirmed", "cancel_query"), {})}
           \cup {Outcome("lost", Reason("snapshot_lost", "confirm"), {Reason(code, "confirm")}) :
                   code \in {"not_ready", "cut_mismatch"}}
           \cup {Outcome("lost", Reason(code, "confirm"), {}) :
                   code \in {"budget_exhausted", "unsupported_capability",
                             "protocol_violation", "query_error"}}
      [] d \in ClickHouseSides /\ state = "lost" -> {ContextLoss, CleanupUncertain}
      [] d \notin ClickHouseSides /\ state = "active" -> {CleanClose, ContextLoss}
      [] OTHER -> {ContextLoss}

AfterResource_SameAgain == pc' = "close" /\ side' = side
AfterResource ==
    /\ pc' = IF side = "reference" /\ context["target"] # "absent" THEN "close" ELSE "settle"
    /\ side' = IF side = "reference" /\ context["target"] # "absent" THEN "target" ELSE side

CloseResource(o) ==
    /\ pc = "close"
    /\ o \in CloseOutcomes(side, context[side])
    /\ context' = [context EXCEPT ![side] = o.end]
    /\ ending' = o.end
    /\ cleanup' = IF o.reason = None THEN cleanup
                  ELSE CombineCleanupFailures(cleanup, [reason |-> o.reason,
                                                        additional |-> o.additional])
    /\ IF side \in receipt THEN pc' = "record_end" /\ UNCHANGED side ELSE AfterResource
    /\ UNCHANGED <<receipt, artifact, failure, broken, store, reply>>

(* The first LifecyclePersistenceError is kept and raised only after every *)
(* context has been released.                                              *)
RecordContextEnd_StopsAtError ==
    LET rows == WithCurrent([Current EXCEPT !.contexts[side] = ending]) IN
    /\ pc = "record_end"
    /\ \/ /\ store' = rows
          /\ AfterResource
          /\ UNCHANGED broken
       \/ /\ store' \in {store, rows}
          /\ pc' = "settle"
          /\ broken' = TRUE
          /\ UNCHANGED side
    /\ UNCHANGED <<context, receipt, artifact, failure, cleanup, ending, reply>>
RecordContextEnd_AlwaysClosed ==
    LET rows == WithCurrent([Current EXCEPT !.contexts[side] = "closed"]) IN
    /\ pc = "record_end"
    /\ store' = rows
    /\ AfterResource
    /\ UNCHANGED <<context, receipt, artifact, failure, cleanup, ending, broken, reply>>
RecordContextEnd ==
    LET confirmed == IF ending = "closed" /\ side \in ClickHouseSides THEN {side} ELSE {}
        rows == WithCurrent([Current EXCEPT !.contexts[side] = ending,
                                            !.closure_evidence = @ \cup confirmed])
    IN
    /\ pc = "record_end"
    /\ \/ store' = rows /\ UNCHANGED broken
       \/ store' \in {store, rows} /\ broken' = TRUE
    /\ AfterResource
    /\ UNCHANGED <<context, receipt, artifact, failure, cleanup, ending, reply>>

-----------------------------------------------------------------------------
(* Publication                                                             *)

RaisePersistenceError ==
    /\ pc = "settle"
    /\ broken
    /\ Stop(Ended("raised"))
    /\ UNCHANGED store

(* The failure of the attempt once the release of its contexts is counted. *)
SettledFailure ==
    CASE cleanup = None -> failure
      [] cleanup # None /\ failure # None -> FailureWithSecondaryContextLoss(failure, cleanup)
      [] OTHER -> FailureFromArtifactContextLoss(artifact, cleanup)

SettleFailure ==
    /\ pc = "settle" /\ ~broken
    /\ pc' = "publish"
    /\ failure' = SettledFailure
    /\ receipt' = {}
    /\ cleanup' = None /\ ending' = None
    /\ UNCHANGED <<side, context, artifact, broken, store, reply>>

MayRetry(f) == f.retryable /\ Ordinal < MaxAttempts

Accepted ==
    IF failure = None
    THEN CompletedClosure(ClickHouseSides, store, Current, artifact.stable_reads)
    ELSE FailureAccepted(ClickHouseSides, store, Current, failure)

Selected(rows) == [rows EXCEPT !.selected = Ordinal]
WithStatus(status) == WithCurrent([Current EXCEPT !.status = status])

PublishCompletedComparison ==
    LET rows == Selected(WithStatus("completed")) IN
    /\ pc = "publish" /\ failure = None /\ Accepted
    /\ \/ /\ store' = rows
          /\ Stop([kind |-> "result", status |-> "completed", verdict |-> artifact.verdict])
       \/ /\ store' \in {store, rows}
          /\ Stop(Ended("raised"))

RecordRetryableFailure_NotStored ==
    /\ pc = "publish" /\ failure # None /\ Accepted
    /\ MayRetry(failure)
    /\ pc' = "start"
    /\ UNCHANGED <<attemptVars, store, reply>>
RecordRetryableFailure ==
    LET rows == WithStatus(failure.status) IN
    /\ pc = "publish" /\ failure # None /\ Accepted
    /\ MayRetry(failure)
    /\ \/ /\ store' = rows
          /\ pc' = "start"
          /\ Forget
          /\ UNCHANGED reply
       \/ /\ store' \in {store, rows}
          /\ Stop(Ended("raised"))

PublishTerminalFailure ==
    LET rows == Selected(WithStatus(failure.status)) IN
    /\ pc = "publish" /\ failure # None /\ Accepted
    /\ ~MayRetry(failure)
    /\ \/ /\ store' = rows
          /\ Stop([kind |-> "result", status |-> failure.status,
                   verdict |-> StoredVerdict(failure)])
       \/ /\ store' \in {store, rows}
          /\ Stop(Ended("raised"))

(* Building the publication raises ValueError; what it was built from is   *)
(* kept for the properties.                                                *)
PublicationRefused ==
    /\ pc = "publish"
    /\ ~Accepted
    /\ pc' = "stopped"
    /\ reply' = Ended("refused")
    /\ UNCHANGED <<attemptVars, store>>

Crash ==
    /\ pc # "stopped"
    /\ Stop(Ended("crashed"))
    /\ UNCHANGED store

-----------------------------------------------------------------------------
Progress == {"unread", "summarised", "witnessed", "exact"}

AcquisitionStep ==
    \/ StartAttempt
    \/ StaticOutcome
    \/ OpenSide
    \/ /\ pc \in {"open", "ready"}
       /\ \E code \in IncompleteCodes \cup ErrorCodes :
             \/ OpenSideFails(code)
             \/ \E lost \in BOOLEAN : ReadReadinessFails(code, lost)
    \/ PersistContext
    \/ ReadReadiness
    \/ CutNotAligned
    \/ \E cut \in Cuts : PersistCut(cut)

CompareStep ==
    \/ \E verdict \in {"match", "mismatch"}, structural \in BOOLEAN :
          CompareCompletes(verdict, structural)
    \/ /\ pc = "compare"
       /\ \E code \in SourceErrorCodes \cup {"lossy_transport"}, progress \in Progress,
             lost \in Sides \cup {None}, contract \in BOOLEAN :
             \E unresolved \in UnresolvedCodes(code, lost) :
                 CompareInterrupted(code, progress, lost, unresolved, contract)
    \/ CompareNotLowered

ReleaseStep ==
    \/ pc = "close" /\ \E o \in CloseOutcomes(side, context[side]) : CloseResource(o)
    \/ RecordContextEnd

PublicationStep ==
    \/ RaisePersistenceError
    \/ SettleFailure
    \/ PublishCompletedComparison
    \/ RecordRetryableFailure
    \/ PublishTerminalFailure
    \/ PublicationRefused

ProcessStep == AcquisitionStep \/ CompareStep \/ ReleaseStep \/ PublicationStep

Next == ProcessStep \/ Crash

Spec == Init /\ [][Next]_vars

(* Source and metadata calls are bounded by deadlines and statement        *)
(* timeouts, so a process that lives takes its next step.                  *)
FairSpec == Spec /\ WF_vars(ProcessStep)

-----------------------------------------------------------------------------
(* However the call ends, short of the death of the process, it holds no   *)
(* protected context: one that cannot be closed, or whose end cannot be    *)
(* stored, does not keep the other open (_close_attempt_resources).        *)
ContextsReleased ==
    pc = "stopped" /\ reply.kind # "crashed" => \A d \in Sides : context[d] # "active"

(* A context is stored as closed only if it was active, with its snapshot  *)
(* intact, until it closed cleanly; ClickHouse evidence only comes with    *)
(* it.                                                                     *)
StoredEndIsReal ==
    Ordinal > 0 /\ pc # "start" =>
        \A d \in Sides :
            /\ Current.contexts[d] = "closed" => context[d] = "closed"
            /\ d \in Current.closure_evidence => Current.contexts[d] = "closed"

(* Both contexts end and their stored ends tell what happened to them,     *)
(* whichever release or metadata write fails (application.py:2252).        *)
ContextsEndTruthfully ==
    /\ ContextsReleased
    /\ StoredEndIsReal

(* The store accepts what the application built from any comparison and    *)
(* any failure of the release of contexts: reasons, severity, verdict,     *)
(* totals and stored rows agree.  The exception is a contract violation    *)
(* whose stable reads were lost; see the findings.                         *)
OutcomeAccepted ==
    reply.kind = "refused" =>
        /\ "contract_violation" \in StoredCodes(failure)
        /\ failure.stable_reads = "unknown"

(* Without a ClickHouse side there is no exception: every outcome the      *)
(* application builds is accepted.                                         *)
NoOutcomeRefused == ClickHouseSides = {} => reply.kind # "refused"

(* A returned result is the selected outcome of the newest attempt, no     *)
(* attempt is left running, and a match was read entirely under contexts   *)
(* that stayed protected until they closed, at the cut of the run.         *)
ReturnedResultIsSelected ==
    reply.kind = "result" =>
        /\ store.selected = Ordinal
        /\ Current.status = reply.status
        /\ \A k \in 1..Ordinal : store.attempts[k].status # "running"
        /\ reply.verdict = "match" =>
              /\ \A d \in Sides : Current.contexts[d] = "closed" /\ context[d] = "closed"
              /\ Current.closure_evidence = ClickHouseSides
              /\ Current.input_cut = store.bound_cut

(* A retry never throws away a completed comparison that found a           *)
(* difference, and never follows a query that may still be running, an     *)
(* exhausted budget or a protocol error, not even one met only while       *)
(* contexts were released.                                                 *)
RetriesAreSafe ==
    [][pc = "publish" /\ pc' = "start" =>
          /\ artifact = None \/ artifact.verdict = "match"
          /\ CodesOf(AllReasons(failure)) \subseteq RetryableCodes \cup {"data_mismatch"}]_vars

(* execute_check ends: retries are bounded and no step waits for ever.     *)
CallEnds == <>(pc = "stopped")

-----------------------------------------------------------------------------
(* Promises of the guide that the code does not keep                       *)

(* An interrupted comparison always leaves its partial result              *)
(* (guides/cli-and-contracts.md:214): it is never refused.                 *)
InterruptedComparisonKept ==
    reply.kind = "refused" => artifact # None \/ failure.partial = None

(* So does a completed structural comparison whose final ClickHouse        *)
(* confirmation was interrupted: it is never refused.                      *)
StructuralComparisonKept ==
    reply.kind = "refused" => artifact = None
=============================================================================
