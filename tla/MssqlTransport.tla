--------------------------- MODULE MssqlTransport ---------------------------
(***************************************************************************)
(* The SQL Server transport of mssql.py: one owner thread runs bounded     *)
(* queries over a pyodbc connection while supervisor threads (the          *)
(* watchdogs of a read context) cancel them.  The threads share the fields *)
(* guarded by the condition variable _state_changed; every critical        *)
(* section under it is one action, and so is every native driver call      *)
(* made outside it.  Rows are abstracted to the number of driver calls     *)
(* that return something (received), and a statement to whether it still   *)
(* runs on the server.                                                     *)
(***************************************************************************)
EXTENDS Naturals, FiniteSets

CONSTANTS
    Queries,      \* query UUIDs; each query has one cursor, named by the same value
    Supervisors,  \* threads other than the owner
    MaxReceived   \* bound: results one statement delivers before its end

TransportAssumption == MaxReceived \in Nat

VARIABLES
    closed,          \* _closed
    activeQuery,     \* _active_query_id: {} or the query
    activeCursor,    \* _active_cursor: {} or the query whose cursor it is
    cancelRequested, \* _cancel_requested
    cancelCalls,     \* _cancel_calls
    connection,      \* the driver's connection: "open" or "closed"
    openCursors,     \* cursors the driver holds open
    running,         \* statements the server has not finished
    owner,           \* control state of the owner thread
    received,        \* driver results of the current statement so far
    outcome,         \* what execute_bounded answered for each query
    supervisor,      \* control state, target and answer of each supervisor
    requested        \* history: queries whose cancellation was accepted

sharedVars == <<closed, activeQuery, activeCursor, cancelRequested, cancelCalls>>
driverVars == <<connection, openCursors, running>>
vars == <<sharedVars, driverVars, owner, received, outcome, supervisor, requested>>

Idle == [pc |-> "idle", query |-> {}, cause |-> "none"]

Init ==
    /\ closed = FALSE /\ activeQuery = {} /\ activeCursor = {}
    /\ cancelRequested = FALSE /\ cancelCalls = 0
    /\ connection = "open" /\ openCursors = {} /\ running = {}
    /\ owner = Idle /\ received = 0
    /\ outcome = [q \in Queries |-> "none"]
    /\ supervisor = [s \in Supervisors |-> [pc |-> "idle", target |-> {}, answer |-> "none",
                                            expired |-> FALSE]]
    /\ requested = {}

-----------------------------------------------------------------------------
(* Owner thread: the transport's own operations, one query at a time.      *)

OwnerIdle == owner.pc = "idle"

\* _clear_active_query_locked
ClearActiveQuery == activeQuery' = {} /\ activeCursor' = {} /\ cancelRequested' = FALSE

\* connection.close() of a retirement: the driver may refuse, the error is only logged; the
\* server ends the session's statements either way.
ConnectionClosed == connection' = "closed" /\ openCursors' = {} /\ running' = {}

GoTo(pc, cause) == owner' = [owner EXCEPT !.pc = pc, !.cause = cause]
Step(pc) == GoTo(pc, owner.cause)
Answer(result) ==
    /\ owner' = Idle
    /\ outcome' = [q \in Queries |-> IF q \in owner.query THEN result ELSE outcome[q]]

\* _retire_after_setup_error: the critical section; close_connection follows.
RetireAfterSetupError ==
    /\ ClearActiveQuery
    /\ closed' = TRUE
    /\ GoTo("close_connection", "none")

\* configure_snapshot_transaction and rollback fail in the driver (when they succeed no shared
\* state changes, and both are refused while a query is active or after the transport closed).
SetUpOrRollBackFails ==
    /\ OwnerIdle /\ ~closed /\ activeQuery = {}
    /\ RetireAfterSetupError
    /\ UNCHANGED <<cancelCalls, driverVars, received, outcome, supervisor, requested>>

\* close: a second close is a no-op.
Close ==
    /\ OwnerIdle /\ ~closed /\ activeQuery = {}
    /\ closed' = TRUE
    /\ GoTo("close_connection", "none")
    /\ UNCHANGED <<activeQuery, activeCursor, cancelRequested, cancelCalls, driverVars, received,
                   outcome, supervisor, requested>>

\* _execute_bounded up to the cursor: a closed transport and an expired deadline refuse the query
\* before any driver state exists; connection.cursor() may fail.
StartQuery(q) ==
    /\ OwnerIdle /\ outcome[q] = "none"
    /\ received' = 0
    /\ \/ /\ outcome' = [outcome EXCEPT ![q] = "refused"]
          /\ UNCHANGED <<owner, openCursors>>
       \/ /\ ~closed
          /\ openCursors' = openCursors \cup {q}
          /\ owner' = [pc |-> "publish", query |-> {q}, cause |-> "none"]
          /\ UNCHANGED outcome
       \/ /\ ~closed
          /\ owner' = [pc |-> "retire_error", query |-> {q}, cause |-> "failed"]
          /\ UNCHANGED <<openCursors, outcome>>
    /\ UNCHANGED <<sharedVars, connection, running, supervisor, requested>>

\* _publish_active_query; its refusals close the unpublished cursor.
PublishActiveQuery ==
    /\ owner.pc = "publish"
    /\ IF closed \/ activeQuery # {} \/ cancelCalls # 0
       THEN /\ openCursors' = openCursors \ owner.query
            /\ Answer("failed")
            /\ UNCHANGED <<sharedVars, connection, running>>
       ELSE /\ activeQuery' = owner.query /\ activeCursor' = owner.query
            /\ cancelRequested' = FALSE
            /\ Step("published")
            /\ UNCHANGED <<closed, cancelCalls, driverVars, outcome>>
    /\ UNCHANGED <<received, supervisor, requested>>

\* _is_cancel_requested, and the check that follows every driver call of the owner: a request
\* that arrived during the call turns it into a cancellation.
IsCancelRequested == activeQuery = owner.query /\ cancelRequested

CheckCancelled(from, to) ==
    /\ owner.pc = from
    /\ IF IsCancelRequested THEN GoTo("detach", "cancelled") ELSE Step(to)
    /\ UNCHANGED <<sharedVars, driverVars, received, outcome, supervisor, requested>>

\* The ways out of a driver call other than a result: pyodbc.Error with HYT00/HYT01, any other
\* pyodbc.Error, and the local failures (decoding, overflow, validation, limits, deadline and
\* budget), which interrupt the statement.
DriverCallFails ==
    /\ \/ GoTo("detach", "timeout") \/ GoTo("detach", "failed")
    /\ UNCHANGED <<received, running>>
LocalFailure ==
    /\ GoTo("detach", "none")
    /\ UNCHANGED <<received, running>>

\* accounting.before_dispatch and cursor.execute
Dispatch ==
    /\ owner.pc = "dispatch"
    /\ \/ /\ running' = running \cup owner.query
          /\ \/ Step("executed") \/ GoTo("detach", "timeout") \/ GoTo("detach", "failed")
          /\ UNCHANGED received
       \/ LocalFailure
    /\ UNCHANGED <<sharedVars, connection, openCursors, outcome, supervisor, requested>>

\* before_fetch, cursor.fetchmany, and what follows the cancellation check of a batch: validation
\* and the record and byte limits.
Fetch ==
    /\ owner.pc = "fetch"
    /\ \/ /\ received < MaxReceived
          /\ received' = received + 1
          /\ Step("fetched")
          /\ UNCHANGED running
       \/ Step("empty") /\ UNCHANGED <<received, running>>
       \/ DriverCallFails \/ LocalFailure
    /\ UNCHANGED <<sharedVars, connection, openCursors, outcome, supervisor, requested>>

\* _drain_terminal_results: a further result set with columns is refused, one without is skipped,
\* and the end of the results ends the statement.
DrainTerminalResults ==
    /\ owner.pc = "drain"
    /\ \/ /\ received < MaxReceived
          /\ received' = received + 1
          /\ Step("drained")
          /\ UNCHANGED running
       \/ /\ running' = running \ owner.query
          /\ Step("ended")
          /\ UNCHANGED received
       \/ DriverCallFails \/ LocalFailure
    /\ UNCHANGED <<sharedVars, connection, openCursors, outcome, supervisor, requested>>

\* _finish_success, the critical section: the last point at which a request is seen.
FinishSuccess_Unchecked ==
    /\ owner.pc = "finish"
    /\ ClearActiveQuery
    /\ Step("close_cursor")
    /\ UNCHANGED <<closed, cancelCalls, driverVars, received, outcome, supervisor, requested>>

FinishSuccess ==
    /\ owner.pc = "finish"
    /\ IF cancelRequested
       THEN /\ GoTo("detach", "cancelled")
            /\ UNCHANGED <<activeQuery, activeCursor, cancelRequested>>
       ELSE /\ cancelCalls = 0
            /\ ClearActiveQuery
            /\ Step("close_cursor")
    /\ UNCHANGED <<closed, cancelCalls, driverVars, received, outcome, supervisor, requested>>

\* The cursor.close() after it; a failure retires the connection.
CloseFinishedCursor ==
    /\ owner.pc = "close_cursor"
    /\ \/ /\ openCursors' = openCursors \ owner.query
          /\ Answer("returned")
       \/ /\ GoTo("retire", "close_failed")
          /\ UNCHANGED <<openCursors, outcome>>
    /\ UNCHANGED <<sharedVars, connection, running, received, supervisor, requested>>

\* _detach_terminal_cursor: waits until no native cancel is in flight, then takes the cursor away
\* from the supervisors.  A request seen here makes the end a cancellation whatever its cause.
DetachTerminalCursor_NoWait ==
    /\ owner.pc = "detach"
    /\ activeCursor' = {}
    /\ GoTo(CASE owner.cause = "none" -> "interrupt"
              [] owner.cause = "failed" /\ ~cancelRequested -> "retire_error"
              [] OTHER -> "confirm",
            CASE cancelRequested -> "cancelled"
              [] ~cancelRequested /\ owner.cause = "none" -> "failed"
              [] OTHER -> owner.cause)
    /\ UNCHANGED <<closed, activeQuery, cancelRequested, cancelCalls, driverVars, received,
                   outcome, supervisor, requested>>

DetachTerminalCursor ==
    /\ owner.pc = "detach" /\ cancelCalls = 0
    /\ IF activeQuery = owner.query /\ activeCursor = owner.query
       THEN /\ activeCursor' = {}
            /\ GoTo(CASE owner.cause = "none" -> "interrupt"
                      [] owner.cause = "failed" /\ ~cancelRequested -> "retire_error"
                      [] OTHER -> "confirm",
                    CASE cancelRequested -> "cancelled"
                      [] ~cancelRequested /\ owner.cause = "none" -> "failed"
                      [] OTHER -> owner.cause)
       ELSE /\ GoTo("retire", "unconfirmed")
            /\ UNCHANGED activeCursor
    /\ UNCHANGED <<closed, activeQuery, cancelRequested, cancelCalls, driverVars, received,
                   outcome, supervisor, requested>>

\* _interrupt_and_retire: the owner's own cursor.cancel(), whose diagnostic is only logged.
Interrupt ==
    /\ owner.pc = "interrupt"
    /\ Step("confirm")
    /\ UNCHANGED <<sharedVars, driverVars, received, outcome, supervisor, requested>>

\* _confirm_detached_terminal_statement: the cursor is closed and a probe must answer from the
\* same session, which it can only do once the statement ended.
ConfirmDetachedTerminalStatement ==
    /\ owner.pc = "confirm"
    /\ \/ /\ openCursors' = openCursors \ owner.query
          /\ running' = running \ owner.query
          /\ Step("retire")
       \/ /\ openCursors' \in {openCursors, openCursors \ owner.query}
          /\ GoTo("retire", "unconfirmed")
          /\ UNCHANGED running
    /\ UNCHANGED <<sharedVars, connection, received, outcome, supervisor, requested>>

\* _retire_after_query_error: the handle is withdrawn and the cursor closed.
RetireAfterQueryError ==
    /\ owner.pc = "retire_error"
    /\ activeCursor' = IF activeQuery = owner.query THEN {} ELSE activeCursor
    /\ openCursors' \in {openCursors, openCursors \ owner.query}
    /\ Step("retire")
    /\ UNCHANGED <<closed, activeQuery, cancelRequested, cancelCalls, connection, running,
                   received, outcome, supervisor, requested>>

\* _retire_connection_after_terminal_query: the critical section.
RetireConnection ==
    /\ owner.pc = "retire"
    /\ ClearActiveQuery
    /\ closed' = TRUE
    /\ Step("close_connection")
    /\ UNCHANGED <<cancelCalls, driverVars, received, outcome, supervisor, requested>>

\* connection.close(), and the exception that ends the call.
CloseConnection ==
    /\ owner.pc = "close_connection"
    /\ ConnectionClosed
    /\ IF owner.query = {} THEN owner' = Idle /\ UNCHANGED outcome ELSE Answer(owner.cause)
    /\ UNCHANGED <<sharedVars, received, supervisor, requested>>

-----------------------------------------------------------------------------
(* Supervisor threads.                                                     *)

Move(s, pc, answer) ==
    supervisor' = [supervisor EXCEPT ![s].pc = pc, ![s].answer = answer]
HandleIsActive(s) == activeQuery = supervisor[s].target /\ activeCursor # {}

\* cancel, its first critical section: _validate_cancellation_target_locked, then the flag or the
\* wait for another supervisor's request.
RequestCancel(s, q) ==
    /\ supervisor[s].pc = "idle"
    /\ LET accepted == ~closed /\ activeQuery = {q} /\ activeCursor # {} IN
       /\ supervisor' = [supervisor EXCEPT
            ![s].target = {q},
            ![s].pc = IF ~accepted THEN "done" ELSE IF cancelRequested THEN "waiting" ELSE "loop",
            ![s].answer = IF accepted THEN "none" ELSE "refused"]
       /\ cancelRequested' = (cancelRequested \/ accepted)
       /\ requested' = IF accepted THEN requested \cup {q} ELSE requested
    /\ UNCHANGED <<closed, activeQuery, activeCursor, cancelCalls, driverVars, owner, received,
                   outcome>>

\* cancel, the head of its loop: the deadline, the handle, the announced native call.
CancelLoop(s) ==
    /\ supervisor[s].pc = "loop"
    /\ CASE supervisor[s].expired -> Move(s, "done", "timeout") /\ UNCHANGED cancelCalls
         [] ~supervisor[s].expired /\ ~HandleIsActive(s) ->
              Move(s, "done", "acknowledged") /\ UNCHANGED cancelCalls
         [] OTHER -> Move(s, "native", "none") /\ cancelCalls' = cancelCalls + 1
    /\ UNCHANGED <<closed, activeQuery, activeCursor, cancelRequested, driverVars, owner,
                   received, outcome, requested>>

NativeCancelReturns_NotCounted(s) ==
    /\ supervisor[s].pc = "native"
    /\ Move(s, "after", "none")
    /\ UNCHANGED <<sharedVars, driverVars, owner, received, outcome, requested>>

\* cursor.cancel() returns, with or without a diagnostic; the finally block counts it back.
NativeCancelReturns(s) ==
    /\ supervisor[s].pc = "native"
    /\ cancelCalls' = cancelCalls - 1
    /\ Move(s, "after", "none")
    /\ UNCHANGED <<closed, activeQuery, activeCursor, cancelRequested, driverVars, owner,
                   received, outcome, requested>>

\* cancel, the end of its loop, and _wait_for_cancellation_acknowledgement_locked: both answer
\* once the handle is gone or the deadline passed; the loop sends the cancel again.
AwaitAcknowledgement(s) ==
    /\ supervisor[s].pc \in {"after", "waiting"}
    /\ CASE supervisor[s].expired -> Move(s, "done", "timeout")
         [] ~supervisor[s].expired /\ ~HandleIsActive(s) -> Move(s, "done", "acknowledged")
         [] OTHER -> supervisor[s].pc = "after" /\ Move(s, "loop", "none")
    /\ UNCHANGED <<sharedVars, driverVars, owner, received, outcome, requested>>

\* The acknowledgement deadline of a cancel passes.
DeadlinePasses(s) ==
    /\ supervisor[s].pc \in {"loop", "native", "after", "waiting"} /\ ~supervisor[s].expired
    /\ supervisor' = [supervisor EXCEPT ![s].expired = TRUE]
    /\ UNCHANGED <<sharedVars, driverVars, owner, received, outcome, requested>>

-----------------------------------------------------------------------------
OwnerContinues ==
    \/ PublishActiveQuery \/ Dispatch \/ Fetch \/ DrainTerminalResults
    \/ CheckCancelled("published", "dispatch") \/ CheckCancelled("executed", "fetch")
    \/ CheckCancelled("fetched", "fetch") \/ CheckCancelled("empty", "drain")
    \/ CheckCancelled("drained", "drain") \/ CheckCancelled("ended", "finish")
    \/ FinishSuccess \/ CloseFinishedCursor \/ DetachTerminalCursor \/ Interrupt
    \/ ConfirmDetachedTerminalStatement \/ RetireAfterQueryError \/ RetireConnection
    \/ CloseConnection
SupervisorContinues(s) ==
    CancelLoop(s) \/ NativeCancelReturns(s) \/ AwaitAcknowledgement(s) \/ DeadlinePasses(s)

Next ==
    \/ SetUpOrRollBackFails \/ Close
    \/ \E q \in Queries : StartQuery(q)
    \/ OwnerContinues
    \/ \E s \in Supervisors :
         SupervisorContinues(s) \/ \E q \in Queries : RequestCancel(s, q)

\* A thread inside a call keeps running: the driver bounds every native call by the connection
\* timeout, and a native cancel is assumed to return.  No thread has to make a call.
Fairness ==
    /\ WF_vars(OwnerContinues)
    /\ \A s \in Supervisors :
         /\ WF_vars(CancelLoop(s)) /\ WF_vars(NativeCancelReturns(s))
         /\ WF_vars(AwaitAcknowledgement(s)) /\ WF_vars(DeadlinePasses(s))
Spec == Init /\ [][Next]_vars /\ Fairness

-----------------------------------------------------------------------------
\* A native cancel outlives no handle: while a supervisor is inside cursor.cancel() (mssql.py:890)
\* its cursor is open, is still the published one of the query it was asked to cancel, and the
\* connection is open; so a late cancel never reaches a freed handle or the next query.
NativeCancelHitsItsQuery ==
    \A s \in Supervisors : supervisor[s].pc = "native" =>
        /\ supervisor[s].target \subseteq openCursors
        /\ activeQuery = supervisor[s].target /\ activeCursor = supervisor[s].target
        /\ connection = "open"

\* An accepted cancellation is decisive (mssql.py:879): the query it names never returns rows or a
\* plain failure, its caller is told "cancelled" only with the statement ended on the server and
\* the connection retired, and no query is reported cancelled that nobody asked to cancel; a
\* supervisor told that its cancel was acknowledged finds the handle withdrawn.
CancellationIsDecisive ==
    /\ \A q \in Queries :
         /\ q \in requested => outcome[q] \in {"none", "cancelled", "unconfirmed"}
         /\ outcome[q] = "cancelled" => q \in requested /\ closed
         /\ owner.query = {q} /\ owner.cause \in {"cancelled", "timeout"}
              /\ owner.pc \in {"retire", "close_connection"} => q \notin running
    /\ \A s \in Supervisors : supervisor[s].answer = "acknowledged" =>
         supervisor[s].target \subseteq requested /\ activeCursor # supervisor[s].target

\* A cancel reaches the query it names, that query only, and decides it (mssql.py:912), in every
\* interleaving of owner and supervisors.
CancellationIsExact ==
    /\ NativeCancelHitsItsQuery
    /\ CancellationIsDecisive

\* Neither side waits for ever on the other (mssql.py:975, 1115): a query that was started ends,
\* and a cancel that was called answers.
TransportCallsEnd ==
    /\ (owner.pc # "idle") ~> (owner.pc = "idle")
    /\ \A s \in Supervisors : (supervisor[s].pc # "idle") ~> (supervisor[s].pc = "done")

=============================================================================
