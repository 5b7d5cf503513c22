------------------------ MODULE CommitReconciliation ------------------------
(***************************************************************************)
(* How every lifecycle write survives lost connections                     *)
(* (persistence/lifecycle.py, _run_with_reconciliation).  A call makes a   *)
(* bounded number of attempts.  When the connection is lost during a write *)
(* the COMMIT may or may not have reached the server, so the call first    *)
(* looks for its receipt in a new session, under the advisory locks the    *)
(* write takes, and writes again only when the receipt is absent.          *)
(*                                                                         *)
(* The server's sessions are state of their own: a session whose client is *)
(* gone keeps its locks, and a COMMIT in flight may still land, until the  *)
(* server aborts it.  The write is a run claim (_claim_run_once): several  *)
(* clients may claim one request, with equal or different payloads.  The   *)
(* other lifecycle writes are the case of a request with one client, with  *)
(* Refuse for the state and fence errors they may raise.                   *)
(***************************************************************************)
EXTENDS Naturals, FiniteSets

CONSTANTS
    Clients,      \* calls, each with its own creation operation UUID
    Sessions,     \* server sessions
    Requests,     \* request UUIDs
    RequestOf,    \* the request a call claims
    Payloads,     \* the payloads the calls may claim with, one function per case
    Identities,   \* the operation identities it locks, as UUID integers
    MaxAttempts,  \* PostgresRetryPolicy.max_attempts
    None

ASSUME ConstantsAssumption ==
    /\ RequestOf \in [Clients -> Requests]
    /\ Identities \in [Clients -> SUBSET Nat]
    /\ \A c \in Clients : IsFiniteSet(Identities[c]) /\ Identities[c] # {}
    /\ \A c, d \in Clients :
          RequestOf[c] = RequestOf[d] => Identities[c] \cap Identities[d] # {}
    /\ MaxAttempts \in Nat \ {0}
    /\ None \notin Clients
    /\ Sessions \subseteq Nat

VARIABLES
    store,     \* the client whose insert created the run of each request
    call,      \* the loop variables of each call
    session,   \* the server's side of each connection
    payload    \* the payload each call claims with, never written

vars == <<store, call, session, payload>>

(* "write": about to write, or writing; "before", "after": reconciling at  *)
(* the head of an iteration or after its failed write.                     *)
Reconciling == {"before", "after"}
Stopped == {"done", "crashed"}
Replies == {"none", "ok", "refused", "transaction_error", "commit_unknown"}

Call ==
    [at : {"write"} \cup Reconciling \cup Stopped, attempt_number : 1..MaxAttempts,
     unresolved : BOOLEAN, reply : [kind : Replies, row : Clients \cup {None}]]

NoReply == [kind |-> "none", row |-> None]

(* Transaction phases: taking locks, rows written, COMMIT sent, COMMIT     *)
(* done with the answer on its way.                                        *)
Phases == {"locking", "staged", "commit", "acked"}

Session ==
    [client : Clients, kind : {"write", "reconcile"}, phase : Phases,
     held : SUBSET UNION {Identities[c] : c \in Clients}, attached : BOOLEAN,
     row : Clients \cup {None}]

Free == [phase |-> "free"]

(* Calls, sessions and the store stay in their value sets; a session's     *)
(* locks are identities of its own client.                                 *)
TypeOK ==
    /\ store \in [Requests -> Clients \cup {None}]
    /\ payload \in Payloads
    /\ call \in [Clients -> Call]
    /\ session \in [Sessions -> Session \cup {Free}]
    /\ \A s \in Sessions : session[s] # Free =>
          session[s].held \subseteq Identities[session[s].client]

Init ==
    /\ store = [q \in Requests |-> None]
    /\ payload \in Payloads
    /\ call = [c \in Clients |-> [at |-> "write", attempt_number |-> 1,
                                  unresolved |-> FALSE, reply |-> NoReply]]
    /\ session = [s \in Sessions |-> Free]

-----------------------------------------------------------------------------
(* A definition X_Fault before a definition X is a faulty variant of X     *)
(* that shows a property to be sensitive to X; no behaviour uses it.       *)

Open(s) == session[s] # Free
Attached(s, c) == Open(s) /\ session[s].client = c /\ session[s].attached
Stored(c) == store[RequestOf[c]]

(* _claimed_run_from_row refuses a run stored for another request payload. *)
Compatible_Unchecked(row, c) == TRUE
Compatible(row, c) == payload[row] = payload[c]

Finish(c, reply) ==
    call' = [call EXCEPT ![c].at = "done", ![c].reply = reply]

Raise(c, kind) == Finish(c, [kind |-> kind, row |-> None])

(* What the loop raises after its last iteration.                          *)
Exhausted_AlwaysFailed(unresolved) == "transaction_error"
Exhausted(unresolved) ==
    IF unresolved THEN "commit_unknown" ELSE "transaction_error"

(* The end of an iteration of the loop, the call's unresolved flag given.  *)
NextIteration_NotCounted(c, unresolved) ==
    call' = [call EXCEPT ![c].unresolved = unresolved,
                         ![c].at = IF unresolved THEN "before" ELSE "write"]
NextIteration(c, unresolved) ==
    IF call[c].attempt_number < MaxAttempts
    THEN call' = [call EXCEPT ![c].attempt_number = @ + 1,
                              ![c].unresolved = unresolved,
                              ![c].at = IF unresolved THEN "before" ELSE "write"]
    ELSE Raise(c, Exhausted(unresolved))

-----------------------------------------------------------------------------
(* Connections: sessions are interchangeable, a new one is the first free. *)

Connect(c, s) ==
    /\ call[c].at \notin Stopped
    /\ \A o \in Sessions : ~Attached(o, c)
    /\ session[s] = Free
    /\ \A o \in Sessions : o < s => Open(o)
    /\ session' = [session EXCEPT ![s] =
          [client |-> c, kind |-> IF call[c].at = "write" THEN "write" ELSE "reconcile",
           phase |-> "locking", held |-> {}, attached |-> TRUE, row |-> None]]
    /\ UNCHANGED <<store, call, payload>>

(* No write was entered, so this is not ambiguous; a reconciliation that   *)
(* cannot connect is unavailable.                                          *)
ConnectFails(c) ==
    /\ call[c].at \notin Stopped
    /\ \A o \in Sessions : ~Attached(o, c)
    /\ NextIteration(c, call[c].unresolved)
    /\ UNCHANGED <<store, session, payload>>

(* _is_ambiguous_connection_failure: the client sees no answer, the server *)
(* session lives on without it.  A write becomes unresolved and is         *)
(* reconciled at once; a reconciliation was unavailable.                   *)
Ambiguous(s) == session[s].kind = "write"

LoseConnection(s) ==
    /\ Open(s)
    /\ session[s].attached
    /\ LET c == session[s].client IN
       IF Ambiguous(s)
       THEN call' = [call EXCEPT ![c].unresolved = TRUE, ![c].at = "after"]
       ELSE NextIteration(c, call[c].unresolved)
    /\ session' = [session EXCEPT ![s] =
          IF @.phase = "acked" THEN Free ELSE [@ EXCEPT !.attached = FALSE]]
    /\ UNCHANGED <<store, payload>>

(* The process dies; nobody waits for the answer any more.                 *)
Crash(c) ==
    /\ call[c].at \notin Stopped
    /\ call' = [call EXCEPT ![c].at = "crashed"]
    /\ session' = [s \in Sessions |->
          IF Attached(s, c) THEN [session[s] EXCEPT !.attached = FALSE] ELSE session[s]]
    /\ UNCHANGED <<store, payload>>

(* The server drops a session nobody is attached to.                       *)
Abort(s) ==
    /\ Open(s)
    /\ ~session[s].attached
    /\ session' = [session EXCEPT ![s] = Free]
    /\ UNCHANGED <<store, call, payload>>

-----------------------------------------------------------------------------
(* Transactions                                                            *)

(* _lock_operation_identities: ascending UUID integers, one at a time.     *)
Takes_AnyOrder(s, identity) ==
    identity \in Identities[session[s].client] \ session[s].held
Takes(s, identity) ==
    LET missing == Identities[session[s].client] \ session[s].held
    IN  /\ identity \in missing
        /\ \A other \in missing : identity <= other

Unheld_Unchecked(identity) == TRUE
Unheld(identity) ==
    \A o \in Sessions : Open(o) => identity \notin session[o].held

AcquireLock(s) ==
    /\ Open(s)
    /\ session[s].phase = "locking"
    /\ \E identity \in Identities[session[s].client] :
          /\ Takes(s, identity)
          /\ Unheld(identity)
          /\ session' = [session EXCEPT ![s].held = @ \cup {identity}]
    /\ UNCHANGED <<store, call, payload>>

Locked(s) ==
    /\ Open(s)
    /\ session[s].attached
    /\ session[s].phase = "locking"
    /\ session[s].held = Identities[session[s].client]

(* _claim_run_once: the request's run if it has one, else a new row.       *)
Write(s) ==
    LET c == session[s].client IN
    /\ Locked(s)
    /\ session[s].kind = "write"
    /\ Stored(c) # None => Compatible(Stored(c), c)
    /\ session' = [session EXCEPT ![s].phase = "staged",
                                  ![s].row = IF Stored(c) = None THEN c ELSE Stored(c)]
    /\ UNCHANGED <<store, call, payload>>

SendCommit(s) ==
    /\ Open(s)
    /\ session[s].attached
    /\ session[s].phase = "staged"
    /\ session' = [session EXCEPT ![s].phase = "commit"]
    /\ UNCHANGED <<store, call, payload>>

(* The server executes the COMMIT, whether or not the client still waits.  *)
Land(s) ==
    /\ Open(s)
    /\ session[s].phase = "commit"
    /\ store' = [store EXCEPT ![RequestOf[session[s].client]] = session[s].row]
    /\ session' = [session EXCEPT ![s] =
          IF @.attached THEN [@ EXCEPT !.phase = "acked", !.held = {}] ELSE Free]
    /\ UNCHANGED <<call, payload>>

Return(s) ==
    /\ Open(s)
    /\ session[s].attached
    /\ session[s].phase = "acked"
    /\ Finish(session[s].client, [kind |-> "ok", row |-> session[s].row])
    /\ session' = [session EXCEPT ![s] = Free]
    /\ UNCHANGED <<store, payload>>

(* _lookup_claimed_run under the same locks, through to its own COMMIT.    *)
Found(c) == Stored(c) # None

ReconcileFound(s) ==
    LET c == session[s].client IN
    /\ Locked(s)
    /\ session[s].kind = "reconcile"
    /\ Found(c)
    /\ Compatible(Stored(c), c)
    /\ Finish(c, [kind |-> "ok", row |-> Stored(c)])
    /\ session' = [session EXCEPT ![s] = Free]
    /\ UNCHANGED <<store, payload>>

ReconcileAbsent(s) ==
    LET c == session[s].client IN
    /\ Locked(s)
    /\ session[s].kind = "reconcile"
    /\ ~Found(c)
    /\ IF call[c].at = "before"
       THEN call' = [call EXCEPT ![c].unresolved = FALSE, ![c].at = "write"]
       ELSE NextIteration(c, FALSE)
    /\ session' = [session EXCEPT ![s] = Free]
    /\ UNCHANGED <<store, payload>>

(* A lifecycle error raised by the write (conflict, state, fence, schema)  *)
(* or a conflict raised by the lookup ends the call; close() ends the      *)
(* session.                                                                *)
Refuse(s) ==
    LET c == session[s].client IN
    /\ Open(s)
    /\ session[s].attached
    /\ IF session[s].kind = "write"
       THEN session[s].phase \in {"locking", "staged"}
       ELSE Locked(s) /\ Found(c) /\ ~Compatible(Stored(c), c)
    /\ Raise(c, "refused")
    /\ session' = [session EXCEPT ![s].attached = FALSE]
    /\ UNCHANGED <<store, payload>>

(* The server reports an error and has rolled back.  An OperationalError   *)
(* that is not a connection failure (statement timeout, deadlock) ends the *)
(* iteration; any other database error ends a write's call, and makes a    *)
(* reconciliation unavailable.                                             *)
StatementFails(s) ==
    LET c == session[s].client IN
    /\ Open(s)
    /\ session[s].attached
    /\ session[s].phase # "acked"
    /\ \/ NextIteration(c, call[c].unresolved)
       \/ session[s].kind = "write" /\ Raise(c, "transaction_error")
    /\ session' = [session EXCEPT ![s] = Free]
    /\ UNCHANGED <<store, payload>>

-----------------------------------------------------------------------------
SessionStep(s) ==
    \/ AcquireLock(s)
    \/ Write(s)
    \/ SendCommit(s)
    \/ Land(s)
    \/ Return(s)
    \/ ReconcileFound(s)
    \/ ReconcileAbsent(s)
    \/ Refuse(s)
    \/ StatementFails(s)
    \/ LoseConnection(s)

(* A lost session gets the lock it is waiting for, executes the COMMIT it  *)
(* has received, or ends.                                                  *)
LostSessionStep(s) ==
    /\ Open(s)
    /\ ~session[s].attached
    /\ AcquireLock(s) \/ Land(s) \/ Abort(s)

(* A step of a live call or of the session it is attached to.              *)
CallStep(c) ==
    \/ ConnectFails(c)
    \/ \E s \in Sessions : Connect(c, s)
    \/ \E s \in Sessions : Attached(s, c) /\ SessionStep(s)

Next ==
    \/ \E c \in Clients : CallStep(c) \/ Crash(c)
    \/ \E s \in Sessions : LostSessionStep(s)

Spec == Init /\ [][Next]_vars

(* connect_timeout and statement_timeout bound every wait of a live call,  *)
(* so some live call moves on; nothing is assumed of sessions the server   *)
(* has not noticed to be dead.                                             *)
FairSpec == Spec /\ WF_vars(\E c \in Clients : CallStep(c))

-----------------------------------------------------------------------------
(* An error that says "definitively failed" or "no ambiguous commit        *)
(* remained", and any refusal, means that the call's row is not in the     *)
(* store and never will be, whatever sessions it has left behind.          *)
FailureIsDefinitive ==
    \A c \in Clients :
        call[c].reply.kind \in {"transaction_error", "refused"} => Stored(c) # c

(* Sessions that wait for a lock, and for whom.                            *)
Waiting ==
    {s \in Sessions : /\ Open(s)
                      /\ session[s].phase = "locking"
                      /\ session[s].held # Identities[session[s].client]}

WaitsFor(s, o) ==
    \A identity \in Identities[session[s].client] :
        Takes(s, identity) => identity \in session[o].held

(* Locks are taken in one order, so sessions, lost ones included, never    *)
(* wait for each other in a circle.                                        *)
NoLockCycle ==
    \A cycle \in SUBSET Waiting :
        cycle # {} => \E s \in cycle : \A o \in cycle : ~WaitsFor(s, o)

(* Every call returns or raises within its bounded attempts, even if lost  *)
(* sessions keep their locks for ever and calls are scheduled unfairly     *)
(* among themselves.                                                       *)
CallTerminates == <>(\A c \in Clients : call[c].at \in Stopped)

-----------------------------------------------------------------------------
Promise == INSTANCE ExactlyOnceOperation WITH
    reply <- [c \in Clients |-> call[c].reply]

(* Connections, locks and retries amount to an operation applied at most   *)
(* once whose answers are true (ExactlyOnceOperation): a returned run is   *)
(* the stored one for good and has the caller's payload, also when it was  *)
(* found by reconciliation or made by another process.                     *)
ImplementsExactlyOnce == Promise!Spec
=============================================================================
