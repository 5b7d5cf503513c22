-------------------------- MODULE ClickHouseTransport --------------------------
(***************************************************************************)
(* The ClickHouse transport of clickhouse.py and clickhouse_http.py.  One  *)
(* owner thread holds two worker processes, one for data and one for       *)
(* control; each performs one HTTP request at a time and answers over a    *)
(* socket pair.  The owner stops waiting at a work deadline, cancels the   *)
(* query it has lost sight of with a KILL QUERY ... SYNC through the other *)
(* worker, terminates both workers and records whether the server is known *)
(* to be idle.  A transport that is LOST or CLOSED has given its source    *)
(* slot back; one whose cancellation is unconfirmed has not.               *)
(*                                                                         *)
(* The server, the network between worker and server, and the operating    *)
(* system's process table are external: their steps are the Server*,       *)
(* WorkerDies and Time actions.                                            *)
(***************************************************************************)
EXTENDS Naturals

CONSTANTS
  MaxAttempts,    \* ClickHouseRetryPolicy.max_attempts
  MaxCalls        \* bound: calls the caller makes on one transport

ClickHouseTransportAssumption == MaxAttempts \in Nat \ {0} /\ MaxCalls \in Nat

Workers == {"data", "control"}

VARIABLES
  protocol,   \* the response protocol of the server: "modern" or "legacy"
  state,      \* ClickHouseTransportState, "none" before the transport exists
  attempt,    \* the connection attempt of the open loop
  owner,      \* where the owner thread stands
  call,       \* what the owner executes: "data_probe", "control_probe", "query"
  calls,      \* calls made so far (bounded by MaxCalls)
  error,      \* the error the call or the open loop is about to raise
  worker,     \* the owner's state of each worker (ClickHouseHttpWorkerState)
  proc,       \* what each worker process does
  reply,      \* the outcome on each worker's channel, NoOutcome if none
  query,      \* the current query on the server
  kill,       \* the KILL QUERY of the current query
  late,       \* the work deadline of the current call has passed
  clock,      \* "working", then "reserve" for cancellation, then "past" the deadline
  genuine,    \* the response read last was the whole answer of its query
  result      \* what the last call returned

vars == << protocol, state, attempt, owner, call, calls, error, worker, proc, reply, query,
           kill, late, clock, genuine, result >>

serverVars == << query, kill >>

(* The attempt's deadline less the cancellation reserve has passed.        *)
OutOfWork == clock # "working"

(* The worker a call runs on and the one that cancels it.                  *)
Target == IF call = "control_probe" THEN "control" ELSE "data"
Canceller == IF call = "control_probe" THEN "data" ELSE "control"

--------------------------------------------------------------------------------
(***************************************************************************)
(* Responses.  What the server sent is abstracted to the header fields and *)
(* the shape of the body the two readers look at: "frame" is the exception *)
(* frame at its end or, for a legacy error, the code its text repeats.     *)
(***************************************************************************)
Response(i, s, c, t, e, z, b, f) ==
  [id |-> i, status |-> s, code |-> c, tag |-> t, encoding |-> e, size |-> z, end |-> b,
   frame |-> f]

OwnTag == IF protocol = "modern" THEN "valid" ELSE "none"

(* A finished query answered in full: "over" exceeds the caller's bound,   *)
(* "huge" also exceeds what the reader is prepared to capture.             *)
AnswerResponses ==
  {Response("own", "ok", "none", OwnTag, "identity", z, "clean", "none") :
     z \in {"within", "over", "huge"}}

(* A query that failed before any output: an exception header and a body.  *)
(* A 21.8 server may omit the query id.                                    *)
ErrorResponses ==
  {Response(i, "error", "valid", OwnTag, "identity", z, "clean",
            IF protocol = "legacy" THEN "agrees" ELSE "none") :
     i \in {"own"} \cup (IF protocol = "legacy" THEN {"missing"} ELSE {}),
     z \in {"within", "huge"}}

(* A modern server that fails after the headers ends the body with an      *)
(* exception frame and breaks the chunked encoding.                        *)
FrameResponses ==
  {Response("own", "ok", "none", "valid", "identity", "within", b, "agrees") :
     b \in {"clean", "incomplete"}}

(* What a broken connection or an intermediary can put in their place.     *)
BrokenResponses ==
  {Response("own", s, "none", OwnTag, "identity", z, b, f) :
     s \in {"ok", "error"}, z \in {"within", "huge"}, b \in {"incomplete", "failed"},
     f \in {"none", "partial"}}
  \cup {Response("own", "error", c, OwnTag, "identity", "within", "clean", "none") :
          c \in {"none", "invalid"}}
  \cup (IF protocol = "modern"
          THEN {Response("own", "ok", "none", "valid", "identity", "within", "clean", "partial")}
          ELSE {})
  \cup {Response(i, s, "none", t, "identity", "within", "clean", "none") :
          i \in {"other", "missing"}, s \in {"ok", "error"}, t \in {"none", "valid"}}
  \cup {Response("own", "ok", "none", "invalid", "identity", "within", "clean", "none"),
        Response("own", "ok", "none", OwnTag, "gzip", "within", "clean", "none"),
        Response("own", "error", "valid", "valid", "identity", "within", "clean", "differs"),
        Response("missing", "error", "valid", "none", "identity", "within", "clean", "differs")}

(* The responses the worker may be reading when the query is in a given    *)
(* state: a complete answer only comes from a query that has ended.        *)
ResponsesTo(q) ==
  BrokenResponses
  \cup (IF q = "answered" THEN AnswerResponses ELSE {})
  \cup (IF q = "failed" THEN ErrorResponses ELSE {})
  \cup (IF q = "failed" /\ protocol = "modern" THEN FrameResponses ELSE {})
  \cup (IF q = "running" THEN {r \in AnswerResponses \cup ErrorResponses : r.size = "huge"}
                         ELSE {})

Outcome(k, d, t) == [kind |-> k, dispatch |-> d, truncated |-> t]
NoOutcome == Outcome("none", "none", FALSE)
TransportError(d) == Outcome("transport_error", d, FALSE)
ProtocolError(d, t) == Outcome("protocol_error", d, t)

(* How _read_bounded_body ends: it stops one byte past the limit, so a     *)
(* body above the limit is truncated and its end is never seen.            *)
BoundedBody_IgnoresFraming(r, over) ==
  [truncated |-> r.size = "huge" \/ (over /\ r.size = "over"), end |-> "clean"]

BoundedBody(r, over) ==
  LET cut == r.size = "huge" \/ (over /\ r.size = "over")
  IN [truncated |-> cut, end |-> IF cut THEN "clean" ELSE r.end]

(* _read_modern_http_response: the checks in the order of the code, first  *)
(* on the headers, then on the body.                                       *)
ModernHeaders(r) ==
  IF r.id # "own" \/ r.code = "invalid" \/ r.tag # "valid" THEN ProtocolError("unknown", FALSE)
  ELSE IF r.encoding # "identity" THEN ProtocolError("received", FALSE) ELSE NoOutcome

ModernBody(r) ==
  LET body     == BoundedBody(r, r.status = "error" \/ r.code = "valid")
      framed   == ~body.truncated /\ r.frame \in {"agrees", "differs"}
      tolerant == body.end = "incomplete" /\ framed
      broken   == \/ body.end # "clean" /\ ~tolerant
                  \/ ~framed /\ r.frame = "partial"
                  \/ framed /\ r.code = "valid" /\ r.frame = "differs"
  IN IF broken THEN ProtocolError("unknown", body.truncated)
     ELSE IF r.code = "valid" \/ framed THEN Outcome("server_error", "received", body.truncated)
     ELSE IF r.status = "error" THEN ProtocolError("unknown", body.truncated)
     ELSE IF r.size # "within" THEN Outcome("result_limit", "received", body.truncated)
     ELSE Outcome("success", "received", FALSE)

(* _read_legacy_http_response: no exception frames; a missing query id is  *)
(* accepted only on an error whose body repeats the header's code.         *)
LegacyHeaders(r) ==
  LET failed  == r.status = "error" /\ r.code = "valid"
      foreign == r.id = "other" \/ (r.id = "missing" /\ ~failed)
  IN IF foreign \/ r.code = "invalid" \/ r.tag # "none" THEN ProtocolError("unknown", FALSE)
     ELSE IF r.encoding # "identity" THEN ProtocolError("received", FALSE) ELSE NoOutcome

LegacyBody(r) ==
  LET body == BoundedBody(r, TRUE)
      unproven == r.id = "missing" /\ (body.truncated \/ r.frame # "agrees")
  IN IF body.end # "clean" \/ unproven THEN ProtocolError("unknown", body.truncated)
     ELSE IF r.code = "valid" THEN Outcome("server_error", "received", body.truncated)
     ELSE IF r.status = "error" THEN ProtocolError("unknown", body.truncated)
     ELSE IF r.size # "within" THEN Outcome("result_limit", "received", body.truncated)
     ELSE Outcome("success", "received", FALSE)

ReadResponse(r) ==
  LET refused == IF protocol = "modern" THEN ModernHeaders(r) ELSE LegacyHeaders(r)
  IN IF refused # NoOutcome THEN refused
     ELSE IF protocol = "modern" THEN ModernBody(r) ELSE LegacyBody(r)

--------------------------------------------------------------------------------
(***************************************************************************)
(* Worker processes as the owner ends them.                                *)
(***************************************************************************)
Started == {w \in Workers : worker[w] # "none"}

(* terminate() of every started worker.  The processes of F outlive both   *)
(* signals, or the operating system refuses them; a closed worker is left  *)
(* alone.                                                                  *)
TerminateWorkers(F) ==
  /\ F \subseteq {w \in Started : worker[w] # "closed"}
  /\ worker' = [w \in Workers |-> IF w \notin Started THEN "none"
                                  ELSE IF w \in F THEN "cleanup_unconfirmed" ELSE "closed"]
  /\ proc' = [w \in Workers |-> IF w \in Started \ F THEN "dead" ELSE proc[w]]
  /\ reply' = [w \in Workers |-> NoOutcome]

(* _retire: terminate both workers; a failed cleanup overrides the state.  *)
Retire(s, F) ==
  /\ TerminateWorkers(F)
  /\ state' = IF F = {} THEN s ELSE "cancellation_unconfirmed"

(* ClickHouseHttpWorker.close of both: a stop handshake, or termination    *)
(* when it fails; a busy worker is terminated and still counts as failed.  *)
CloseWorkers(F) ==
  /\ TerminateWorkers(F)
  /\ state' = IF F = {} /\ \A w \in Workers : worker[w] # "busy"
              THEN "closed" ELSE "cancellation_unconfirmed"

(* The error a retiring call raises: a failed cleanup replaces it.         *)
RetireError(e, F) == IF F = {} THEN e ELSE "cleanup"

(* A call that raised returns to the caller, or to the open loop.          *)
Raise(e) ==
  /\ error' = e
  /\ owner' = IF call = "query" THEN "idle" ELSE "open_failed"

(* A call that gives up because the query is known to be over or unsent.   *)
RetireLost(e) ==
  \E F \in SUBSET Workers :
    /\ Retire("lost", F)
    /\ Raise(RetireError(e, F))

--------------------------------------------------------------------------------
(***************************************************************************)
(* Opening: the loop of _open_clickhouse_transport.                        *)
(***************************************************************************)
Init ==
  /\ protocol \in {"modern", "legacy"}
  /\ state = "none" /\ attempt = 1 /\ owner = "start_data" /\ call = "data_probe" /\ calls = 0
  /\ error = "none"
  /\ worker = [w \in Workers |-> "none"]
  /\ proc = [w \in Workers |-> "none"]
  /\ reply = [w \in Workers |-> NoOutcome]
  /\ query = "none" /\ kill = "none"
  /\ late = FALSE /\ clock = "working" /\ genuine = FALSE /\ result = "none"

(* start_clickhouse_http_worker succeeds: the process has sent its ready   *)
(* message before the deadline.  With both, the transport exists and the   *)
(* data probe is next.                                                     *)
StartWorker(w) ==
  /\ owner = (IF w = "data" THEN "start_data" ELSE "start_control")
  /\ ~late
  /\ worker' = [worker EXCEPT ![w] = "ready"]
  /\ proc' = [proc EXCEPT ![w] = "idle"]
  /\ owner' = IF w = "data" THEN "start_control" ELSE "prepare"
  /\ state' = IF w = "data" THEN state ELSE "active"
  /\ call' = "data_probe"
  /\ late' = IF w = "data" THEN late ELSE OutOfWork
  /\ UNCHANGED << protocol, attempt, calls, error, reply, query, kill, clock, genuine, result >>

(* The worker reports a startup failure, dies, or is not ready in time; it *)
(* is terminated before the error is raised.  One that survives that has   *)
(* no owner left: only the error says so.                                  *)
StartWorkerFails(w) ==
  /\ owner = (IF w = "data" THEN "start_data" ELSE "start_control")
  /\ \/ \E e \in {"startup_retryable", "startup", "worker"} :
          error' = e /\ proc' = [proc EXCEPT ![w] = "dead"]
     \/ error' = "worker" /\ proc' = [proc EXCEPT ![w] = "idle"]
  /\ owner' = "open_failed"
  /\ UNCHANGED << protocol, state, attempt, call, calls, worker, reply, query, kill, late, clock,
                  genuine, result >>

(* The probe's payload: the expected one, or the server lacks a setting    *)
(* and the transport is closed.                                            *)
ProbeAnswered ==
  /\ owner = "idle" /\ state = "active" /\ error = "none"
  /\ call \in {"data_probe", "control_probe"}
  /\ \/ /\ call' = IF call = "data_probe" THEN "control_probe" ELSE "query"
        /\ owner' = IF call = "data_probe" THEN "prepare" ELSE "idle"
        /\ result' = "none" /\ late' = OutOfWork
        /\ UNCHANGED << state, worker, proc, reply, error >>
     \/ \E F \in SUBSET Workers :
          /\ CloseWorkers(F)
          /\ error' = RetireError("connection", F)
          /\ owner' = "open_failed"
          /\ UNCHANGED << call, result, late >>
  /\ UNCHANGED << protocol, attempt, calls, query, kill, clock, genuine >>

(* The except and finally clauses of the loop: the workers are terminated  *)
(* whatever happened, and only a query known not to run any more, or a     *)
(* worker that never connected, is tried again.                            *)
OpenFailed ==
  /\ owner = "open_failed"
  /\ \E F \in SUBSET Workers :
       /\ TerminateWorkers(F)
       /\ \/ /\ F = {} /\ error \in {"query_retryable", "startup_retryable"}
             /\ attempt < MaxAttempts /\ ~late
             /\ attempt' = attempt + 1 /\ owner' = "start_again" /\ error' = "none"
          \/ /\ \/ F # {} \/ error \notin {"query_retryable", "startup_retryable"}
                \/ attempt = MaxAttempts \/ late
             /\ owner' = "open_raised" /\ error' = RetireError(error, F)
             /\ UNCHANGED attempt
  /\ UNCHANGED << protocol, state, call, calls, query, kill, late, clock, genuine, result >>

StartAgain ==
  /\ owner = "start_again"
  /\ late' = OutOfWork
  /\ IF OutOfWork
        THEN owner' = "open_raised" /\ error' = "connection" /\ UNCHANGED << state, worker, proc >>
        ELSE /\ owner' = "start_data" /\ state' = "none"
             /\ worker' = [w \in Workers |-> "none"]
             /\ proc' = [w \in Workers |-> "none"]
             /\ UNCHANGED error
  /\ UNCHANGED << protocol, attempt, call, calls, reply, query, kill, clock, genuine, result >>

--------------------------------------------------------------------------------
(***************************************************************************)
(* A call: execute_raw, execute_source_raw, initialize_control_connection. *)
(***************************************************************************)
(* A caller uses the transport while it is active; a retired transport     *)
(* refuses the call.                                                       *)
Execute ==
  /\ owner = "idle" /\ call = "query" /\ calls < MaxCalls
  /\ calls' = calls + 1
  /\ IF state = "active"
        THEN owner' = "prepare" /\ result' = "none" /\ error' = "none" /\ late' = OutOfWork
        ELSE result' = "refused" /\ UNCHANGED << owner, error, late >>
  /\ UNCHANGED << protocol, state, attempt, call, worker, proc, reply, query, kill, clock,
                  genuine >>

(* _work_deadline_nanoseconds, _require_prepared_before_deadline: there is *)
(* no time to send the request.                                            *)
NoTimeToSend ==
  /\ owner = "prepare" /\ late
  /\ RetireLost("deadline")
  /\ kill' = "none" /\ genuine' = FALSE
  /\ UNCHANGED << protocol, attempt, call, calls, query, late, clock, result >>

(* _clickhouse_http_request refuses the query, a parameter, a setting or   *)
(* the size of the request: the transport stays as it was.                 *)
RequestRefused ==
  /\ owner = "prepare" /\ ~late
  /\ Raise("invalid")
  /\ UNCHANGED << protocol, state, attempt, call, calls, worker, proc, reply, query, kill, late,
                  clock, genuine, result >>

(* The budget has no query or scan left for the request.                   *)
BudgetRefused ==
  /\ owner = "prepare" /\ ~late
  /\ Raise("budget")
  /\ UNCHANGED << protocol, state, attempt, call, calls, worker, proc, reply, query, kill, late,
                  clock, genuine, result >>

(* The request is ready and paid for.                                      *)
Prepare ==
  /\ owner = "prepare" /\ ~late
  /\ owner' = "sending" /\ query' = "unsent" /\ kill' = "none" /\ genuine' = FALSE
  /\ UNCHANGED << protocol, state, attempt, call, calls, error, worker, proc, reply, late, clock,
                  result >>

(* ClickHouseHttpWorker.execute up to the receive: the whole request       *)
(* reaches the worker's channel; or nothing does (out of time, too large); *)
(* or an unknown part of it does and the worker counts as busy.            *)
SendRequest ==
  /\ owner = "sending"
  /\ \/ /\ ~late /\ proc[Target] = "idle"
        /\ worker' = [worker EXCEPT ![Target] = "busy"]
        /\ proc' = [proc EXCEPT ![Target] = "requested"]
        /\ owner' = "waiting" /\ UNCHANGED reply
     \/ /\ reply' = [reply EXCEPT ![Target] = TransportError("not_sent")]
        /\ owner' = "observed" /\ UNCHANGED << worker, proc >>
     \/ /\ worker' = [worker EXCEPT ![Target] = "busy"]
        /\ reply' = [reply EXCEPT ![Target] = IF late THEN NoOutcome ELSE TransportError("unknown")]
        /\ owner' = "observed" /\ UNCHANGED proc
  /\ UNCHANGED << protocol, state, attempt, call, calls, error, query, kill, late, clock,
                  genuine, result >>

(* The receive returns the worker's outcome, or reports a channel the dead *)
(* worker has closed.                                                      *)
ReceiveOutcome ==
  /\ owner = "waiting"
  /\ \/ reply[Target] # NoOutcome /\ UNCHANGED reply
     \/ /\ reply[Target] = NoOutcome /\ proc[Target] = "dead"
        /\ reply' = [reply EXCEPT ![Target] = TransportError("unknown")]
  /\ worker' = [worker EXCEPT ![Target] = "ready"]
  /\ owner' = "observed"
  /\ UNCHANGED << protocol, state, attempt, call, calls, error, proc, query, kill, late,
                  clock, genuine, result >>

(* The receive runs into the work deadline: the worker stays busy.         *)
ReceiveTimesOut ==
  /\ owner = "waiting" /\ late /\ reply[Target] = NoOutcome
  /\ owner' = "observed"
  /\ UNCHANGED << protocol, state, attempt, call, calls, error, worker, proc, reply, query,
                  kill, late, clock, genuine, result >>

(* The outcomes after which the server no longer works on the query.       *)
Terminal(o) == o.kind \in {"success", "server_error", "result_limit"} /\ ~o.truncated

(* _execute_request with a success in time: the payload is returned unless *)
(* its accounting fails, which retires the transport.                      *)
ReturnResult ==
  /\ owner = "observed" /\ reply[Target].kind = "success" /\ ~late
  /\ \/ /\ result' = IF genuine THEN "rows" ELSE "partial_rows"
        /\ owner' = "idle"
        /\ reply' = [reply EXCEPT ![Target] = NoOutcome]
        /\ UNCHANGED << state, worker, proc, error >>
     \/ RetireLost("budget") /\ UNCHANGED result
  /\ UNCHANGED << protocol, attempt, call, calls, query, kill, late, clock, genuine >>

(* An outcome that does not settle the query has to be cancelled.          *)
MustCancel(o) ==
  /\ ~Terminal(o) /\ o.dispatch # "not_sent"
  /\ owner' = "cancel"
  /\ UNCHANGED << state, worker, proc, reply, error >>

(* _resolve_query_outcome: an error in time.                               *)
ResolveQueryOutcome ==
  LET o == reply[Target]
  IN /\ owner = "observed" /\ ~late /\ o.kind # "success"
     /\ \/ o.kind = "result_limit" /\ Terminal(o) /\ RetireLost("limit")
        \/ /\ o.kind = "server_error" /\ Terminal(o)
           /\ \E e \in {"query", "query_retryable"} : RetireLost(e)
        \/ o.dispatch = "not_sent" /\ RetireLost("query_retryable")
        \/ MustCancel(o)
     /\ UNCHANGED << protocol, attempt, call, calls, query, kill, late, clock, genuine, result >>

(* _raise_deadline_outcome: whatever the outcome, it came too late.        *)
RaiseDeadlineOutcome ==
  LET o == reply[Target]
  IN /\ owner = "observed" /\ late
     /\ \/ (Terminal(o) \/ o.dispatch = "not_sent") /\ RetireLost("deadline")
        \/ MustCancel(o)
     /\ UNCHANGED << protocol, attempt, call, calls, query, kill, late, clock, genuine, result >>

--------------------------------------------------------------------------------
(***************************************************************************)
(* Cancellation: _cancel_and_retire.                                       *)
(***************************************************************************)
(* The error of a call whose cancellation is confirmed.                    *)
CancelledError ==
  IF late THEN "deadline"
  ELSE IF reply[Target].kind = "result_limit" THEN "limit" ELSE "query_retryable"

(* Give up on the cancellation: the server may still work on the query.    *)
RetireUnconfirmed ==
  \E F \in SUBSET Workers :
    /\ Retire("cancellation_unconfirmed", F)
    /\ Raise("unconfirmed")

(* The KILL QUERY goes to the other worker; there may be no time left, no  *)
(* valid request or no budget for it.                                      *)
BeginCancel ==
  /\ owner = "cancel"
  /\ \/ RetireUnconfirmed
     \/ /\ clock # "past" /\ proc[Canceller] = "idle"
        /\ worker' = [worker EXCEPT ![Canceller] = "busy"]
        /\ proc' = [proc EXCEPT ![Canceller] = "killing"]
        /\ owner' = "killing"
        /\ UNCHANGED << state, reply, error >>
  /\ UNCHANGED << protocol, attempt, call, calls, query, kill, late, clock, genuine, result >>

(* _kill_query_finished: exactly one row, of this query and user, says     *)
(* that it has finished.                                                   *)
KillQueryFinished_NoRowIsEnough == kill \in {"finished", "no_row"}

KillQueryFinished == kill = "finished"

(* The outcome of the KILL QUERY arrives: a failed accounting hides it.    *)
CancelAnswered ==
  /\ owner = "killing" /\ kill # "none"
  /\ \/ /\ KillQueryFinished
        /\ \E F \in SUBSET Workers :
             /\ Retire("lost", F)
             /\ Raise(IF F = {} THEN CancelledError ELSE "unconfirmed")
     \/ RetireUnconfirmed
  /\ UNCHANGED << protocol, attempt, call, calls, query, kill, late, clock, genuine, result >>

(* No answer within the reserve, or the worker is gone.                    *)
CancelUnanswered ==
  /\ owner = "killing"
  /\ clock # "working" \/ late \/ proc[Canceller] = "dead"
  /\ RetireUnconfirmed
  /\ UNCHANGED << protocol, attempt, call, calls, query, kill, late, clock, genuine, result >>

(* close: both workers are stopped, or terminated if they do not answer.   *)
Close ==
  /\ owner = "idle" /\ call = "query"
  /\ IF state = "active"
        THEN \E F \in SUBSET Workers :
               CloseWorkers(F) /\ error' = RetireError("none", F)
        ELSE UNCHANGED << state, worker, proc, reply, error >>
  /\ owner' = "left"
  /\ UNCHANGED << protocol, attempt, call, calls, query, kill, late, clock, genuine, result >>

--------------------------------------------------------------------------------
(***************************************************************************)
(* The worker process: the loop of _clickhouse_http_worker_main.           *)
(***************************************************************************)
ownerVars == << protocol, state, attempt, owner, call, calls, error, worker, result >>

(* The worker's outcome is put on the channel; past the deadline the       *)
(* worker may end instead.                                                 *)
Answer(w, o) ==
  \/ reply' = [reply EXCEPT ![w] = o] /\ proc' = [proc EXCEPT ![w] = "idle"]
  \/ late /\ UNCHANGED reply /\ proc' = [proc EXCEPT ![w] = "dead"]

(* _execute_http_request checks the dispatch deadline and connects, or     *)
(* answers that nothing was sent.                                          *)
WorkerConnects ==
  /\ proc[Target] = "requested"
  /\ \/ ~late /\ proc' = [proc EXCEPT ![Target] = "connecting"] /\ UNCHANGED reply
     \/ Answer(Target, TransportError("not_sent"))
  /\ UNCHANGED << ownerVars, serverVars, late, clock, genuine >>

(* The connection is refused or timed out, or the request is on its way:   *)
(* the deadline may have passed since it was checked.                      *)
WorkerPosts ==
  /\ proc[Target] = "connecting"
  /\ \/ Answer(Target, TransportError("not_sent")) /\ UNCHANGED query
     \/ proc' = [proc EXCEPT ![Target] = "requesting"] /\ query' = "inflight" /\ UNCHANGED reply
  /\ UNCHANGED << ownerVars, kill, late, clock, genuine >>

(* The request fails underneath: what the server made of it is unknown.    *)
WorkerLosesConnection ==
  /\ proc[Target] = "requesting"
  /\ Answer(Target, TransportError("unknown"))
  /\ UNCHANGED << ownerVars, serverVars, late, clock, genuine >>

(* A response is read and classified.                                      *)
WorkerReadsResponse ==
  /\ proc[Target] = "requesting"
  /\ \E r \in ResponsesTo(query) :
       /\ Answer(Target, ReadResponse(r))
       /\ genuine' = (r \in AnswerResponses /\ r.size = "within")
  /\ UNCHANGED << ownerVars, serverVars, late, clock >>

(* A worker process ends: its channel closes, its HTTP connection too.     *)
WorkerDies(w) ==
  /\ proc[w] \in {"idle", "requested", "connecting", "requesting", "killing"}
  /\ owner \notin {"left", "open_raised"}
  /\ proc' = [proc EXCEPT ![w] = "dead"]
  /\ UNCHANGED << ownerVars, reply, serverVars, late, clock, genuine >>

--------------------------------------------------------------------------------
(***************************************************************************)
(* The server and time.                                                    *)
(***************************************************************************)
(* A request on its way is started by the server, or lost; a query that    *)
(* runs ends by itself.  None of this depends on the worker being alive.   *)
ServerWorks ==
  /\ \/ query = "inflight" /\ query' \in {"running", "dropped"}
     \/ query = "running" /\ query' \in {"answered", "failed"}
  /\ UNCHANGED << ownerVars, proc, reply, kill, late, clock, genuine >>

(* KILL QUERY ... SYNC answers once the query it finds has ended; a query  *)
(* that is not running (any more, or yet) gives no row, and any other      *)
(* answer is not a confirmation.                                           *)
ServerKills ==
  /\ owner = "killing" /\ kill = "none" /\ proc[Canceller] = "killing"
  /\ \/ query = "running" /\ query' = "killed" /\ kill' = "finished"
     \/ query # "running" /\ kill' = "no_row" /\ UNCHANGED query
     \/ kill' = "refused" /\ UNCHANGED query
  /\ proc' = [proc EXCEPT ![Canceller] = "idle"]
  /\ UNCHANGED << ownerVars, reply, late, clock, genuine >>

(* Deadlines pass in order: the call's, the attempt's reserve, its end.    *)
Time ==
  /\ owner \in {"start_data", "start_control", "prepare", "sending", "waiting", "cancel",
                "killing", "idle"}
  /\ \/ late' = TRUE /\ ~late /\ UNCHANGED clock
     \/ late' = TRUE /\ clock = "working" /\ clock' = "reserve"
     \/ late /\ clock = "reserve" /\ clock' = "past" /\ UNCHANGED late
  /\ UNCHANGED << ownerVars, proc, reply, serverVars, genuine >>

Next ==
  \/ \E w \in Workers : StartWorker(w) \/ StartWorkerFails(w) \/ WorkerDies(w)
  \/ ProbeAnswered \/ OpenFailed \/ StartAgain
  \/ Execute \/ NoTimeToSend \/ RequestRefused \/ BudgetRefused \/ Prepare \/ SendRequest \/ ReceiveOutcome \/ ReceiveTimesOut
  \/ ReturnResult \/ ResolveQueryOutcome \/ RaiseDeadlineOutcome
  \/ BeginCancel \/ CancelAnswered \/ CancelUnanswered \/ Close
  \/ WorkerConnects \/ WorkerPosts \/ WorkerLosesConnection \/ WorkerReadsResponse
  \/ ServerWorks \/ ServerKills \/ Time

Spec == Init /\ [][Next]_vars

--------------------------------------------------------------------------------
(***************************************************************************)
(* Properties.                                                             *)
(***************************************************************************)
(* The source slot is given back (source_slot_released), or the open loop  *)
(* tries again, only when the server works on no query of this transport,  *)
(* none can still arrive there and no worker process is left.  The code's  *)
(* argument is spread over _resolve_query_outcome, _raise_deadline_outcome *)
(* and _cancel_and_retire: each path that ends in LOST has to know.        *)
ReleasedSlotIsIdle ==
  state \in {"lost", "closed"} /\ owner \in {"idle", "left", "open_failed", "start_again"} =>
    /\ query \notin {"inflight", "running"}
    /\ \A w \in Workers : proc[w] = "dead"

(* A payload handed to the caller is the whole answer of its own query,    *)
(* and the transport that returned it can be used again: both workers are  *)
(* ready and neither channel holds a late outcome that the next call would *)
(* take for its own.                                                       *)
ReturnedAnswerIsWhole ==
  /\ result # "partial_rows"
  /\ state = "active" /\ owner \in {"idle", "prepare"} =>
       \A w \in Workers : worker[w] = "ready" /\ reply[w] = NoOutcome

================================================================================
