------------------------ MODULE SourceRequestsProofs ------------------------
(***************************************************************************)
(* Proofs about the requests of a source, part by part.                    *)
(*                                                                         *)
(* The ClickHouse transport (TransportInv): an outcome on a worker's       *)
(* channel is true of the query it answers.  An outcome that settles the   *)
(* query is there only when the server no longer works on it, one that was *)
(* never posted leaves it unsent, and a KILL confirms only what it ended   *)
(* itself.  So the owner, who gives the slot back or goes on after a       *)
(* settled outcome and otherwise stops both workers, leaves nothing        *)
(* behind.                                                                 *)
(*                                                                         *)
(* The ClickHouse context (ContextInv): the bound table, once lost, is     *)
(* never the bound one again, its rows only grow and policies only appear. *)
(* So while it is still the same every read lies between the fingerprint   *)
(* of the acquisition and that of the confirmation, under heads between    *)
(* the two that were observed; the order of the plans (InOrder) has the    *)
(* identity observed after each fingerprint, and a difference is           *)
(* remembered (drift) to the end of its group, where it refuses the        *)
(* confirmation.                                                           *)
(*                                                                         *)
(* The comparison reads (ReadInv), for the five engines.  The statements   *)
(* come first. Each is shown to say the same of the relation, however it   *)
(* joins, seeds, classifies, unites members or segments and orders:        *)
(* JoinsSelect for the rows of a range, SummariesAgree, FingerprintsAgree  *)
(* and RowsAgree for the three reads.  Ranking is what ORDER BY needs: the *)
(* position of a row is the number of rows that are not after it.  Then    *)
(* the decoders, whose loops stop at the first record they refuse          *)
(* (FirstRefusals): a reply is accepted exactly when no record of it is    *)
(* refused (RowsAreScanned, FingerprintsAreScanned, SummariesAreScanned).  *)
(* RepliesAnswer puts the two together for a reply that says what the      *)
(* statement says; AcceptedAreWellFormed needs only the kinds of its       *)
(* fields, which disturbing a reply does not change.                       *)
(*                                                                         *)
(* The plans (PlanInv).  A plan is any text of lines; what the validators  *)
(* read off it by line and indentation is turned into statements about the *)
(* tree: SubtreesEnd (a subtree is the lines up to its end), Parents,      *)
(* Ancestors, NodesAreFound, SerializedAreFound, LinesInOrder.  Then each  *)
(* validator's conditions are the tree (EndpointPlansAreTrees,             *)
(* GreengagePlansAreTrees, OriginalPlansAreTrees), and the planner's own   *)
(* plans, line by line, meet them (EndpointPlanIsAccepted,                 *)
(* CanonicalPlanIsAccepted).                                               *)
(***************************************************************************)
EXTENDS SourceRequests, Integers, FiniteSets, FiniteSetsExt,
        TLAPS, SequenceTheorems, FiniteSetTheorems, WellFoundedInduction, FunctionTheorems

-----------------------------------------------------------------------------
(* The ClickHouse transport, for any number of connection attempts and of  *)
(* calls.                                                                  *)

Processes == {"data", "control"}
Queries == {"none", "unsent", "inflight", "running", "dropped", "answered", "failed", "killed"}
Quiet == query \notin {"inflight", "running"}
Retryable == {"query_retryable", "startup_retryable"}

(* What the owner, the workers and the server are doing.                   *)
Starting == {"start_data", "start_control"}
Exchanging == {"waiting", "observed", "cancel", "killing"}
Calling == {"prepare", "sending"} \cup Exchanging
OwnerSteps ==
    Starting \cup Calling \cup {"idle", "left", "open_failed", "start_again", "open_raised"}
States == {"none", "active", "lost", "closed", "cancellation_unconfirmed"}
WorkerStates == {"none", "ready", "busy", "closed", "cleanup_unconfirmed"}
Resting == {"none", "idle", "dead"}
Serving == {"requested", "connecting", "requesting"}
Outcomes ==
    [kind : {"none", "transport_error", "protocol_error", "server_error", "result_limit",
             "success"},
     dispatch : {"none", "not_sent", "unknown", "received"}, truncated : BOOLEAN]

TransportType ==
    /\ protocol \in {"modern", "legacy"} /\ state \in States /\ owner \in OwnerSteps
    /\ call \in {"data_probe", "control_probe", "query"}
    /\ worker \in [Processes -> WorkerStates]
    /\ proc \in [Processes -> Resting \cup Serving \cup {"killing"}]
    /\ reply \in [Processes -> Outcomes]
    /\ query \in Queries /\ late \in BOOLEAN

(* A response with the marks of the protocol, and nothing cut off.         *)
Whole(r) ==
    /\ r.encoding = "identity" /\ r.code # "invalid"
    /\ r.size = "within" /\ r.frame \notin {"agrees", "differs"} => r.end = "clean"
    /\ protocol = "modern" =>
          /\ r.id = "own" /\ r.tag = "valid"
          /\ r.frame # "partial" \/ r.size # "within"
          /\ r.status = "error" =>
                r.code = "valid" \/ (r.frame \in {"agrees", "differs"} /\ r.code # "valid")
          /\ r.code = "valid" => r.frame # "differs"
    /\ protocol = "legacy" =>
          /\ r.id # "other" /\ r.tag = "none"
          /\ r.id = "missing" => r.code = "valid" /\ r.frame = "agrees"
          /\ r.status = "error" => r.code = "valid"
          /\ r.size = "within" => r.end = "clean"

(* A response settles its query only when the query has ended, and is a    *)
(* success only when it is the whole answer.                               *)
LEMMA ResponseIsTrue ==
    ASSUME protocol \in {"modern", "legacy"}, NEW q, NEW r \in Transport!ResponsesTo(q)
    PROVE  /\ Transport!ReadResponse(r) \in Outcomes
           /\ Transport!ReadResponse(r) # Transport!NoOutcome
           /\ Transport!ReadResponse(r).dispatch # "not_sent"
           /\ Transport!Terminal(Transport!ReadResponse(r)) => q \in {"answered", "failed"}
           /\ Transport!ReadResponse(r).kind = "success" =>
                 /\ r \in Transport!AnswerResponses /\ r.size = "within"
                 /\ ~Transport!ReadResponse(r).truncated
<1>1. PICK o : o = Transport!ReadResponse(r)
  OBVIOUS
<1>2. /\ o \in Outcomes /\ o.kind # "none" /\ o.dispatch \notin {"none", "not_sent"}
      /\ Transport!Terminal(o) => r.size # "huge" /\ Whole(r)
      /\ o.kind = "success" => r.size = "within" /\ r.status # "error" /\ ~o.truncated
  <2>1. CASE protocol = "modern"
    <3>1. CASE Transport!ModernHeaders(r) # Transport!NoOutcome
      <4>1. o = Transport!ModernHeaders(r) /\ o.kind = "protocol_error"
        BY <1>1, <2>1, <3>1 DEF Transport!ReadResponse, Transport!ModernHeaders,
           Transport!ProtocolError, Transport!NoOutcome, Transport!Outcome
      <4>2. o \in Outcomes /\ o.dispatch \in {"unknown", "received"}
        BY <3>1, <4>1 DEF Transport!ModernHeaders, Transport!ProtocolError,
           Transport!NoOutcome, Transport!Outcome, Outcomes
      <4> QED
        BY <4>1, <4>2 DEF Transport!Terminal
    <3>2. CASE Transport!ModernHeaders(r) = Transport!NoOutcome
      <4>1. o = Transport!ModernBody(r)
        BY <1>1, <2>1, <3>2 DEF Transport!ReadResponse
      <4>2. /\ r.id = "own" /\ r.code # "invalid" /\ r.tag = "valid" /\ r.encoding = "identity"
        BY <3>2 DEF Transport!ModernHeaders, Transport!ProtocolError, Transport!NoOutcome,
                    Transport!Outcome
      <4>3. PICK body : body = Transport!BoundedBody(r, r.status = "error" \/ r.code = "valid")
        OBVIOUS
      <4>4. /\ body.truncated \in BOOLEAN
            /\ r.size = "huge" => body.truncated
            /\ r.size = "within" => ~body.truncated
            /\ ~body.truncated => body.end = r.end
        BY <4>3 DEF Transport!BoundedBody
      <4>5. PICK framed \in BOOLEAN :
               framed <=> (~body.truncated /\ r.frame \in {"agrees", "differs"})
        OBVIOUS
      <4>6. PICK broken \in BOOLEAN :
               broken <=> \/ body.end # "clean" /\ ~(body.end = "incomplete" /\ framed)
                          \/ ~framed /\ r.frame = "partial"
                          \/ framed /\ r.code = "valid" /\ r.frame = "differs"
        OBVIOUS
      <4>7. o = IF broken THEN Transport!ProtocolError("unknown", body.truncated)
                ELSE IF r.code = "valid" \/ framed
                     THEN Transport!Outcome("server_error", "received", body.truncated)
                ELSE IF r.status = "error"
                     THEN Transport!ProtocolError("unknown", body.truncated)
                ELSE IF r.size # "within"
                     THEN Transport!Outcome("result_limit", "received", body.truncated)
                ELSE Transport!Outcome("success", "received", FALSE)
        BY <4>1, <4>3, <4>5, <4>6 DEF Transport!ModernBody
      <4>8. o \in Outcomes /\ o.kind # "none" /\ o.dispatch \notin {"none", "not_sent"}
        BY <4>4, <4>7 DEF Transport!ProtocolError, Transport!Outcome, Outcomes
      <4>9. o.kind = "success" => r.size = "within" /\ r.status # "error" /\ ~o.truncated
        BY <4>7 DEF Transport!ProtocolError, Transport!Outcome
      <4>10. Transport!Terminal(o) =>
                /\ ~broken
                /\ \/ r.code = "valid" /\ ~body.truncated
                   \/ framed
                   \/ r.status # "error" /\ r.size # "within" /\ ~body.truncated
                   \/ r.status # "error" /\ r.size = "within"
        BY <4>4, <4>7 DEF Transport!ProtocolError, Transport!Outcome, Transport!Terminal
      <4>11. Transport!Terminal(o) => r.size # "huge" /\ Whole(r)
        BY <2>1, <4>2, <4>4, <4>5, <4>6, <4>10 DEF Whole
      <4> QED
        BY <4>8, <4>9, <4>11
    <3> QED
      BY <3>1, <3>2
  <2>2. CASE protocol = "legacy"
    <3>1. CASE Transport!LegacyHeaders(r) # Transport!NoOutcome
      <4>1. o = Transport!LegacyHeaders(r) /\ o.kind = "protocol_error"
        BY <1>1, <2>2, <3>1 DEF Transport!ReadResponse, Transport!LegacyHeaders,
           Transport!ProtocolError, Transport!NoOutcome, Transport!Outcome
      <4>2. o \in Outcomes /\ o.dispatch \in {"unknown", "received"}
        BY <3>1, <4>1 DEF Transport!LegacyHeaders, Transport!ProtocolError,
           Transport!NoOutcome, Transport!Outcome, Outcomes
      <4> QED
        BY <4>1, <4>2 DEF Transport!Terminal
    <3>2. CASE Transport!LegacyHeaders(r) = Transport!NoOutcome
      <4>1. o = Transport!LegacyBody(r)
        BY <1>1, <2>2, <3>2 DEF Transport!ReadResponse
      <4>2. /\ r.id # "other" /\ r.code # "invalid" /\ r.tag = "none"
            /\ r.id = "missing" => r.status = "error" /\ r.code = "valid"
            /\ r.encoding = "identity"
        BY <3>2 DEF Transport!LegacyHeaders, Transport!ProtocolError, Transport!NoOutcome,
                    Transport!Outcome
      <4>3. PICK body : body = Transport!BoundedBody(r, TRUE)
        OBVIOUS
      <4>4. /\ body.truncated \in BOOLEAN
            /\ r.size = "huge" => body.truncated
            /\ ~body.truncated => body.end = r.end
        BY <4>3 DEF Transport!BoundedBody
      <4>5. PICK broken \in BOOLEAN :
               broken <=> \/ body.end # "clean"
                          \/ r.id = "missing" /\ (body.truncated \/ r.frame # "agrees")
        OBVIOUS
      <4>6. o = IF broken THEN Transport!ProtocolError("unknown", body.truncated)
                ELSE IF r.code = "valid"
                     THEN Transport!Outcome("server_error", "received", body.truncated)
                ELSE IF r.status = "error"
                     THEN Transport!ProtocolError("unknown", body.truncated)
                ELSE IF r.size # "within"
                     THEN Transport!Outcome("result_limit", "received", body.truncated)
                ELSE Transport!Outcome("success", "received", FALSE)
        BY <4>1, <4>3, <4>5 DEF Transport!LegacyBody
      <4>7. o \in Outcomes /\ o.kind # "none" /\ o.dispatch \notin {"none", "not_sent"}
        BY <4>4, <4>6 DEF Transport!ProtocolError, Transport!Outcome, Outcomes
      <4>8. o.kind = "success" => r.size = "within" /\ r.status # "error" /\ ~o.truncated
        BY <4>6 DEF Transport!ProtocolError, Transport!Outcome
      <4>9. Transport!Terminal(o) =>
                /\ ~broken
                /\ \/ r.code = "valid" /\ ~body.truncated
                   \/ r.status # "error" /\ r.size # "within" /\ ~body.truncated
                   \/ r.status # "error" /\ r.size = "within" /\ r.code # "valid"
        BY <4>4, <4>6 DEF Transport!ProtocolError, Transport!Outcome, Transport!Terminal
      <4>10. r.size = "within" => ~body.truncated
        BY <4>3 DEF Transport!BoundedBody
      <4>11. Transport!Terminal(o) => r.size # "huge" /\ Whole(r)
        BY <2>2, <4>2, <4>4, <4>5, <4>9, <4>10 DEF Whole
      <4> QED
        BY <4>7, <4>8, <4>11
    <3> QED
      BY <3>1, <3>2
  <2> QED
    BY <2>1, <2>2
<1>3. r \in Transport!BrokenResponses => ~Whole(r) \/ r.size = "huge"
  BY DEF Transport!BrokenResponses, Transport!Response, Transport!OwnTag, Whole
<1>4. o # Transport!NoOutcome
  BY <1>2 DEF Transport!NoOutcome, Transport!Outcome
<1>5. Transport!Terminal(o) => q \in {"answered", "failed"}
  <2>1. ASSUME q \notin {"answered", "failed"}
        PROVE  r \in Transport!BrokenResponses \/ r.size = "huge"
    BY <2>1 DEF Transport!ResponsesTo
  <2> QED
    BY <1>2, <1>3, <2>1
<1>6. ASSUME o.kind = "success"
      PROVE  r \in Transport!AnswerResponses
  <2>1. Transport!Terminal(o) /\ r.size = "within" /\ r.status # "error"
    BY <1>2, <1>6 DEF Transport!Terminal
  <2>2. r \notin Transport!BrokenResponses
    BY <1>2, <1>3, <2>1
  <2>3. r \notin Transport!ErrorResponses
    BY <2>1 DEF Transport!ErrorResponses, Transport!Response
  <2>4. CASE r \in Transport!FrameResponses /\ protocol = "modern"
    <3>1. /\ r.size = "within" /\ r.frame = "agrees" /\ r.code = "none"
          /\ r.status = "ok" /\ r.id = "own" /\ r.tag = "valid" /\ r.encoding = "identity"
      BY <2>4 DEF Transport!FrameResponses, Transport!Response
    <3>2. o.kind # "success"
      BY <1>1, <2>4, <3>1
         DEF Transport!ReadResponse, Transport!ModernHeaders, Transport!ModernBody,
             Transport!BoundedBody, Transport!ProtocolError, Transport!Outcome,
             Transport!NoOutcome
    <3> QED
      BY <1>6, <3>2
  <2> QED
    BY <2>2, <2>3, <2>4 DEF Transport!ResponsesTo
<1> QED
  BY <1>1, <1>2, <1>4, <1>5, <1>6

Target == Transport!Target
Canceller == Transport!Canceller

(* Nothing of an earlier call is left.                                     *)
AtRest(w) == worker[w] = "ready" /\ reply[w] = Transport!NoOutcome /\ proc[w] \in {"idle", "dead"}

StartingOK ==
    /\ owner \in Starting =>
          /\ state = "none" /\ Quiet
          /\ \A w \in Processes : reply[w] = Transport!NoOutcome /\ proc[w] \in Resting
    /\ owner = "start_data" => \A w \in Processes : worker[w] = "none"
    /\ owner = "start_control" => AtRest("data") /\ worker["control"] = "none"

(* Between calls and before a request is sent.                             *)
ReadyOK ==
    /\ owner \in Calling => state = "active"
    /\ state = "active" /\ owner \in {"idle", "prepare", "sending"} =>
          Quiet /\ \A w \in Processes : AtRest(w)
    /\ owner = "sending" => query = "unsent"

(* From the request to the decision of the owner: a process that has not   *)
(* posted the query leaves it unsent, and the outcome on the channel is    *)
(* true of the query.                                                      *)
ExchangeOK ==
    owner \in Exchanging =>
        /\ worker[Target] \in {"ready", "busy"}
        /\ worker[Canceller] = IF owner = "killing" THEN "busy" ELSE "ready"
        /\ reply[Canceller] = Transport!NoOutcome
        /\ proc[Canceller] \in {"idle", "dead"} \cup (IF owner = "killing" THEN {"killing"} ELSE {})
        /\ proc[Target] \in {"idle", "dead"} \cup Serving
        /\ proc[Target] \in {"requested", "connecting"} => query = "unsent"
        /\ proc[Target] \in Serving => reply[Target] = Transport!NoOutcome
        /\ reply[Target].dispatch = "not_sent" => query = "unsent"
        /\ Transport!Terminal(reply[Target]) => query \in {"answered", "failed"}
        /\ reply[Target].kind = "success" => genuine /\ ~reply[Target].truncated

(* A reply in time comes from a worker that is ready again, or from one    *)
(* whose request went astray.                                              *)
ObservedOK ==
    owner = "observed" /\ worker[Target] = "busy" =>
        \/ late
        \/ /\ reply[Target] = Transport!TransportError("unknown")
           /\ proc[Target] \in {"idle", "dead"}

(* KILL QUERY confirms only what it ended.                                 *)
KillOK ==
    /\ owner \in {"sending", "waiting", "observed", "cancel"} => kill = "none"
    /\ owner = "killing" /\ kill = "finished" => query = "killed"

(* The query is over and both processes are gone; an attempt that may be   *)
(* repeated leaves no query behind.                                        *)
ReleasedOK ==
    /\ state \in {"lost", "closed"} =>
          Quiet /\ \A w \in Processes : proc[w] = "dead" /\ worker[w] = "closed"
    /\ owner = "open_failed" /\ error \in Retryable =>
          /\ Quiet /\ state \in {"none", "lost"}
          /\ \A w \in Processes : proc[w] \in Resting
    /\ owner = "start_again" =>
          /\ Quiet /\ state \in {"none", "lost"}
          /\ \A w \in Processes : proc[w] \in Resting /\ reply[w] = Transport!NoOutcome

TransportInv ==
    /\ TransportType
    /\ StartingOK
    /\ ReadyOK
    /\ ExchangeOK
    /\ ObservedOK
    /\ KillOK
    /\ ReleasedOK
    /\ result # "partial_rows"

(* The two workers of a call.                                              *)
LEMMA TwoWorkers ==
    /\ Target \in Processes /\ Canceller \in Processes /\ Target # Canceller
    /\ Transport!Workers = Processes
    /\ \A w \in Processes : w = Target \/ w = Canceller
BY DEF Target, Canceller, Transport!Target, Transport!Canceller, Processes, Transport!Workers

(* A call keeps its two workers.                                           *)
LEMMA SameWorkers ==
    ASSUME call' = call
    PROVE  Target' = Target /\ Canceller' = Canceller
BY DEF Target, Canceller, Transport!Target, Transport!Canceller

(* An empty channel settles nothing.                                       *)
LEMMA NothingAnswered ==
    /\ Transport!NoOutcome \in Outcomes /\ ~Transport!Terminal(Transport!NoOutcome)
    /\ Transport!NoOutcome.kind # "success" /\ Transport!NoOutcome.dispatch # "not_sent"
BY DEF Transport!NoOutcome, Transport!Outcome, Transport!Terminal, Outcomes

(* An active transport has both workers.                                   *)
LEMMA BothStarted ==
    ASSUME TransportInv, state = "active", owner \in Calling \cup {"idle"}
    PROVE  Transport!Started = Processes /\ \A w \in Processes : worker[w] \in {"ready", "busy"}
<1>1. \A w \in Processes : worker[w] \in {"ready", "busy"}
  <2>1. CASE owner \in Exchanging
    <3>1. worker[Target] \in {"ready", "busy"} /\ worker[Canceller] \in {"ready", "busy"}
      BY <2>1 DEF TransportInv, ExchangeOK
    <3> QED
      BY <3>1, TwoWorkers
  <2>2. CASE owner \in {"idle", "prepare", "sending"}
    BY <2>2 DEF TransportInv, ReadyOK, AtRest
  <2> QED
    BY <2>1, <2>2 DEF Calling
<1> QED
  BY <1>1, TwoWorkers DEF Transport!Started

(* A call, or the transport, ends: the workers are terminated.             *)
LEMMA TransportEnds ==
    ASSUME TransportInv, state = "active", owner \in Calling \cup {"idle"},
           NEW F, Transport!TerminateWorkers(F),
           state' \in {"lost", "closed", "cancellation_unconfirmed"},
           state' \in {"lost", "closed"} => F = {} /\ Quiet,
           owner' \in {"idle", "left", "open_failed"},
           owner' = "open_failed" /\ error' \in Retryable => state' = "lost",
           UNCHANGED << protocol, call, query, late, result >>
    PROVE  TransportInv'
<1>1. Transport!Started = Processes /\ \A w \in Processes : worker[w] \in {"ready", "busy"}
  BY BothStarted
<1>2. /\ worker' = [w \in Processes |-> IF w \in F THEN "cleanup_unconfirmed" ELSE "closed"]
      /\ proc' = [w \in Processes |-> IF w \in F THEN proc[w] ELSE "dead"]
      /\ reply' = [w \in Processes |-> Transport!NoOutcome]
  BY <1>1, TwoWorkers DEF Transport!TerminateWorkers
<1>3. F = {} => \A w \in Processes : proc'[w] = "dead" /\ worker'[w] = "closed"
  BY <1>2
<1>4. TransportType'
  <2>1. /\ worker' \in [Processes -> WorkerStates]
        /\ proc' \in [Processes -> Resting \cup Serving \cup {"killing"}]
        /\ reply' \in [Processes -> Outcomes]
    BY <1>2, NothingAnswered DEF TransportInv, TransportType, WorkerStates, Resting
  <2> QED
    BY <2>1 DEF TransportInv, TransportType, States, OwnerSteps
<1>5. StartingOK' /\ ReadyOK' /\ ExchangeOK' /\ ObservedOK' /\ KillOK'
  BY DEF StartingOK, ReadyOK, ExchangeOK, ObservedOK, KillOK, Starting, Calling, Exchanging
<1>6. ReleasedOK'
  BY <1>3 DEF ReleasedOK, Quiet, Resting
<1> QED
  BY <1>4, <1>5, <1>6 DEF TransportInv

(* A call that gives up with its query over or unsent.                     *)
LEMMA RetireLostStep ==
    ASSUME TransportInv, owner \in Calling, Quiet, NEW e, Transport!RetireLost(e),
           UNCHANGED << protocol, call, query, late, result >>
    PROVE  TransportInv'
<1>1. PICK F : /\ Transport!Retire("lost", F)
               /\ Transport!Raise(Transport!RetireError(e, F))
  BY DEF Transport!RetireLost
<1>2. state = "active" /\ Transport!TerminateWorkers(F)
  BY <1>1 DEF TransportInv, ReadyOK, Transport!Retire
<1>3. /\ state' = IF F = {} THEN "lost" ELSE "cancellation_unconfirmed"
      /\ owner' \in {"idle", "open_failed"}
      /\ F # {} => error' = "cleanup"
  BY <1>1 DEF Transport!Retire, Transport!Raise, Transport!RetireError
<1> QED
  BY <1>2, <1>3, TransportEnds DEF Retryable

(* A call that gives up on its cancellation.                               *)
LEMMA UnconfirmedStep ==
    ASSUME TransportInv, owner \in Calling, Transport!RetireUnconfirmed,
           UNCHANGED << protocol, call, query, late, result >>
    PROVE  TransportInv'
<1>1. PICK F : Transport!Retire("cancellation_unconfirmed", F) /\ Transport!Raise("unconfirmed")
  BY DEF Transport!RetireUnconfirmed
<1>2. state = "active" /\ Transport!TerminateWorkers(F)
  BY <1>1 DEF TransportInv, ReadyOK, Transport!Retire
<1>3. /\ state' = "cancellation_unconfirmed" /\ owner' \in {"idle", "open_failed"}
      /\ error' = "unconfirmed"
  BY <1>1 DEF Transport!Retire, Transport!Raise
<1> QED
  BY <1>2, <1>3, TransportEnds DEF Retryable

(* Opening.                                                                *)
LEMMA StartStep ==
    ASSUME TransportInv, NEW w \in Processes,
           Transport!StartWorker(w) \/ Transport!StartWorkerFails(w)
    PROVE  TransportInv'
<1>1. /\ owner = IF w = "data" THEN "start_data" ELSE "start_control"
      /\ owner \in Starting
  BY DEF Transport!StartWorker, Transport!StartWorkerFails, Starting
<1>2. /\ state = "none" /\ Quiet
      /\ \A v \in Processes : reply[v] = Transport!NoOutcome /\ proc[v] \in Resting
      /\ worker["control"] = "none"
      /\ w = "data" => worker["data"] = "none"
      /\ w # "data" => w = "control" /\ AtRest("data")
  BY <1>1 DEF TransportInv, StartingOK, Processes
<1>3. CASE Transport!StartWorker(w)
  <2>1. /\ worker' = [worker EXCEPT ![w] = "ready"] /\ proc' = [proc EXCEPT ![w] = "idle"]
        /\ owner' = IF w = "data" THEN "start_control" ELSE "prepare"
        /\ state' = IF w = "data" THEN state ELSE "active"
        /\ call' = "data_probe" /\ late' \in BOOLEAN
        /\ UNCHANGED << protocol, reply, query, kill, error, result >>
    BY <1>3 DEF Transport!StartWorker, Transport!OutOfWork, TransportInv, TransportType
  <2>2. /\ TransportType'
    BY <1>2, <2>1 DEF TransportInv, TransportType, WorkerStates, Resting, OwnerSteps, Starting,
                      Calling, States
  <2>3. /\ worker'[w] = "ready" /\ proc'[w] = "idle" /\ reply'[w] = Transport!NoOutcome
        /\ \A v \in Processes \ {w} : worker'[v] = worker[v] /\ proc'[v] = proc[v]
        /\ Quiet' /\ reply' = reply
    BY <1>2, <2>1 DEF TransportInv, TransportType, Quiet
  <2>4. StartingOK'
    BY <1>2, <2>1, <2>3 DEF StartingOK, AtRest, Processes, Starting, Resting
  <2>5. ReadyOK'
    BY <1>2, <2>1, <2>3 DEF ReadyOK, AtRest, Processes, Calling, Exchanging
  <2>6. ExchangeOK' /\ ObservedOK' /\ KillOK' /\ ReleasedOK'
    BY <1>2, <2>1 DEF ExchangeOK, ObservedOK, KillOK, ReleasedOK, Exchanging
  <2> QED
    BY <2>1, <2>2, <2>4, <2>5, <2>6 DEF TransportInv
<1>4. CASE Transport!StartWorkerFails(w)
  <2>1. /\ owner' = "open_failed"
        /\ \E p \in {"dead", "idle"} : proc' = [proc EXCEPT ![w] = p]
        /\ UNCHANGED << protocol, state, call, worker, reply, query, kill, late, result >>
    BY <1>4 DEF Transport!StartWorkerFails
  <2>2. \A v \in Processes : proc'[v] \in Resting
    BY <1>2, <2>1 DEF TransportInv, TransportType, Resting
  <2>3. TransportType'
    BY <1>2, <2>1 DEF TransportInv, TransportType, Resting, OwnerSteps
  <2>4. StartingOK' /\ ReadyOK' /\ ExchangeOK' /\ ObservedOK' /\ KillOK'
    BY <2>1 DEF StartingOK, ReadyOK, ExchangeOK, ObservedOK, KillOK, Starting, Calling, Exchanging
  <2>5. ReleasedOK'
    BY <1>2, <2>1, <2>2 DEF ReleasedOK, Quiet
  <2> QED
    BY <2>1, <2>3, <2>4, <2>5 DEF TransportInv
<1> QED
  BY <1>3, <1>4

(* The open loop after a failed attempt, and its next one.                 *)
LEMMA OpenFailedStep ==
    ASSUME TransportInv, Transport!OpenFailed
    PROVE  TransportInv'
<1>1. PICK F : /\ Transport!TerminateWorkers(F)
               /\ \/ /\ F = {} /\ error \in Retryable /\ owner' = "start_again"
                  \/ owner' = "open_raised"
  BY DEF Transport!OpenFailed, Retryable
<1>2. /\ owner = "open_failed"
      /\ UNCHANGED << protocol, state, call, query, kill, late, result >>
  BY DEF Transport!OpenFailed
<1>3. /\ F \subseteq {w \in Transport!Started : worker[w] # "closed"}
      /\ worker' = [w \in Processes |-> IF w \notin Transport!Started THEN "none"
                                        ELSE IF w \in F THEN "cleanup_unconfirmed" ELSE "closed"]
      /\ proc' = [w \in Processes |-> IF w \in Transport!Started \ F THEN "dead" ELSE proc[w]]
      /\ reply' = [w \in Processes |-> Transport!NoOutcome]
  BY <1>1, TwoWorkers DEF Transport!TerminateWorkers
<1>4. TransportType'
  <2>1. /\ worker' \in [Processes -> WorkerStates]
        /\ proc' \in [Processes -> Resting \cup Serving \cup {"killing"}]
        /\ reply' \in [Processes -> Outcomes]
    BY <1>3, NothingAnswered DEF TransportInv, TransportType, WorkerStates, Resting
  <2> QED
    BY <1>1, <1>2, <2>1 DEF TransportInv, TransportType, OwnerSteps
<1>5. StartingOK' /\ ReadyOK' /\ ExchangeOK' /\ ObservedOK' /\ KillOK'
  BY <1>1, <1>2
     DEF StartingOK, ReadyOK, ExchangeOK, ObservedOK, KillOK, Starting, Calling, Exchanging
<1>6. ASSUME state' \in {"lost", "closed"}
      PROVE  Quiet' /\ \A w \in Processes : proc'[w] = "dead" /\ worker'[w] = "closed"
  <2>1. Quiet /\ \A w \in Processes : proc[w] = "dead" /\ worker[w] = "closed"
    BY <1>2, <1>6 DEF TransportInv, ReleasedOK
  <2>2. F = {} /\ \A w \in Processes : w \in Transport!Started
    BY <1>3, <2>1, TwoWorkers DEF Transport!Started
  <2> QED
    BY <1>2, <1>3, <2>1, <2>2 DEF Quiet
<1>7. ASSUME owner' = "start_again"
      PROVE  /\ Quiet' /\ state' \in {"none", "lost"}
             /\ \A w \in Processes : proc'[w] \in Resting /\ reply'[w] = Transport!NoOutcome
  <2>1. Quiet /\ state \in {"none", "lost"} /\ \A w \in Processes : proc[w] \in Resting
    BY <1>1, <1>2, <1>7 DEF TransportInv, ReleasedOK
  <2> QED
    BY <1>2, <1>3, <2>1 DEF Quiet, Resting
<1>8. ReleasedOK'
  BY <1>1, <1>6, <1>7 DEF ReleasedOK
<1> QED
  BY <1>2, <1>4, <1>5, <1>8 DEF TransportInv

(* An attempt is repeated only with nothing left of the one before.        *)
LEMMA StartAgainStep ==
    ASSUME TransportInv, Transport!StartAgain
    PROVE  TransportInv'
<1>1. /\ owner = "start_again" /\ late' \in BOOLEAN
      /\ UNCHANGED << protocol, call, reply, query, kill, result >>
      /\ \/ owner' = "open_raised" /\ UNCHANGED << state, worker, proc >>
         \/ /\ owner' = "start_data" /\ state' = "none"
            /\ worker' = [w \in Processes |-> "none"] /\ proc' = [w \in Processes |-> "none"]
  BY TwoWorkers DEF Transport!StartAgain, Transport!OutOfWork
<1>2. /\ Quiet /\ state \in {"none", "lost"}
      /\ \A w \in Processes : proc[w] \in Resting /\ reply[w] = Transport!NoOutcome
  BY <1>1 DEF TransportInv, ReleasedOK
<1>3. TransportType'
  BY <1>1 DEF TransportInv, TransportType, OwnerSteps, Starting, States, WorkerStates, Resting
<1>4. StartingOK'
  BY <1>1, <1>2 DEF StartingOK, Starting, Quiet, Resting
<1>5. ReadyOK' /\ ExchangeOK' /\ ObservedOK' /\ KillOK'
  BY <1>1 DEF ReadyOK, ExchangeOK, ObservedOK, KillOK, Calling, Exchanging
     , TransportInv, ReleasedOK
<1>6. ReleasedOK'
  BY <1>1 DEF ReleasedOK, TransportInv, Quiet
<1> QED
  BY <1>1, <1>3, <1>4, <1>5, <1>6 DEF TransportInv

(* A step between calls that leaves the workers alone.                     *)
LEMMA IdleStep ==
    ASSUME TransportInv, owner \in {"idle", "prepare"}, late' \in BOOLEAN,
           UNCHANGED << protocol, state, worker, proc, reply, query >>,
           call' \in {"data_probe", "control_probe", "query"},
           \/ owner' \in {"idle", "prepare", "left"}
           \/ owner' = "open_failed" /\ error' \notin Retryable,
           owner' = "prepare" => state = "active",
           result' # "partial_rows"
    PROVE  TransportInv'
<1>1. TransportType'
  BY DEF TransportInv, TransportType, OwnerSteps, Calling
<1>2. StartingOK' /\ ExchangeOK' /\ ObservedOK' /\ KillOK'
  BY DEF StartingOK, ExchangeOK, ObservedOK, KillOK, Starting, Exchanging
<1>3. ReadyOK'
  BY DEF TransportInv, ReadyOK, AtRest, Calling, Exchanging, Quiet
<1>4. ReleasedOK'
  BY DEF TransportInv, ReleasedOK, Quiet
<1> QED
  BY <1>1, <1>2, <1>3, <1>4 DEF TransportInv

(* The transport is closed between two calls.                              *)
LEMMA CloseWorkersStep ==
    ASSUME TransportInv, owner = "idle", state = "active", NEW F, Transport!CloseWorkers(F),
           owner' \in {"left", "open_failed"},
           owner' = "open_failed" => error' \notin Retryable,
           UNCHANGED << protocol, call, query, late, result >>
    PROVE  TransportInv'
<1>1. Transport!TerminateWorkers(F) /\ Quiet
  BY DEF Transport!CloseWorkers, TransportInv, ReadyOK
<1>2. /\ state' \in {"closed", "cancellation_unconfirmed"}
      /\ state' = "closed" => F = {}
  BY DEF Transport!CloseWorkers
<1> QED
  BY <1>1, <1>2, TransportEnds

(* A probe's payload is accepted, or the transport is closed.              *)
LEMMA ProbeAnsweredStep ==
    ASSUME TransportInv, Transport!ProbeAnswered
    PROVE  TransportInv'
<1>1. owner = "idle" /\ state = "active" /\ UNCHANGED << protocol, query >>
  BY DEF Transport!ProbeAnswered
<1>2. CASE /\ call' = IF call = "data_probe" THEN "control_probe" ELSE "query"
           /\ owner' = IF call = "data_probe" THEN "prepare" ELSE "idle"
           /\ result' = "none" /\ late' = Transport!OutOfWork
           /\ UNCHANGED << state, worker, proc, reply, error >>
  BY <1>1, <1>2, IdleStep DEF Transport!OutOfWork
<1>3. CASE \E F \in SUBSET Transport!Workers :
              /\ Transport!CloseWorkers(F)
              /\ error' = Transport!RetireError("connection", F)
              /\ owner' = "open_failed"
              /\ UNCHANGED << call, result, late >>
  BY <1>1, <1>3, CloseWorkersStep DEF Transport!RetireError, Retryable
<1> QED
  BY <1>2, <1>3 DEF Transport!ProbeAnswered

(* The caller closes the transport.                                        *)
LEMMA CloseStep ==
    ASSUME TransportInv, Transport!Close
    PROVE  TransportInv'
<1>1. owner = "idle" /\ owner' = "left" /\ UNCHANGED << protocol, call, query, late, result >>
  BY DEF Transport!Close
<1>2. CASE state = "active"
  BY <1>1, <1>2, CloseWorkersStep DEF Transport!Close
<1>3. CASE state # "active"
  <2>1. UNCHANGED << state, worker, proc, reply >>
    BY <1>3 DEF Transport!Close
  <2> QED
    BY <1>1, <2>1, IdleStep DEF TransportInv, TransportType
<1> QED
  BY <1>2, <1>3

(* A call, up to the request.                                              *)
LEMMA CallStep ==
    ASSUME TransportInv,
           \/ Transport!Execute \/ Transport!NoTimeToSend \/ Transport!RequestRefused
           \/ Transport!BudgetRefused \/ Transport!Prepare
    PROVE  TransportInv'
<1>1. CASE Transport!Execute
  <2>1. /\ owner = "idle" /\ owner' \in {"idle", "prepare"} /\ late' \in BOOLEAN
        /\ owner' = "prepare" => state = "active"
        /\ result' # "partial_rows"
        /\ UNCHANGED << protocol, state, call, worker, proc, reply, query >>
    BY <1>1 DEF Transport!Execute, Transport!OutOfWork, TransportInv, TransportType
  <2> QED
    BY <2>1, IdleStep DEF TransportInv, TransportType
<1>2. CASE Transport!NoTimeToSend
  <2>1. owner = "prepare" /\ Transport!RetireLost("deadline")
        /\ UNCHANGED << protocol, call, query, late, result >>
    BY <1>2 DEF Transport!NoTimeToSend
  <2>2. Quiet
    BY <2>1 DEF TransportInv, ReadyOK, Calling
  <2> QED
    BY <2>1, <2>2, RetireLostStep DEF Calling
<1>3. CASE Transport!RequestRefused \/ Transport!BudgetRefused
  <2>1. /\ owner = "prepare" /\ \E e \in {"invalid", "budget"} : Transport!Raise(e)
        /\ UNCHANGED << protocol, state, call, worker, proc, reply, query, late, result >>
    BY <1>3 DEF Transport!RequestRefused, Transport!BudgetRefused
  <2>2. owner' = "idle" \/ (owner' = "open_failed" /\ error' \notin Retryable)
    BY <2>1 DEF Transport!Raise, Retryable
  <2> QED
    BY <2>1, <2>2, IdleStep DEF TransportInv, TransportType
<1>4. CASE Transport!Prepare
  <2>1. /\ owner = "prepare" /\ owner' = "sending" /\ query' = "unsent" /\ kill' = "none"
        /\ UNCHANGED << protocol, state, call, error, worker, proc, reply, late, result >>
    BY <1>4 DEF Transport!Prepare
  <2>2. state = "active" /\ \A w \in Processes : AtRest(w)
    BY <2>1 DEF TransportInv, ReadyOK, Calling
  <2>3. TransportType' /\ ReadyOK'
    BY <2>1, <2>2
       DEF TransportInv, TransportType, ReadyOK, AtRest, Quiet, Queries, OwnerSteps, Calling
  <2>4. StartingOK' /\ ExchangeOK' /\ ObservedOK' /\ KillOK' /\ ReleasedOK'
    BY <2>1, <2>2
       DEF StartingOK, ExchangeOK, ObservedOK, KillOK, ReleasedOK, Starting, Exchanging
  <2> QED
    BY <2>1, <2>3, <2>4 DEF TransportInv
<1> QED
  BY <1>1, <1>2, <1>3, <1>4

(* A step into or within an exchange.                                      *)
LEMMA ExchangeStep ==
    ASSUME TransportInv, owner' \in Exchanging, state = "active", state' = state, result' = result,
           TransportType', ExchangeOK', ObservedOK', KillOK'
    PROVE  TransportInv'
<1>1. StartingOK' /\ ReadyOK' /\ ReleasedOK'
  BY DEF StartingOK, ReadyOK, ReleasedOK, Starting, Exchanging, Calling
<1> QED
  BY <1>1 DEF TransportInv

(* The request goes to the worker, or not, or nobody knows.                *)
LEMMA SendStep ==
    ASSUME TransportInv, Transport!SendRequest
    PROVE  TransportInv'
<1>1. /\ owner = "sending" /\ UNCHANGED << protocol, state, call, query, kill, late, result >>
  BY DEF Transport!SendRequest
<1>2. /\ state = "active" /\ query = "unsent" /\ kill = "none"
      /\ AtRest(Target) /\ AtRest(Canceller) /\ Target' = Target /\ Canceller' = Canceller
  BY <1>1, TwoWorkers, SameWorkers DEF TransportInv, ReadyOK, KillOK, Calling
<1>3. /\ worker \in [Processes -> WorkerStates]
      /\ proc \in [Processes -> Resting \cup Serving \cup {"killing"}]
      /\ reply \in [Processes -> Outcomes] /\ late \in BOOLEAN
  BY DEF TransportInv, TransportType
<1>4. /\ Transport!TransportError("not_sent") \in Outcomes
      /\ Transport!TransportError("unknown") \in Outcomes
      /\ ~Transport!Terminal(Transport!TransportError("not_sent"))
      /\ ~Transport!Terminal(Transport!TransportError("unknown"))
      /\ \A d : Transport!TransportError(d).kind # "success"
      /\ Transport!TransportError("unknown").dispatch # "not_sent"
  BY DEF Transport!TransportError, Transport!Outcome, Transport!Terminal, Outcomes
<1>5. owner' \in Exchanging
  BY DEF Transport!SendRequest, Exchanging
<1>6. CASE /\ worker' = [worker EXCEPT ![Target] = "busy"]
           /\ proc' = [proc EXCEPT ![Target] = "requested"]
           /\ owner' = "waiting" /\ UNCHANGED reply
  <2>1. /\ worker'[Target] = "busy" /\ worker'[Canceller] = "ready" /\ proc'[Target] = "requested"
        /\ proc'[Canceller] = proc[Canceller] /\ reply'[Target] = Transport!NoOutcome
        /\ reply'[Canceller] = Transport!NoOutcome
    BY <1>2, <1>3, <1>6, TwoWorkers DEF AtRest
  <2>2. TransportType'
    BY <1>1, <1>3, <1>6, TwoWorkers
       DEF TransportInv, TransportType, WorkerStates, Serving, OwnerSteps, Calling, Exchanging
  <2>3. ExchangeOK'
    BY <1>1, <1>2, <1>6, <2>1, NothingAnswered DEF ExchangeOK, Serving, AtRest
  <2>4. ObservedOK' /\ KillOK'
    BY <1>1, <1>2, <1>6 DEF ObservedOK, KillOK
  <2> QED
    BY <1>1, <1>2, <1>5, <2>2, <2>3, <2>4, ExchangeStep
<1>7. CASE /\ reply' = [reply EXCEPT ![Target] = Transport!TransportError("not_sent")]
           /\ owner' = "observed" /\ UNCHANGED << worker, proc >>
  <2>1. /\ reply'[Target] = Transport!TransportError("not_sent")
        /\ reply'[Canceller] = Transport!NoOutcome
    BY <1>2, <1>3, <1>7, TwoWorkers DEF AtRest
  <2>2. TransportType'
    BY <1>1, <1>3, <1>4, <1>7, TwoWorkers
       DEF TransportInv, TransportType, OwnerSteps, Calling, Exchanging
  <2>3. ExchangeOK'
    BY <1>1, <1>2, <1>4, <1>7, <2>1 DEF ExchangeOK, Serving, AtRest
  <2>4. ObservedOK' /\ KillOK'
    BY <1>1, <1>2, <1>7 DEF ObservedOK, KillOK, AtRest
  <2> QED
    BY <1>1, <1>2, <1>5, <2>2, <2>3, <2>4, ExchangeStep
<1>8. CASE /\ worker' = [worker EXCEPT ![Target] = "busy"]
           /\ reply' = [reply EXCEPT ![Target] = IF late THEN Transport!NoOutcome
                                            ELSE Transport!TransportError("unknown")]
           /\ owner' = "observed" /\ UNCHANGED proc
  <2>1. /\ worker'[Target] = "busy" /\ worker'[Canceller] = "ready"
        /\ reply'[Target] = IF late THEN Transport!NoOutcome ELSE Transport!TransportError("unknown")
        /\ reply'[Canceller] = Transport!NoOutcome
    BY <1>2, <1>3, <1>8, TwoWorkers DEF AtRest
  <2>2. TransportType'
    BY <1>1, <1>3, <1>4, <1>8, TwoWorkers, NothingAnswered
       DEF TransportInv, TransportType, WorkerStates, OwnerSteps, Calling, Exchanging
  <2>3. ExchangeOK'
    BY <1>1, <1>2, <1>4, <1>8, <2>1, NothingAnswered DEF ExchangeOK, Serving, AtRest
  <2>4. ObservedOK' /\ KillOK'
    BY <1>1, <1>2, <1>8, <2>1 DEF ObservedOK, KillOK, AtRest
  <2> QED
    BY <1>1, <1>2, <1>5, <2>2, <2>3, <2>4, ExchangeStep
<1> QED
  BY <1>6, <1>7, <1>8 DEF Transport!SendRequest, Target

(* The owner stops waiting with an outcome, or without one.                *)
LEMMA ReceiveStep ==
    ASSUME TransportInv, Transport!ReceiveOutcome \/ Transport!ReceiveTimesOut
    PROVE  TransportInv'
<1>1. /\ owner = "waiting" /\ owner' = "observed"
      /\ UNCHANGED << protocol, state, call, proc, query, kill, late, genuine, result >>
  BY DEF Transport!ReceiveOutcome, Transport!ReceiveTimesOut
<1>2. /\ state = "active" /\ kill = "none" /\ Target' = Target /\ Canceller' = Canceller
      /\ owner' \in Exchanging
  BY <1>1, SameWorkers DEF TransportInv, ReadyOK, KillOK, Calling, Exchanging
<1>3. /\ worker \in [Processes -> WorkerStates] /\ reply \in [Processes -> Outcomes]
  BY DEF TransportInv, TransportType
<1>4. CASE Transport!ReceiveTimesOut
  <2>1. UNCHANGED << worker, reply >> /\ late
    BY <1>4 DEF Transport!ReceiveTimesOut
  <2>2. TransportType' /\ ExchangeOK' /\ ObservedOK' /\ KillOK'
    BY <1>1, <1>2, <2>1
       DEF TransportInv, TransportType, ExchangeOK, ObservedOK, KillOK, OwnerSteps, Calling,
           Exchanging
  <2> QED
    BY <1>1, <1>2, <2>2, ExchangeStep
<1>5. CASE Transport!ReceiveOutcome
  <2>1. /\ worker' = [worker EXCEPT ![Target] = "ready"]
        /\ \/ UNCHANGED reply
           \/ /\ proc[Target] = "dead"
              /\ reply' = [reply EXCEPT ![Target] = Transport!TransportError("unknown")]
    BY <1>5 DEF Transport!ReceiveOutcome, Target
  <2>2. /\ worker'[Target] = "ready" /\ worker'[Canceller] = worker[Canceller]
        /\ reply'[Canceller] = reply[Canceller]
        /\ \/ reply'[Target] = reply[Target]
           \/ proc[Target] = "dead" /\ reply'[Target] = Transport!TransportError("unknown")
    BY <1>3, <2>1, TwoWorkers
  <2>3. /\ Transport!TransportError("unknown") \in Outcomes
        /\ ~Transport!Terminal(Transport!TransportError("unknown"))
        /\ Transport!TransportError("unknown").kind # "success"
        /\ Transport!TransportError("unknown").dispatch # "not_sent"
    BY DEF Transport!TransportError, Transport!Outcome, Transport!Terminal, Outcomes
  <2>4. worker' \in [Processes -> WorkerStates] /\ reply' \in [Processes -> Outcomes]
    BY <1>3, <2>1, <2>3, TwoWorkers DEF WorkerStates
  <2>5. TransportType'
    BY <1>1, <2>4 DEF TransportInv, TransportType, OwnerSteps, Calling, Exchanging
  <2>6. ExchangeOK'
    BY <1>1, <1>2, <2>2, <2>3 DEF TransportInv, ExchangeOK, Exchanging, Serving
  <2>7. ObservedOK' /\ KillOK'
    BY <1>1, <1>2, <2>2 DEF ObservedOK, KillOK
  <2> QED
    BY <1>1, <1>2, <2>5, <2>6, <2>7, ExchangeStep
<1> QED
  BY <1>4, <1>5

(* An outcome that settles the query: it is over, or was never sent.       *)
LEMMA SettledIsQuiet ==
    ASSUME TransportInv, owner = "observed",
           Transport!Terminal(reply[Target]) \/ reply[Target].dispatch = "not_sent"
    PROVE  Quiet
BY DEF TransportInv, ExchangeOK, Exchanging, Quiet

(* An outcome that does not: the owner goes on to cancel.                  *)
LEMMA MustCancelStep ==
    ASSUME TransportInv, owner = "observed", NEW o, Transport!MustCancel(o),
           UNCHANGED << protocol, call, query, kill, late, genuine, result >>
    PROVE  TransportInv'
<1>1. /\ owner' = "cancel" /\ UNCHANGED << state, worker, proc, reply >>
      /\ owner' \in Exchanging /\ state = "active" /\ Target' = Target /\ Canceller' = Canceller
  BY SameWorkers DEF Transport!MustCancel, TransportInv, ReadyOK, Calling, Exchanging
<1>2. TransportType' /\ ExchangeOK' /\ ObservedOK' /\ KillOK'
  BY <1>1
     DEF TransportInv, TransportType, ExchangeOK, ObservedOK, KillOK, OwnerSteps, Calling,
        Exchanging
<1> QED
  BY <1>1, <1>2, ExchangeStep

(* What the owner makes of an outcome.                                     *)
LEMMA DecideStep ==
    ASSUME TransportInv,
           \/ Transport!ReturnResult \/ Transport!ResolveQueryOutcome
           \/ Transport!RaiseDeadlineOutcome
    PROVE  TransportInv'
<1>1. /\ owner = "observed" /\ owner \in Calling /\ state = "active"
      /\ UNCHANGED << protocol, call, query, kill, late, genuine >>
  BY DEF Transport!ReturnResult, Transport!ResolveQueryOutcome, Transport!RaiseDeadlineOutcome,
         Calling, Exchanging, TransportInv, ReadyOK
<1>2. ASSUME result' = result,
             \/ /\ Transport!Terminal(reply[Target]) \/ reply[Target].dispatch = "not_sent"
                /\ \E e \in {"limit", "query", "query_retryable", "deadline", "budget"} :
                      Transport!RetireLost(e)
             \/ Transport!MustCancel(reply[Target])
      PROVE  TransportInv'
  BY <1>1, <1>2, SettledIsQuiet, RetireLostStep, MustCancelStep
<1>3. CASE Transport!ResolveQueryOutcome \/ Transport!RaiseDeadlineOutcome
  BY <1>2, <1>3 DEF Transport!ResolveQueryOutcome, Transport!RaiseDeadlineOutcome, Target
<1>4. CASE Transport!ReturnResult
  <2>1. reply[Target].kind = "success" /\ ~late
    BY <1>4 DEF Transport!ReturnResult, Target
  <2>2. /\ Transport!Terminal(reply[Target]) /\ genuine
    BY <1>1, <2>1 DEF TransportInv, ExchangeOK, Transport!Terminal, Exchanging
  <2>3. CASE Transport!RetireLost("budget") /\ UNCHANGED result
    BY <1>2, <2>2, <2>3
  <2>4. CASE /\ result' = "rows" /\ owner' = "idle"
             /\ reply' = [reply EXCEPT ![Target] = Transport!NoOutcome]
             /\ UNCHANGED << state, worker, proc >>
    <3>1. worker[Target] = "ready"
      <4>1. reply[Target] # Transport!TransportError("unknown")
        BY <2>1 DEF Transport!TransportError, Transport!Outcome
      <4> QED
        BY <1>1, <2>1, <4>1 DEF TransportInv, ObservedOK, ExchangeOK, Exchanging
    <3>2. /\ worker[Canceller] = "ready" /\ reply[Canceller] = Transport!NoOutcome
          /\ proc[Canceller] \in {"idle", "dead"} /\ proc[Target] \in {"idle", "dead"} /\ Quiet
      BY <1>1, <2>1, <2>2, NothingAnswered DEF TransportInv, ExchangeOK, Exchanging, Quiet
    <3>3. reply' \in [Processes -> Outcomes] /\ reply'[Target] = Transport!NoOutcome
          /\ reply'[Canceller] = Transport!NoOutcome
      BY <2>4, <3>2, TwoWorkers, NothingAnswered DEF TransportInv, TransportType
    <3>4. \A w \in Processes : AtRest(w)'
      BY <2>4, <3>1, <3>2, <3>3, TwoWorkers DEF AtRest
    <3>5. TransportType'
      BY <1>1, <2>4, <3>3 DEF TransportInv, TransportType, OwnerSteps
    <3>6. StartingOK' /\ ReadyOK' /\ ExchangeOK' /\ ObservedOK' /\ KillOK' /\ ReleasedOK'
      BY <1>1, <2>4, <3>2, <3>4
         DEF StartingOK, ReadyOK, ExchangeOK, ObservedOK, KillOK, ReleasedOK, Starting, Calling,
             Exchanging, Quiet
    <3> QED
      BY <2>4, <3>5, <3>6 DEF TransportInv
  <2> QED
    BY <1>4, <2>2, <2>3, <2>4 DEF Transport!ReturnResult, Target
<1> QED
  BY <1>3, <1>4

(* The cancellation.                                                       *)
LEMMA CancelStep ==
    ASSUME TransportInv,
           Transport!BeginCancel \/ Transport!CancelAnswered \/ Transport!CancelUnanswered
    PROVE  TransportInv'
<1>1. /\ owner \in {"cancel", "killing"} /\ owner \in Calling /\ owner \in Exchanging
      /\ UNCHANGED << protocol, call, query, kill, late, genuine, result >>
  BY DEF Transport!BeginCancel, Transport!CancelAnswered, Transport!CancelUnanswered, Calling,
         Exchanging
<1>2. state = "active" /\ Target' = Target /\ Canceller' = Canceller
  BY <1>1, SameWorkers DEF TransportInv, ReadyOK
<1>3. CASE Transport!RetireUnconfirmed
  BY <1>1, <1>3, UnconfirmedStep
<1>4. CASE /\ owner = "cancel" /\ owner' = "killing" /\ UNCHANGED << state, reply >>
           /\ worker' = [worker EXCEPT ![Canceller] = "busy"]
           /\ proc' = [proc EXCEPT ![Canceller] = "killing"]
  <2>1. /\ worker'[Canceller] = "busy" /\ proc'[Canceller] = "killing"
        /\ worker'[Target] = worker[Target]
        /\ proc'[Target] = proc[Target]
    BY <1>4, TwoWorkers DEF TransportInv, TransportType
  <2>2. TransportType'
    <3>1. /\ worker' \in [Processes -> WorkerStates]
          /\ proc' \in [Processes -> Resting \cup Serving \cup {"killing"}]
      BY <1>4, TwoWorkers DEF TransportInv, TransportType, WorkerStates
    <3> QED
      BY <1>1, <1>4, <3>1 DEF TransportInv, TransportType, OwnerSteps, Calling, Exchanging
  <2>3. ExchangeOK'
    BY <1>1, <1>2, <1>4, <2>1 DEF TransportInv, ExchangeOK, Exchanging
  <2>4. ObservedOK' /\ KillOK'
    BY <1>1, <1>4 DEF ObservedOK, TransportInv, KillOK
  <2> QED
    BY <1>2, <1>1, <1>4, <2>2, <2>3, <2>4, ExchangeStep DEF Exchanging
<1>5. CASE /\ owner = "killing" /\ kill = "finished"
           /\ \E F \in SUBSET Transport!Workers :
                 /\ Transport!Retire("lost", F)
                 /\ Transport!Raise(IF F = {} THEN Transport!CancelledError ELSE "unconfirmed")
  <2>1. PICK F : /\ Transport!Retire("lost", F)
                 /\ Transport!Raise(IF F = {} THEN Transport!CancelledError ELSE "unconfirmed")
    BY <1>5
  <2>2. Quiet /\ Transport!TerminateWorkers(F)
    BY <1>5, <2>1 DEF TransportInv, KillOK, Quiet, Transport!Retire
  <2>3. /\ state' = IF F = {} THEN "lost" ELSE "cancellation_unconfirmed"
        /\ owner' \in {"idle", "open_failed"}
        /\ F # {} => error' = "unconfirmed"
    BY <2>1 DEF Transport!Retire, Transport!Raise
  <2> QED
    BY <1>1, <1>2, <2>2, <2>3, TransportEnds DEF Retryable
<1> QED
  BY <1>3, <1>4, <1>5
     DEF Transport!BeginCancel, Transport!CancelAnswered, Transport!CancelUnanswered,
         Transport!KillQueryFinished, Canceller

(* A worker that still serves a call the owner has given up: nothing is    *)
(* promised of such a transport any more.                                  *)
LEMMA AbandonedStep ==
    ASSUME TransportInv, owner \notin Exchanging, NEW w \in Processes, proc[w] \in Serving,
           UNCHANGED << state, owner, call, error, result >>, TransportType'
    PROVE  TransportInv'
<1>1. proc[w] \notin Resting
  BY DEF Serving, Resting
<1>2. /\ owner \notin Starting \cup Calling \cup {"start_again"}
      /\ ~(owner = "idle" /\ state = "active") /\ state \notin {"lost", "closed"}
      /\ ~(owner = "open_failed" /\ error \in Retryable)
  BY <1>1 DEF TransportInv, StartingOK, ReadyOK, ReleasedOK, AtRest, Resting, Calling
<1>3. StartingOK' /\ ReadyOK' /\ ExchangeOK' /\ ObservedOK' /\ KillOK'
  BY <1>2 DEF StartingOK, ReadyOK, ExchangeOK, ObservedOK, KillOK, Starting, Calling, Exchanging
<1>4. ReleasedOK'
  BY <1>2 DEF ReleasedOK
<1> QED
  BY <1>3, <1>4 DEF TransportInv

(* The worker of the call puts an outcome on the channel that is true of   *)
(* the query.                                                              *)
LEMMA AnswerStep ==
    ASSUME TransportInv, proc[Target] \in Serving, NEW o \in Outcomes, Transport!Answer(Target, o),
           owner \in Exchanging /\ o.dispatch = "not_sent" => query = "unsent",
           Transport!Terminal(o) => query \in {"answered", "failed"},
           o.kind = "success" => genuine' /\ ~o.truncated,
           UNCHANGED << protocol, state, owner, call, error, worker, result, query, kill, late >>
    PROVE  TransportInv'
<1>1. /\ Target' = Target /\ Canceller' = Canceller /\ Target \in Processes
      /\ Canceller \in Processes /\ Target # Canceller
  BY SameWorkers, TwoWorkers
<1>2. /\ proc'[Canceller] = proc[Canceller] /\ reply'[Canceller] = reply[Canceller]
      /\ proc'[Target] \in {"idle", "dead"}
      /\ reply'[Target] \in {o, reply[Target]}
      /\ proc' \in [Processes -> Resting \cup Serving \cup {"killing"}]
      /\ reply' \in [Processes -> Outcomes]
  BY <1>1 DEF Transport!Answer, TransportInv, TransportType, Resting
<1>3. TransportType'
  BY <1>2 DEF TransportInv, TransportType
<1>4. CASE owner \in Exchanging
  <2>1. reply[Target] = Transport!NoOutcome
    BY <1>4 DEF TransportInv, ExchangeOK
  <2>2. ExchangeOK'
    BY <1>1, <1>2, <1>4, <2>1, NothingAnswered DEF TransportInv, ExchangeOK, Serving
  <2>3. ObservedOK'
    <3>1. proc[Target] \notin {"idle", "dead"}
      BY DEF Serving
    <3> QED
      BY <1>1, <3>1 DEF TransportInv, ObservedOK
  <2>4. KillOK' /\ state = "active"
    BY <1>4 DEF TransportInv, KillOK, ReadyOK, Calling
  <2> QED
    BY <1>3, <1>4, <2>2, <2>3, <2>4, ExchangeStep
<1> QED
  BY <1>1, <1>3, <1>4, AbandonedStep

(* A step of the worker's loop.                                            *)
LEMMA WorkerStep ==
    ASSUME TransportInv,
           \/ Transport!WorkerConnects \/ Transport!WorkerPosts
           \/ Transport!WorkerLosesConnection \/ Transport!WorkerReadsResponse
    PROVE  TransportInv'
<1>1. /\ proc[Target] \in Serving
      /\ UNCHANGED << protocol, state, owner, call, error, worker, result, kill, late >>
  BY DEF Transport!WorkerConnects, Transport!WorkerPosts, Transport!WorkerLosesConnection,
         Transport!WorkerReadsResponse, Transport!ownerVars, Transport!serverVars, Serving, Target
<1>2. /\ Target' = Target /\ Canceller' = Canceller /\ Target \in Processes
      /\ Canceller \in Processes /\ Target # Canceller
  BY <1>1, SameWorkers, TwoWorkers
<1>3. /\ Transport!TransportError("not_sent") \in Outcomes
      /\ Transport!TransportError("unknown") \in Outcomes
      /\ ~Transport!Terminal(Transport!TransportError("not_sent"))
      /\ ~Transport!Terminal(Transport!TransportError("unknown"))
      /\ \A d : Transport!TransportError(d).kind # "success"
      /\ Transport!TransportError("unknown").dispatch # "not_sent"
  BY DEF Transport!TransportError, Transport!Outcome, Transport!Terminal, Outcomes
<1>4. owner \in Exchanging => state = "active"
  BY DEF TransportInv, ReadyOK, Calling
<1>5. owner \in Exchanging /\ proc[Target] \in {"requested", "connecting"} =>
         query = "unsent" /\ ~(owner = "killing" /\ kill = "finished")
  BY DEF TransportInv, ExchangeOK, KillOK
<1>6. ASSUME NEW d \in {"not_sent", "unknown"}, Transport!Answer(Target, Transport!TransportError(d)),
             d = "not_sent" => proc[Target] \in {"requested", "connecting"}, query' = query
      PROVE  TransportInv'
  <2>1. Transport!TransportError(d).dispatch = d
    BY DEF Transport!TransportError, Transport!Outcome
  <2> QED
    BY <1>1, <1>3, <1>5, <1>6, <2>1, AnswerStep
<1>7. ASSUME NEW p \in {"connecting", "requesting"}, proc' = [proc EXCEPT ![Target] = p],
             proc[Target] \in {"requested", "connecting"}, UNCHANGED << reply, genuine >>,
             p = "connecting" => query' = query, p = "requesting" => query' = "inflight"
      PROVE  TransportInv'
  <2>1. /\ proc'[Target] = p /\ proc'[Canceller] = proc[Canceller]
        /\ proc' \in [Processes -> Resting \cup Serving \cup {"killing"}]
    BY <1>2, <1>7 DEF TransportInv, TransportType, Serving
  <2>2. TransportType'
    BY <1>1, <1>7, <2>1 DEF TransportInv, TransportType, Queries
  <2>3. CASE owner \in Exchanging
    <3>1. reply[Target] = Transport!NoOutcome /\ query = "unsent"
      BY <1>1, <1>5, <1>7, <2>3 DEF TransportInv, ExchangeOK
    <3>2. ExchangeOK'
      BY <1>1, <1>2, <1>7, <2>1, <2>3, <3>1, NothingAnswered DEF TransportInv, ExchangeOK, Serving
    <3>3. ObservedOK'
      <4>1. proc[Target] \notin {"idle", "dead"}
        BY <1>7
      <4> QED
        BY <1>1, <1>2, <4>1 DEF TransportInv, ObservedOK
    <3>4. KillOK'
      BY <1>1, <1>5, <1>7, <2>3 DEF TransportInv, KillOK
    <3> QED
      BY <1>1, <1>4, <2>2, <2>3, <3>2, <3>3, <3>4, ExchangeStep
  <2>4. CASE owner \notin Exchanging
    BY <1>1, <1>2, <2>2, <2>4, AbandonedStep
  <2> QED
    BY <2>3, <2>4
<1>8. CASE Transport!WorkerConnects
  BY <1>6, <1>7, <1>8 DEF Transport!WorkerConnects, Transport!serverVars, Target
<1>9. CASE Transport!WorkerPosts
  BY <1>6, <1>7, <1>9 DEF Transport!WorkerPosts, Target
<1>10. CASE Transport!WorkerLosesConnection
  BY <1>6, <1>10 DEF Transport!WorkerLosesConnection, Transport!serverVars, Target
<1>11. CASE Transport!WorkerReadsResponse
  <2>1. PICK r \in Transport!ResponsesTo(query) :
           /\ Transport!Answer(Target, Transport!ReadResponse(r))
           /\ genuine' = (r \in Transport!AnswerResponses /\ r.size = "within")
    BY <1>11 DEF Transport!WorkerReadsResponse, Target
  <2>2. protocol \in {"modern", "legacy"} /\ query' = query
    BY <1>11 DEF TransportInv, TransportType, Transport!WorkerReadsResponse, Transport!serverVars
  <2>3. PICK o : o = Transport!ReadResponse(r)
    OBVIOUS
  <2>4. /\ o \in Outcomes /\ o.dispatch # "not_sent"
        /\ Transport!Terminal(o) => query \in {"answered", "failed"}
        /\ o.kind = "success" => genuine' /\ ~o.truncated
    BY <2>1, <2>2, <2>3, ResponseIsTrue
  <2> QED
    BY <1>1, <2>1, <2>2, <2>3, <2>4, AnswerStep
<1> QED
  BY <1>8, <1>9, <1>10, <1>11

(* The server starts, ends or kills a query when it likes.                 *)
LEMMA ServerStep ==
    ASSUME TransportInv, Transport!ServerWorks \/ Transport!ServerKills
    PROVE  TransportInv'
<1>1. CASE Transport!ServerWorks
  <2>1. /\ ~Quiet /\ query' \in {"running", "dropped", "answered", "failed"}
        /\ query \notin {"unsent", "answered", "failed", "killed"}
        /\ UNCHANGED << protocol, state, owner, call, error, worker, result, proc, reply, kill,
                        late, genuine >>
    BY <1>1 DEF Transport!ServerWorks, Transport!ownerVars, Quiet
  <2>2. Target' = Target /\ Canceller' = Canceller
    BY <2>1, SameWorkers
  <2>3. TransportType'
    BY <2>1 DEF TransportInv, TransportType, Queries
  <2>4. StartingOK' /\ ReadyOK' /\ ReleasedOK'
    BY <2>1 DEF TransportInv, StartingOK, ReadyOK, ReleasedOK, AtRest, Quiet
  <2>5. ExchangeOK'
    BY <2>1, <2>2 DEF TransportInv, ExchangeOK
  <2>6. ObservedOK' /\ KillOK'
    BY <2>1, <2>2 DEF TransportInv, ObservedOK, KillOK
  <2> QED
    BY <2>1, <2>3, <2>4, <2>5, <2>6 DEF TransportInv
<1>2. CASE Transport!ServerKills
  <2>1. /\ owner = "killing" /\ owner \in Exchanging /\ kill = "none" /\ proc[Canceller] = "killing"
        /\ \/ query = "running" /\ query' = "killed" /\ kill' = "finished"
           \/ kill' \in {"no_row", "refused"} /\ query' = query
        /\ proc' = [proc EXCEPT ![Canceller] = "idle"]
        /\ UNCHANGED << protocol, state, owner, call, error, worker, result, reply, late,
                        genuine >>
    BY <1>2 DEF Transport!ServerKills, Transport!ownerVars, Exchanging, Canceller
  <2>2. /\ Target' = Target /\ Canceller' = Canceller /\ state = "active"
        /\ proc'[Canceller] = "idle" /\ proc'[Target] = proc[Target]
        /\ proc' \in [Processes -> Resting \cup Serving \cup {"killing"}]
    BY <2>1, SameWorkers, TwoWorkers
       DEF TransportInv, TransportType, ReadyOK, Calling, Resting
  <2>3. TransportType'
    BY <2>1, <2>2 DEF TransportInv, TransportType, Queries
  <2>4. ExchangeOK'
    BY <2>1, <2>2 DEF TransportInv, ExchangeOK
  <2>5. ObservedOK' /\ KillOK'
    BY <2>1 DEF ObservedOK, KillOK
  <2> QED
    BY <2>1, <2>2, <2>3, <2>4, <2>5, ExchangeStep
<1> QED
  BY <1>1, <1>2

(* A worker process may die at any time.                                   *)
LEMMA WorkerDiesStep ==
    ASSUME TransportInv, NEW w \in Processes, Transport!WorkerDies(w)
    PROVE  TransportInv'
<1>1. /\ proc' = [proc EXCEPT ![w] = "dead"] /\ proc[w] # "none"
      /\ UNCHANGED << protocol, state, owner, call, error, worker, result, reply, query, kill,
                      late, genuine >>
  BY DEF Transport!WorkerDies, Transport!ownerVars, Transport!serverVars
<1>2. /\ \A v \in Processes : proc'[v] = proc[v] \/ proc'[v] = "dead"
      /\ proc' \in [Processes -> Resting \cup Serving \cup {"killing"}]
      /\ Target' = Target /\ Canceller' = Canceller /\ Target \in Processes /\ Canceller \in Processes
  BY <1>1, SameWorkers, TwoWorkers DEF TransportInv, TransportType, Resting
<1>3. TransportType'
  BY <1>1, <1>2 DEF TransportInv, TransportType
<1>4. StartingOK' /\ ReadyOK' /\ ReleasedOK'
  BY <1>1, <1>2 DEF TransportInv, StartingOK, ReadyOK, ReleasedOK, AtRest, Quiet, Resting
<1>5. ExchangeOK'
  BY <1>1, <1>2 DEF TransportInv, ExchangeOK, Serving
<1>6. ObservedOK' /\ KillOK'
  BY <1>1, <1>2 DEF TransportInv, ObservedOK, KillOK
<1> QED
  BY <1>1, <1>3, <1>4, <1>5, <1>6 DEF TransportInv

(* A deadline may pass at any time.                                        *)
LEMMA TimeStep ==
    ASSUME TransportInv, Transport!Time
    PROVE  TransportInv'
<1>1. /\ late' = TRUE \/ late' = late
      /\ UNCHANGED << protocol, state, owner, call, error, worker, result, proc, reply, query,
                      kill, genuine >>
  BY DEF Transport!Time, Transport!ownerVars, Transport!serverVars
<1>2. Target' = Target /\ Canceller' = Canceller
  BY <1>1, SameWorkers
<1>3. TransportType'
  BY <1>1 DEF TransportInv, TransportType
<1>4. StartingOK' /\ ReadyOK' /\ ReleasedOK' /\ KillOK'
  BY <1>1 DEF TransportInv, StartingOK, ReadyOK, ReleasedOK, KillOK, AtRest, Quiet
<1>5. ExchangeOK' /\ ObservedOK'
  BY <1>1, <1>2 DEF TransportInv, ExchangeOK, ObservedOK
<1> QED
  BY <1>1, <1>3, <1>4, <1>5 DEF TransportInv

(* Before the first worker starts, nothing exists.                         *)
LEMMA TransportStarts ==
    ASSUME Transport!Init
    PROVE  TransportInv
<1>1. TransportType
  BY NothingAnswered, TwoWorkers
     DEF Transport!Init, TransportType, States, OwnerSteps, Starting, WorkerStates, Resting,
        Queries
<1>2. StartingOK /\ ReadyOK
  BY TwoWorkers
     DEF Transport!Init, StartingOK, ReadyOK, Starting, Calling, Exchanging, Quiet, Resting
<1>3. ExchangeOK /\ ObservedOK /\ KillOK /\ ReleasedOK
  BY DEF Transport!Init, ExchangeOK, ObservedOK, KillOK, ReleasedOK, Exchanging
<1> QED
  BY <1>1, <1>2, <1>3 DEF Transport!Init, TransportInv

(* Every step of the owner, of the workers, of the server and of time.     *)
LEMMA TransportStep ==
    ASSUME TransportInv, Transport!Next
    PROVE  TransportInv'
<1>1. CASE \E w \in Transport!Workers :
              Transport!StartWorker(w) \/ Transport!StartWorkerFails(w) \/ Transport!WorkerDies(w)
  BY <1>1, TwoWorkers, StartStep, WorkerDiesStep
<1>2. CASE Transport!ProbeAnswered \/ Transport!OpenFailed \/ Transport!StartAgain
  BY <1>2, ProbeAnsweredStep, OpenFailedStep, StartAgainStep
<1>3. CASE \/ Transport!Execute \/ Transport!NoTimeToSend \/ Transport!RequestRefused
           \/ Transport!BudgetRefused \/ Transport!Prepare
  BY <1>3, CallStep
<1>4. CASE \/ Transport!SendRequest \/ Transport!ReceiveOutcome \/ Transport!ReceiveTimesOut
  BY <1>4, SendStep, ReceiveStep
<1>5. CASE \/ Transport!ReturnResult \/ Transport!ResolveQueryOutcome
           \/ Transport!RaiseDeadlineOutcome
  BY <1>5, DecideStep
<1>6. CASE \/ Transport!BeginCancel \/ Transport!CancelAnswered \/ Transport!CancelUnanswered
           \/ Transport!Close
  BY <1>6, CancelStep, CloseStep
<1>7. CASE \/ Transport!WorkerConnects \/ Transport!WorkerPosts
           \/ Transport!WorkerLosesConnection \/ Transport!WorkerReadsResponse
           \/ Transport!ServerWorks \/ Transport!ServerKills \/ Transport!Time
  BY <1>7, WorkerStep, ServerStep, TimeStep
<1> QED
  BY <1>1, <1>2, <1>3, <1>4, <1>5, <1>6, <1>7 DEF Transport!Next

(* The steps of the other parts are no steps of the transport.             *)
LEMMA TransportUntouched ==
    ASSUME TransportInv, UNCHANGED transportVars
    PROVE  TransportInv'
<1>1. UNCHANGED << protocol, state, owner, call, error, worker, proc, reply, query, kill, late,
                   genuine, result >>
  BY DEF transportVars, transportOnly
<1>2. Target' = Target /\ Canceller' = Canceller
  BY <1>1, SameWorkers
<1>3. TransportType' /\ StartingOK' /\ ReadyOK' /\ KillOK' /\ ReleasedOK'
  BY <1>1
     DEF TransportInv, TransportType, StartingOK, ReadyOK, KillOK, ReleasedOK, AtRest, Quiet
<1>4. ExchangeOK' /\ ObservedOK'
  BY <1>1, <1>2 DEF TransportInv, ExchangeOK, ObservedOK
<1> QED
  BY <1>1, <1>3, <1>4 DEF TransportInv

(* Whatever the network, the server, the worker processes and the clock    *)
(* do, an outcome on the channel is true of its query and a transport that *)
(* gave its slot back left nothing behind.                                 *)
THEOREM ClickHouseTransportInvariance == Spec => [](part = "transport" => TransportInv)
<1>1. Init => (part = "transport" => TransportInv)
  BY TransportStarts DEF Init
<1>2. (part = "transport" => TransportInv) /\ [Next]_vars => (part = "transport" => TransportInv)'
  <2> SUFFICES ASSUME part = "transport" => TransportInv, [Next]_vars, part' = "transport"
               PROVE  TransportInv'
    OBVIOUS
  <2>1. part = "transport" /\ (Transport!Next \/ UNCHANGED transportVars)
    BY DEF Next, vars, transportVars
  <2> QED
    BY <2>1, TransportStep, TransportUntouched
<1> QED
  BY <1>1, <1>2, PTL DEF Spec

(* The source slot is given back, or the open tried again, only when the   *)
(* server works on no query of the transport, none can still arrive and no *)
(* worker process is left (clickhouse.py:1404, 1763).                      *)
THEOREM SlotsAreReleasedIdle == Spec => []ReleasedSlotIsIdle
<1>1. (part = "transport" => TransportInv) => ReleasedSlotIsIdle
  BY TwoWorkers
     DEF ReleasedSlotIsIdle, Transport!ReleasedSlotIsIdle, TransportInv, ReleasedOK, Quiet
<1> QED
  BY <1>1, ClickHouseTransportInvariance, PTL

(* A payload handed to the caller is the whole answer of its own query,    *)
(* and the next call cannot take a late outcome for its own                *)
(* (clickhouse_http.py:659, 1083).                                         *)
THEOREM AnswersAreWhole == Spec => []ReturnedAnswerIsWhole
<1>1. (part = "transport" => TransportInv) => ReturnedAnswerIsWhole
  BY TwoWorkers
     DEF ReturnedAnswerIsWhole, Transport!ReturnedAnswerIsWhole, TransportInv, ReadyOK, AtRest
<1> QED
  BY <1>1, ClickHouseTransportInvariance, PTL

-----------------------------------------------------------------------------
(* The ClickHouse context, for any contents, heads and numbers of reads    *)
(* and changes.                                                            *)

(* The observation that names the server and the table, the last one of a  *)
(* phase, the version as it is, its head's revision, the fingerprint of    *)
(* the rows that is bound, and which request reads the row policies.       *)
Id == IF strategy = "legacy" THEN "legacy_source" ELSE "identity"
LastKind == IF strategy = "legacy" THEN "legacy_ready" ELSE "ready"
Version == tables["version"]
Newest == Heads[tables["readiness"].rows].revision
Acquired == bound["fingerprint"][1].value
Policy == IF strategy = "legacy" THEN 3 ELSE 2

(* The table is still the one that was bound.                              *)
Same == server = bound[Id][1].server /\ Version.id = 1

Pending(k) == \E i \in DOMAIN todo : todo[i] = k

(* One fingerprint, the identity after it and the head last; a change of   *)
(* group only at the head.                                                 *)
InOrder(s) ==
    /\ \A i \in DOMAIN s : s[i] = "fingerprint" => \E j \in DOMAIN s : j > i /\ s[j] = Id
    /\ \A i, j \in DOMAIN s : s[i] = "fingerprint" /\ s[j] = "fingerprint" => i = j
    /\ s # <<>> => s[Len(s)] = LastKind
    /\ \A i \in DOMAIN s :
          i + 1 \in DOMAIN s /\ s[i] \notin Context!ComparedAtOnce =>
             s[i + 1] \notin Context!ComparedAtOnce \/ s[i + 1] = "ready"

(* What is recorded of a table, and the phases that observe.               *)
Columns == {"id", "sealed", "shape", "policies", "mutations", "sidecars", "parts", "rows"}
Observing == {"acquire", "confirm"}

ContextType ==
    /\ strategy \in Context!Strategies /\ server \in {1, 2}
    /\ phase \in {"opening", "profile", "acquire", "active", "confirm", "returned", "closed",
                  "lost"}
    /\ DOMAIN tables = {"readiness", "version"}
    /\ \A t \in {"readiness", "version"} : DOMAIN tables[t] = Columns /\ tables[t].rows \in Nat
    /\ tables["readiness"].rows \in DOMAIN Heads
    /\ Version.policies \in Nat /\ Version.id \in {0, 1, 2}
    /\ todo \in Seq(Context!Kinds) /\ Len(partial) \in Nat /\ DOMAIN bound = Context!Kinds
    /\ drift \in BOOLEAN

(* What each phase has, and what it still has to observe.                  *)
PhaseOK ==
    /\ phase \in {"opening", "profile", "active"} => partial = <<>> /\ todo = <<>> /\ ~drift
    /\ phase \in Observing => todo # <<>> /\ Len(partial) < Len(Context!Requests[Head(todo)])
    /\ InOrder(todo)
    /\ phase \in Observing /\ drift => Head(todo) \notin Context!ComparedAtOnce
    /\ phase \in {"opening", "profile", "acquire"} => seen = {}
    /\ phase \in {"opening", "profile"} => \A k \in Context!Kinds : bound[k] = <<>>
    /\ confirmed => phase \in {"closed", "lost"}
    /\ phase \in {"active", "confirm"} => bound["fingerprint"] # <<>> /\ bound[Id] # <<>>

(* While acquiring, the identity is bound before the fingerprint is.       *)
AcquireOK ==
    phase = "acquire" =>
        /\ bound["fingerprint"] = <<>> => Pending("fingerprint")
        /\ bound["fingerprint"] # <<>> => ~Pending("fingerprint")
        /\ bound["fingerprint"] # <<>> => bound[Id] # <<>>
        /\ bound[Id] = <<>> =>
              \A i \in DOMAIN todo :
                 todo[i] = "fingerprint" => \E j \in DOMAIN todo : j < i /\ todo[j] = Id

(* The server that was bound is one the endpoint reached, and so is the    *)
(* one that answers for the identity now.                                  *)
IdentityOK ==
    /\ bound[Id] # <<>> =>
          /\ bound[Id][1].server \in {1, 2} /\ bound[Id][1].server <= server
          /\ strategy = "legacy" => bound[Id][1].server = 1
    /\ todo # <<>> /\ Head(todo) = Id /\ Len(partial) >= 1 =>
          /\ partial[1].server \in {1, 2} /\ partial[1].server <= server
          /\ strategy = "legacy" => partial[1].server = 1 /\ partial[1].value[1] = 1

(* The head only moves on from the manifest's.                             *)
HeadOK ==
    /\ bound["ready"] # <<>> => bound["ready"][1].value[1] = 1
    /\ phase \in {"active", "confirm"} =>
          /\ 1 <= Newest
          /\ \A s \in seen : s.head \in Nat /\ 1 <= s.head /\ s.head <= Newest

(* The rows of the version that was bound only grow, its policies only     *)
(* appear: the fingerprint is the lower end of every read.                 *)
PrintOK ==
    phase \in {"acquire", "active", "confirm"} /\ bound["fingerprint"] # <<>> =>
        /\ Acquired[1] \in Nat
        /\ Same => Acquired[1] <= Version.rows /\ (Acquired[2] => Version.policies > 0)

(* The policies are read once more after the fingerprint, so it was        *)
(* unfiltered if the table is still the one that was bound.                *)
PolicyOK ==
    /\ phase = "acquire" /\ bound["fingerprint"] # <<>> /\ todo # <<>> =>
          /\ Head(todo) = Id /\ Len(partial) >= Policy
                /\ (strategy = "legacy" => ~(partial[Policy].value[1] > 0)) => (Same => ~Acquired[2])
          /\ ~Pending(Id) => (Same => ~Acquired[2])
    /\ phase = "active" \/ (phase = "confirm" /\ Pending("fingerprint")) => (Same => ~Acquired[2])

(* Until the confirmation's fingerprint every read is between the bound    *)
(* one and the table as it is.                                             *)
SeenOK ==
    phase = "active" \/ (phase = "confirm" /\ Pending("fingerprint")) =>
        \A s \in seen : Same =>
              /\ s.id = 1 /\ s.server = bound[Id][1].server
              /\ s.rows \in Nat /\ Acquired[1] <= s.rows /\ s.rows <= Version.rows
              /\ s.hidden => Version.policies > 0

(* What a confirmation says of the reads.                                  *)
Good ==
    \A s \in seen : /\ s.id = 1 /\ s.server = bound[Id][1].server
                    /\ s.rows = Acquired[1] /\ ~s.hidden

(* Then the two ends are equal, or a drift is remembered to the end of the *)
(* group, or the identity that is still to come is no longer the bound     *)
(* one.                                                                    *)
ConfirmOK ==
    phase = "confirm" /\ ~Pending("fingerprint") =>
        /\ drift \/ (Same => Good)
        /\ Head(todo) = Id /\ Len(partial) >= 1 /\ partial[1].server = bound[Id][1].server
              /\ partial[1].value[1] = 1 => drift \/ Good
        /\ ~Pending(Id) => drift \/ Good

ContextInv ==
    /\ ContextType /\ PhaseOK /\ AcquireOK /\ IdentityOK /\ HeadOK /\ PrintOK /\ PolicyOK
    /\ SeenOK /\ ConfirmOK
    /\ confirmed => Good /\ \A s \in seen : s.head = 1

(* A plan of observations, and one that begins with the identity.          *)
Planned(s) ==
    /\ s \in Seq(Context!Kinds) /\ s # <<>> /\ InOrder(s)
    /\ \E i \in DOMAIN s : s[i] = "fingerprint"
IdentityFirst(s) ==
    \A i \in DOMAIN s : s[i] = "fingerprint" => \E j \in DOMAIN s : j < i /\ s[j] = Id

(* The acquisition and the confirmation of each strategy are such plans.   *)
LEMMA PlainPlan ==
    ASSUME strategy = "plain"
    PROVE  /\ Planned(Context!PlainAcquisition) /\ IdentityFirst(Context!PlainAcquisition)
           /\ Planned(Context!PlainConfirmation)
<1>1. PICK a : a = Context!PlainAcquisition
  OBVIOUS
<1>2. /\ a \in Seq(Context!Kinds) /\ Len(a) = 16
      /\ a[1] = "ready_identity" /\ a[2] = "ready" /\ a[3] = "identity" /\ a[4] = "ready"
      /\ a[5] = "ready_identity" /\ a[6] = "identity" /\ a[7] = "mutations"
      /\ a[8] = "runtime" /\ a[9] = "relation" /\ a[10] = "fingerprint"
      /\ a[11] = "mutations" /\ a[12] = "runtime" /\ a[13] = "ready"
      /\ a[14] = "ready_identity" /\ a[15] = "identity" /\ a[16] = "ready"
  BY <1>1 DEF Context!PlainAcquisition, Context!NamedVersion, Context!NamedVersionConfirmation,
              Context!Kinds, Context!Requests
<1>3. InOrder(a)
  BY <1>2 DEF InOrder, Id, LastKind, Context!ComparedAtOnce
<1>7. IdentityFirst(a)
  BY <1>2 DEF IdentityFirst, Id
<1>8. a # <<>>
  <2>1. Len(a) # 0 /\ Len(<<>>) = 0
    BY <1>2
  <2> QED
    BY <2>1
<1>10. 10 \in DOMAIN a /\ a[10] = "fingerprint"
  BY <1>2
<1>4. PICK c : c = Context!PlainConfirmation
  OBVIOUS
<1>5. /\ c \in Seq(Context!Kinds) /\ Len(c) = 9
      /\ c[1] = "mutations" /\ c[2] = "runtime" /\ c[3] = "fingerprint"
      /\ c[4] = "mutations" /\ c[5] = "runtime" /\ c[6] = "ready"
      /\ c[7] = "ready_identity" /\ c[8] = "identity" /\ c[9] = "ready"
  BY <1>4 DEF Context!PlainConfirmation, Context!NamedVersionConfirmation, Context!Kinds,
              Context!Requests
<1>6. InOrder(c)
  BY <1>5 DEF InOrder, Id, LastKind, Context!ComparedAtOnce
<1>9. c # <<>>
  <2>1. Len(c) # 0 /\ Len(<<>>) = 0
    BY <1>5
  <2> QED
    BY <2>1
<1>11. 3 \in DOMAIN c /\ c[3] = "fingerprint"
  BY <1>5
<1> QED
  BY <1>1, <1>2, <1>3, <1>4, <1>5, <1>6, <1>7, <1>8, <1>9, <1>10, <1>11
     DEF Planned

(* The same for the replacing strategy ...                                 *)
LEMMA ReplacingPlan ==
    ASSUME strategy = "replacing"
    PROVE  /\ Planned(Context!ReplacingAcquisition) /\ IdentityFirst(Context!ReplacingAcquisition)
           /\ Planned(Context!ReplacingConfirmation)
<1>1. PICK a : a = Context!ReplacingAcquisition
  OBVIOUS
<1>2. /\ a \in Seq(Context!Kinds) /\ Len(a) = 20
      /\ a[1] = "ready_identity" /\ a[2] = "ready" /\ a[3] = "identity" /\ a[4] = "ready"
      /\ a[5] = "ready_identity" /\ a[6] = "identity" /\ a[7] = "mutations"
      /\ a[8] = "runtime" /\ a[9] = "ties" /\ a[10] = "counts" /\ a[11] = "relation"
      /\ a[12] = "fingerprint" /\ a[13] = "ties" /\ a[14] = "counts" /\ a[15] = "mutations"
      /\ a[16] = "runtime" /\ a[17] = "ready" /\ a[18] = "ready_identity"
      /\ a[19] = "identity" /\ a[20] = "ready"
  BY <1>1 DEF Context!ReplacingAcquisition, Context!NamedVersion, Context!NamedVersionConfirmation,
              Context!Kinds, Context!Requests
<1>3. InOrder(a)
  BY <1>2 DEF InOrder, Id, LastKind, Context!ComparedAtOnce
<1>7. IdentityFirst(a)
  BY <1>2 DEF IdentityFirst, Id
<1>8. a # <<>>
  <2>1. Len(a) # 0 /\ Len(<<>>) = 0
    BY <1>2
  <2> QED
    BY <2>1
<1>10. 12 \in DOMAIN a /\ a[12] = "fingerprint"
  BY <1>2
<1>4. PICK c : c = Context!ReplacingConfirmation
  OBVIOUS
<1>5. /\ c \in Seq(Context!Kinds) /\ Len(c) = 13
      /\ c[1] = "mutations" /\ c[2] = "runtime" /\ c[3] = "ties" /\ c[4] = "counts"
      /\ c[5] = "fingerprint" /\ c[6] = "ties" /\ c[7] = "counts" /\ c[8] = "mutations"
      /\ c[9] = "runtime" /\ c[10] = "ready" /\ c[11] = "ready_identity"
      /\ c[12] = "identity" /\ c[13] = "ready"
  BY <1>4 DEF Context!ReplacingConfirmation, Context!NamedVersionConfirmation, Context!Kinds,
              Context!Requests
<1>6. InOrder(c)
  BY <1>5 DEF InOrder, Id, LastKind, Context!ComparedAtOnce
<1>9. c # <<>>
  <2>1. Len(c) # 0 /\ Len(<<>>) = 0
    BY <1>5
  <2> QED
    BY <2>1
<1>11. 5 \in DOMAIN c /\ c[5] = "fingerprint"
  BY <1>5
<1> QED
  BY <1>1, <1>2, <1>3, <1>4, <1>5, <1>6, <1>7, <1>8, <1>9, <1>10, <1>11
     DEF Planned

(* ... for the legacy one ...                                              *)
LEMMA LegacyPlan ==
    ASSUME strategy = "legacy"
    PROVE  /\ Planned(Context!LegacyAcquisition) /\ IdentityFirst(Context!LegacyAcquisition)
           /\ Planned(Context!LegacyConfirmation)
BY DEF Planned, IdentityFirst, InOrder, Id, LastKind, Context!ComparedAtOnce, Context!Kinds,
       Context!Requests, Context!LegacyAcquisition, Context!LegacyConfirmation

(* Every observation makes at least one request.                           *)
LEMMA RequestsAreMade == \A k \in Context!Kinds : Len(Context!Requests[k]) \in Nat \ {0}
BY DEF Context!Kinds, Context!Requests, Context!IdentityRequests, Context!LegacyWitness

(* ... and so for whichever the request names.                             *)
LEMMA Agendas ==
    ASSUME strategy \in Context!Strategies
    PROVE  /\ Planned(Context!AcquisitionOf[strategy])
           /\ IdentityFirst(Context!AcquisitionOf[strategy])
           /\ Planned(Context!ConfirmationOf[strategy])
BY PlainPlan, ReplacingPlan, LegacyPlan
   DEF Context!Strategies, Context!AcquisitionOf, Context!ConfirmationOf

(* What the server holds moved on: the bound table grew, or is the bound   *)
(* one no more.                                                            *)
Later ==
    /\ server' \in {1, 2} /\ server <= server'
    /\ DOMAIN tables' = {"readiness", "version"}
    /\ \A t \in {"readiness", "version"} : DOMAIN tables'[t] = Columns /\ tables'[t].rows \in Nat
    /\ tables'["readiness"].rows \in DOMAIN Heads
    /\ tables["readiness"].rows <= tables'["readiness"].rows
    /\ Version'.policies \in Nat /\ Version'.id \in {0, 1, 2}
    /\ server' = server /\ Version'.id = 1 =>
          Version.id = 1 /\ Version.rows <= Version'.rows /\ Version.policies <= Version'.policies

(* The revision that leads the readiness table never goes back             *)
(* (clickhouse_readiness.py:1197).                                         *)
LEMMA HeadsAdvance ==
    ASSUME NEW i \in DOMAIN Heads, NEW j \in DOMAIN Heads, i <= j
    PROVE  /\ Heads[i].revision \in Nat /\ Heads[j].revision \in Nat
           /\ Heads[i].revision <= Heads[j].revision
<1>1. PICK S : S = [revision : Nat, status : {"complete", "building", "twice"}]
  OBVIOUS
<1>2. Heads \in Seq(S) /\ Heads[i].revision <= Heads[j].revision
  BY <1>1, SourceRequestsAssumption DEF Context!ClickHouseReadsAssumption
<1>3. \A h \in S : h.revision \in Nat
  BY <1>1
<1> QED
  BY <1>2, <1>3

(* A later state of the server keeps the invariant: a table that is no     *)
(* longer the bound one never becomes it again.                            *)
LEMMA LaterStep ==
    ASSUME ContextInv, Later,
           UNCHANGED << strategy, phase, todo, partial, bound, drift, seen, confirmed >>
    PROVE  ContextInv'
<1>1. Id' = Id /\ Acquired' = Acquired /\ Policy' = Policy /\ bound[Id]' = bound[Id]
  BY DEF Id, Acquired, Policy
<1>2. /\ tables["readiness"].rows \in Nat /\ tables'["readiness"].rows \in Nat
      /\ Version.rows \in Nat /\ Version'.rows \in Nat /\ Version.policies \in Nat
      /\ Newest \in Nat /\ Newest' \in Nat /\ Newest <= Newest'
  BY HeadsAdvance DEF Later, ContextInv, ContextType, Version, Newest
<1>3. bound[Id] # <<>> /\ Same' => Same
  BY <1>1 DEF Later, Same, ContextInv, ContextType, IdentityOK
<1>4. ContextType'
  BY DEF Later, ContextInv, ContextType
<1>5. PhaseOK'
  BY <1>1 DEF ContextInv, PhaseOK, InOrder, Id, LastKind
<1>6. AcquireOK'
  BY <1>1 DEF ContextInv, AcquireOK, Pending
<1>7. IdentityOK'
  BY <1>1 DEF ContextInv, IdentityOK, Later, ContextType
<1>8. HeadOK'
  BY <1>2 DEF ContextInv, HeadOK
<1>9. PrintOK'
  <2>1. phase \in {"acquire", "active", "confirm"} /\ bound["fingerprint"] # <<>> =>
           bound[Id] # <<>>
    BY DEF ContextInv, PhaseOK, AcquireOK
  <2> QED
    BY <1>1, <1>2, <1>3, <2>1 DEF ContextInv, PrintOK, Later, Same
<1>10. PolicyOK'
  <2>1. phase \in {"active", "confirm"} \/ (phase = "acquire" /\ bound["fingerprint"] # <<>>) =>
           bound[Id] # <<>>
    BY DEF ContextInv, PhaseOK, AcquireOK
  <2> QED
    BY <1>1, <1>3, <2>1 DEF ContextInv, PolicyOK, Pending
<1>11. SeenOK'
  <2>1. phase \in {"active", "confirm"} => bound[Id] # <<>>
    BY DEF ContextInv, PhaseOK
  <2>2. SUFFICES ASSUME phase = "active" \/ (phase = "confirm" /\ Pending("fingerprint")),
                        NEW s \in seen, Same'
                 PROVE  /\ s.id = 1 /\ s.server = bound[Id][1].server
                        /\ s.rows \in Nat /\ Acquired[1] <= s.rows /\ s.rows <= Version'.rows
                        /\ s.hidden => Version'.policies > 0
    BY <1>1 DEF SeenOK, Pending
  <2>3. Same /\ server' = server
    BY <1>1, <1>3, <2>1, <2>2 DEF Same
  <2>4. /\ s.id = 1 /\ s.server = bound[Id][1].server
        /\ s.rows \in Nat /\ Acquired[1] <= s.rows /\ s.rows <= Version.rows
        /\ s.hidden => Version.policies > 0
    BY <2>2, <2>3 DEF ContextInv, SeenOK
  <2>5. /\ Version.rows <= Version'.rows /\ Version.policies <= Version'.policies
        /\ Version'.policies \in Nat
    BY <2>2, <2>3 DEF Later, Same
  <2> QED
    BY <1>2, <2>4, <2>5
<1>12. ConfirmOK'
  <2>1. phase = "confirm" => bound[Id] # <<>>
    BY DEF ContextInv, PhaseOK
  <2> QED
    BY <1>1, <1>3, <2>1 DEF ContextInv, ConfirmOK, Pending, Good
<1>13. (confirmed => Good /\ \A s \in seen : s.head = 1)'
  BY <1>1 DEF ContextInv, Good
<1> QED
  BY <1>4, <1>5, <1>6, <1>7, <1>8, <1>9, <1>10, <1>11, <1>12, <1>13 DEF ContextInv

(* A change of one table.                                                  *)
LEMMA ChangeStep ==
    ASSUME ContextInv, NEW t \in {"readiness", "version"}, NEW held, Context!Change(t, held),
           DOMAIN held = Columns, held.rows \in Nat, tables[t].rows <= held.rows,
           t = "readiness" => held.rows \in DOMAIN Heads,
           t = "version" =>
              /\ held.policies \in Nat /\ held.id \in {0, 1, 2}
              /\ held.id = 1 => Version.id = 1 /\ Version.policies <= held.policies
    PROVE  ContextInv'
<1>1. /\ tables' = [tables EXCEPT ![t] = held]
      /\ UNCHANGED << strategy, server, phase, todo, partial, bound, drift, seen, confirmed >>
  BY DEF Context!Change, Context!requestVars
<1>2. /\ tables'[t] = held
      /\ \A u \in {"readiness", "version"} : u # t => tables'[u] = tables[u]
      /\ DOMAIN tables' = {"readiness", "version"}
  BY <1>1 DEF ContextInv, ContextType
<1>3. Later
  BY <1>1, <1>2 DEF Later, ContextInv, ContextType, Version
<1> QED
  BY <1>1, <1>3, LaterStep

(* Each operation of the publisher and the administrators is one.          *)
LEMMA PublisherStep ==
    ASSUME ContextInv, NEW t \in {"readiness", "version"},
           \/ Context!WriteRows(t) \/ Context!MergeParts(t) \/ Context!Mutate(t)
           \/ Context!EndMutation(t) \/ Context!AlterTable(t) \/ Context!AddPolicy(t)
           \/ Context!DropTable(t) \/ Context!RecreateTable(t)
           \/ t = "version" /\ Context!SetReadonly
    PROVE  ContextInv'
<1>1. /\ DOMAIN tables[t] = Columns /\ tables[t].rows \in Nat
      /\ t = "readiness" => tables[t].rows \in DOMAIN Heads
      /\ t = "version" =>
            Version = tables[t] /\ tables[t].policies \in Nat /\ tables[t].id \in {0, 1, 2}
      /\ tables[t].rows <= tables[t].rows
  BY DEF ContextInv, ContextType, Version
<1>2. Heads \in Seq([revision : Nat, status : {"complete", "building", "twice"}])
  BY SourceRequestsAssumption DEF Context!ClickHouseReadsAssumption
<1>3. ASSUME tables[t].rows < Context!LastRows(t), t = "readiness"
      PROVE  tables[t].rows + 1 \in DOMAIN Heads
  BY <1>1, <1>2, <1>3 DEF Context!LastRows
<1>20. ASSUME NEW held, Context!Change(t, held), DOMAIN held = Columns,
             \/ held.rows = tables[t].rows
             \/ held.rows = tables[t].rows + 1 /\ tables[t].rows < Context!LastRows(t),
             t = "version" =>
                /\ held.policies \in Nat /\ held.id \in {0, 1, 2}
                /\ held.id = 1 => tables[t].id = 1 /\ tables[t].policies <= held.policies
      PROVE  ContextInv'
  <2>1. /\ held.rows \in Nat /\ tables[t].rows <= held.rows
        /\ t = "readiness" => held.rows \in DOMAIN Heads
    BY <1>1, <1>3, <1>20
  <2>2. t = "version" =>
           /\ held.policies \in Nat /\ held.id \in {0, 1, 2}
           /\ held.id = 1 => Version.id = 1 /\ Version.policies <= held.policies
    BY <1>1, <1>20
  <2> QED
    BY <1>20, <2>1, <2>2, ChangeStep
<1>4. CASE Context!WriteRows(t)
  <2>1. PICK n, held :
           /\ held = [tables[t] EXCEPT !.rows = @ + 1, !.parts = @ + n]
           /\ Context!Change(t, held) /\ tables[t].rows < Context!LastRows(t)
    BY <1>4 DEF Context!WriteRows
  <2>2. /\ DOMAIN held = Columns /\ held.rows = tables[t].rows + 1
        /\ held.policies = tables[t].policies /\ held.id = tables[t].id
    BY <1>1, <2>1 DEF Columns
  <2>3. Context!Change(t, held) /\ tables[t].rows < Context!LastRows(t)
    BY <2>1
  <2> QED
    BY <1>1, <1>20, <2>2, <2>3
<1>5. ASSUME NEW held, Context!Change(t, held), DOMAIN held = Columns,
             held.rows = tables[t].rows,
             t = "version" =>
                /\ held.policies \in Nat /\ tables[t].policies <= held.policies
                /\ held.id = tables[t].id
      PROVE  ContextInv'
  BY <1>1, <1>5, <1>20
<1>6. CASE Context!MergeParts(t)
  <2>1. Context!Change(t, [tables[t] EXCEPT !.parts = @ - 1])
    BY <1>6 DEF Context!MergeParts
  <2> QED
    BY <1>1, <1>5, <2>1 DEF Columns
<1>7. CASE Context!Mutate(t)
  <2>1. PICK held : /\ held = [tables[t] EXCEPT !.mutations = Append(@, "pending")]
                     /\ Context!Change(t, held)
    BY <1>7 DEF Context!Mutate
  <2>2. /\ DOMAIN held = Columns /\ held.rows = tables[t].rows
        /\ held.policies = tables[t].policies /\ held.id = tables[t].id
    BY <1>1, <2>1 DEF Columns
  <2>3. Context!Change(t, held)
    BY <2>1
  <2> QED
    BY <1>1, <1>5, <2>2, <2>3
<1>8. CASE Context!EndMutation(t)
  <2>1. PICK i \in DOMAIN tables[t].mutations :
           /\ tables[t].rows < Context!LastRows(t)
           /\ \/ Context!Change(t, [tables[t] EXCEPT !.mutations[i] = "done", !.rows = @ + 1])
              \/ \E s \in {"failed", "killed"} :
                    Context!Change(t, [tables[t] EXCEPT !.mutations[i] = s])
    BY <1>8 DEF Context!EndMutation
  <2>2. CASE Context!Change(t, [tables[t] EXCEPT !.mutations[i] = "done", !.rows = @ + 1])
    <3>1. PICK held : /\ held = [tables[t] EXCEPT !.mutations[i] = "done", !.rows = @ + 1]
                       /\ Context!Change(t, held)
      BY <2>2
    <3>2. /\ DOMAIN held = Columns /\ held.rows = tables[t].rows + 1
          /\ held.policies = tables[t].policies /\ held.id = tables[t].id
      BY <1>1, <3>1 DEF Columns
    <3>3. Context!Change(t, held)
      BY <3>1
    <3> QED
      BY <1>1, <1>20, <2>1, <3>2, <3>3
  <2>3. CASE \E s \in {"failed", "killed"} :
                Context!Change(t, [tables[t] EXCEPT !.mutations[i] = s])
    BY <1>1, <1>5, <2>3 DEF Columns
  <2> QED
    BY <2>1, <2>2, <2>3
<1>9. CASE Context!AlterTable(t)
  <2>1. \/ Context!Change(t, [tables[t] EXCEPT !.shape = 2])
        \/ \E s \in {"projection", "patch"} : Context!Change(t, [tables[t] EXCEPT !.sidecars = s])
    BY <1>9 DEF Context!AlterTable
  <2> QED
    BY <1>1, <1>5, <2>1 DEF Columns
<1>10. CASE Context!AddPolicy(t)
  <2>1. Context!Change(t, [tables[t] EXCEPT !.policies = 1]) /\ tables[t].policies = 0
    BY <1>10 DEF Context!AddPolicy
  <2> QED
    BY <1>1, <1>5, <2>1 DEF Columns
<1>11. CASE Context!DropTable(t)
  <2>1. PICK held : held = [tables[t] EXCEPT !.id = 0] /\ Context!Change(t, held)
    BY <1>11 DEF Context!DropTable
  <2>2. /\ DOMAIN held = Columns /\ held.rows = tables[t].rows
        /\ held.policies = tables[t].policies /\ held.id = 0
    BY <1>1, <2>1 DEF Columns
  <2>3. Context!Change(t, held)
    BY <2>1
  <2> QED
    BY <1>1, <1>20, <2>2, <2>3
<1>12. CASE Context!RecreateTable(t)
  <2>1. PICK held :
           /\ held = [Context!Free EXCEPT !.id = Context!ManifestId + 1, !.rows = tables[t].rows,
                                           !.sealed = tables[t].sealed]
           /\ Context!Change(t, held)
    BY <1>12 DEF Context!RecreateTable
  <2>2. /\ DOMAIN held = Columns /\ held.rows = tables[t].rows
        /\ held.policies = 0 /\ held.id = 2
    BY <2>1 DEF Columns, Context!Free, Context!ManifestId
  <2>3. Context!Change(t, held)
    BY <2>1
  <2> QED
    BY <1>1, <1>20, <2>2, <2>3
<1>13. CASE t = "version" /\ Context!SetReadonly
  <2>1. Context!Change(t, [tables[t] EXCEPT !.sealed = ~@])
    BY <1>13 DEF Context!SetReadonly
  <2> QED
    BY <1>1, <1>5, <2>1 DEF Columns
<1> QED
  BY <1>4, <1>6, <1>7, <1>8, <1>9, <1>10, <1>11, <1>12, <1>13

(* The name comes to reach another server, whose copy may be any.          *)
LEMMA FailoverStep ==
    ASSUME ContextInv, Context!Failover
    PROVE  ContextInv'
<1>0. server = 1 /\ server' = 2
  BY DEF Context!Failover, Context!ManifestServer
<1>1. /\ \E r \in DOMAIN Contents : tables' = [tables EXCEPT !["version"].rows = r]
      /\ UNCHANGED << strategy, phase, todo, partial, bound, drift, seen, confirmed >>
  BY DEF Context!Failover, Context!requestVars
<1>2. \A r \in DOMAIN Contents : r \in Nat
  <2>1. Contents \in Seq([count : Nat, logical : Nat, ties : BOOLEAN, valid : BOOLEAN])
    BY SourceRequestsAssumption DEF Context!ClickHouseReadsAssumption
  <2> QED
    BY <2>1
<1>3. PICK r \in Nat : tables' = [tables EXCEPT !["version"].rows = r]
  BY <1>1, <1>2
<1>4. /\ DOMAIN tables' = {"readiness", "version"} /\ tables'["readiness"] = tables["readiness"]
      /\ DOMAIN tables'["version"] = Columns /\ tables'["version"].rows = r
      /\ tables'["version"].policies = Version.policies /\ tables'["version"].id = Version.id
  BY <1>3 DEF ContextInv, ContextType, Version, Columns
<1>5. Later
  BY <1>0, <1>3, <1>4 DEF Later, ContextInv, ContextType, Version
<1> QED
  BY <1>1, <1>5, LaterStep

(* A phase that ends: nothing is confirmed.                                *)
LEMMA EndStep ==
    ASSUME ContextInv, phase \in {"opening", "profile", "acquire", "active", "confirm"},
           NEW r, Context!EndWith(r), UNCHANGED << strategy, server, tables >>
    PROVE  ContextInv'
<1>1. /\ phase' \in {"returned", "lost"} /\ todo' = <<>> /\ partial' = <<>>
      /\ UNCHANGED << bound, drift, seen, confirmed >> /\ ~confirmed
  BY DEF Context!EndWith, ContextInv, PhaseOK
<1>2. Len(<<>>) = 0 /\ <<>> \in Seq(Context!Kinds)
  OBVIOUS
<1>3. ContextType'
  BY <1>1, <1>2 DEF ContextInv, ContextType, Version
<1>4. PhaseOK'
  BY <1>1 DEF ContextInv, PhaseOK, InOrder, Observing
<1>5. AcquireOK' /\ PrintOK' /\ PolicyOK' /\ SeenOK' /\ ConfirmOK'
  BY <1>1 DEF AcquireOK, PrintOK, PolicyOK, SeenOK, ConfirmOK
<1>6. IdentityOK' /\ HeadOK'
  BY <1>1 DEF ContextInv, IdentityOK, HeadOK, Id
<1> QED
  BY <1>1, <1>3, <1>4, <1>5, <1>6 DEF ContextInv

(* The transport opens; the profile is accepted and acquisition starts.    *)
LEMMA OpenStep ==
    ASSUME ContextInv,
           \/ Context!OpenTransport \/ Context!InspectServerProfile
           \/ Context!InspectLegacyServerProfile
    PROVE  ContextInv'
<1>1. /\ phase \in {"opening", "profile"} /\ UNCHANGED << strategy, server, tables >>
      /\ \/ \E r : Context!EndWith(r)
         \/ phase' = "profile" /\ UNCHANGED << todo, partial, bound, drift, seen, confirmed >>
         \/ /\ phase' = "acquire" /\ todo' = Context!AcquisitionOf[strategy]
            /\ UNCHANGED << partial, bound, drift, seen, confirmed >>
  BY DEF Context!OpenTransport, Context!InspectServerProfile, Context!InspectLegacyServerProfile,
         Context!ProfileEnds, Context!requestVars, Context!serverVars
<1>2. /\ partial = <<>> /\ todo = <<>> /\ ~drift /\ seen = {} /\ ~confirmed
      /\ bound["fingerprint"] = <<>> /\ bound[Id] = <<>> /\ bound["ready"] = <<>>
  <2>1. "fingerprint" \in Context!Kinds /\ Id \in Context!Kinds /\ "ready" \in Context!Kinds
    BY DEF Context!Kinds, Context!Requests, Id
  <2> QED
    BY <1>1, <2>1 DEF ContextInv, PhaseOK
<1>3. CASE \E r : Context!EndWith(r)
  BY <1>1, <1>3, EndStep
<1>4. CASE phase' = "profile" /\ UNCHANGED << todo, partial, bound, drift, seen, confirmed >>
  <2>1. ContextType' /\ PhaseOK'
    BY <1>1, <1>2, <1>4 DEF ContextInv, ContextType, PhaseOK, Version, InOrder, Observing
  <2>2. AcquireOK' /\ PrintOK' /\ PolicyOK' /\ SeenOK' /\ ConfirmOK'
    BY <1>4 DEF AcquireOK, PrintOK, PolicyOK, SeenOK, ConfirmOK
  <2>3. IdentityOK' /\ HeadOK'
    BY <1>1, <1>2, <1>4 DEF ContextInv, IdentityOK, HeadOK, Id
  <2> QED
    BY <1>2, <1>4, <2>1, <2>2, <2>3 DEF ContextInv
<1>5. CASE /\ phase' = "acquire" /\ todo' = Context!AcquisitionOf[strategy]
           /\ UNCHANGED << partial, bound, drift, seen, confirmed >>
  <2>1. /\ todo' \in Seq(Context!Kinds) /\ todo' # <<>>
        /\ InOrder(todo') /\ Pending("fingerprint")'
        /\ Len(Context!Requests[Head(todo')]) \in Nat \ {0}
        /\ \A i \in DOMAIN todo' :
              todo'[i] = "fingerprint" => \E j \in DOMAIN todo' : j < i /\ todo'[j] = Id
    BY <1>5, Agendas, RequestsAreMade
       DEF ContextInv, ContextType, Pending, Planned, IdentityFirst
  <2>2. ContextType' /\ PhaseOK'
    BY <1>1, <1>2, <1>5, <2>1
       DEF ContextInv, ContextType, PhaseOK, Version, InOrder, Id, LastKind, Observing
  <2>3. AcquireOK'
    BY <1>1, <1>2, <1>5, <2>1 DEF AcquireOK, Id
  <2>4. PrintOK' /\ PolicyOK' /\ SeenOK' /\ ConfirmOK'
    BY <1>1, <1>2, <1>5 DEF PrintOK, PolicyOK, SeenOK, ConfirmOK
  <2>5. IdentityOK' /\ HeadOK'
    BY <1>1, <1>2, <1>5 DEF ContextInv, IdentityOK, HeadOK, Id
  <2> QED
    BY <1>2, <1>5, <2>2, <2>3, <2>4, <2>5 DEF ContextInv
<1> QED
  BY <1>1, <1>3, <1>4, <1>5

(* A read of the comparison: what it finds is between the fingerprint of   *)
(* the acquisition and whatever is there now.                              *)
LEMMA SourceReadStep ==
    ASSUME ContextInv, Context!SourceRead
    PROVE  ContextInv'
<1>1. PICK s : /\ s = [server |-> server, id |-> Version.id, rows |-> Version.rows,
                       hidden |-> Context!Hidden, head |-> Newest]
               /\ seen' = seen \cup {s}
  BY DEF Context!SourceRead, Context!CurrentHead, Version, Newest
<1>2. /\ phase = "active"
      /\ UNCHANGED << strategy, server, tables, phase, todo, partial, bound, drift, confirmed >>
  BY DEF Context!SourceRead, Context!requestVars, Context!serverVars
<1>3. /\ s.server = server /\ s.id = Version.id /\ s.rows = Version.rows /\ s.head = Newest
      /\ s.hidden => Version.policies > 0
  BY <1>1 DEF Context!Hidden, Version
<1>4. /\ Newest \in Nat /\ Version.rows \in Nat /\ Newest <= Newest /\ Version.rows <= Version.rows
  BY HeadsAdvance DEF ContextInv, ContextType, Newest, Version
<1>5. /\ Id' = Id /\ Acquired' = Acquired /\ Policy' = Policy /\ (Same' <=> Same)
      /\ Version' = Version /\ Newest' = Newest
  BY <1>2 DEF Id, Acquired, Policy, Same, Version, Newest
<1>6. ContextType' /\ PhaseOK'
  BY <1>2, <1>5
     DEF ContextInv, ContextType, PhaseOK, Version, InOrder, LastKind, Id, Observing
<1>7. AcquireOK' /\ ConfirmOK'
  BY <1>2 DEF AcquireOK, ConfirmOK
<1>8. IdentityOK' /\ PolicyOK' /\ PrintOK'
  BY <1>2, <1>5 DEF ContextInv, IdentityOK, PolicyOK, PrintOK, Pending
<1>9. HeadOK'
  BY <1>1, <1>2, <1>3, <1>4, <1>5 DEF ContextInv, HeadOK
<1>10. SeenOK'
  <2>1. Same => Acquired[1] <= Version.rows
    BY <1>2 DEF ContextInv, PrintOK, PhaseOK
  <2>2. SUFFICES ASSUME NEW u \in seen', Same
                 PROVE  /\ u.id = 1 /\ u.server = bound[Id][1].server
                        /\ u.rows \in Nat /\ Acquired[1] <= u.rows /\ u.rows <= Version.rows
                        /\ u.hidden => Version.policies > 0
    BY <1>2, <1>5 DEF SeenOK
  <2>3. CASE u = s
    BY <1>3, <1>4, <2>1, <2>2, <2>3 DEF Same
  <2>4. CASE u \in seen
    BY <1>2, <2>2, <2>4 DEF ContextInv, SeenOK
  <2> QED
    BY <1>1, <2>2, <2>3, <2>4
<1>11. ~confirmed'
  BY <1>2 DEF ContextInv, PhaseOK
<1> QED
  BY <1>6, <1>7, <1>8, <1>9, <1>10, <1>11 DEF ContextInv

(* An active context starts its confirmation.                              *)
LEMMA ConfirmationStarts ==
    ASSUME ContextInv, Context!Close
    PROVE  ContextInv'
<1>1. /\ phase = "active" /\ phase' = "confirm" /\ todo' = Context!ConfirmationOf[strategy]
      /\ UNCHANGED << strategy, server, tables, partial, bound, drift, seen, confirmed >>
  BY DEF Context!Close, Context!requestVars, Context!serverVars
<1>2. partial = <<>> /\ ~drift /\ ~confirmed
  BY <1>1 DEF ContextInv, PhaseOK
<1>3. /\ todo' \in Seq(Context!Kinds) /\ todo' # <<>> /\ InOrder(todo') /\ Pending("fingerprint")'
      /\ Len(Context!Requests[Head(todo')]) \in Nat \ {0}
  BY <1>1, Agendas, RequestsAreMade DEF ContextInv, ContextType, Pending, Planned
<1>4. /\ Id' = Id /\ Acquired' = Acquired /\ Policy' = Policy /\ (Same' <=> Same)
      /\ Version' = Version /\ Newest' = Newest
  BY <1>1 DEF Id, Acquired, Policy, Same, Version, Newest
<1>5. ContextType' /\ PhaseOK'
  BY <1>1, <1>2, <1>3, <1>4
     DEF ContextInv, ContextType, PhaseOK, Version, InOrder, LastKind, Id, Observing
<1>6. AcquireOK' /\ ConfirmOK'
  BY <1>1, <1>3 DEF AcquireOK, ConfirmOK
<1>7. IdentityOK' /\ PolicyOK' /\ PrintOK'
  BY <1>1, <1>2, <1>4 DEF ContextInv, IdentityOK, PolicyOK, PrintOK
<1>8. HeadOK' /\ SeenOK'
  BY <1>1, <1>4 DEF ContextInv, HeadOK, SeenOK
<1> QED
  BY <1>1, <1>2, <1>5, <1>6, <1>7, <1>8 DEF ContextInv

(* What the answers of the observations the argument rests on say.         *)
LEMMA AnswersSay ==
    ASSUME ContextInv, phase \in Observing, NEW kind, kind = Head(todo),
           NEW request, request = Context!Requests[kind][Len(partial) + 1],
           NEW answer, answer = Context!Answer(kind, request),
           ~Context!AnswerRaises(kind, request, answer)
    PROVE  /\ kind = Id /\ Len(partial) = 0 =>
                 /\ answer.server = server /\ answer.value[1] = Version.id
                 /\ strategy = "legacy" => answer.server = 1 /\ answer.value[1] = 1
           /\ kind = Id /\ Len(partial) + 1 = Policy =>
                 /\ answer.value[1] = Version.policies
                 /\ strategy # "legacy" => ~(Version.policies > 0)
           /\ kind = "fingerprint" /\ Len(partial) = 0 =>
                 answer.value[1] = Version.rows /\ answer.value[2] = Context!Hidden
           /\ kind = LastKind /\ Len(partial) + 1 = Len(Context!Requests[kind]) =>
                 answer.value[1] = Newest
<1>1. answer.value = Context!Payload(kind, request)
  BY DEF Context!Answer
<1>2. CASE kind = Id /\ Len(partial) = 0
  <2>1. request = "catalog" /\ Context!Table(kind) = Version
    BY <1>2 DEF Id, Context!Requests, Context!IdentityRequests, Context!LegacyWitness,
                Context!Table, Context!TableOf, Version
  <2>2. answer.server = server
    BY <2>1 DEF Context!Answer
  <2>3. answer.value[1] = Version.id
    BY <1>1, <2>1
       DEF Context!Payload, Context!LegacyCatalog, Context!TableCatalog
  <2>4. ASSUME strategy = "legacy"
        PROVE  answer.server = 1 /\ answer.value = << 1, 1 >>
    BY <1>2, <2>1, <2>4
       DEF Id, Context!AnswerRaises, Context!ExpectedServer, Context!Legacy,
           Context!LegacyDefinitionRaises, Context!ManifestServer, Context!ManifestId
  <2> QED
    BY <1>2, <2>2, <2>3, <2>4 DEF Id, Policy, LastKind
<1>3. CASE kind = Id /\ Len(partial) + 1 = Policy
  <2>1. request = "policies" /\ Context!Table(kind) = Version
    BY <1>3 DEF Id, Policy, Context!Requests, Context!IdentityRequests, Context!LegacyWitness,
                Context!Table, Context!TableOf, Version
  <2>2. answer.value[1] = Version.policies
    BY <1>1, <2>1
       DEF Context!Payload, Context!LegacyPolicies, Context!RowPolicies
  <2>3. strategy # "legacy" => ~(answer.value[1] > 0)
    BY <2>1 DEF Context!AnswerRaises, Context!Legacy
  <2> QED
    BY <1>3, <2>2, <2>3 DEF Id, Policy, LastKind
<1>4. CASE kind = "fingerprint" /\ Len(partial) = 0
  <2>1. request = "fingerprint" /\ Context!Table(kind) = Version
    BY <1>4 DEF Context!Requests, Context!Table, Context!TableOf, Version
  <2>2. answer.value[1] = Version.rows /\ answer.value[2] = Context!Hidden
    BY <1>1, <2>1 DEF Context!Payload, Context!CanonicalFingerprint
  <2> QED
    BY <1>4, <2>2 DEF Id, LastKind
<1>5. CASE kind = LastKind /\ Len(partial) + 1 = Len(Context!Requests[kind])
  <2>1. request = "head"
    <3>1. /\ Context!Requests["ready"] = << "head" >>
          /\ Len(Context!Requests["legacy_ready"]) = 7
          /\ Context!Requests["legacy_ready"][7] = "head"
      BY DEF Context!Requests, Context!LegacyWitness
    <3>2. kind = "ready" \/ kind = "legacy_ready"
      BY <1>5 DEF LastKind
    <3> QED
      BY <1>5, <3>1, <3>2 DEF ContextInv, ContextType
  <2>2. answer.value[1] = Newest
    BY <1>1, <2>1 DEF Context!Payload, Context!ReadinessHead, Context!CurrentHead, Newest
  <2> QED
    BY <1>5, <2>2 DEF Id, LastKind
<1> QED
  BY <1>2, <1>3, <1>4, <1>5

(* One more answer of the current observation is in.                       *)
LEMMA RecordStep ==
    ASSUME ContextInv, phase \in Observing,
           NEW request, request = Context!Requests[Head(todo)][Len(partial) + 1],
           NEW answer, answer = Context!Answer(Head(todo), request),
           ~Context!AnswerRaises(Head(todo), request, answer),
           Len(partial) + 1 # Len(Context!Requests[Head(todo)]),
           partial' = Append(partial, answer),
           UNCHANGED << strategy, server, tables, phase, todo, bound, drift, seen, confirmed >>
    PROVE  ContextInv'
<1>1. /\ Id' = Id /\ Acquired' = Acquired /\ Policy' = Policy /\ (Same' <=> Same)
      /\ Version' = Version /\ Newest' = Newest
  BY DEF Id, Acquired, Policy, Same, Version, Newest
<1>2. /\ Len(partial) \in Nat /\ Len(partial') = Len(partial) + 1
      /\ partial'[Len(partial) + 1] = answer
      /\ \A i \in 1..Len(partial) : partial'[i] = partial[i]
  BY DEF ContextInv, ContextType
<1>3. /\ todo # <<>> /\ Head(todo) \in Context!Kinds
      /\ Len(partial) < Len(Context!Requests[Head(todo)])
      /\ Len(Context!Requests[Head(todo)]) \in Nat
  BY RequestsAreMade DEF ContextInv, ContextType, PhaseOK
<1>4. /\ Head(todo) = Id /\ Len(partial) = 0 =>
            /\ answer.server = server /\ answer.value[1] = Version.id
            /\ strategy = "legacy" => answer.server = 1 /\ answer.value[1] = 1
      /\ Head(todo) = Id /\ Len(partial) + 1 = Policy =>
            /\ answer.value[1] = Version.policies
            /\ strategy # "legacy" => ~(Version.policies > 0)
  BY AnswersSay
<1>5. ContextType' /\ PhaseOK'
  BY <1>1, <1>2, <1>3
     DEF ContextInv, ContextType, PhaseOK, Version, InOrder, LastKind, Id, Observing
<1>6. AcquireOK' /\ HeadOK' /\ PrintOK' /\ SeenOK'
  BY <1>1 DEF ContextInv, AcquireOK, HeadOK, PrintOK, SeenOK, Pending
<1>7. IdentityOK'
  <2>1. Len(partial) = 0 \/ (partial'[1] = partial[1] /\ Len(partial) >= 1)
    <3>1. Len(partial) # 0 => 1 \in 1..Len(partial)
      BY <1>2
    <3> QED
      BY <1>2, <3>1
  <2>2. Len(partial) = 0 => partial'[1] = answer
    BY <1>2
  <2> QED
    BY <1>1, <1>4, <2>1, <2>2 DEF ContextInv, IdentityOK, ContextType
<1>8. PolicyOK'
  <2>1. ASSUME phase = "acquire", bound["fingerprint"] # <<>>, Head(todo) = Id,
               Len(partial') >= Policy,
               strategy = "legacy" => ~(partial'[Policy].value[1] > 0), Same
        PROVE  ~Acquired[2]
    <3>1. CASE Len(partial) >= Policy
      <4>1. partial'[Policy] = partial[Policy]
        BY <1>2, <3>1 DEF Policy
      <4> QED
        BY <1>3, <2>1, <3>1, <4>1 DEF ContextInv, PolicyOK
    <3>2. CASE Len(partial) + 1 = Policy
      <4>1. partial'[Policy] = answer
        BY <1>2, <3>2
      <4>2. ~(Version.policies > 0)
        BY <1>4, <2>1, <3>2, <4>1
      <4> QED
        BY <2>1, <4>2 DEF ContextInv, PrintOK
    <3> QED
      BY <1>2, <2>1, <3>1, <3>2 DEF Policy
  <2> QED
    BY <1>1, <2>1 DEF ContextInv, PolicyOK, Pending
<1>9. ConfirmOK'
  <2>1. ASSUME phase = "confirm", ~Pending("fingerprint"), Head(todo) = Id,
               partial'[1].server = bound[Id][1].server, partial'[1].value[1] = 1
        PROVE  drift \/ Good
    <3>1. CASE Len(partial) >= 1
      <4>1. partial'[1] = partial[1]
        BY <1>2, <3>1
      <4> QED
        BY <2>1, <3>1, <4>1 DEF ContextInv, ConfirmOK
    <3>2. CASE Len(partial) = 0
      <4>1. partial'[1] = answer
        BY <1>2, <3>2
      <4>2. Same
        BY <1>4, <2>1, <3>2, <4>1 DEF Same
      <4> QED
        BY <2>1, <4>2 DEF ContextInv, ConfirmOK
    <3> QED
      BY <1>2, <3>1, <3>2
  <2> QED
    BY <1>1, <2>1 DEF ContextInv, ConfirmOK, Pending, Good
<1>10. ~confirmed'
  BY DEF ContextInv, PhaseOK, Observing
<1> QED
  BY <1>5, <1>6, <1>7, <1>8, <1>9, <1>10 DEF ContextInv

(* What is left of a plan after its first observation.                     *)
LEMMA RestOfPlan ==
    ASSUME NEW s \in Seq(Context!Kinds), s # <<>>, NEW r, r = Tail(s)
    PROVE  /\ r \in Seq(Context!Kinds) /\ Len(r) = Len(s) - 1 /\ Len(s) \in Nat \ {0}
           /\ 1 \in DOMAIN s /\ Head(s) = s[1] /\ Head(s) \in Context!Kinds
           /\ \A i \in DOMAIN r : i \in Nat \ {0} /\ i + 1 \in DOMAIN s /\ r[i] = s[i + 1]
           /\ \A i \in DOMAIN s :
                 i \in Nat \ {0} /\ (i # 1 => i - 1 \in DOMAIN r /\ r[i - 1] = s[i])
           /\ r = <<>> <=> Len(s) = 1
           /\ r # <<>> => 1 \in DOMAIN r /\ Head(r) = r[1] /\ r[1] = s[2] /\ 2 \in DOMAIN s
<1>1. /\ r \in Seq(Context!Kinds) /\ Len(r) = Len(s) - 1 /\ Len(s) \in Nat \ {0}
      /\ \A i \in 1 .. Len(r) : r[i] = s[i + 1]
  OBVIOUS
<1>2. DOMAIN s = 1 .. Len(s) /\ DOMAIN r = 1 .. Len(r)
  BY <1>1
<1>3. 1 \in DOMAIN s /\ Head(s) = s[1] /\ Head(s) \in Context!Kinds
  BY <1>1
<1>4. ASSUME NEW i \in DOMAIN r
      PROVE  i \in Nat \ {0} /\ i + 1 \in DOMAIN s /\ r[i] = s[i + 1]
  BY <1>1, <1>2
<1>5. ASSUME NEW i \in DOMAIN s
      PROVE  i \in Nat \ {0} /\ (i # 1 => i - 1 \in DOMAIN r /\ r[i - 1] = s[i])
  BY <1>1, <1>2
<1>6. r = <<>> <=> Len(s) = 1
  <2>1. r = <<>> <=> Len(r) = 0
    BY <1>1, EmptySeq
  <2> QED
    BY <1>1, <2>1
<1>7. r # <<>> => 1 \in DOMAIN r /\ Head(r) = r[1] /\ r[1] = s[2] /\ 2 \in DOMAIN s
  BY <1>1, <1>2
<1> QED
  BY <1>1, <1>3, <1>4, <1>5, <1>6, <1>7

(* What is left of a plan in order is in order.                            *)
LEMMA RestInOrder ==
    ASSUME NEW s \in Seq(Context!Kinds), s # <<>>, InOrder(s), NEW r, r = Tail(s)
    PROVE  InOrder(r)
<1>1. /\ r \in Seq(Context!Kinds) /\ Len(r) = Len(s) - 1 /\ Len(s) \in Nat \ {0}
      /\ \A i \in DOMAIN r : i \in Nat \ {0} /\ i + 1 \in DOMAIN s /\ r[i] = s[i + 1]
      /\ \A i \in DOMAIN s : i \in Nat \ {0} /\ (i # 1 => i - 1 \in DOMAIN r /\ r[i - 1] = s[i])
  BY RestOfPlan
<1>2. ASSUME NEW i \in DOMAIN r, r[i] = "fingerprint"
      PROVE  \E j \in DOMAIN r : j > i /\ r[j] = Id
  <2>1. PICK j \in DOMAIN s : j > i + 1 /\ s[j] = Id
    BY <1>1, <1>2 DEF InOrder
  <2>2. j - 1 \in DOMAIN r /\ j - 1 > i /\ r[j - 1] = Id
    BY <1>1, <2>1
  <2> QED
    BY <2>2
<1>3. ASSUME NEW i \in DOMAIN r, NEW j \in DOMAIN r, r[i] = "fingerprint", r[j] = "fingerprint"
      PROVE  i = j
  <2>1. i + 1 = j + 1
    BY <1>1, <1>3 DEF InOrder
  <2> QED
    BY <1>1, <2>1
<1>4. r # <<>> => r[Len(r)] = LastKind
  BY <1>1 DEF InOrder
<1>5. ASSUME NEW i \in DOMAIN r, i + 1 \in DOMAIN r, r[i] \notin Context!ComparedAtOnce
      PROVE  r[i + 1] \notin Context!ComparedAtOnce \/ r[i + 1] = "ready"
  <2>1. i + 1 \in DOMAIN s /\ i + 1 + 1 \in DOMAIN s /\ r[i] = s[i + 1] /\ r[i + 1] = s[i + 1 + 1]
    BY <1>1, <1>5
  <2> QED
    BY <1>5, <2>1 DEF InOrder
<1> QED
  BY <1>2, <1>3, <1>4, <1>5 DEF InOrder

(* Which observations are still to come after the first of them is made.   *)
LEMMA PendingAfter ==
    ASSUME todo \in Seq(Context!Kinds), todo # <<>>, InOrder(todo), todo' = Tail(todo)
    PROVE  /\ \A k : Pending(k)' => Pending(k)
           /\ \A k : Pending(k) /\ Head(todo) # k => Pending(k)'
           /\ Head(todo) = "fingerprint" => ~Pending("fingerprint")' /\ Pending(Id)
           /\ Head(todo) = "fingerprint" => \E i \in DOMAIN todo' : todo'[i] = Id
           /\ todo' = <<>> => \A k : ~Pending(k)'
<1>1. /\ todo' \in Seq(Context!Kinds) /\ Len(todo') = Len(todo) - 1 /\ Len(todo) \in Nat \ {0}
      /\ 1 \in DOMAIN todo /\ Head(todo) = todo[1]
      /\ \A i \in DOMAIN todo' : i \in Nat \ {0} /\ i + 1 \in DOMAIN todo /\ todo'[i] = todo[i + 1]
      /\ \A i \in DOMAIN todo :
            i \in Nat \ {0} /\ (i # 1 => i - 1 \in DOMAIN todo' /\ todo'[i - 1] = todo[i])
  BY RestOfPlan
<1>2. ASSUME NEW k
      PROVE  /\ Pending(k)' => Pending(k)
             /\ Pending(k) /\ Head(todo) # k => Pending(k)'
  <2>1. Pending(k)' => Pending(k)
    BY <1>1 DEF Pending
  <2>2. ASSUME NEW i \in DOMAIN todo, todo[i] = k, Head(todo) # k
        PROVE  i - 1 \in DOMAIN todo' /\ todo'[i - 1] = k
    BY <1>1, <2>2
  <2>3. Pending(k) /\ Head(todo) # k => Pending(k)'
    BY <2>2 DEF Pending
  <2> QED
    BY <2>1, <2>3
<1>3. ASSUME Head(todo) = "fingerprint"
      PROVE  ~Pending("fingerprint")' /\ Pending(Id) /\ \E i \in DOMAIN todo' : todo'[i] = Id
  <2>1. PICK j \in DOMAIN todo : j > 1 /\ todo[j] = Id
    BY <1>1, <1>3 DEF InOrder
  <2>2. ASSUME NEW i \in DOMAIN todo', todo'[i] = "fingerprint"
        PROVE  FALSE
    <3>1. i + 1 = 1
      <4>1. /\ i + 1 \in DOMAIN todo /\ todo[i + 1] = "fingerprint"
            /\ 1 \in DOMAIN todo /\ todo[1] = "fingerprint"
        BY <1>1, <1>3, <2>2
      <4> QED
        BY <4>1 DEF InOrder
    <3> QED
      BY <1>1, <3>1
  <2>3. j - 1 \in DOMAIN todo' /\ todo'[j - 1] = Id
    BY <1>1, <2>1
  <2> QED
    BY <2>1, <2>2, <2>3 DEF Pending
<1>4. todo' = <<>> => \A k : ~Pending(k)'
  BY DEF Pending
<1> QED
  BY <1>2, <1>3, <1>4

(* An observation is complete and kept.                                    *)
Keeps(kind, answer, obs) ==
    /\ phase \in Observing /\ kind = Head(todo) /\ Len(partial) + 1 = Len(Context!Requests[kind])
    /\ \E request :
          /\ request = Context!Requests[kind][Len(partial) + 1]
          /\ answer = Context!Answer(kind, request)
          /\ ~Context!AnswerRaises(kind, request, answer)
    /\ obs = Append(partial, answer)
    /\ Context!Verdict(kind, obs, Tail(todo)) = "go"
    /\ bound' = [bound EXCEPT ![kind] = obs]
    /\ drift' = (~Context!GroupEnds(Tail(todo)) /\ (drift \/ Context!Differs(kind, obs)))
    /\ todo' = Tail(todo) /\ partial' = <<>>
    /\ IF Tail(todo) = <<>>
       THEN \/ phase = "acquire" /\ phase' = "active" /\ UNCHANGED confirmed
            \/ phase = "confirm" /\ phase' \in {"closed", "lost"} /\ confirmed' = TRUE
       ELSE UNCHANGED << phase, confirmed >>
    /\ UNCHANGED << strategy, server, tables, seen >>

(* The observation that is kept, and the ones it leaves as they are.       *)
LEMMA KeptObservation ==
    ASSUME ContextInv, NEW kind, NEW answer, NEW obs, Keeps(kind, answer, obs)
    PROVE  /\ kind \in Context!Kinds /\ obs # <<>> /\ Len(obs) = Len(partial) + 1
           /\ Len(obs) = Len(Context!Requests[kind]) /\ obs[Len(obs)] = answer
           /\ \A i \in 1 .. Len(partial) : obs[i] = partial[i]
           /\ DOMAIN bound' = Context!Kinds /\ bound'[kind] = obs
           /\ \A k \in Context!Kinds \ {kind} : bound'[k] = bound[k]
           /\ strategy' = strategy /\ Id' = Id /\ Id \in Context!Kinds /\ Len(partial) \in Nat
<1>1. /\ todo \in Seq(Context!Kinds) /\ todo # <<>> /\ Len(partial) \in Nat
      /\ DOMAIN bound = Context!Kinds /\ Len(<<>>) = 0
  BY DEF Keeps, ContextInv, ContextType, PhaseOK
<1>2. kind \in Context!Kinds
  BY <1>1 DEF Keeps
<1>3. /\ Len(obs) = Len(partial) + 1 /\ obs[Len(obs)] = answer
      /\ \A i \in 1 .. Len(partial) : obs[i] = partial[i]
  BY <1>1 DEF Keeps
<1>4. obs # <<>>
  BY <1>1, <1>3
<1>5. Id' = Id /\ strategy' = strategy
  BY DEF Keeps, Id
<1>6. Id \in Context!Kinds
  BY DEF Id, Context!Kinds, Context!Requests
<1> QED
  BY <1>1, <1>2, <1>3, <1>4, <1>5, <1>6 DEF Keeps

(* A difference decided at once ends the phase; any other is remembered to *)
(* the end of its group.                                                   *)
LEMMA KeptDrift ==
    ASSUME ContextInv, NEW kind, NEW answer, NEW obs, Keeps(kind, answer, obs)
    PROVE  /\ kind \in Context!ComparedAtOnce /\ bound[kind] # <<>> => bound[kind] = obs
           /\ drift => drift'
           /\ kind = "fingerprint" /\ bound[kind] # <<>> /\ bound[kind] # obs => drift'
           /\ drift' \in BOOLEAN
           /\ drift' => todo' # <<>> /\ Head(todo') \notin Context!ComparedAtOnce
<1>1. /\ todo \in Seq(Context!Kinds) /\ todo # <<>> /\ drift \in BOOLEAN /\ InOrder(todo)
      /\ kind = Head(todo) /\ todo' = Tail(todo)
      /\ drift => kind \notin Context!ComparedAtOnce
      /\ drift' = (~Context!GroupEnds(todo') /\ (drift \/ Context!Differs(kind, obs)))
  BY DEF Keeps, ContextInv, ContextType, PhaseOK
<1>2. ~Context!CutMismatch(kind, obs, todo')
  BY DEF Keeps, Context!Verdict
<1>3. kind \in Context!ComparedAtOnce => ~Context!Differs(kind, obs)
  BY <1>2 DEF Context!CutMismatch
<1>4. kind \notin Context!ComparedAtOnce /\ (drift \/ Context!Differs(kind, obs)) =>
         ~Context!GroupEnds(todo')
  BY <1>2 DEF Context!CutMismatch
<1>5. kind \in Context!ComparedAtOnce /\ bound[kind] # <<>> => bound[kind] = obs
  BY <1>3 DEF Context!Differs, Context!ComparedAtOnce
<1>6. drift => drift'
  BY <1>1, <1>4
<1>7. kind = "fingerprint" /\ bound[kind] # <<>> /\ bound[kind] # obs => drift'
  BY <1>1, <1>4 DEF Context!Differs, Context!ComparedAtOnce
<1>8. ASSUME drift'
      PROVE  todo' # <<>> /\ Head(todo') \notin Context!ComparedAtOnce
  <2>1. /\ kind \notin Context!ComparedAtOnce /\ todo' # <<>> /\ Head(todo') # "ready"
    BY <1>1, <1>3, <1>8 DEF Context!GroupEnds
  <2>2. /\ 1 \in DOMAIN todo /\ 2 \in DOMAIN todo /\ kind = todo[1] /\ Head(todo') = todo[2]
    BY <1>1, <2>1, RestOfPlan
  <2>3. 1 + 1 = 2
    OBVIOUS
  <2> QED
    BY <1>1, <2>1, <2>2, <2>3 DEF InOrder
<1> QED
  BY <1>1, <1>5, <1>6, <1>7, <1>8

(* The identity that is kept is that of the bound table.                   *)
LEMMA KeptIdentity ==
    ASSUME ContextInv, NEW kind, NEW answer, NEW obs, Keeps(kind, answer, obs), kind = Id
    PROVE  /\ Len(partial) >= Policy /\ Policy \in {2, 3}
           /\ obs[1] = partial[1] /\ obs[1].value[1] = 1
           /\ strategy = "legacy" => obs[1].server = 1 /\ ~(partial[Policy].value[1] > 0)
<1>1. /\ Len(partial) \in Nat /\ Len(partial) + 1 = Len(Context!Requests[kind])
      /\ \A i \in 1 .. Len(partial) : obs[i] = partial[i]
  BY KeptObservation
<1>2. Len(partial) >= Policy /\ Policy \in {2, 3}
  <2>1. Len(Context!Requests["identity"]) = 3 /\ Len(Context!Requests["legacy_source"]) = 6
    BY DEF Context!Requests, Context!IdentityRequests, Context!LegacyWitness
  <2>2. CASE strategy = "legacy"
    <3>1. Len(partial) + 1 = 6 /\ Policy = 3
      BY <1>1, <2>1, <2>2 DEF Id, Policy
    <3> QED
      BY <1>1, <3>1
  <2>3. CASE strategy # "legacy"
    <3>1. Len(partial) + 1 = 3 /\ Policy = 2
      BY <1>1, <2>1, <2>3 DEF Id, Policy
    <3> QED
      BY <1>1, <3>1
  <2> QED
    BY <2>2, <2>3
<1>3. 1 \in 1 .. Len(partial) /\ Policy \in 1 .. Len(partial)
  BY <1>1, <1>2
<1>4. ~Context!ObservationRaises(kind, obs, Tail(todo))
  BY DEF Keeps, Context!Verdict
<1>5. CASE strategy = "legacy"
  <2>1. partial[1].server = 1 /\ partial[1].value[1] = 1
    BY <1>3, <1>5 DEF ContextInv, IdentityOK, Keeps, PhaseOK
  <2>2. ~(obs[3].value[1] > 0)
    BY <1>4, <1>5 DEF Id, Context!ObservationRaises, Context!LegacyWitnessRaises
  <2>3. Policy = 3 /\ obs[3] = partial[3] /\ obs[1] = partial[1]
    BY <1>1, <1>3, <1>5 DEF Policy
  <2> QED
    BY <1>2, <1>5, <2>1, <2>2, <2>3
<1>6. CASE strategy # "legacy"
  <2>1. obs[1].value[1] = 1
    BY <1>4, <1>6 DEF Id, Context!ObservationRaises, Context!VersionIdentityRaises,
                      Context!ManifestId
  <2> QED
    BY <1>1, <1>2, <1>3, <1>6, <2>1
<1> QED
  BY <1>5, <1>6

(* A context stays bound to the server it was bound to.                    *)
LEMMA KeptServer ==
    ASSUME ContextInv, NEW kind, NEW answer, NEW obs, Keeps(kind, answer, obs), bound[Id] # <<>>
    PROVE  /\ bound'[Id] # <<>> /\ bound'[Id][1].server = bound[Id][1].server
           /\ Same' <=> Same
           /\ kind = Id => partial[1].server = bound[Id][1].server
<1>1. /\ Id' = Id /\ Id \in Context!Kinds /\ obs # <<>> /\ bound'[kind] = obs
      /\ \A k \in Context!Kinds \ {kind} : bound'[k] = bound[k]
  BY KeptObservation
<1>2. CASE kind = Id
  <2>1. obs[1] = partial[1] /\ (strategy = "legacy" => obs[1].server = 1)
    BY <1>2, KeptIdentity
  <2>2. strategy = "legacy" => bound[Id][1].server = 1
    BY DEF ContextInv, IdentityOK
  <2>3. strategy # "legacy" => bound[Id] = obs
    BY <1>2, KeptDrift DEF Id, Context!ComparedAtOnce
  <2>4. bound'[Id] # <<>> /\ bound'[Id][1].server = bound[Id][1].server
    BY <1>1, <1>2, <2>1, <2>2, <2>3
  <2> QED
    BY <1>1, <1>2, <2>1, <2>4 DEF Same, Keeps, Version
<1>3. CASE kind # Id
  BY <1>1, <1>3 DEF Same, Keeps, Version
<1> QED
  BY <1>2, <1>3

(* The head under which a publication is kept is the manifest's.           *)
LEMMA KeptHead ==
    ASSUME ContextInv, NEW kind, NEW answer, NEW obs, Keeps(kind, answer, obs)
    PROVE  /\ kind = "ready" => obs[1].value[1] = 1
           /\ kind = LastKind => Newest = 1
<1>1. /\ Len(partial) \in Nat /\ Len(obs) = Len(partial) + 1
      /\ Len(obs) = Len(Context!Requests[kind]) /\ obs[Len(obs)] = answer
  BY KeptObservation
<1>2. Len(Context!Requests["ready"]) = 1
  BY DEF Context!Requests
<1>3. ~Context!NotReady(kind, obs)
  BY DEF Keeps, Context!Verdict
<1>4. kind = "ready" => obs[1].value[1] = 1 /\ obs[1] = answer
  <2>1. kind = "ready" => obs[1].value[1] = 1 \/ bound["ready"] # <<>>
    BY <1>1, <1>2, <1>3 DEF Context!NotReady, Context!ManifestRevision
  <2>2. kind = "ready" /\ bound["ready"] # <<>> => bound["ready"] = obs
    BY KeptDrift DEF Context!ComparedAtOnce
  <2> QED
    BY <1>1, <1>2, <2>1, <2>2 DEF ContextInv, HeadOK
<1>5. kind = "legacy_ready" /\ strategy = "legacy" => answer.value[1] = 1
  BY <1>1, <1>3 DEF Context!NotReady, Context!ManifestRevision, Context!Legacy
<1>6. kind = LastKind => answer.value[1] = Newest
  BY <1>1, AnswersSay DEF Keeps
<1> QED
  BY <1>4, <1>5, <1>6 DEF LastKind

(* What is bound and still to be observed, after an observation.           *)
LEMMA KeptStructure ==
    ASSUME ContextInv, NEW kind, NEW answer, NEW obs, Keeps(kind, answer, obs)
    PROVE  ContextType' /\ PhaseOK' /\ AcquireOK' /\ IdentityOK'
<1>1. /\ kind \in Context!Kinds /\ obs # <<>> /\ DOMAIN bound' = Context!Kinds
      /\ bound'[kind] = obs /\ \A k \in Context!Kinds \ {kind} : bound'[k] = bound[k]
      /\ strategy' = strategy /\ Id' = Id /\ Id \in Context!Kinds
  BY KeptObservation
<1>2. /\ phase \in {"acquire", "confirm"} /\ kind = Head(todo) /\ todo' = Tail(todo)
      /\ partial' = <<>>
      /\ IF todo' = <<>>
         THEN \/ phase = "acquire" /\ phase' = "active" /\ confirmed' = confirmed
              \/ phase = "confirm" /\ phase' \in {"closed", "lost"} /\ confirmed' = TRUE
         ELSE phase' = phase /\ confirmed' = confirmed
      /\ UNCHANGED << server, tables, seen >>
  BY DEF Keeps, Observing
<1>3. /\ todo \in Seq(Context!Kinds) /\ todo # <<>> /\ InOrder(todo) /\ ~confirmed
      /\ phase = "acquire" => seen = {}
      /\ phase = "confirm" => bound["fingerprint"] # <<>> /\ bound[Id] # <<>>
  BY <1>2 DEF ContextInv, ContextType, PhaseOK, Observing
<1>4. InOrder(todo') /\ todo' \in Seq(Context!Kinds)
  BY <1>2, <1>3, RestInOrder, RestOfPlan
<1>5. /\ \A k : Pending(k)' => Pending(k)
      /\ \A k : Pending(k) /\ kind # k => Pending(k)'
      /\ kind = "fingerprint" => ~Pending("fingerprint")' /\ Pending(Id)
      /\ todo' = <<>> => \A k : ~Pending(k)'
  BY <1>2, <1>3, PendingAfter
<1>6. Len(<<>>) = 0 /\ "fingerprint" \in Context!Kinds /\ Id # "fingerprint"
  BY DEF Context!Kinds, Context!Requests, Id
<1>7. /\ drift' \in BOOLEAN
      /\ drift' => todo' # <<>> /\ Head(todo') \notin Context!ComparedAtOnce
  BY KeptDrift
<1>8. ContextType'
  BY <1>1, <1>2, <1>4, <1>6, <1>7 DEF ContextInv, ContextType, Version
<1>9. phase = "acquire" => AcquireOK
  BY DEF ContextInv
<1>10. ASSUME phase = "acquire", bound'["fingerprint"] # <<>>
       PROVE  ~Pending("fingerprint")' /\ bound'[Id] # <<>>
  <2>1. CASE kind = "fingerprint"
    <3>1. bound[Id] # <<>>
      <4>1. /\ 1 \in DOMAIN todo /\ todo[1] = "fingerprint"
            /\ \A j \in DOMAIN todo : j \in Nat \ {0}
        BY <1>2, <1>3, <2>1, RestOfPlan
      <4>2. ~\E j \in DOMAIN todo : j < 1 /\ todo[j] = Id
        BY <4>1
      <4> QED
        BY <1>9, <1>10, <4>1, <4>2 DEF AcquireOK
    <3> QED
      BY <1>1, <1>5, <1>6, <2>1, <3>1
  <2>2. CASE kind # "fingerprint"
    <3>1. bound["fingerprint"] # <<>>
      BY <1>1, <1>6, <1>10, <2>2
    <3> QED
      BY <1>1, <1>5, <1>9, <1>10, <3>1 DEF AcquireOK
  <2> QED
    BY <2>1, <2>2
<1>11. ASSUME phase = "acquire", bound'["fingerprint"] = <<>>
       PROVE  Pending("fingerprint")'
  <2>1. kind # "fingerprint" /\ bound["fingerprint"] = <<>>
    BY <1>1, <1>6, <1>11
  <2> QED
    BY <1>5, <1>9, <1>11, <2>1 DEF AcquireOK
<1>12. ASSUME phase = "acquire", bound'[Id] = <<>>,
              NEW i \in DOMAIN todo', todo'[i] = "fingerprint"
       PROVE  \E j \in DOMAIN todo' : j < i /\ todo'[j] = Id
  <2>1. kind # Id /\ bound[Id] = <<>>
    BY <1>1, <1>12
  <2>2. /\ i \in Nat \ {0} /\ i + 1 \in DOMAIN todo /\ todo[i + 1] = "fingerprint"
        /\ Head(todo) = todo[1]
        /\ \A j \in DOMAIN todo :
              j \in Nat \ {0} /\ (j # 1 => j - 1 \in DOMAIN todo' /\ todo'[j - 1] = todo[j])
    BY <1>2, <1>3, <1>12, RestOfPlan
  <2>3. PICK j \in DOMAIN todo : j < i + 1 /\ todo[j] = Id
    BY <1>9, <1>12, <2>1, <2>2 DEF AcquireOK
  <2>4. j # 1
    BY <1>2, <2>1, <2>2, <2>3
  <2>5. j - 1 \in DOMAIN todo' /\ j - 1 < i /\ todo'[j - 1] = Id
    BY <2>2, <2>3, <2>4
  <2> QED
    BY <2>5
<1>13. AcquireOK'
  BY <1>1, <1>2, <1>10, <1>11, <1>12 DEF AcquireOK
<1>14. PhaseOK'
  <2>1. phase' \in Observing => todo' # <<>> /\ Len(partial') < Len(Context!Requests[Head(todo')])
    <3>1. phase' \in Observing => todo' # <<>>
      BY <1>2 DEF Observing
    <3>2. todo' # <<>> => Head(todo') \in Context!Kinds
      BY <1>4
    <3> QED
      BY <1>2, <1>6, <3>1, <3>2, RequestsAreMade
  <2>2. phase' \in {"opening", "profile", "active"} => partial' = <<>> /\ todo' = <<>> /\ ~drift'
    BY <1>2, <1>7
  <2>3. phase' \in {"active", "confirm"} => bound'["fingerprint"] # <<>> /\ bound'[Id] # <<>>
    <3>1. CASE phase = "confirm"
      BY <1>1, <1>3, <1>6, <3>1
    <3>2. CASE phase' = "active"
      BY <1>2, <1>5, <1>10, <1>11, <3>2
    <3> QED
      BY <1>2, <3>1, <3>2
  <2>4. /\ InOrder(todo)'
        /\ phase' \in Observing /\ drift' => Head(todo') \notin Context!ComparedAtOnce
        /\ phase' \in {"opening", "profile", "acquire"} => seen' = {}
        /\ phase' \notin {"opening", "profile"}
        /\ confirmed' => phase' \in {"closed", "lost"}
    <3>1. InOrder(todo)'
      BY <1>1, <1>4 DEF InOrder, LastKind, Id
    <3> QED
      BY <1>2, <1>3, <1>7, <3>1
  <2> QED
    BY <1>1, <2>1, <2>2, <2>3, <2>4 DEF PhaseOK
<1>15. IdentityOK'
  <2>1. ASSUME bound'[Id] # <<>>
        PROVE  /\ bound'[Id][1].server \in {1, 2} /\ bound'[Id][1].server <= server
               /\ strategy = "legacy" => bound'[Id][1].server = 1
    <3>1. CASE kind = Id
      <4>1. Len(partial) >= 1 /\ obs[1] = partial[1]
        BY <3>1, KeptIdentity
      <4> QED
        BY <1>1, <1>2, <1>3, <3>1, <4>1 DEF ContextInv, IdentityOK
    <3>2. CASE kind # Id
      BY <1>1, <2>1, <3>2 DEF ContextInv, IdentityOK
    <3> QED
      BY <3>1, <3>2
  <2> QED
    BY <1>1, <1>2, <1>6, <2>1 DEF IdentityOK
<1> QED
  BY <1>8, <1>13, <1>14, <1>15

(* What the fingerprint and the reads are known to be, after an            *)
(* observation.                                                            *)
LEMMA KeptKnowledge ==
    ASSUME ContextInv, NEW kind, NEW answer, NEW obs, Keeps(kind, answer, obs)
    PROVE  /\ HeadOK' /\ PrintOK' /\ PolicyOK' /\ SeenOK' /\ ConfirmOK'
           /\ confirmed' => Good' /\ \A s \in seen' : s.head = 1
<1>1. /\ kind \in Context!Kinds /\ obs # <<>> /\ DOMAIN bound' = Context!Kinds
      /\ bound'[kind] = obs /\ \A k \in Context!Kinds \ {kind} : bound'[k] = bound[k]
      /\ strategy' = strategy /\ Id' = Id /\ Id \in Context!Kinds
  BY KeptObservation
<1>2. /\ phase \in {"acquire", "confirm"} /\ kind = Head(todo) /\ todo' = Tail(todo)
      /\ partial' = <<>>
      /\ IF todo' = <<>>
         THEN \/ phase = "acquire" /\ phase' = "active" /\ confirmed' = confirmed
              \/ phase = "confirm" /\ phase' \in {"closed", "lost"} /\ confirmed' = TRUE
         ELSE phase' = phase /\ confirmed' = confirmed
      /\ UNCHANGED << server, tables, seen >>
  BY DEF Keeps, Observing
<1>3. /\ todo \in Seq(Context!Kinds) /\ todo # <<>> /\ InOrder(todo) /\ ~confirmed
      /\ phase = "acquire" => seen = {}
      /\ phase = "confirm" => bound["fingerprint"] # <<>> /\ bound[Id] # <<>>
      /\ phase = "acquire" /\ bound["fingerprint"] # <<>> => bound[Id] # <<>>
  BY <1>2 DEF ContextInv, ContextType, PhaseOK, AcquireOK, Observing
<1>4. /\ \A k : Pending(k)' => Pending(k)
      /\ \A k : Pending(k) /\ kind # k => Pending(k)'
      /\ kind = "fingerprint" => ~Pending("fingerprint")' /\ Pending(Id) /\ Pending(Id)'
      /\ todo' = <<>> => \A k : ~Pending(k)'
  <2>1. kind = "fingerprint" => Pending(Id)'
    <3>1. kind = "fingerprint" => \E i \in DOMAIN todo' : todo'[i] = Id
      BY <1>2, <1>3, PendingAfter
    <3> QED
      BY <1>1, <3>1 DEF Pending
  <2> QED
    BY <1>2, <1>3, <2>1, PendingAfter
<1>5. /\ Len(<<>>) = 0 /\ "fingerprint" \in Context!Kinds /\ "ready" \in Context!Kinds
      /\ Id # "fingerprint"
      /\ LastKind \notin {Id, "fingerprint"}
  BY DEF Context!Kinds, Context!Requests, Id, LastKind
<1>6. /\ Version' = Version /\ Newest' = Newest /\ Version.rows \in Nat /\ Policy' = Policy
      /\ Newest \in Nat
  BY <1>1, <1>2, HeadsAdvance DEF Version, Newest, Policy, ContextInv, ContextType
<1>7. todo' = <<>> => Newest = 1 /\ kind = LastKind
  <2>1. todo' = <<>> => kind = LastKind
    BY <1>2, <1>3, RestOfPlan DEF InOrder
  <2> QED
    BY <2>1, KeptHead
<1>8. bound[Id] # <<>> =>
         /\ bound'[Id] # <<>> /\ bound'[Id][1].server = bound[Id][1].server /\ (Same' <=> Same)
  BY KeptServer
<1>9. /\ kind # "fingerprint" =>
            Acquired' = Acquired /\ bound'["fingerprint"] = bound["fingerprint"]
      /\ kind = "fingerprint" => Acquired'[1] = Version.rows /\ Acquired'[2] = Context!Hidden
  <2>1. kind # "fingerprint" => Acquired' = Acquired /\ bound'["fingerprint"] = bound["fingerprint"]
    BY <1>1, <1>5 DEF Acquired
  <2>2. ASSUME kind = "fingerprint"
        PROVE  Acquired'[1] = Version.rows /\ Acquired'[2] = Context!Hidden
    <3>1. /\ Len(partial) \in Nat /\ Len(obs) = Len(partial) + 1
          /\ Len(obs) = Len(Context!Requests[kind]) /\ obs[Len(obs)] = answer
      BY KeptObservation
    <3>2. Len(Context!Requests["fingerprint"]) = 1
      BY DEF Context!Requests
    <3>3. Len(partial) = 0 /\ obs[1] = answer
      <4>1. Len(obs) = 1
        BY <2>2, <3>1, <3>2
      <4>2. obs[1] = answer
        BY <3>1, <4>1
      <4>3. Len(partial) = 0
        BY <3>1, <4>1
      <4> QED
        BY <4>2, <4>3
    <3>4. answer.value[1] = Version.rows /\ answer.value[2] = Context!Hidden
      BY <2>2, <3>3, AnswersSay DEF Keeps
    <3> QED
      BY <1>1, <2>2, <3>3, <3>4 DEF Acquired
  <2> QED
    BY <2>1, <2>2
<1>10. Context!Hidden <=> Version.policies > 0
  BY DEF Context!Hidden, Version
<1>11. HeadOK'
  <2>1. bound'["ready"] # <<>> => bound'["ready"][1].value[1] = 1
    BY <1>1, <1>5, KeptHead DEF ContextInv, HeadOK
  <2>2. phase' = "active" => Newest = 1 /\ seen = {}
    BY <1>2, <1>3, <1>7
  <2>3. phase' = "confirm" => phase = "confirm"
    BY <1>2
  <2> QED
    BY <1>2, <1>6, <2>1, <2>2, <2>3 DEF ContextInv, HeadOK
<1>12. PrintOK'
  <2>1. ASSUME bound'["fingerprint"] # <<>>, phase' \in {"acquire", "active", "confirm"}
        PROVE  /\ Acquired'[1] \in Nat
               /\ Same' => Acquired'[1] <= Version.rows /\ (Acquired'[2] => Version.policies > 0)
    <3>1. CASE kind = "fingerprint"
      <4>1. Acquired'[1] \in Nat /\ Acquired'[1] <= Version.rows
        BY <1>6, <1>9, <3>1
      <4>2. Acquired'[2] => Version.policies > 0
        BY <1>9, <1>10, <3>1
      <4> QED
        BY <4>1, <4>2
    <3>2. CASE kind # "fingerprint"
      BY <1>2, <1>3, <1>8, <1>9, <2>1, <3>2 DEF ContextInv, PrintOK
    <3> QED
      BY <3>1, <3>2
  <2> QED
    BY <1>6, <2>1 DEF PrintOK
<1>13. ASSUME phase = "acquire", bound'["fingerprint"] # <<>>, ~Pending(Id)', Same'
       PROVE  ~Acquired'[2]
  <2>1. kind # "fingerprint" /\ Acquired' = Acquired /\ bound["fingerprint"] # <<>> /\ Same
    BY <1>3, <1>4, <1>8, <1>9, <1>13
  <2>2. CASE Pending(Id)
    <3>1. kind = Id
      BY <1>1, <1>4, <1>13, <2>2
    <3>2. /\ Len(partial) >= Policy
          /\ strategy = "legacy" => ~(partial[Policy].value[1] > 0)
      BY <3>1, KeptIdentity
    <3> QED
      BY <1>2, <1>3, <1>13, <2>1, <3>1, <3>2 DEF ContextInv, PolicyOK
  <2>3. CASE ~Pending(Id)
    BY <1>3, <1>13, <2>1, <2>3 DEF ContextInv, PolicyOK
  <2> QED
    BY <2>2, <2>3
<1>14. ASSUME phase = "confirm", Pending("fingerprint")'
       PROVE  Pending("fingerprint") /\ kind # "fingerprint" /\ Acquired' = Acquired
  BY <1>4, <1>9, <1>14
<1>15. PolicyOK'
  <2>1. Policy \in {2, 3}
    BY DEF Policy
  <2>2. ~(Len(partial') >= Policy)
    BY <1>2, <1>5, <2>1
  <2>3. phase' = "acquire" => phase = "acquire"
    BY <1>2
  <2>4. ASSUME phase' = "active", Same'
        PROVE  ~Acquired'[2]
    <3>1. phase = "acquire" /\ ~Pending(Id)' /\ ~Pending("fingerprint")'
      BY <1>2, <1>4, <2>4
    <3>2. bound'["fingerprint"] # <<>>
      BY <2>4, KeptStructure DEF PhaseOK
    <3> QED
      BY <1>13, <2>4, <3>1, <3>2
  <2>5. ASSUME phase' = "confirm", Pending("fingerprint")', Same'
        PROVE  ~Acquired'[2]
    BY <1>2, <1>3, <1>8, <1>14, <2>5 DEF ContextInv, PolicyOK
  <2> QED
    BY <1>1, <1>6, <1>13, <2>2, <2>3, <2>4, <2>5 DEF PolicyOK
<1>16. SeenOK'
  <2>1. phase' = "active" => seen = {}
    BY <1>2, <1>3
  <2>2. ASSUME phase' = "confirm", Pending("fingerprint")', NEW s \in seen, Same'
        PROVE  /\ s.id = 1 /\ s.server = bound'[Id][1].server
               /\ s.rows \in Nat /\ Acquired'[1] <= s.rows /\ s.rows <= Version.rows
               /\ s.hidden => Version.policies > 0
    <3>1. phase = "confirm" /\ Pending("fingerprint") /\ Acquired' = Acquired /\ Same
          /\ bound'[Id][1].server = bound[Id][1].server
      BY <1>2, <1>3, <1>8, <1>14, <2>2
    <3> QED
      BY <2>2, <3>1 DEF ContextInv, SeenOK
  <2> QED
    BY <1>1, <1>2, <1>6, <2>1, <2>2 DEF SeenOK
<1>17. ASSUME phase = "confirm", kind # "fingerprint"
       PROVE  (Good' <=> Good) /\ (Same' <=> Same)
  BY <1>1, <1>2, <1>3, <1>8, <1>9, <1>17 DEF Good
<1>18. ASSUME phase = "confirm", ~Pending("fingerprint")', Same'
       PROVE  drift' \/ Good'
  <2>1. CASE kind = "fingerprint"
    <3>1. bound["fingerprint"] # <<>> /\ bound[Id] # <<>> /\ Same
          /\ bound'[Id][1].server = bound[Id][1].server
      BY <1>3, <1>8, <1>18
    <3>2. ASSUME bound["fingerprint"] = obs
          PROVE  Good'
      <4>1. Acquired' = Acquired
        BY <1>1, <1>5, <2>1, <3>2 DEF Acquired
      <4>2. Pending("fingerprint")
        BY <1>2, <1>3, <2>1, RestOfPlan DEF Pending
      <4>3. Acquired[1] = Version.rows /\ (Acquired[2] <=> Version.policies > 0)
        BY <1>9, <1>10, <2>1, <4>1
      <4>4. ~(Version.policies > 0)
        BY <1>18, <3>1, <4>2, <4>3 DEF ContextInv, PolicyOK
      <4>5. ASSUME NEW s \in seen
            PROVE  /\ s.id = 1 /\ s.server = bound[Id][1].server
                   /\ s.rows = Acquired[1] /\ ~s.hidden
        <5>1. /\ s.id = 1 /\ s.server = bound[Id][1].server
              /\ s.rows \in Nat /\ Acquired[1] <= s.rows /\ s.rows <= Version.rows
              /\ s.hidden => Version.policies > 0
          BY <1>18, <3>1, <4>2, <4>5 DEF ContextInv, SeenOK
        <5>2. s.rows = Acquired[1]
          BY <1>6, <4>3, <5>1
        <5> QED
          BY <4>4, <5>1, <5>2
      <4> QED
        BY <1>1, <1>2, <3>1, <4>1, <4>5 DEF Good
    <3>3. bound["fingerprint"] # obs => drift'
      BY <2>1, <3>1, KeptDrift
    <3> QED
      BY <3>2, <3>3
  <2>2. CASE kind # "fingerprint"
    <3>1. ~Pending("fingerprint")
      BY <1>4, <1>18, <2>2
    <3>2. drift \/ Good
      BY <1>17, <1>18, <2>2, <3>1 DEF ContextInv, ConfirmOK
    <3> QED
      BY <1>17, <1>18, <2>2, <3>2, KeptDrift
  <2> QED
    BY <2>1, <2>2
<1>19. ASSUME phase = "confirm", ~Pending("fingerprint")', ~Pending(Id)'
       PROVE  drift' \/ Good'
  <2>1. kind # "fingerprint" /\ ~Pending("fingerprint")
    BY <1>4, <1>19
  <2>2. drift \/ Good
    <3>1. CASE Pending(Id)
      <4>1. kind = Id
        BY <1>1, <1>4, <1>19, <3>1
      <4>2. /\ Len(partial) >= Policy /\ Policy \in {2, 3} /\ Len(partial) \in Nat
            /\ partial[1].value[1] = 1 /\ partial[1].server = bound[Id][1].server
        BY <1>3, <1>19, <4>1, KeptIdentity, KeptServer, KeptObservation
      <4>3. Len(partial) >= 1
        BY <4>2
      <4> QED
        BY <1>2, <1>19, <2>1, <4>1, <4>2, <4>3 DEF ContextInv, ConfirmOK
    <3>2. CASE ~Pending(Id)
      BY <1>19, <2>1, <3>2 DEF ContextInv, ConfirmOK
    <3> QED
      BY <3>1, <3>2
  <2> QED
    BY <1>17, <1>19, <2>1, <2>2, KeptDrift
<1>20. ConfirmOK'
  <2>1. phase' = "confirm" => phase = "confirm"
    BY <1>2
  <2>2. ~(Len(partial') >= 1)
    BY <1>2, <1>5
  <2> QED
    BY <1>1, <1>18, <1>19, <2>1, <2>2 DEF ConfirmOK
<1>21. ASSUME confirmed'
       PROVE  Good' /\ \A s \in seen' : s.head = 1
  <2>1. phase = "confirm" /\ todo' = <<>>
    BY <1>2, <1>3, <1>21
  <2>2. ~drift' /\ ~Pending("fingerprint")' /\ ~Pending(Id)'
    BY <1>4, <2>1, KeptDrift
  <2>3. Newest = 1
    BY <1>7, <2>1
  <2>4. \A s \in seen : s.head = 1
    BY <2>1, <2>3 DEF ContextInv, HeadOK
  <2> QED
    BY <1>2, <1>19, <2>1, <2>2, <2>4
<1> QED
  BY <1>11, <1>12, <1>15, <1>16, <1>20, <1>21

(* An observation: it ends the phase, asks its next request, or is kept.   *)
LEMMA ObserveStep ==
    ASSUME ContextInv, Context!Observe
    PROVE  ContextInv'
<1>1. /\ phase \in Observing /\ todo # <<>>
      /\ UNCHANGED << strategy, server, tables >>
  BY DEF Context!Observe, Context!requestVars, Context!serverVars, Observing
<1>2. PICK kind, request, answer :
         /\ kind = Head(todo) /\ request = Context!Requests[kind][Len(partial) + 1]
         /\ answer = Context!Answer(kind, request)
  OBVIOUS
<1>3. CASE Context!AnswerRaises(kind, request, answer)
  <2>1. Context!EndWith("raised")
    BY <1>2, <1>3 DEF Context!Observe
  <2> QED
    BY <1>1, <2>1, EndStep DEF Observing
<1>4. CASE /\ ~Context!AnswerRaises(kind, request, answer)
           /\ Len(partial) + 1 # Len(Context!Requests[kind])
  <2>1. partial' = Append(partial, answer)
        /\ UNCHANGED << phase, todo, bound, drift, seen, confirmed >>
    BY <1>2, <1>4 DEF Context!Observe
  <2> QED
    BY <1>1, <1>2, <1>4, <2>1, RecordStep
<1>5. CASE /\ ~Context!AnswerRaises(kind, request, answer)
           /\ Len(partial) + 1 = Len(Context!Requests[kind])
  <2>1. PICK obs : obs = Append(partial, answer)
    OBVIOUS
  <2>2. Context!Conclude(kind, obs)
    BY <1>2, <1>5, <2>1 DEF Context!Observe
  <2>3. CASE Context!EndWith(Context!Verdict(kind, obs, Tail(todo)))
    BY <1>1, <2>3, EndStep DEF Observing
  <2>4. CASE ~Context!EndWith(Context!Verdict(kind, obs, Tail(todo)))
    <3>1. /\ Context!Verdict(kind, obs, Tail(todo)) = "go"
          /\ bound' = [bound EXCEPT ![kind] = obs]
          /\ drift' = (~Context!GroupEnds(Tail(todo)) /\ (drift \/ Context!Differs(kind, obs)))
          /\ todo' = Tail(todo) /\ partial' = <<>> /\ seen' = seen
          /\ IF Tail(todo) = <<>> THEN Context!Complete ELSE UNCHANGED << phase, confirmed >>
      BY <2>2, <2>4 DEF Context!Conclude
    <3>2. IF Tail(todo) = <<>>
          THEN \/ phase = "acquire" /\ phase' = "active" /\ UNCHANGED confirmed
               \/ phase = "confirm" /\ phase' \in {"closed", "lost"} /\ confirmed' = TRUE
          ELSE UNCHANGED << phase, confirmed >>
      BY <3>1 DEF Context!Complete, Context!BindProtectedContext, Context!BindLegacyContext,
                  Context!KeepConfirmation
    <3>3. Keeps(kind, answer, obs)
      BY <1>1, <1>2, <1>5, <2>1, <3>1, <3>2 DEF Keeps
    <3> QED
      BY <3>3, KeptStructure, KeptKnowledge DEF ContextInv
  <2> QED
    BY <2>3, <2>4
<1> QED
  BY <1>3, <1>4, <1>5

(* A failed request or read ends the phase.                                *)
LEMMA FailureStep ==
    ASSUME ContextInv, Context!RequestFails \/ Context!SourceReadFails
    PROVE  ContextInv'
BY EndStep
   DEF Context!RequestFails, Context!SourceReadFails, Context!requestVars, Context!serverVars

(* Every step of the context and of the server keeps the invariant.        *)
LEMMA ContextStep ==
    ASSUME ContextInv, Context!Next
    PROVE  ContextInv'
<1>1. CASE \/ Context!OpenTransport \/ Context!InspectServerProfile
           \/ Context!InspectLegacyServerProfile
  BY <1>1, OpenStep
<1>2. CASE Context!Observe
  BY <1>2, ObserveStep
<1>3. CASE Context!RequestFails \/ Context!SourceReadFails
  BY <1>3, FailureStep
<1>4. CASE Context!SourceRead
  BY <1>4, SourceReadStep
<1>5. CASE Context!Close
  BY <1>5, ConfirmationStarts
<1>6. CASE \E t \in Context!TableNames :
              \/ Context!WriteRows(t) \/ Context!MergeParts(t) \/ Context!Mutate(t)
              \/ Context!EndMutation(t) \/ Context!AlterTable(t) \/ Context!AddPolicy(t)
              \/ Context!DropTable(t) \/ Context!RecreateTable(t)
  BY <1>6, PublisherStep DEF Context!TableNames
<1>7. CASE Context!SetReadonly
  BY <1>7, PublisherStep
<1>8. CASE Context!Failover
  BY <1>8, FailoverStep
<1> QED
  BY <1>1, <1>2, <1>3, <1>4, <1>5, <1>6, <1>7, <1>8 DEF Context!Next

(* A context starts with nothing bound and nothing observed.               *)
LEMMA ContextStarts ==
    ASSUME Context!Init
    PROVE  ContextInv
<1>1. /\ strategy \in Context!Strategies /\ server = 1 /\ phase = "opening" /\ todo = <<>>
      /\ partial = <<>> /\ bound = [kind \in Context!Kinds |-> <<>>] /\ drift = FALSE
      /\ seen = {} /\ confirmed = FALSE
  BY DEF Context!Init, Context!NoBinding, Context!ManifestServer
<1>2. /\ tables["readiness"] = Context!Free /\ DOMAIN tables = {"readiness", "version"}
      /\ DOMAIN Version = Columns /\ Version.rows = 1 /\ Version.policies = 0 /\ Version.id = 1
  <2>1. PICK history : tables = [readiness |-> Context!Free,
                         version |-> [Context!Free EXCEPT !.sealed = strategy # "legacy",
                                                          !.mutations = history]]
    BY DEF Context!Init
  <2> QED
    BY <2>1 DEF Version, Context!Free, Columns, Context!ManifestId
<1>3. 1 \in DOMAIN Heads
  BY SourceRequestsAssumption DEF Context!ClickHouseReadsAssumption
<1>4. "fingerprint" \in Context!Kinds /\ Id \in Context!Kinds /\ "ready" \in Context!Kinds
  BY DEF Context!Kinds, Context!Requests, Id
<1>5. ContextType
  <2>1. todo \in Seq(Context!Kinds) /\ Len(partial) \in Nat /\ DOMAIN bound = Context!Kinds
    BY <1>1
  <2>2. DOMAIN tables["readiness"] = Columns /\ tables["readiness"].rows = 1
    BY <1>2 DEF Columns, Context!Free
  <2>3. /\ \A t \in {"readiness", "version"} : DOMAIN tables[t] = Columns /\ tables[t].rows \in Nat
        /\ tables["readiness"].rows \in DOMAIN Heads
    BY <1>2, <1>3, <2>2 DEF Version
  <2> QED
    BY <1>1, <1>2, <2>1, <2>3 DEF ContextType
<1>6. PhaseOK
  BY <1>1 DEF PhaseOK, InOrder, Observing
<1>7. IdentityOK /\ HeadOK
  BY <1>1, <1>4 DEF IdentityOK, HeadOK
<1>8. AcquireOK /\ PrintOK /\ PolicyOK /\ SeenOK /\ ConfirmOK
  BY <1>1 DEF AcquireOK, PrintOK, PolicyOK, SeenOK, ConfirmOK
<1> QED
  BY <1>1, <1>5, <1>6, <1>7, <1>8 DEF ContextInv

(* The steps of the other parts are no steps of the context.               *)
LEMMA ContextUntouched ==
    ASSUME ContextInv, UNCHANGED contextVars
    PROVE  ContextInv'
<1>1. UNCHANGED << strategy, phase, server, tables, todo, partial, bound, drift, seen,
                   confirmed >>
  BY DEF contextVars, contextOnly
<1>2. Later
  <2>1. /\ DOMAIN tables = {"readiness", "version"} /\ server \in {1, 2}
    BY DEF ContextInv, ContextType
  <2> QED
    BY <1>1, <2>1 DEF Later, Version, ContextInv, ContextType
<1> QED
  BY <1>1, <1>2, LaterStep

(* Whatever the publisher, the administrators and a failover do between    *)
(* the requests of a context, the reads it made are between the two        *)
(* fingerprints of one version as long as the confirmation can succeed.    *)
THEOREM ClickHouseContextInvariance == Spec => [](part = "context" => ContextInv)
<1>1. Init => (part = "context" => ContextInv)
  BY ContextStarts DEF Init
<1>2. (part = "context" => ContextInv) /\ [Next]_vars => (part = "context" => ContextInv)'
  <2> SUFFICES ASSUME part = "context" => ContextInv, [Next]_vars, part' = "context"
               PROVE  ContextInv'
    OBVIOUS
  <2>1. part = "context" /\ (Context!Next \/ UNCHANGED contextVars)
    BY DEF Next, vars, contextVars
  <2> QED
    BY <2>1, ContextStep, ContextUntouched
<1> QED
  BY <1>1, <1>2, PTL DEF Spec

(* Reads that end with a final confirmation all found one version, on one  *)
(* server, under the head the manifest names, although no two requests     *)
(* share a snapshot (clickhouse_endpoint.py:611).                          *)
THEOREM ConfirmedReadsAgree == Spec => []ConfirmedReadsAreOfOneVersion
<1>1. (part = "context" => ContextInv) => ConfirmedReadsAreOfOneVersion
  BY DEF ConfirmedReadsAreOfOneVersion, Context!ConfirmedReadsAreOfOneVersion, ContextInv, Good,
         Context!BoundServer, Context!Legacy, Context!ManifestId, Context!ManifestRevision, Id, Acquired
<1> QED
  BY <1>1, ClickHouseContextInvariance, PTL

-----------------------------------------------------------------------------
(* Induction over finite sets and naturals, for a set of them instead of a *)
(* predicate.                                                              *)

(* A set of naturals that is not empty has a smallest element.             *)
LEMMA SmallestNumber ==
    ASSUME NEW S \in SUBSET Nat, S # {}
    PROVE  \E low \in S : \A n \in S : low <= n
<1> DEFINE Less == {pair \in Nat \X Nat : pair[1] < pair[2]}
<1>1. IsWellFoundedOn(Less, Nat)
  BY NatLessThanWellFounded, Zenon DEF OpToRel
<1> HIDE DEF Less
<1>2. PICK low \in S : \A n \in S : <<n, low>> \notin Less
  BY <1>1, WFMin
<1>3. ASSUME NEW n \in S
      PROVE  low <= n
  <2>1. n \in Nat /\ low \in Nat /\ <<n, low>> \in Nat \X Nat
    OBVIOUS
  <2>2. ~(<<n, low>>[1] < <<n, low>>[2])
    BY <1>2, <2>1 DEF Less
  <2> QED
    BY <2>1, <2>2
<1> QED
  BY <1>3

(* A set with 0 and the successor of each of its naturals has them all.    *)
LEMMA NaturalsAreIn ==
    ASSUME NEW G, 0 \in G, \A n \in Nat : n \in G => n + 1 \in G
    PROVE  \A n \in Nat : n \in G
<1>1. SUFFICES ASSUME Nat \ G # {} PROVE FALSE
  OBVIOUS
<1>2. PICK low \in Nat \ G : \A n \in Nat \ G : low <= n
  BY <1>1, SmallestNumber
<1>3. low - 1 \in Nat /\ low - 1 \in G
  BY <1>2
<1>4. (low - 1) + 1 \in G
  BY <1>3
<1> QED
  BY <1>2, <1>4

(* Of the finite sets outside G one is minimal: what it has fewer of is in G. *)
LEMMA SmallestSet ==
    ASSUME NEW G, NEW S, IsFiniteSet(S), S \notin G
    PROVE  \E T \in SUBSET S :
              /\ IsFiniteSet(T) /\ T \notin G
              /\ \A U \in SUBSET T : U # T => U \in G /\ IsFiniteSet(U)
<1> DEFINE Bad == {T \in FiniteSubsetsOf(S) : T \notin G}
<1>1. Bad # {} /\ Bad \subseteq FiniteSubsetsOf(S)
  BY DEF FiniteSubsetsOf
<1>2. PICK T \in Bad : \A U \in Bad : <<U, T>> \notin StrictSubsetOrdering(S)
  BY <1>1, WFMin, FS_StrictSubsetOrderingWellFounded
<1>3. T \in SUBSET S /\ IsFiniteSet(T) /\ T \notin G
  BY DEF FiniteSubsetsOf
<1>4. ASSUME NEW U \in SUBSET T, U # T
      PROVE  U \in G /\ IsFiniteSet(U)
  <2>1. IsFiniteSet(U)
    BY <1>3, FS_Subset
  <2>2. <<U, T>> \in StrictSubsetOrdering(S)
    BY <1>3, <1>4 DEF StrictSubsetOrdering
  <2>3. U \notin Bad
    BY <1>2, <2>2
  <2>4. U \in FiniteSubsetsOf(S)
    BY <1>3, <2>1 DEF FiniteSubsetsOf
  <2> QED
    BY <2>1, <2>3, <2>4
<1> QED
  BY <1>3, <1>4

(* A set with {} and, with a finite set, the set with one element more,    *)
(* has every finite set.                                                   *)
LEMMA FiniteSetsAreIn ==
    ASSUME NEW G, NEW S, IsFiniteSet(S), {} \in G,
           \A T \in SUBSET S : \A x \in S \ T : IsFiniteSet(T) /\ T \in G => T \cup {x} \in G
    PROVE  S \in G
<1>1. SUFFICES ASSUME S \notin G PROVE FALSE
  OBVIOUS
<1>2. PICK T \in SUBSET S :
         T \notin G /\ \A U \in SUBSET T : U # T => U \in G /\ IsFiniteSet(U)
  BY <1>1, SmallestSet
<1>3. PICK x \in T : TRUE
  BY <1>2
<1>4. T \ {x} \in G /\ IsFiniteSet(T \ {x})
  BY <1>2
<1>5. T \ {x} \in SUBSET S /\ x \in S \ (T \ {x}) /\ (T \ {x}) \cup {x} = T
  OBVIOUS
<1> QED
  BY <1>2, <1>4, <1>5

(* A finite set of integers that is not empty has a largest and a smallest *)
(* element.                                                                *)
LEMMA Extremes ==
    ASSUME NEW S, IsFiniteSet(S), S \subseteq Int, S # {}
    PROVE  /\ Max(S) \in S /\ \A y \in S : Max(S) >= y
           /\ Min(S) \in S /\ \A y \in S : Min(S) <= y
<1> DEFINE Bounded(T) == /\ \E x \in T : \A y \in T : x >= y
                         /\ \E x \in T : \A y \in T : x <= y
           G == {T \in SUBSET S : T # {} => Bounded(T)}
<1>1. {} \in G
  OBVIOUS
<1>2. ASSUME NEW T \in SUBSET S, NEW x \in S \ T, T \in G
      PROVE  T \cup {x} \in G
  <2>1. x \in Int /\ T \subseteq Int
    OBVIOUS
  <2>2. CASE T = {}
    <3>1. T \cup {x} = {x}
      BY <2>2
    <3> QED
      BY <2>1, <3>1
  <2>3. CASE T # {}
    <3>1. PICK a \in T, b \in T : \A y \in T : a >= y /\ b <= y
      BY <1>2, <2>3
    <3>2. \E c \in T \cup {x} : \A y \in T \cup {x} : c >= y
      <4>1. CASE x >= a
        BY <2>1, <3>1, <4>1
      <4>2. CASE ~ x >= a
        BY <2>1, <3>1, <4>2
      <4> QED
        BY <4>1, <4>2
    <3>3. \E c \in T \cup {x} : \A y \in T \cup {x} : c <= y
      <4>1. CASE x <= b
        BY <2>1, <3>1, <4>1
      <4>2. CASE ~ x <= b
        BY <2>1, <3>1, <4>2
      <4> QED
        BY <4>1, <4>2
    <3> QED
      BY <3>2, <3>3
  <2> QED
    BY <2>2, <2>3
<1>3. S \in G
  <2> HIDE DEF G
  <2> QED
    BY <1>1, <1>2, FiniteSetsAreIn
<1>4. Bounded(S)
  BY <1>3
<1> QED
  BY <1>4 DEF Max, Min

(* Disjoint sets have as many elements as both together.                   *)
LEMMA SizeOfUnion ==
    ASSUME NEW A, NEW B, IsFiniteSet(A), IsFiniteSet(B), A \cap B = {}
    PROVE  /\ IsFiniteSet(A \cup B) /\ Cardinality(A \cup B) = Cardinality(A) + Cardinality(B)
           /\ Cardinality(A) \in Nat /\ Cardinality(B) \in Nat
<1>1. Cardinality(A \cap B) = 0
  BY FS_EmptySet
<1>2. Cardinality(A) \in Nat /\ Cardinality(B) \in Nat
  BY FS_CardinalityType
<1>3. /\ IsFiniteSet(A \cup B)
      /\ Cardinality(A \cup B) = Cardinality(A) + Cardinality(B) - Cardinality(A \cap B)
  BY FS_Union
<1> QED
  BY <1>1, <1>2, <1>3

(* The components define their own copies of the library's operators.      *)
LEMMA SameOperators ==
    \A S : /\ Reads!Cardinality(S) = Cardinality(S) /\ Plans!Cardinality(S) = Cardinality(S)
           /\ Reads!Min(S) = Min(S) /\ Plans!Min(S) = Min(S)
           /\ Reads!Max(S) = Max(S) /\ Plans!Max(S) = Max(S)
           /\ Reads!IsFiniteSet(S) <=> IsFiniteSet(S)
<1>1. \A S : Reads!Cardinality(S) = Cardinality(S) /\ Plans!Cardinality(S) = Cardinality(S)
  BY Zenon DEF Reads!Cardinality, Plans!Cardinality, Cardinality
<1>2. \A S : Reads!Min(S) = Min(S) /\ Plans!Min(S) = Min(S)
  BY Zenon DEF Reads!Min, Plans!Min, Min
<1>3. \A S : Reads!Max(S) = Max(S) /\ Plans!Max(S) = Max(S)
  BY Zenon DEF Reads!Max, Plans!Max, Max
<1>4. \A S : Reads!IsFiniteSet(S) <=> IsFiniteSet(S)
  BY Zenon DEF Reads!IsFiniteSet, IsFiniteSet
<1> QED
  BY <1>1, <1>2, <1>3, <1>4

-----------------------------------------------------------------------------
(* Ranks in a finite ordered set                                           *)

\* R orders the elements of S.
IsOrder(R, S) ==
    /\ \A x \in S : <<x, x>> \notin R
    /\ \A x, y, z \in S : <<x, y>> \in R /\ <<y, z>> \in R => <<x, z>> \in R
    /\ \A x, y \in S : x = y \/ <<x, y>> \in R \/ <<y, x>> \in R

\* The elements up to x.
UpTo(R, S, x) == {y \in S : <<x, y>> \notin R}

\* up numbers the elements of S from 1 as R orders them.
Ranks(R, S, up) ==
    /\ Cardinality(S) \in Nat
    /\ \A x \in S : up[x] \in 1 .. Cardinality(S)
    /\ \A x, y \in S : up[x] < up[y] <=> <<x, y>> \in R
    /\ \A x, y \in S : up[x] = up[y] => x = y
    /\ \A i \in 1 .. Cardinality(S) : \E x \in S : up[x] = i

(* Counting what is not after it numbers each element.                     *)
LEMMA Ranking ==
    ASSUME NEW S, IsFiniteSet(S), NEW R, IsOrder(R, S),
           NEW up, \A x \in S : up[x] = Cardinality(UpTo(R, S, x))
    PROVE  Ranks(R, S, up)
<1>0. /\ \A x \in S : <<x, x>> \notin R
      /\ \A x, y, z \in S : <<x, y>> \in R /\ <<y, z>> \in R => <<x, z>> \in R
      /\ \A x, y \in S : x = y \/ <<x, y>> \in R \/ <<y, x>> \in R
  BY DEF IsOrder
<1>4. Cardinality(S) \in Nat
  BY FS_CardinalityType
<1>1. ASSUME NEW x \in S
      PROVE  /\ up[x] = Cardinality(UpTo(R, S, x))
             /\ UpTo(R, S, x) \in SUBSET S /\ x \in UpTo(R, S, x)
             /\ IsFiniteSet(UpTo(R, S, x)) /\ up[x] \in 1 .. Cardinality(S)
  <2>1. UpTo(R, S, x) \in SUBSET S /\ x \in UpTo(R, S, x)
    BY <1>0 DEF UpTo
  <2>2. IsFiniteSet(UpTo(R, S, x)) /\ Cardinality(UpTo(R, S, x)) <= Cardinality(S)
    BY <2>1, FS_Subset
  <2>3. Cardinality(UpTo(R, S, x)) \in Nat
    BY <2>2, FS_CardinalityType
  <2>4. Cardinality(UpTo(R, S, x)) # 0
    BY <2>1, <2>2, FS_EmptySet
  <2>5. up[x] = Cardinality(UpTo(R, S, x))
    OBVIOUS
  <2> QED
    BY ONLY <1>4, <2>1, <2>2, <2>3, <2>4, <2>5
<1>2. ASSUME NEW x \in S, NEW y \in S, <<x, y>> \in R
      PROVE  up[x] < up[y]
  <2>1. UpTo(R, S, x) \in SUBSET UpTo(R, S, y)
    BY <1>0, <1>2 DEF UpTo
  <2>2. y \in UpTo(R, S, y) /\ y \notin UpTo(R, S, x)
    BY <1>1, <1>2 DEF UpTo
  <2>3. Cardinality(UpTo(R, S, x)) <= Cardinality(UpTo(R, S, y))
          /\ Cardinality(UpTo(R, S, x)) # Cardinality(UpTo(R, S, y))
    BY <1>1, <2>1, <2>2, FS_Subset
  <2> QED
    BY <1>1, <1>4, <2>3
<1>3. ASSUME NEW x \in S, NEW y \in S
      PROVE  /\ <<x, y>> \in R <=> up[x] < up[y]
             /\ up[x] = up[y] => x = y
  <2>1. up[x] \in Int /\ up[y] \in Int
    BY <1>1, <1>4
  <2>2. CASE <<x, y>> \in R
    BY <1>2, <2>1, <2>2
  <2>3. CASE <<y, x>> \in R
    <3>1. <<x, y>> \notin R
      BY <1>0, <2>3
    <3> QED
      BY <1>2, <2>1, <2>3, <3>1
  <2>4. CASE x = y
    BY <1>0, <2>1, <2>4
  <2> QED
    BY <1>0, <2>2, <2>3, <2>4
<1> DEFINE f == [x \in S |-> up[x]]
           n == Cardinality(S)
<1>6. f \in Injection(S, 1 .. n)
  <2>1. f \in [S -> 1 .. n]
    BY <1>1
  <2>2. \A x, y \in S : f[x] = f[y] => x = y
    BY <1>3
  <2> HIDE DEF f
  <2> QED
    BY <2>1, <2>2, Fun_IsInj
<1>7. IsFiniteSet(1 .. n) /\ Cardinality(1 .. n) = n
  <2> HIDE DEF n
  <2>1. n \in Nat
    BY <1>4 DEF n
  <2>2. IsFiniteSet(1 .. n) /\ Cardinality(1 .. n) = IF 1 > n THEN 0 ELSE n - 1 + 1
    BY ONLY <2>1, FS_Interval
  <2> QED
    BY ONLY <2>1, <2>2
<1>8. f \in Surjection(S, 1 .. n)
  <2> HIDE DEF f
  <2> QED
    BY <1>6, <1>7, FS_Injection
<1>9. ASSUME NEW i \in 1 .. Cardinality(S)
      PROVE  \E x \in S : up[x] = i
  <2>1. \A j \in 1 .. n : \E x \in S : f[x] = j
    <3> HIDE DEF f
    <3> QED
      BY <1>8, Zenon DEF Surjection
  <2>2. PICK x \in S : f[x] = i
    <3> HIDE DEF f
    <3> QED
      BY <2>1
  <2> QED
    BY <2>2
<1> HIDE DEF f
<1> QED
  BY <1>1, <1>3, <1>4, <1>9 DEF Ranks

-----------------------------------------------------------------------------
(* One read: its arguments                                                 *)

\* What a protected read is called with, and the relation it reads.
ReadArguments ==
    /\ engine \in Reads!Engines /\ operation \in Reads!Operations
    /\ IsFiniteSet(Homes) /\ Keys \subseteq Nat \ {0}
    /\ \E m \in Nat : table \in [1 .. m -> Reads!Rows]
    /\ Reads!ValidRanges(ranges)
    /\ operation = "rows" => limit \in Nat \ {0}
    /\ seeds \in [Homes -> Nat]
    /\ engine \notin {"greengage", "greenplum"} => \A h \in Homes : seeds[h] = 1

\* The rows of the relation.
Numbers == DOMAIN table

\* The keys, homes and ranges of the relation are what they are.
RowsAreTyped ==
    /\ IsFiniteSet(Numbers)
    /\ Numbers \subseteq Nat \ {0}
    /\ \A n \in Numbers : /\ table[n].home \in Homes /\ table[n].scope \in BOOLEAN
                          /\ table[n].key \in Int /\ table[n].key >= -1
                          /\ Reads!ValidKey(n) <=> table[n].key > 0

(* The rows of the relation.                                               *)
LEMMA Relations ==
    ASSUME ReadArguments
    PROVE  RowsAreTyped
<1>1. PICK m \in Nat : table \in [1 .. m -> Reads!Rows]
  BY DEF ReadArguments
<1>2. Numbers = 1 .. m
  BY <1>1 DEF Numbers
<1>3. IsFiniteSet(1 .. m)
  BY <1>1, FS_Interval
<1>4. ASSUME NEW n \in Numbers
      PROVE  /\ table[n].home \in Homes /\ table[n].scope \in BOOLEAN
             /\ table[n].key \in Keys \cup {0, -1}
  <2>1. table[n] \in Reads!Rows
    BY <1>1, <1>2
  <2> QED
    BY <2>1 DEF Reads!Rows, Reads!NullKey, Reads!InvalidKey
<1>5. Keys \subseteq Nat \ {0}
  BY DEF ReadArguments
<1>6. ASSUME NEW n \in Numbers
      PROVE  /\ table[n].key \in Int /\ table[n].key >= -1
             /\ Reads!ValidKey(n) <=> table[n].key > 0
  <2> DEFINE k == table[n].key
  <2>0. k \in Keys \cup {0, -1}
    BY <1>4
  <2> HIDE DEF k
  <2>3. k \in Keys => k \in Int /\ k > 0
    BY ONLY <1>5
  <2>4. k = 0 \/ k = -1 \/ (k \in Int /\ k > 0)
    BY ONLY <2>0, <2>3
  <2>1. table[n].key = 0 \/ table[n].key = -1 \/ (table[n].key \in Int /\ table[n].key > 0)
    BY ONLY <2>4 DEF k
  <2>2. Reads!ValidKey(n) <=> table[n].key # 0 /\ table[n].key # -1
    BY DEF Reads!ValidKey, Reads!NullKey, Reads!InvalidKey
  <2> QED
    BY ONLY <2>1, <2>2
<1>7. Numbers \subseteq Nat \ {0}
  BY <1>1, <1>2
<1> QED
  BY <1>2, <1>3, <1>4, <1>6, <1>7 DEF RowsAreTyped

\* The requested ranges: typed, named apart, ordered and disjoint.
RangesAreOrdered ==
    /\ Len(ranges) \in Nat \ {0} /\ DOMAIN ranges = 1 .. Len(ranges)
    /\ \A i \in 1 .. Len(ranges) : ranges[i].lower \in Int /\ ranges[i].upper \in Nat
    /\ \A i, j \in 1 .. Len(ranges) : ranges[i].id = ranges[j].id => i = j
    /\ \A i, j \in 1 .. Len(ranges) :
          i < j => ranges[i].upper # 0 /\ ranges[j].lower >= ranges[i].upper

(* Each of the ranges ends before the next one begins, so before every     *)
(* later one.                                                              *)
LEMMA RangesFollow ==
    ASSUME Reads!ValidRanges(ranges)
    PROVE  RangesAreOrdered
<1> DEFINE R == [id : STRING, lower : Int, upper : Nat]
           n == Len(ranges)
<1>1. /\ ranges \in Seq(R) /\ ranges # <<>>
      /\ \A i \in DOMAIN ranges : ranges[i].upper # 0 => ranges[i].lower < ranges[i].upper
      /\ \A i, j \in DOMAIN ranges : i # j => ranges[i].id # ranges[j].id
      /\ \A i \in 2 .. n : ranges[i - 1].upper # 0 /\ ranges[i].lower >= ranges[i - 1].upper
  BY DEF Reads!ValidRanges
<1> HIDE DEF R
<1>2. n \in Nat \ {0} /\ DOMAIN ranges = 1 .. n /\ \A i \in 1 .. n : ranges[i] \in R
  BY ONLY <1>1
<1> USE DEF R
<1>3. \A i \in 1 .. n : ranges[i].lower \in Int /\ ranges[i].upper \in Nat
  BY <1>2
<1> HIDE DEF n
<1> DEFINE Follows(i, j) == ranges[i].upper # 0 /\ ranges[j].lower >= ranges[i].upper
           G == {d \in Nat : \A i, j \in 1 .. n : i < j /\ j <= i + d => Follows(i, j)}
<1>4. 0 \in G
  BY <1>2
<1>5. ASSUME NEW d \in Nat, d \in G
      PROVE  d + 1 \in G
  <2>1. ASSUME NEW i \in 1 .. n, NEW j \in 1 .. n, i < j, j <= i + (d + 1)
        PROVE  Follows(i, j)
    <3>1. j \in 2 .. n /\ j - 1 \in 1 .. n
      BY <1>2, <2>1
    <3>2. ranges[j - 1].upper # 0 /\ ranges[j].lower >= ranges[j - 1].upper
      BY ONLY <1>1, <3>1
    <3>3. CASE i = j - 1
      BY <3>2, <3>3
    <3>4. CASE i # j - 1
      <4>1. i < j - 1 /\ j - 1 <= i + d
        BY <1>2, <2>1, <3>4
      <4>2. Follows(i, j - 1)
        BY <1>5, <3>1, <4>1
      <4>3. ranges[j - 1].lower < ranges[j - 1].upper
        BY ONLY <1>1, <1>2, <3>1, <3>2
      <4>4. ranges[i].upper \in Int /\ ranges[j - 1].lower \in Int
            /\ ranges[j - 1].upper \in Int /\ ranges[j].lower \in Int
        BY <1>3, <3>1
      <4> QED
        BY <3>2, <4>2, <4>3, <4>4
    <3> QED
      BY <3>3, <3>4
  <2> QED
    BY <2>1
<1>6. n \in G
  <2> HIDE DEF G
  <2> QED
    BY <1>2, <1>4, <1>5, NaturalsAreIn
<1>7. \A i, j \in 1 .. n : i < j => Follows(i, j)
  BY <1>2, <1>6
<1> QED
  BY <1>1, <1>2, <1>3, <1>7 DEF RangesAreOrdered, n

(* A key is in one range, and in a later range it is larger.               *)
LEMMA KeysFollow ==
    ASSUME RangesAreOrdered, NEW i \in 1 .. Len(ranges), NEW j \in 1 .. Len(ranges), i < j,
           NEW k \in Int, NEW l \in Int, Reads!InRange(k, ranges[i]), Reads!InRange(l, ranges[j])
    PROVE  k < l
<1>1. /\ ranges[i].upper # 0 /\ ranges[j].lower >= ranges[i].upper
      /\ ranges[i].upper \in Int /\ ranges[j].lower \in Int
  BY DEF RangesAreOrdered
<1>2. k < ranges[i].upper /\ l >= ranges[j].lower
  BY <1>1 DEF Reads!InRange
<1> QED
  BY <1>1, <1>2

(* So in no two.                                                           *)
LEMMA RangesAreApart ==
    ASSUME RangesAreOrdered, NEW i \in 1 .. Len(ranges), NEW j \in 1 .. Len(ranges),
           NEW k \in Int, Reads!InRange(k, ranges[i]), Reads!InRange(k, ranges[j])
    PROVE  i = j
<1>1. ~ i < j /\ ~ j < i
  BY KeysFollow
<1> QED
  BY <1>1

(* The place of a range is found by its name.                              *)
LEMMA Ordinals ==
    ASSUME RangesAreOrdered
    PROVE  /\ \A i \in 1 .. Len(ranges) : Reads!Ordinal(ranges[i].id) = i
           /\ \A id : Reads!Ordinal(id) # 0 =>
                /\ Reads!Ordinal(id) \in 1 .. Len(ranges)
                /\ ranges[Reads!Ordinal(id)].id = id
<1> DEFINE Named(id) == {i \in 1 .. Len(ranges) : ranges[i].id = id}
<1>1. \A id : Reads!Ordinal(id) = IF Named(id) # {} THEN Min(Named(id)) ELSE 0
  BY SameOperators DEF Reads!Ordinal, Reads!SelectInSeq
<1>2. ASSUME NEW id, Named(id) # {}
      PROVE  Min(Named(id)) \in Named(id)
  <2>1. Named(id) \in SUBSET (1 .. Len(ranges)) /\ Named(id) \subseteq Int
    OBVIOUS
  <2>2. IsFiniteSet(1 .. Len(ranges))
    BY FS_Interval DEF RangesAreOrdered
  <2>3. IsFiniteSet(Named(id))
    BY <2>1, <2>2, FS_Subset
  <2> HIDE DEF Named
  <2> QED
    BY <1>2, <2>1, <2>3, Extremes
<1>3. ASSUME NEW i \in 1 .. Len(ranges)
      PROVE  Reads!Ordinal(ranges[i].id) = i
  <2>1. i \in Named(ranges[i].id)
    OBVIOUS
  <2>2. Min(Named(ranges[i].id)) \in Named(ranges[i].id)
    <3> HIDE DEF Named
    <3> QED
      BY <1>2, <2>1
  <2>3. Reads!Ordinal(ranges[i].id) \in Named(ranges[i].id)
    <3> HIDE DEF Named
    <3> QED
      BY <1>1, <2>1, <2>2
  <2> QED
    BY <2>3 DEF RangesAreOrdered
<1>4. ASSUME NEW id, Reads!Ordinal(id) # 0
      PROVE  /\ Reads!Ordinal(id) \in 1 .. Len(ranges)
             /\ ranges[Reads!Ordinal(id)].id = id
  <2>1. Named(id) # {} /\ Reads!Ordinal(id) = Min(Named(id))
    <3> HIDE DEF Named
    <3> QED
      BY <1>1, <1>4
  <2>2. Reads!Ordinal(id) \in Named(id)
    <3> HIDE DEF Named
    <3> QED
      BY <1>2, <2>1
  <2> QED
    BY <2>2
<1> QED
  BY <1>3, <1>4

-----------------------------------------------------------------------------
(* What the engines select                                                 *)

(* Every engine joins a range with the selected rows of the homes asked    *)
(* for, and ClickHouse classifies the rows alike.                          *)
LEMMA JoinsSelect ==
    ASSUME RowsAreTyped, RangesAreOrdered, NEW i \in 1 .. Len(ranges)
    PROVE  /\ \A homes : Reads!Joined(i, homes) = {n \in Reads!Selected(i) : table[n].home \in homes}
           /\ Reads!Joined(i, Homes) = Reads!Selected(i)
           /\ Reads!Classified(i) = Reads!Selected(i)
           /\ Reads!Selected(i) \subseteq Numbers /\ IsFiniteSet(Reads!Selected(i))
<1>1. /\ IsFiniteSet(Numbers)
      /\ \A n \in Numbers : table[n].home \in Homes /\ table[n].key \in Int
  BY DEF RowsAreTyped
<1>2. \A homes : Reads!Joined(i, homes) = {n \in Reads!Selected(i) : table[n].home \in homes}
  BY DEF Reads!Joined, Reads!Selected, Reads!Scoped
<1>3. Reads!Joined(i, Homes) = Reads!Selected(i)
  BY <1>1, <1>2 DEF Reads!Selected, Reads!Scoped, Numbers
<1>4. Reads!Selected(i) \subseteq Numbers /\ IsFiniteSet(Reads!Selected(i))
  <2>1. Reads!Selected(i) \in SUBSET Numbers
    BY DEF Reads!Selected, Reads!Scoped, Numbers
  <2> QED
    BY <1>1, <2>1, FS_Subset
<1>5. ASSUME NEW n \in Numbers
      PROVE  Reads!RangeClassifier(n) = i <=> Reads!InRange(table[n].key, ranges[i])
  <2> DEFINE last == Len(ranges)
             H == {last + 1} \cup {j \in 1 .. last : Reads!InRange(table[n].key, ranges[j])}
  <2>1. Reads!RangeClassifier(n) = Min(H)
    BY SameOperators DEF Reads!RangeClassifier, RangesAreOrdered
  <2>2. last \in Nat
    BY DEF RangesAreOrdered
  <2>3. H \in SUBSET (1 .. last + 1) /\ H # {} /\ H \subseteq Int
    BY <2>2
  <2>4. IsFiniteSet(1 .. last + 1)
    BY <2>2, FS_Interval
  <2>5. IsFiniteSet(H)
    BY <2>3, <2>4, FS_Subset
  <2>6. Min(H) \in H /\ \A j \in H : Min(H) <= j
    <3> HIDE DEF H
    <3> QED
      BY <2>3, <2>5, Extremes
  <2>7. ASSUME Reads!InRange(table[n].key, ranges[i])
        PROVE  Min(H) = i
    <3>1. i \in H /\ Min(H) <= i
      BY <2>6, <2>7
    <3>2. Min(H) # last + 1
      BY <2>2, <3>1
    <3>3. Min(H) \in 1 .. last /\ Reads!InRange(table[n].key, ranges[Min(H)])
      <4> HIDE DEF H
      <4>1. Min(H) \in H
        BY <2>6
      <4> QED
        BY <3>2, <4>1 DEF H
    <3> HIDE DEF H
    <3> QED
      BY <1>1, <2>7, <3>3, RangesAreApart
  <2>8. ASSUME Min(H) = i
        PROVE  Reads!InRange(table[n].key, ranges[i])
    <3>1. i \in H /\ i # last + 1
      BY <2>2, <2>6, <2>8
    <3> QED
      BY <3>1
  <2> HIDE DEF H
  <2> QED
    BY <2>1, <2>7, <2>8
<1>6. Reads!Classified(i) = Reads!Selected(i)
  BY <1>5 DEF Reads!Classified, Reads!Selected, Reads!Scoped, Numbers
<1> QED
  BY <1>2, <1>3, <1>4, <1>6

(* A sequence of refusals has none when none of them is one.               *)
LEMMA NothingRefused ==
    ASSUME NEW n \in Nat, NEW refusals, DOMAIN refusals = 1 .. n
    PROVE  Reads!FirstRefusal(refusals) = "none" <=> \A j \in 1 .. n : refusals[j] = "none"
<1> DEFINE bad == {j \in 1 .. n : refusals[j] # "none"}
<1>1. Reads!FirstRefusal(refusals) = IF bad = {} THEN "none" ELSE refusals[Min(bad)]
  BY SameOperators DEF Reads!FirstRefusal
<1>2. bad # {} => Min(bad) \in bad
  <2>1. bad \in SUBSET (1 .. n) /\ bad \subseteq Int
    OBVIOUS
  <2>2. IsFiniteSet(1 .. n)
    BY FS_Interval
  <2>3. IsFiniteSet(bad)
    BY <2>1, <2>2, FS_Subset
  <2> HIDE DEF bad
  <2> QED
    BY <2>1, <2>3, Extremes
<1> QED
  BY <1>1, <1>2

-----------------------------------------------------------------------------
(* Summaries                                                               *)

\* No two rows of S have the same key.
KeysDiffer(S) == \A m, n \in S : table[m].key = table[n].key => m = n

(* Rows have at most as many keys, and as many if and only if no two rows  *)
(* share one.                                                              *)
LEMMA KeysAreFew ==
    ASSUME NEW S, IsFiniteSet(S)
    PROVE  /\ IsFiniteSet(Reads!KeysOf(S))
           /\ Cardinality(Reads!KeysOf(S)) <= Cardinality(S)
           /\ Cardinality(Reads!KeysOf(S)) = Cardinality(S) <=> KeysDiffer(S)
<1> DEFINE f == [n \in S |-> table[n].key]
<1>1. f \in [S -> Reads!KeysOf(S)] /\ \A k \in Reads!KeysOf(S) : \E n \in S : f[n] = k
  BY DEF Reads!KeysOf
<1>2. f \in Surjection(S, Reads!KeysOf(S))
  <2> HIDE DEF f
  <2> QED
    BY <1>1, Fun_IsSurj
<1>3. f \in Injection(S, Reads!KeysOf(S)) <=> KeysDiffer(S)
  <2>1. (\A m, n \in S : f[m] = f[n] => m = n) <=> KeysDiffer(S)
    BY DEF KeysDiffer
  <2> HIDE DEF f
  <2> QED
    BY <1>1, <2>1, Zenon DEF Injection, IsInjective
<1> HIDE DEF f
<1> QED
  BY <1>2, <1>3, FS_Surjection

(* A summary over the scoped rows, whatever seeds were joined, is the      *)
(* relation's and partitions it.                                           *)
LEMMA SummaryMeansTheRelation ==
    ASSUME RowsAreTyped, NEW J, J \ {0} = Reads!Scoped
    PROVE  /\ Reads!SummaryOf(J).origin = "protected"
           /\ Reads!SummaryPartitions(Reads!SummaryOf(J))
           /\ Reads!MeansSummary(Reads!SummaryFields(Reads!SummaryOf(J)))
<1> DEFINE s == Reads!SummaryOf(J)
           scoped == Reads!Scoped
           valid == {n \in scoped : Reads!ValidKey(n)}
           null == {n \in scoped : table[n].key = Reads!NullKey}
           invalid == {n \in scoped : table[n].key = Reads!InvalidKey}
           keys == Reads!KeysOf(valid)
<1>1. /\ s.origin = "protected"
      /\ s.rows = Cardinality(scoped) /\ s.null = Cardinality(null)
      /\ s.invalid = Cardinality(invalid) /\ s.valid = Cardinality(valid)
      /\ s.distinct = Cardinality(keys)
      /\ s.minimum = (IF keys = {} THEN 0 ELSE Min(keys))
      /\ s.maximum = (IF keys = {} THEN 0 ELSE Max(keys))
  BY SameOperators
  DEF Reads!SummaryOf, Reads!Bound, Reads!NullKey, Reads!KeysOf, Reads!Scoped
<1>2. /\ scoped \in SUBSET Numbers /\ IsFiniteSet(Numbers)
      /\ \A n \in Numbers : /\ table[n].key \in Int /\ table[n].key >= -1
                            /\ Reads!ValidKey(n) <=> table[n].key > 0
  BY DEF RowsAreTyped, Reads!Scoped, Numbers
<1>3. IsFiniteSet(scoped)
  BY <1>2, FS_Subset
<1>4. /\ IsFiniteSet(valid) /\ IsFiniteSet(null) /\ IsFiniteSet(invalid)
      /\ IsFiniteSet(null \cup invalid)
  <2>1. valid \in SUBSET scoped /\ null \in SUBSET scoped /\ invalid \in SUBSET scoped
        /\ null \cup invalid \in SUBSET scoped
    OBVIOUS
  <2> HIDE DEF valid, null, invalid, scoped
  <2> QED
    BY <1>3, <2>1, FS_Subset
<1>5. /\ null \cap invalid = {} /\ (null \cup invalid) \cap valid = {}
      /\ scoped = (null \cup invalid) \cup valid
  <2>1. ASSUME NEW n \in scoped
        PROVE  /\ n \in null <=> table[n].key = 0
               /\ n \in invalid <=> table[n].key = -1
               /\ n \in valid <=> table[n].key > 0
               /\ table[n].key \in Int /\ table[n].key >= -1
    <3>1. n \in Numbers
      BY <1>2
    <3> QED
      BY <1>2, <3>1 DEF Reads!NullKey, Reads!InvalidKey
  <2>2. null \subseteq scoped /\ invalid \subseteq scoped /\ valid \subseteq scoped
    OBVIOUS
  <2> HIDE DEF valid, null, invalid, scoped
  <2> QED
    BY ONLY <2>1, <2>2
<1>6. /\ Cardinality(scoped) = Cardinality(null) + Cardinality(invalid) + Cardinality(valid)
      /\ Cardinality(null) \in Nat /\ Cardinality(invalid) \in Nat /\ Cardinality(valid) \in Nat
  <2> HIDE DEF valid, null, invalid, scoped
  <2>1. /\ Cardinality(null \cup invalid) = Cardinality(null) + Cardinality(invalid)
        /\ Cardinality(null) \in Nat /\ Cardinality(invalid) \in Nat
    BY <1>4, <1>5, SizeOfUnion
  <2>2. /\ Cardinality(scoped) = Cardinality(null \cup invalid) + Cardinality(valid)
        /\ Cardinality(valid) \in Nat
    BY <1>4, <1>5, SizeOfUnion
  <2> QED
    BY <2>1, <2>2
<1>7. IsFiniteSet(keys) /\ Cardinality(keys) <= Cardinality(valid)
  <2> HIDE DEF valid
  <2> QED
    BY <1>4, KeysAreFew
<1>8. keys = {} <=> valid = {}
  BY DEF Reads!KeysOf
<1>9. \A k \in keys : k \in Int /\ k > 0
  <2>1. \A n \in valid : table[n].key \in Int /\ table[n].key > 0
    BY <1>2
  <2> HIDE DEF valid
  <2> QED
    BY <2>1 DEF Reads!KeysOf
<1>10. valid # {} => /\ Min(keys) \in keys /\ Max(keys) \in keys
                     /\ \A k \in keys : Min(keys) <= k /\ k <= Max(keys)
  <2>1. keys \subseteq Int
    BY <1>9
  <2>2. keys # {} => /\ Max(keys) \in keys /\ \A k \in keys : Max(keys) >= k
                     /\ Min(keys) \in keys /\ \A k \in keys : Min(keys) <= k
    <3> HIDE DEF keys
    <3> QED
      BY <1>7, <2>1, Extremes
  <2> HIDE DEF valid
  <2>3. \A k \in keys : Max(keys) \in Int /\ (Max(keys) >= k <=> k <= Max(keys))
    BY <2>1, <2>2
  <2> QED
    BY <1>8, <2>2, <2>3
<1>11. Cardinality(valid) = 0 <=> valid = {}
  <2> HIDE DEF valid
  <2> QED
    BY <1>4, FS_EmptySet
<1> HIDE DEF s, scoped, valid, null, invalid, keys
<1>12. Reads!SummaryPartitions(s)
  <2>1. CASE valid = {}
    <3>1. s.valid = 0 /\ s.minimum = 0 /\ s.maximum = 0
      BY <1>1, <1>8, <1>11, <2>1
    <3> QED
      BY <1>1, <1>6, <1>7, <3>1 DEF Reads!SummaryPartitions, Reads!NullKey
  <2>2. CASE valid # {}
    <3>1. /\ s.valid # 0 /\ s.minimum = Min(keys) /\ s.maximum = Max(keys)
          /\ Min(keys) \in keys /\ Min(keys) <= Max(keys) /\ Min(keys) # 0
      BY <1>1, <1>8, <1>9, <1>10, <1>11, <2>2
    <3> QED
      BY <1>1, <1>6, <1>7, <3>1 DEF Reads!SummaryPartitions, Reads!NullKey
  <2> QED
    BY <2>1, <2>2
<1>13. Reads!MeansSummary(Reads!SummaryFields(s))
  <2> DEFINE v == Reads!SummaryFields(s)
  <2>1. /\ v[1] = Cardinality(scoped) /\ v[2] = Cardinality(null) /\ v[3] = Cardinality(invalid)
        /\ v[4] = Cardinality(valid) /\ v[5] = Cardinality(keys)
        /\ valid # {} => v[6] = Min(keys) /\ v[7] = Max(keys)
    BY <1>1, <1>8 DEF Reads!SummaryFields
  <2> HIDE DEF v
  <2>2. valid # {} => /\ {v[6], v[7]} \subseteq keys
                      /\ \A k \in keys : v[6] <= k /\ k <= v[7]
    BY <1>10, <2>1
  <2>3. Reads!MeansSummary(v)
    BY <2>1, <2>2, SameOperators
    DEF Reads!MeansSummary, scoped, valid, null, invalid, keys
  <2> QED
    BY <2>3 DEF v
<1> QED
  BY <1>1, <1>12, <1>13 DEF s

(* The statement of each engine summarises the scoped rows.                *)
LEMMA SummariesAgree ==
    ASSUME RowsAreTyped, engine \in Reads!Engines
    PROVE  \E J : J \ {0} = Reads!Scoped /\ Reads!SummaryQuery = <<Reads!SummaryOf(J)>>
<1>1. /\ 0 \notin Numbers /\ \A n \in Numbers : table[n].home \in Homes
      /\ Reads!Scoped = {n \in Numbers : table[n].scope}
  BY DEF RowsAreTyped, Reads!Scoped, Numbers
<1>2. \A homes : Reads!SeedJoin(homes) \ {0} = {n \in Numbers : table[n].scope /\ table[n].home \in homes}
  BY <1>1 DEF Reads!SeedJoin, Numbers
<1>3. Reads!SeedJoin(Homes) \ {0} = Reads!Scoped
  BY <1>1, <1>2
<1>4. (UNION {Reads!SeedJoin({h}) : h \in Homes}) \ {0} = Reads!Scoped
  <2> DEFINE joins == UNION {Reads!SeedJoin({h}) : h \in Homes}
  <2>1. \A n : n \in joins <=> \E h \in Homes : n \in Reads!SeedJoin({h})
    OBVIOUS
  <2>2. \A h \in Homes : \A n : n \in Reads!SeedJoin({h}) /\ n # 0
                                <=> n \in Reads!Scoped /\ table[n].home = h
    BY <1>1, <1>2
  <2>3. \A n \in Reads!Scoped : table[n].home \in Homes /\ n # 0
    BY <1>1
  <2> HIDE DEF joins
  <2>4. \A n : n \in joins \ {0} <=> n \in Reads!Scoped
    BY ONLY <2>1, <2>2, <2>3, Zenon
  <2>5. joins \ {0} = Reads!Scoped
    BY ONLY <2>4
  <2> QED
    BY <2>5 DEF joins
<1>5. {n \in DOMAIN table : table[n].scope} \ {0} = Reads!Scoped
  BY <1>1 DEF Numbers
<1>6. \/ engine = "mssql" \/ engine = "postgres" \/ engine = "clickhouse"
      \/ engine = "greengage" \/ engine = "greenplum"
  BY DEF Reads!Engines
<1>7. /\ engine = "mssql" => Reads!SummaryQuery = <<Reads!SummaryOf(Reads!SeedJoin(Homes))>>
      /\ engine = "greenplum" => Reads!SummaryQuery = <<Reads!SummaryOf(Reads!SeedJoin(Homes))>>
      /\ engine = "postgres" =>
            Reads!SummaryQuery = <<Reads!SummaryOf(UNION {Reads!SeedJoin({h}) : h \in Homes})>>
      /\ engine \in {"clickhouse", "greengage"} =>
            Reads!SummaryQuery = <<Reads!SummaryOf({n \in DOMAIN table : table[n].scope})>>
  BY DEF Reads!SummaryQuery, Reads!MssqlSummary, Reads!PostgresSummary, Reads!ClickHouseSummary,
         Reads!GreengageSummary, Reads!OriginalGreenplumSummary
<1> QED
  BY <1>3, <1>4, <1>5, <1>6, <1>7

-----------------------------------------------------------------------------
(* Fingerprints                                                            *)

\* Each selected row of range i comes from one branch of the join T, and no other row does.
JoinedOnce(i, T) ==
    /\ IsFiniteSet(T)
    /\ \A o \in T : o[1] \in Reads!Selected(i)
    /\ \A n \in Reads!Selected(i) : \E o \in T : o[1] = n
    /\ \A o, p \in T : o[1] = p[1] => o = p

(* Then the rows of a set are counted once each.                           *)
LEMMA CountedOnce ==
    ASSUME NEW i, NEW T, JoinedOnce(i, T), NEW S
    PROVE  /\ IsFiniteSet(Reads!Selected(i) \cap S)
           /\ Cardinality({o \in T : o[1] \in S}) = Cardinality(Reads!Selected(i) \cap S)
<1> DEFINE A == {o \in T : o[1] \in S}
           B == Reads!Selected(i) \cap S
           f == [o \in A |-> o[1]]
<1>1. f \in [A -> B] /\ (\A n \in B : \E o \in A : f[o] = n)
      /\ \A o, p \in A : f[o] = f[p] => o = p
  BY DEF JoinedOnce
<1>2. IsFiniteSet(A)
  <2>1. A \in SUBSET T /\ IsFiniteSet(T)
    BY DEF JoinedOnce
  <2> HIDE DEF A
  <2> QED
    BY <2>1, FS_Subset
<1> HIDE DEF f, A, B
<1>3. f \in Surjection(A, B)
  BY <1>1, Fun_IsSurj
<1>4. f \in Injection(A, B)
  BY <1>1, Fun_IsInj
<1>5. IsFiniteSet(B) /\ (Cardinality(A) = Cardinality(B) <=> f \in Injection(A, B))
  BY <1>2, <1>3, FS_Surjection
<1>6. Cardinality(A) = Cardinality(B)
  BY <1>4, <1>5
<1> QED
  BY <1>5, <1>6 DEF A, B

\* What a fingerprint of range i says when each selected row was counted once.
Fingerprints(i, a) ==
    /\ a.origin = "protected" /\ a.segment = ranges[i].id
    /\ (a.invalid = 0 /\ a.oversized = 0)
          <=> \A n \in Reads!Selected(i) : Reads!AcceptedRow(n)
    /\ (\A n \in Reads!Selected(i) : Reads!AcceptedRow(n)) =>
          /\ a.count = Cardinality(Reads!Selected(i))
          /\ a.sum = Reads!Once(Reads!Selected(i))

(* An aggregate over such a join does.                                     *)
LEMMA AggregatesAgree ==
    ASSUME RowsAreTyped, RangesAreOrdered, NEW i \in 1 .. Len(ranges), NEW T, JoinedOnce(i, T)
    PROVE  /\ Fingerprints(i, Reads!Aggregate(i, T))
           /\ Reads!Aggregate(i, T).topology = Homes /\ Reads!Aggregate(i, T).observed = {}
<1> DEFINE sel == Reads!Selected(i)
           a == Reads!Aggregate(i, T)
           inv == {n \in Numbers : Reads!InvalidRow(n)}
           over == {n \in Numbers : Reads!OversizedRow(n)}
           acc == {n \in Numbers : Reads!AcceptedRow(n)}
           times(n) == Cardinality({o \in T : o[1] = n})
           total(S) == Cardinality({o \in T : o[1] \in S})
<1>1. sel \in SUBSET Numbers /\ IsFiniteSet(sel)
  BY JoinsSelect
<1>2. /\ a.origin = "protected" /\ a.segment = ranges[i].id
      /\ a.count = total(acc) /\ a.invalid = total(inv) /\ a.oversized = total(over)
      /\ a.sum = [n \in Numbers |-> IF Reads!AcceptedRow(n) THEN times(n) ELSE 0]
      /\ a.topology = Homes /\ a.observed = {}
  BY SameOperators DEF Reads!Aggregate, Numbers
<1>3. \A S : total(S) = Cardinality(sel \cap S) /\ IsFiniteSet(sel \cap S)
  BY CountedOnce
<1>4. ASSUME NEW n \in Numbers
      PROVE  times(n) = IF n \in sel THEN 1 ELSE 0
  <2>1. {o \in T : o[1] = n} = {o \in T : o[1] \in {n}}
    OBVIOUS
  <2>2. times(n) = Cardinality(sel \cap {n})
    BY <1>3, <2>1
  <2>3. sel \cap {n} = IF n \in sel THEN {n} ELSE {}
    OBVIOUS
  <2>4. Cardinality({n}) = 1 /\ Cardinality({}) = 0
    BY FS_EmptySet, FS_Singleton
  <2> QED
    BY <2>2, <2>3, <2>4
<1>5. /\ total(inv) = 0 <=> sel \cap inv = {}
      /\ total(over) = 0 <=> sel \cap over = {}
  <2> HIDE DEF total, sel, inv, over
  <2>1. /\ total(inv) = Cardinality(sel \cap inv) /\ IsFiniteSet(sel \cap inv)
        /\ total(over) = Cardinality(sel \cap over) /\ IsFiniteSet(sel \cap over)
    BY <1>3
  <2> QED
    BY ONLY <2>1, FS_EmptySet
<1>6. (sel \cap inv = {} /\ sel \cap over = {}) <=> \A n \in sel : Reads!AcceptedRow(n)
  BY <1>1 DEF Reads!AcceptedRow
<1>7. ASSUME \A n \in sel : Reads!AcceptedRow(n)
      PROVE  a.count = Cardinality(sel) /\ a.sum = Reads!Once(sel)
  <2>1. sel \cap acc = sel
    BY <1>1, <1>7
  <2>2. a.count = Cardinality(sel)
    BY <1>2, <1>3, <2>1
  <2>3. \A n \in Numbers :
          (IF Reads!AcceptedRow(n) THEN times(n) ELSE 0) = IF n \in sel THEN 1 ELSE 0
    BY <1>4, <1>7
  <2>4. Reads!Once(sel) = [n \in Numbers |-> IF n \in sel THEN 1 ELSE 0]
    BY DEF Reads!Once, Numbers
  <2>5. a.sum = Reads!Once(sel)
    <3> HIDE DEF a, sel, times
    <3> QED
      BY ONLY <1>2, <2>3, <2>4
  <2> QED
    BY <2>2, <2>5
<1> HIDE DEF a, sel, inv, over, acc, total
<1>8. (a.invalid = 0 /\ a.oversized = 0) <=> \A n \in sel : Reads!AcceptedRow(n)
  BY <1>2, <1>5, <1>6
<1>9. Fingerprints(i, a)
  BY <1>2, <1>7, <1>8 DEF Fingerprints, sel
<1> QED
  BY <1>2, <1>9 DEF a

(* A join in one branch, or in one for each home that stores a selected    *)
(* row, has each selected row once.                                        *)
LEMMA BranchesJoinOnce ==
    ASSUME RowsAreTyped, RangesAreOrdered, NEW i \in 1 .. Len(ranges)
    PROVE  /\ JoinedOnce(i, Reads!Single(Reads!Selected(i)))
           /\ \A homes : IsFiniteSet(homes) /\ (\A n \in Reads!Selected(i) : table[n].home \in homes)
                => JoinedOnce(i, Reads!Branches(i, homes))
<1> DEFINE sel == Reads!Selected(i)
<1>1. sel \subseteq Numbers /\ IsFiniteSet(sel)
  BY JoinsSelect
<1>2. JoinedOnce(i, Reads!Single(sel))
  <2>1. IsFiniteSet({1})
    BY FS_Singleton
  <2>2. IsFiniteSet(sel \X {1})
    BY <1>1, <2>1, FS_Product
  <2> HIDE DEF sel
  <2>3. \A o \in sel \X {1} : o[1] \in sel /\ o = <<o[1], 1>>
    OBVIOUS
  <2>4. \A n \in sel : \E o \in sel \X {1} : o[1] = n
    <3>1. SUFFICES ASSUME NEW n \in sel
                   PROVE  \E o \in sel \X {1} : o[1] = n
      OBVIOUS
    <3>2. <<n, 1>> \in sel \X {1} /\ <<n, 1>>[1] = n
      OBVIOUS
    <3> QED
      BY <3>2
  <2>5. \A o, p \in sel \X {1} : o[1] = p[1] => o = p
    BY <2>3
  <2> QED
    BY <2>2, <2>3, <2>4, <2>5 DEF JoinedOnce, Reads!Single, sel
<1>3. ASSUME NEW homes, IsFiniteSet(homes), \A n \in sel : table[n].home \in homes
      PROVE  JoinedOnce(i, Reads!Branches(i, homes))
  <2> DEFINE T == Reads!Branches(i, homes)
  <2>1. \A h : Reads!Joined(i, {h}) = {n \in sel : table[n].home \in {h}}
    BY JoinsSelect
  <2>2. T = {o \in Numbers \X homes : o[1] \in sel /\ table[o[1]].home = o[2]}
    <3> HIDE DEF sel
    <3>1. \A o \in Numbers \X homes :
             o[1] \in Reads!Joined(i, {o[2]}) <=> o[1] \in sel /\ table[o[1]].home = o[2]
      BY <2>1, Zenon
    <3>2. T = {o \in Numbers \X homes : o[1] \in Reads!Joined(i, {o[2]})}
      BY DEF Reads!Branches, Numbers
    <3> HIDE DEF T
    <3> QED
      BY ONLY <3>1, <3>2
  <2> HIDE DEF T, sel
  <2>3. IsFiniteSet(T)
    <3>1. IsFiniteSet(Numbers \X homes)
      BY <1>3, FS_Product DEF RowsAreTyped
    <3>2. T \in SUBSET (Numbers \X homes)
      BY <2>2
    <3> QED
      BY <3>1, <3>2, FS_Subset
  <2>4. \A n \in sel : \E o \in T : o[1] = n
    <3>1. SUFFICES ASSUME NEW n \in sel
                   PROVE  \E o \in T : o[1] = n
      OBVIOUS
    <3>2. <<n, table[n].home>> \in Numbers \X homes
      BY <1>1, <1>3
    <3>3. <<n, table[n].home>> \in T
      BY <2>2, <3>2
    <3>4. <<n, table[n].home>>[1] = n
      OBVIOUS
    <3> QED
      BY <3>3, <3>4
  <2>5. \A o \in T : o[1] \in sel /\ o = <<o[1], table[o[1]].home>>
    BY <2>2
  <2>6. \A o, p \in T : o[1] = p[1] => o = p
    BY <2>5
  <2> QED
    BY <2>3, <2>4, <2>5, <2>6 DEF JoinedOnce, T, sel
<1> QED
  BY <1>2, <1>3

\* The engine whose topology a fingerprint proves.
Segmented == engine \in {"greengage", "greenplum"}

\* Every segment answers once.
SeededOnce == \A h \in Homes : seeds[h] = 1

\* What a reply of fingerprints says when it arrives as sent.
SaysFingerprints(r) ==
    /\ DOMAIN r = 1 .. Len(ranges)
    /\ \A i \in 1 .. Len(ranges) :
          /\ Fingerprints(i, r[i])
          /\ Segmented => (Reads!TopologyHolds(r[i]) <=> SeededOnce)

(* The fingerprint statements of the five engines say it.                  *)
LEMMA FingerprintsAgree ==
    ASSUME ReadArguments, RowsAreTyped, RangesAreOrdered
    PROVE  SaysFingerprints(Reads!FingerprintQuery)
<1> DEFINE F == Reads!FingerprintQuery
<1>1. /\ \/ engine = "mssql" \/ engine = "postgres" \/ engine = "clickhouse"
         \/ engine = "greengage" \/ engine = "greenplum"
      /\ IsFiniteSet(Homes)
  BY DEF ReadArguments, Reads!Engines
<1>2. DOMAIN F = 1 .. Len(ranges)
  BY DEF Reads!FingerprintQuery, RangesAreOrdered
<1>3. ASSUME NEW i \in 1 .. Len(ranges)
      PROVE  /\ Fingerprints(i, F[i])
             /\ Segmented => (Reads!TopologyHolds(F[i]) <=> SeededOnce)
  <2> DEFINE sel == Reads!Selected(i)
  <2>1. /\ Reads!Joined(i, Homes) = sel /\ Reads!Classified(i) = sel
        /\ \A h : Reads!Joined(i, {h}) = {n \in sel : table[n].home \in {h}}
        /\ \A n \in sel : table[n].home \in Homes
    <3>1. sel \subseteq Numbers
      BY JoinsSelect
    <3>2. \A n \in sel : table[n].home \in Homes
      BY <3>1 DEF RowsAreTyped
    <3> QED
      BY <3>2, JoinsSelect
  <2>2. /\ Fingerprints(i, Reads!Aggregate(i, Reads!Single(sel)))
        /\ Fingerprints(i, Reads!Aggregate(i, Reads!Branches(i, Homes)))
    <3>1. JoinedOnce(i, Reads!Single(sel)) /\ JoinedOnce(i, Reads!Branches(i, Homes))
      BY <1>1, <2>1, BranchesJoinOnce
    <3> QED
      BY <3>1, AggregatesAgree
  <2>3. /\ engine = "mssql" => F[i] = Reads!MssqlFingerprint(i)
        /\ engine = "postgres" => F[i] = Reads!PostgresFingerprint(i)
        /\ engine = "clickhouse" => F[i] = Reads!ClickHouseFingerprint(i)
        /\ Segmented => F[i] = Reads!SegmentedFingerprint(i)
    <3>1. i \in DOMAIN ranges
      BY DEF RangesAreOrdered
    <3>2. /\ engine = "mssql" => F[i] = Reads!MssqlFingerprint(i)
          /\ engine = "postgres" => F[i] = Reads!PostgresFingerprint(i)
          /\ engine = "clickhouse" => F[i] = Reads!ClickHouseFingerprint(i)
          /\ engine = "greengage" => F[i] = Reads!GreengageFingerprint(i)
          /\ engine = "greenplum" => F[i] = Reads!OriginalGreenplumFingerprint(i)
      BY <3>1 DEF Reads!FingerprintQuery
    <3> QED
      BY <3>2 DEF Segmented, Reads!GreengageFingerprint, Reads!OriginalGreenplumFingerprint
  <2>4. CASE Segmented
    <3> DEFINE present == {h \in Homes : seeds[h] > 0 \/ Reads!Joined(i, {h}) # {}}
               a == Reads!Aggregate(i, Reads!Branches(i, present))
               topology == {h \in present : seeds[h] = 1}
               observed == {h \in present : Reads!Joined(i, {h}) # {}}
    <3>1. F[i] = [a EXCEPT !.topology = topology, !.observed = observed]
      BY <2>3, <2>4 DEF Reads!SegmentedFingerprint
    <3>2. \A n \in sel : table[n].home \in present
      <4>1. SUFFICES ASSUME NEW n \in sel
                     PROVE  table[n].home \in present
        OBVIOUS
      <4>2. n \in Reads!Joined(i, {table[n].home}) /\ table[n].home \in Homes
        BY <2>1
      <4> QED
        BY <4>2
    <3>3. IsFiniteSet(present)
      <4>1. present \in SUBSET Homes
        OBVIOUS
      <4> HIDE DEF present
      <4> QED
        BY <1>1, <4>1, FS_Subset
    <3>4. Fingerprints(i, a)
      <4> HIDE DEF present
      <4>1. JoinedOnce(i, Reads!Branches(i, present))
        BY <3>2, <3>3, BranchesJoinOnce
      <4> QED
        BY <4>1, AggregatesAgree
    <3>5. /\ F[i].origin = a.origin /\ F[i].segment = a.segment /\ F[i].count = a.count
          /\ F[i].sum = a.sum /\ F[i].invalid = a.invalid /\ F[i].oversized = a.oversized
          /\ F[i].topology = topology /\ F[i].observed = observed
      <4> HIDE DEF topology, observed, F
      <4> QED
        BY <3>1 DEF Reads!Aggregate
    <3>6. Fingerprints(i, F[i])
      <4> HIDE DEF a, F
      <4> QED
        BY <3>4, <3>5 DEF Fingerprints
    <3>7. topology = Homes <=> SeededOnce
      <4>1. ASSUME SeededOnce
            PROVE  topology = Homes
        <5>1. \A h \in Homes : seeds[h] > 0 /\ seeds[h] = 1
          BY <4>1 DEF SeededOnce
        <5> QED
          BY <5>1
      <4>2. ASSUME topology = Homes
            PROVE  SeededOnce
        <5>1. \A h \in topology : seeds[h] = 1
          OBVIOUS
        <5> HIDE DEF topology
        <5> QED
          BY <4>2, <5>1 DEF SeededOnce
      <4> QED
        BY <4>1, <4>2
    <3>8. observed \subseteq present /\ topology \subseteq Homes /\ present \subseteq Homes
      OBVIOUS
    <3> HIDE DEF topology, observed, F, a, present
    <3>9. Reads!TopologyHolds(F[i]) <=> SeededOnce
      BY <3>5, <3>7, <3>8 DEF Reads!TopologyHolds
    <3> QED
      BY <3>6, <3>9
  <2>5. CASE ~Segmented
    <3> HIDE DEF F, sel
    <3>1. engine = "mssql" \/ engine = "postgres" \/ engine = "clickhouse"
      BY <1>1, <2>5 DEF Segmented
    <3>2. \/ F[i] = Reads!Aggregate(i, Reads!Single(sel))
          \/ F[i] = Reads!Aggregate(i, Reads!Branches(i, Homes))
      BY <2>1, <2>3, <3>1
      DEF Reads!MssqlFingerprint, Reads!PostgresFingerprint, Reads!ClickHouseFingerprint
    <3> QED
      BY <2>2, <2>5, <3>2
  <2> QED
    BY <2>4, <2>5
<1> HIDE DEF F
<1> QED
  BY <1>2, <1>3 DEF SaysFingerprints, F

-----------------------------------------------------------------------------
(* Exact rows, as they are sent                                            *)

\* A range and a row selected by it.
Pairs == {o \in (1 .. Len(ranges)) \X Numbers : o[2] \in Reads!Selected(o[1])}

\* The order of the statements on them.
PairOrder == {ab \in Pairs \X Pairs : Reads!Before(ab[1], ab[2])}

\* What Pairs are as numbers.
PairsAreTyped ==
    /\ IsFiniteSet(Pairs) /\ Cardinality(Pairs) = Cardinality(Reads!InSomeRange)
    /\ \A o \in Pairs : /\ o[1] \in 1 .. Len(ranges) /\ o[1] \in Int
                        /\ o[2] \in Numbers /\ o[2] \in Int /\ table[o[2]].key \in Int
                        /\ o[2] \in Reads!Selected(o[1]) /\ o = <<o[1], o[2]>>
                        /\ Reads!InRange(table[o[2]].key, ranges[o[1]])
    /\ \A o, p \in Pairs : table[o[2]].key = table[p[2]].key => o[1] = p[1]
    /\ \A n \in Reads!InSomeRange : \E o \in Pairs : o[2] = n
    /\ \A o \in Pairs : o[2] \in Reads!InSomeRange

(* A selected row is in one range.                                         *)
LEMMA PairsAreRows ==
    ASSUME RowsAreTyped, RangesAreOrdered
    PROVE  PairsAreTyped
<1>1. /\ IsFiniteSet(Numbers)
      /\ \A n \in Numbers : n \in Int /\ table[n].key \in Int
      /\ DOMAIN ranges = 1 .. Len(ranges) /\ Len(ranges) \in Nat
  BY DEF RowsAreTyped, RangesAreOrdered
<1>2. \A i \in 1 .. Len(ranges) : Reads!Selected(i) \subseteq Numbers
  BY JoinsSelect
<1>3. ASSUME NEW o \in Pairs
      PROVE  /\ o[1] \in 1 .. Len(ranges) /\ o[1] \in Int
             /\ o[2] \in Numbers /\ o[2] \in Int /\ table[o[2]].key \in Int
             /\ o[2] \in Reads!Selected(o[1]) /\ o = <<o[1], o[2]>>
             /\ Reads!InRange(table[o[2]].key, ranges[o[1]])
  <2>1. o[1] \in 1 .. Len(ranges) /\ o[2] \in Numbers /\ o[2] \in Reads!Selected(o[1])
        /\ o = <<o[1], o[2]>>
    BY DEF Pairs
  <2>2. Reads!InRange(table[o[2]].key, ranges[o[1]])
    BY <2>1 DEF Reads!Selected
  <2> QED
    BY <1>1, <2>1, <2>2
<1>4. \A o, p \in Pairs : table[o[2]].key = table[p[2]].key => o[1] = p[1]
  <2>1. SUFFICES ASSUME NEW o \in Pairs, NEW p \in Pairs, table[o[2]].key = table[p[2]].key
                 PROVE  o[1] = p[1]
    OBVIOUS
  <2> DEFINE k == table[o[2]].key
             first == o[1]
             second == p[1]
  <2>2. /\ k \in Int /\ first \in 1 .. Len(ranges) /\ second \in 1 .. Len(ranges)
        /\ Reads!InRange(k, ranges[first]) /\ Reads!InRange(k, ranges[second])
    BY <1>3, <2>1
  <2> HIDE DEF k, first, second
  <2>3. first = second
    BY <2>2, RangesAreApart
  <2> QED
    BY <2>3 DEF first, second
<1>5. IsFiniteSet(Pairs)
  <2>1. IsFiniteSet(1 .. Len(ranges))
    BY <1>1, FS_Interval
  <2>2. IsFiniteSet((1 .. Len(ranges)) \X Numbers)
    BY <1>1, <2>1, FS_Product
  <2>3. Pairs \in SUBSET ((1 .. Len(ranges)) \X Numbers)
    BY DEF Pairs
  <2> QED
    BY <2>2, <2>3, FS_Subset
<1>6. \A n : n \in Reads!InSomeRange <=> \E i \in 1 .. Len(ranges) : n \in Reads!Selected(i)
  BY <1>1 DEF Reads!InSomeRange
<1>7. \A n \in Reads!InSomeRange : \E o \in Pairs : o[2] = n
  <2>1. SUFFICES ASSUME NEW n \in Reads!InSomeRange
                 PROVE  \E o \in Pairs : o[2] = n
    OBVIOUS
  <2>2. PICK i \in 1 .. Len(ranges) : n \in Reads!Selected(i)
    BY <1>6
  <2>3. n \in Numbers
    BY <1>2, <2>2
  <2>4. <<i, n>> \in Pairs /\ <<i, n>>[2] = n
    BY <2>2, <2>3 DEF Pairs
  <2> QED
    BY <2>4
<1>8. \A o \in Pairs : o[2] \in Reads!InSomeRange
  BY <1>3, <1>6
<1>9. Cardinality(Pairs) = Cardinality(Reads!InSomeRange)
  <2> DEFINE f == [o \in Pairs |-> o[2]]
  <2>1. /\ f \in [Pairs -> Reads!InSomeRange]
        /\ \A n \in Reads!InSomeRange : \E o \in Pairs : f[o] = n
    BY <1>7, <1>8
  <2>2. \A o, p \in Pairs : f[o] = f[p] => o = p
    <3>1. SUFFICES ASSUME NEW o \in Pairs, NEW p \in Pairs, o[2] = p[2]
                   PROVE  o = p
      OBVIOUS
    <3>2. o[1] = p[1]
      BY <1>4, <3>1
    <3> QED
      BY ONLY <1>3, <3>1, <3>2
  <2> HIDE DEF f
  <2>3. f \in Surjection(Pairs, Reads!InSomeRange)
    BY <2>1, Fun_IsSurj
  <2>4. f \in Injection(Pairs, Reads!InSomeRange)
    BY <2>1, <2>2, Fun_IsInj
  <2> QED
    BY <1>5, <2>3, <2>4, FS_Surjection
<1> QED
  BY <1>3, <1>4, <1>5, <1>7, <1>8, <1>9 DEF PairsAreTyped

(* The statements order them.                                              *)
LEMMA PairsAreOrdered ==
    ASSUME PairsAreTyped
    PROVE  IsOrder(PairOrder, Pairs) /\ \A o, p \in Pairs : <<o, p>> \in PairOrder <=> Reads!Before(o, p)
<1>1. \A o \in Pairs : o[1] \in Int /\ o[2] \in Int /\ table[o[2]].key \in Int /\ o = <<o[1], o[2]>>
  BY DEF PairsAreTyped
<1>2. \A o, p \in Pairs : <<o, p>> \in PairOrder <=> Reads!Before(o, p)
  <2>1. \A o, p \in Pairs : <<o, p>> \in Pairs \X Pairs /\ <<o, p>>[1] = o /\ <<o, p>>[2] = p
    OBVIOUS
  <2> QED
    BY <2>1 DEF PairOrder
<1>3. \A o \in Pairs : ~Reads!Before(o, o)
  BY <1>1 DEF Reads!Before
<1>4. \A o, p, q \in Pairs : Reads!Before(o, p) /\ Reads!Before(p, q) => Reads!Before(o, q)
  BY <1>1 DEF Reads!Before
<1>5. \A o, p \in Pairs : o = p \/ Reads!Before(o, p) \/ Reads!Before(p, o)
  <2>1. SUFFICES ASSUME NEW o \in Pairs, NEW p \in Pairs, ~Reads!Before(o, p), ~Reads!Before(p, o)
                 PROVE  o = p
    OBVIOUS
  <2>2. o[1] = p[1] /\ o[2] = p[2]
    BY <1>1, <2>1 DEF Reads!Before
  <2> QED
    BY ONLY <1>1, <2>2
<1> QED
  BY <1>2, <1>3, <1>4, <1>5 DEF IsOrder

\* The range and the row a record names.
At(r, j) == <<Reads!Ordinal(r[j].segment), r[j].row>>

\* r has one record for each selected row, in the order of the statements.
OrderedData(r) ==
    /\ DOMAIN r = 1 .. Cardinality(Reads!InSomeRange)
    /\ \A j \in DOMAIN r : At(r, j) \in Pairs /\ r[j] = Reads!DataRow(At(r, j)[1], At(r, j)[2])
    /\ \A i, j \in DOMAIN r : i < j => Reads!Before(At(r, i), At(r, j))
    /\ \A o \in Pairs : \E j \in DOMAIN r : At(r, j) = o

(* Ranking the pairs by how many are not after them sends them in order.   *)
LEMMA RowsAreOrdered ==
    ASSUME RowsAreTyped, RangesAreOrdered,
           NEW source, \A i \in 1 .. Len(ranges) : source[i] = Reads!Selected(i)
    PROVE  /\ OrderedData(Reads!OrderedRows(source))
           /\ Cardinality(Reads!InSomeRange) \in Nat /\ IsFiniteSet(Reads!InSomeRange)
           /\ \E f : Reads!OrderedRows(source) = [j \in 1 .. Cardinality(Reads!InSomeRange) |-> f[j]]
<1>1. PairsAreTyped
  BY PairsAreRows
<1>2. IsOrder(PairOrder, Pairs) /\ \A o, p \in Pairs : <<o, p>> \in PairOrder <=> Reads!Before(o, p)
  BY <1>1, PairsAreOrdered
<1> DEFINE N == Cardinality(Reads!InSomeRange)
           up == [o \in Pairs |-> Cardinality(UpTo(PairOrder, Pairs, o))]
           P == UNION {{<<i, n>> : n \in source[i]} : i \in DOMAIN ranges}
           place(j) == CHOOSE p \in P : Reads!Cardinality({q \in P : ~Reads!Before(p, q)}) = j
           r == Reads!OrderedRows(source)
<1>3. Cardinality(Pairs) = N /\ IsFiniteSet(Pairs)
  BY <1>1 DEF PairsAreTyped
<1>4. N \in Nat
  <2> HIDE DEF N
  <2> QED
    BY <1>3, FS_CardinalityType
<1>5. P = Pairs
  <2>1. ASSUME NEW o
        PROVE  o \in P <=> \E i \in DOMAIN ranges : \E n \in source[i] : o = <<i, n>>
    OBVIOUS
  <2>2. DOMAIN ranges = 1 .. Len(ranges)
    BY DEF RangesAreOrdered
  <2>3. \A i \in 1 .. Len(ranges) : Reads!Selected(i) \subseteq Numbers
    BY JoinsSelect
  <2> HIDE DEF P
  <2>4. ASSUME NEW o, o \in P
        PROVE  o \in Pairs
    <3>1. PICK i \in 1 .. Len(ranges) : \E n \in Reads!Selected(i) : o = <<i, n>>
      BY <2>1, <2>2, <2>4
    <3>2. PICK n \in Reads!Selected(i) : o = <<i, n>>
      BY <3>1
    <3>3. n \in Numbers
      BY <2>3
    <3> QED
      BY <3>2, <3>3 DEF Pairs
  <2>5. ASSUME NEW o \in Pairs
        PROVE  o \in P
    <3>1. o[1] \in 1 .. Len(ranges) /\ o[2] \in Reads!Selected(o[1]) /\ o = <<o[1], o[2]>>
      BY DEF Pairs
    <3>2. o[1] \in DOMAIN ranges /\ o[2] \in source[o[1]]
      BY <2>2, <3>1
    <3> QED
      BY <2>1, <3>1, <3>2
  <2> QED
    BY <2>4, <2>5
<1>6. \A o \in Pairs : /\ up[o] = Cardinality(UpTo(PairOrder, Pairs, o))
                       /\ UpTo(PairOrder, Pairs, o) = {q \in Pairs : ~Reads!Before(o, q)}
  BY <1>2 DEF UpTo
<1>7. Ranks(PairOrder, Pairs, up)
  <2> HIDE DEF up
  <2> QED
    BY <1>2, <1>3, <1>6, Ranking
<1>8. r = [j \in 1 .. N |-> Reads!DataRow(place(j)[1], place(j)[2])]
  <2>1. r = [j \in 1 .. Reads!Cardinality(P) |-> Reads!DataRow(place(j)[1], place(j)[2])]
    BY Zenon DEF Reads!OrderedRows
  <2>2. Reads!Cardinality(P) = N
    BY <1>3, <1>5, SameOperators
  <2> HIDE DEF P, N, place, r
  <2> QED
    BY ONLY <2>1, <2>2
<1> HIDE DEF up, P
<1>9. ASSUME NEW j \in 1 .. N
      PROVE  place(j) \in Pairs /\ up[place(j)] = j
  <2>1. PICK o \in Pairs : up[o] = j
    BY <1>3, <1>7 DEF Ranks
  <2>2. Cardinality({q \in Pairs : ~Reads!Before(o, q)}) = j
    BY <1>6, <2>1
  <2>3. \A p : Reads!Cardinality({q \in P : ~Reads!Before(p, q)})
               = Cardinality({q \in Pairs : ~Reads!Before(p, q)})
    BY ONLY <1>5, SameOperators
  <2>4. o \in P /\ Reads!Cardinality({q \in P : ~Reads!Before(o, q)}) = j
    BY <1>5, <2>2, <2>3
  <2>5. place(j) \in P /\ Reads!Cardinality({q \in P : ~Reads!Before(place(j), q)}) = j
    BY ONLY <2>4, Zenon
  <2> HIDE DEF place
  <2> QED
    BY <1>5, <1>6, <2>3, <2>5
<1> HIDE DEF N, place, r
<1>10. DOMAIN r = 1 .. N
  BY <1>8
<1>11. ASSUME NEW j \in 1 .. N
       PROVE  At(r, j) = place(j) /\ r[j] = Reads!DataRow(place(j)[1], place(j)[2])
  <2>1. r[j] = Reads!DataRow(place(j)[1], place(j)[2])
    BY <1>8
  <2>2. place(j)[1] \in 1 .. Len(ranges) /\ place(j) = <<place(j)[1], place(j)[2]>>
    BY <1>1, <1>9 DEF PairsAreTyped
  <2>3. r[j].segment = ranges[place(j)[1]].id /\ r[j].row = place(j)[2]
    BY <2>1 DEF Reads!DataRow
  <2>4. Reads!Ordinal(r[j].segment) = place(j)[1]
    BY <2>2, <2>3, Ordinals
  <2> QED
    BY ONLY <2>1, <2>2, <2>3, <2>4 DEF At
<1>12. ASSUME NEW i \in 1 .. N, NEW j \in 1 .. N, i < j
       PROVE  Reads!Before(At(r, i), At(r, j))
  <2>1. up[place(i)] < up[place(j)] /\ place(i) \in Pairs /\ place(j) \in Pairs
    BY <1>9, <1>12
  <2>2. <<place(i), place(j)>> \in PairOrder
    BY <1>7, <2>1 DEF Ranks
  <2> QED
    BY <1>2, <1>11, <2>1, <2>2
<1>13. ASSUME NEW o \in Pairs
       PROVE  \E j \in 1 .. N : At(r, j) = o
  <2>1. up[o] \in 1 .. N
    BY <1>3, <1>7 DEF Ranks
  <2>2. place(up[o]) \in Pairs /\ up[place(up[o])] = up[o]
    BY <1>9, <2>1
  <2>3. place(up[o]) = o
    BY <1>7, <2>2 DEF Ranks
  <2> QED
    BY <1>11, <2>1, <2>3
<1>14. OrderedData(r)
  <2>1. \A j \in 1 .. N : At(r, j) \in Pairs /\ r[j] = Reads!DataRow(At(r, j)[1], At(r, j)[2])
    BY <1>9, <1>11
  <2> QED
    BY ONLY <1>10, <1>12, <1>13, <2>1 DEF OrderedData, N
<1>15. IsFiniteSet(Reads!InSomeRange)
  <2> DEFINE f == [o \in Pairs |-> o[2]]
  <2>1. /\ f \in [Pairs -> Reads!InSomeRange]
        /\ \A n \in Reads!InSomeRange : \E o \in Pairs : f[o] = n
    BY <1>1 DEF PairsAreTyped
  <2> HIDE DEF f
  <2>2. f \in Surjection(Pairs, Reads!InSomeRange)
    BY <2>1, Fun_IsSurj
  <2> QED
    BY <1>3, <2>2, FS_Surjection
<1>16. \E f : r = [j \in 1 .. N |-> f[j]]
  <2>1. r = [j \in 1 .. N |-> r[j]]
    BY ONLY <1>8
  <2> QED
    BY ONLY <2>1
<1> QED
  BY <1>4, <1>14, <1>15, <1>16 DEF N, r

-----------------------------------------------------------------------------
(* What the statement of each operation answers                            *)

\* What a record of exact rows may be labelled with.
Origins == {"protected", "foreign"}
Segments == {"", "other"} \cup {ranges[i].id : i \in 1 .. Len(ranges)}

\* A record of exact rows: a data row carries what the statement computed of the row it names.
RowRecord(x) ==
    /\ x \in [origin : Origins, data : BOOLEAN, segment : Segments, key : Int, row : Nat,
              invalid : BOOLEAN, oversized : BOOLEAN]
    /\ x.data => /\ x.row \in Numbers /\ x.invalid = Reads!InvalidRow(x.row)
                 /\ x.oversized = Reads!OversizedRow(x.row)
    /\ engine = "clickhouse" => x.data

\* A reply is a sequence, of such records when rows were asked for.
ReplyTyped(r) == \E S : r \in Seq(S) /\ (operation = "rows" => \A x \in S : RowRecord(x))

\* What a summary says when it arrives as sent.
SaysSummary(r) ==
    /\ Len(r) = 1 /\ DOMAIN r = {1} /\ r[1].origin = "protected"
    /\ Reads!SummaryPartitions(r[1]) /\ Reads!MeansSummary(Reads!SummaryFields(r[1]))

\* What exact rows say: every selected row, or a witness that there is none, or too many rows.
SaysRows(r) ==
    IF Cardinality(Reads!InSomeRange) <= limit
    THEN IF Reads!InSomeRange = {} /\ engine # "clickhouse" THEN r = <<Reads!FalseWitness>>
         ELSE OrderedData(r)
    ELSE Len(r) > limit

\* What a reply says when it arrives as sent.
Says(r) ==
    /\ operation = "summary" => SaysSummary(r)
    /\ operation = "fingerprints" => SaysFingerprints(r)
    /\ operation = "rows" => SaysRows(r)

\* What Query answers.
Queried ==
    CASE operation = "summary" -> Reads!SummaryQuery
      [] operation = "fingerprints" -> Reads!FingerprintQuery
      [] operation = "rows" -> Reads!RowsQuery

(* A function on 1 .. n is a sequence of its values.                       *)
LEMMA FunctionsAreSequences ==
    ASSUME NEW n \in Nat, NEW S, NEW s \in [1 .. n -> S]
    PROVE  s \in Seq(S) /\ Len(s) = n
  OBVIOUS

(* The smaller of two naturals.                                            *)
LEMMA SmallerOfTwo ==
    ASSUME NEW a \in Nat, NEW b \in Nat
    PROVE  Reads!Min({a, b}) = IF a <= b THEN a ELSE b
<1>1. IsFiniteSet({a, b})
  <2>1. IsFiniteSet({a}) /\ IsFiniteSet({b}) /\ {a, b} = {a} \cup {b}
    BY FS_Singleton
  <2> QED
    BY ONLY <2>1, FS_Union
<1>2. {a, b} \subseteq Int /\ {a, b} # {}
  OBVIOUS
<1>3. Min({a, b}) \in {a, b} /\ \A y \in {a, b} : Min({a, b}) <= y
  BY ONLY <1>1, <1>2, Extremes
<1>4. Reads!Min({a, b}) = Min({a, b})
  BY SameOperators
<1> DEFINE m == Min({a, b})
<1>5. m \in {a, b} /\ m <= a /\ m <= b
  BY <1>3
<1> HIDE DEF m
<1>6. m = IF a <= b THEN a ELSE b
  BY <1>5
<1> QED
  BY <1>4, <1>6 DEF m

(* The exact rows of every engine say it.                                  *)
LEMMA RowsAgree ==
    ASSUME ReadArguments, RowsAreTyped, RangesAreOrdered, operation = "rows"
    PROVE  SaysRows(Reads!RowsQuery) /\ ReplyTyped(Reads!RowsQuery)
<1> DEFINE N == Cardinality(Reads!InSomeRange)
           O(source) == Reads!OrderedRows(source)
           Answer(r) == OrderedData(r) /\ r \in Seq({x \in {r[j] : j \in DOMAIN r} : RowRecord(x)})
                        /\ Len(r) = N
<1>1. /\ \/ engine = "mssql" \/ engine = "postgres" \/ engine = "clickhouse"
         \/ engine = "greengage" \/ engine = "greenplum"
      /\ limit \in Nat \ {0} /\ DOMAIN ranges = 1 .. Len(ranges)
  BY DEF ReadArguments, Reads!Engines, RangesAreOrdered
<1>2. PairsAreTyped
  BY PairsAreRows
<1>3. \A o \in Pairs : RowRecord(Reads!DataRow(o[1], o[2]))
  <2>1. SUFFICES ASSUME NEW o \in Pairs
                 PROVE  RowRecord(Reads!DataRow(o[1], o[2]))
    OBVIOUS
  <2>2. /\ o[1] \in 1 .. Len(ranges) /\ o[2] \in Numbers /\ table[o[2]].key \in Int
        /\ Numbers \subseteq Nat \ {0}
    BY <1>2 DEF PairsAreTyped, RowsAreTyped
  <2>3. ranges[o[1]].id \in Segments /\ "protected" \in Origins
    BY <2>2 DEF Segments, Origins
  <2> DEFINE x == Reads!DataRow(o[1], o[2])
             inv == Reads!InvalidRow(o[2])
             over == Reads!OversizedRow(o[2])
  <2>4. inv \in BOOLEAN /\ over \in BOOLEAN
    BY DEF Reads!InvalidRow, Reads!OversizedRow
  <2>5. x = [origin |-> "protected", data |-> TRUE, segment |-> ranges[o[1]].id,
             key |-> table[o[2]].key, row |-> o[2], invalid |-> inv, oversized |-> over]
    BY DEF Reads!DataRow
  <2> HIDE DEF x, inv, over
  <2>6. /\ x \in [origin : Origins, data : BOOLEAN, segment : Segments, key : Int, row : Nat,
                  invalid : BOOLEAN, oversized : BOOLEAN]
        /\ x.row = o[2] /\ x.data = TRUE
    BY ONLY <2>2, <2>3, <2>4, <2>5
  <2>7. x.invalid = inv /\ x.oversized = over
    BY ONLY <2>5, Zenon
  <2>8. x.invalid = Reads!InvalidRow(x.row) /\ x.oversized = Reads!OversizedRow(x.row)
    BY ONLY <2>6, <2>7, Zenon DEF inv, over
  <2>9. RowRecord(x)
    BY ONLY <2>2, <2>6, <2>8, Zenon DEF RowRecord
  <2> QED
    BY <2>9 DEF x
<1>4. ASSUME NEW source, \A i \in 1 .. Len(ranges) : source[i] = Reads!Selected(i)
      PROVE  Answer(O(source))
  <2> DEFINE r == O(source)
  <2>1. OrderedData(r) /\ N \in Nat /\ \E f : r = [j \in 1 .. N |-> f[j]]
    BY <1>4, RowsAreOrdered
  <2> DEFINE S == {x \in {r[j] : j \in DOMAIN r} : RowRecord(x)}
  <2> HIDE DEF r, N
  <2>2. \A j \in DOMAIN r : RowRecord(r[j])
    BY <1>3, <2>1 DEF OrderedData
  <2>3. \A j \in 1 .. N : r[j] \in S
    BY <2>1, <2>2
  <2> HIDE DEF S
  <2>4. r \in [1 .. N -> S]
    BY <2>1, <2>3
  <2>5. r \in Seq(S) /\ Len(r) = N
    BY <2>1, <2>4, FunctionsAreSequences
  <2> QED
    BY <2>1, <2>5 DEF S, r
<1>5. \A source : (\A i \in 1 .. Len(ranges) : source[i] = Reads!Selected(i)) => Answer(O(source))
  BY <1>4
<1>6. N \in Nat /\ IsFiniteSet(Reads!InSomeRange) /\ (N = 0 <=> Reads!InSomeRange = {})
  <2> DEFINE source == [i \in 1 .. Len(ranges) |-> Reads!Selected(i)]
  <2>1. \A i \in 1 .. Len(ranges) : source[i] = Reads!Selected(i)
    OBVIOUS
  <2> HIDE DEF source
  <2>2. N \in Nat /\ IsFiniteSet(Reads!InSomeRange)
    BY <2>1, RowsAreOrdered
  <2> QED
    BY <2>2, FS_EmptySet
<1>7. RowRecord(Reads!FalseWitness) \/ engine = "clickhouse"
  <2> DEFINE x == Reads!FalseWitness
  <2>1. x \in [origin : Origins, data : BOOLEAN, segment : Segments, key : Int, row : Nat,
               invalid : BOOLEAN, oversized : BOOLEAN]
    BY DEF Reads!FalseWitness, Reads!NullKey, Segments, Origins
  <2>2. ~x.data
    BY Zenon DEF Reads!FalseWitness
  <2> HIDE DEF x
  <2>3. engine # "clickhouse" => RowRecord(x)
    BY ONLY <2>1, <2>2, Zenon DEF RowRecord
  <2> QED
    BY <2>3 DEF x
<1> DEFINE Joins == [i \in DOMAIN ranges |-> Reads!Joined(i, Homes)]
           Unions == [i \in DOMAIN ranges |-> UNION {Reads!Joined(i, {h}) : h \in Homes}]
           Classes == [i \in DOMAIN ranges |-> Reads!Classified(i)]
<1>8. \A i \in 1 .. Len(ranges) : /\ Joins[i] = Reads!Selected(i) /\ Unions[i] = Reads!Selected(i)
                                  /\ Classes[i] = Reads!Selected(i)
  <2>1. SUFFICES ASSUME NEW i \in 1 .. Len(ranges)
                 PROVE  /\ Joins[i] = Reads!Selected(i) /\ Unions[i] = Reads!Selected(i)
                        /\ Classes[i] = Reads!Selected(i)
    OBVIOUS
  <2>2. /\ Reads!Joined(i, Homes) = Reads!Selected(i) /\ Reads!Classified(i) = Reads!Selected(i)
        /\ \A homes : Reads!Joined(i, homes) = {n \in Reads!Selected(i) : table[n].home \in homes}
        /\ Reads!Selected(i) \subseteq Numbers
    BY JoinsSelect
  <2>3. \A n \in Reads!Selected(i) : table[n].home \in Homes
    BY <2>2 DEF RowsAreTyped
  <2> DEFINE U == UNION {Reads!Joined(i, {h}) : h \in Homes}
  <2>4. \A n : n \in U <=> \E h \in Homes : n \in Reads!Joined(i, {h})
    OBVIOUS
  <2>5. \A h : \A n : n \in Reads!Joined(i, {h}) <=> n \in Reads!Selected(i) /\ table[n].home = h
    BY <2>2
  <2> HIDE DEF U
  <2>6. U = Reads!Selected(i)
    <3>1. \A n : n \in U <=> n \in Reads!Selected(i)
      BY ONLY <2>3, <2>4, <2>5, Zenon
    <3> QED
      BY ONLY <3>1
  <2>7. Joins[i] = Reads!Joined(i, Homes) /\ Unions[i] = U /\ Classes[i] = Reads!Classified(i)
    BY <1>1 DEF U
  <2> QED
    BY ONLY <2>2, <2>6, <2>7
<1> HIDE DEF Joins, Unions, Classes
<1>9. Answer(O(Joins)) /\ Answer(O(Unions)) /\ Answer(O(Classes))
  <2> HIDE DEF Answer, O
  <2> QED
    BY <1>5, <1>8
<1>10. ASSUME NEW r, Answer(r), engine # "clickhouse"
       PROVE  SaysRows(Reads!WithWitness(r)) /\ ReplyTyped(Reads!WithWitness(r))
  <2>1. r \in Seq({x \in {r[j] : j \in DOMAIN r} : RowRecord(x)}) /\ Len(r) = N /\ OrderedData(r)
    BY <1>10
  <2> HIDE DEF N
  <2>2. r = <<>> <=> N = 0
    BY <2>1
  <2>3. Reads!WithWitness(r) = IF Reads!InSomeRange = {} THEN <<Reads!FalseWitness>> ELSE r
    BY <1>6, <2>2 DEF Reads!WithWitness
  <2>4. SaysRows(Reads!WithWitness(r))
    BY <1>1, <1>6, <1>10, <2>1, <2>3 DEF SaysRows, N
  <2>5. ReplyTyped(<<Reads!FalseWitness>>)
    <3>1. RowRecord(Reads!FalseWitness)
      BY <1>7, <1>10
    <3>2. <<Reads!FalseWitness>> \in Seq({Reads!FalseWitness})
      OBVIOUS
    <3> QED
      <4> DEFINE T == {Reads!FalseWitness}
      <4>1. <<Reads!FalseWitness>> \in Seq(T)
        BY <3>2
      <4>2. \A x \in T : RowRecord(x)
        BY <3>1
      <4> HIDE DEF T
      <4> QED
        BY ONLY <4>1, <4>2 DEF ReplyTyped
  <2>6. ReplyTyped(r)
    BY ONLY <2>1 DEF ReplyTyped
  <2> QED
    BY <2>3, <2>4, <2>5, <2>6
<1>11. ASSUME NEW r, Answer(r), engine = "clickhouse"
       PROVE  LET s == SubSeq(r, 1, Reads!Min({Len(r), limit + 1})) IN SaysRows(s) /\ ReplyTyped(s)
  <2> DEFINE S == {x \in {r[j] : j \in DOMAIN r} : RowRecord(x)}
             m == Reads!Min({Len(r), limit + 1})
             s == SubSeq(r, 1, m)
  <2>1. r \in Seq(S) /\ Len(r) = N /\ OrderedData(r)
    BY <1>11
  <2>2. \A x \in S : RowRecord(x)
    OBVIOUS
  <2> HIDE DEF S, N
  <2>3. m = IF N <= limit + 1 THEN N ELSE limit + 1
    <3>1. limit + 1 \in Nat
      BY <1>1
    <3> QED
      BY <1>6, <2>1, <3>1, SmallerOfTwo
  <2> HIDE DEF m
  <2>4. s \in Seq(S) /\ Len(s) = m /\ m \in 0 .. N
    BY <1>1, <1>6, <2>1, <2>3
  <2>5. N <= limit => s = r
    <3>1. SUFFICES ASSUME N <= limit PROVE s = r
      OBVIOUS
    <3>2. m = Len(r)
      BY <1>1, <1>6, <2>1, <2>3, <3>1
    <3> QED
      BY <2>1, <3>2
  <2>6. N > limit => Len(s) > limit
    BY <1>1, <1>6, <2>3, <2>4
  <2> HIDE DEF s
  <2>7. SaysRows(s)
    BY <1>1, <1>6, <1>11, <2>1, <2>5, <2>6 DEF SaysRows, N
  <2>8. ReplyTyped(s)
    BY ONLY <2>2, <2>4 DEF ReplyTyped
  <2> QED
    BY <2>7, <2>8 DEF s, m
<1>12. /\ engine = "mssql" => Reads!RowsQuery = Reads!WithWitness(O(Joins))
       /\ engine = "postgres" => Reads!RowsQuery = Reads!WithWitness(O(Unions))
       /\ engine = "greengage" => Reads!RowsQuery = Reads!WithWitness(O(Joins))
       /\ engine = "greenplum" => Reads!RowsQuery = Reads!WithWitness(O(Joins))
       /\ engine = "clickhouse" =>
             Reads!RowsQuery = SubSeq(O(Classes), 1, Reads!Min({Len(O(Classes)), limit + 1}))
  BY DEF Reads!RowsQuery, Reads!MssqlRows, Reads!PostgresRows, Reads!GreengageRows,
         Reads!OriginalGreenplumRows, Reads!ClickHouseRows, Joins, Unions, Classes
<1> HIDE DEF Answer, O
<1> QED
  BY <1>1, <1>9, <1>10, <1>11, <1>12

(* The statement of every engine answers what was asked.                   *)
LEMMA QueriesSay ==
    ASSUME ReadArguments
    PROVE  Says(Queried) /\ ReplyTyped(Queried)
<1>1. RowsAreTyped /\ RangesAreOrdered
  BY Relations, RangesFollow DEF ReadArguments
<1>2. /\ operation = "summary" \/ operation = "fingerprints" \/ operation = "rows"
      /\ engine \in Reads!Engines
  BY DEF ReadArguments, Reads!Operations
<1>3. CASE operation = "summary"
  <2>1. PICK J : J \ {0} = Reads!Scoped /\ Reads!SummaryQuery = <<Reads!SummaryOf(J)>>
    BY <1>1, <1>2, SummariesAgree
  <2> DEFINE s == Reads!SummaryOf(J)
  <2>2. /\ s.origin = "protected" /\ Reads!SummaryPartitions(s)
        /\ Reads!MeansSummary(Reads!SummaryFields(s))
    BY <1>1, <2>1, SummaryMeansTheRelation
  <2>3. Queried = <<s>>
    BY <1>3, <2>1 DEF Queried
  <2> HIDE DEF s
  <2>4. Len(<<s>>) = 1 /\ DOMAIN <<s>> = {1} /\ <<s>>[1] = s /\ <<s>> \in Seq({s})
    OBVIOUS
  <2> QED
    BY <1>3, <2>2, <2>3, <2>4 DEF Says, SaysSummary, ReplyTyped
<1>4. CASE operation = "fingerprints"
  <2> DEFINE F == Reads!FingerprintQuery
  <2>1. SaysFingerprints(F) /\ Queried = F
    BY <1>1, <1>4, FingerprintsAgree DEF Queried
  <2>2. F \in Seq({F[j] : j \in DOMAIN F})
    <3> DEFINE S == {F[j] : j \in DOMAIN F}
               n == Len(ranges)
    <3>1. n \in Nat /\ DOMAIN F = 1 .. n
      BY <1>1, <2>1 DEF RangesAreOrdered, SaysFingerprints
    <3>2. F = [j \in DOMAIN ranges |-> F[j]]
      <4> DEFINE body(i) == CASE engine = "mssql" -> Reads!MssqlFingerprint(i)
                              [] engine = "postgres" -> Reads!PostgresFingerprint(i)
                              [] engine = "clickhouse" -> Reads!ClickHouseFingerprint(i)
                              [] engine = "greengage" -> Reads!GreengageFingerprint(i)
                              [] engine = "greenplum" -> Reads!OriginalGreenplumFingerprint(i)
      <4>1. F = [i \in DOMAIN ranges |-> body(i)]
        BY DEF Reads!FingerprintQuery
      <4> HIDE DEF body, F
      <4> QED
        BY ONLY <4>1
    <3>3. \A j \in DOMAIN F : F[j] \in S
      OBVIOUS
    <3>4. DOMAIN ranges = 1 .. n
      BY <1>1 DEF RangesAreOrdered
    <3> HIDE DEF S, n, F
    <3>5. F \in [1 .. n -> S]
      BY ONLY <3>1, <3>2, <3>3, <3>4
    <3>6. F \in Seq(S)
      BY ONLY <3>1, <3>5, FunctionsAreSequences
    <3> QED
      BY <3>6 DEF S, F
  <2> HIDE DEF F
  <2> QED
    BY <1>4, <2>1, <2>2 DEF Says, ReplyTyped
<1>5. CASE operation = "rows"
  <2>1. Queried = Reads!RowsQuery
    BY <1>5 DEF Queried
  <2> QED
    BY <1>1, <1>5, <2>1, RowsAgree DEF Says
<1> QED
  BY <1>2, <1>3, <1>4, <1>5

-----------------------------------------------------------------------------
(* What the decoders refuse                                                *)

\* How a decoder may end.
Kinds == {"invalid", "limit", "metadata", "lost", "none"}

(* The first refusal is one of them, and none when nothing was refused.    *)
LEMMA FirstRefusals ==
    ASSUME NEW n \in Nat, NEW refusals, DOMAIN refusals = 1 .. n,
           \A j \in 1 .. n : refusals[j] \in Kinds
    PROVE  /\ Reads!FirstRefusal(refusals) \in Kinds
           /\ Reads!FirstRefusal(refusals) = "none" <=> \A j \in 1 .. n : refusals[j] = "none"
<1> DEFINE bad == {j \in 1 .. n : refusals[j] # "none"}
<1>1. Reads!FirstRefusal(refusals) = IF bad = {} THEN "none" ELSE refusals[Min(bad)]
  BY SameOperators DEF Reads!FirstRefusal
<1>2. bad # {} => Min(bad) \in bad
  <2>1. bad \in SUBSET (1 .. n) /\ bad \subseteq Int
    OBVIOUS
  <2>2. IsFiniteSet(1 .. n)
    BY FS_Interval
  <2>3. IsFiniteSet(bad)
    BY <2>1, <2>2, FS_Subset
  <2> HIDE DEF bad
  <2> QED
    BY <2>1, <2>3, Extremes
<1>3. bad # {} => refusals[Min(bad)] \in Kinds
  BY <1>2
<1>4. "none" \in Kinds
  BY DEF Kinds
<1>5. Reads!FirstRefusal(refusals) \in Kinds
  <2> HIDE DEF bad
  <2> QED
    BY ONLY <1>1, <1>3, <1>4
<1> QED
  BY <1>5, NothingRefused

(* Of two steps the second is reached when the first refuses nothing.      *)
LEMMA TwoRefusals ==
    ASSUME NEW a \in Kinds, NEW b \in Kinds
    PROVE  /\ Reads!FirstRefusal(<<a, b>>) \in Kinds
           /\ Reads!FirstRefusal(<<a, b>>) = "none" <=> a = "none" /\ b = "none"
<1> DEFINE s == <<a, b>>
<1>1. DOMAIN s = 1 .. 2 /\ s[1] = a /\ s[2] = b /\ \A j \in 1 .. 2 : j = 1 \/ j = 2
  OBVIOUS
<1> HIDE DEF s
<1>2. \A j \in 1 .. 2 : s[j] \in Kinds
  BY ONLY <1>1, a \in Kinds, b \in Kinds
<1>3. /\ Reads!FirstRefusal(s) \in Kinds
      /\ Reads!FirstRefusal(s) = "none" <=> \A j \in 1 .. 2 : s[j] = "none"
  BY ONLY <1>1, <1>2, FirstRefusals
<1>4. (\A j \in 1 .. 2 : s[j] = "none") <=> a = "none" /\ b = "none"
  BY ONLY <1>1
<1> QED
  BY <1>3, <1>4 DEF s

\* What every decoder demands of a data row after the data row before it.
Clean(r, previous) ==
    /\ ~Reads!Unrequested(r) /\ ~Reads!SegmentBack(r, previous)
    /\ ~r.invalid /\ ~r.oversized
    /\ ~Reads!KeyDisagrees(r) /\ ~Reads!OutOfRange(r) /\ ~Reads!KeyNotAbove(r, previous)

\* The decoder of PostgreSQL does not compare a row without data with the witness.
RowChecked(r, previous) ==
    IF r.data THEN Clean(r, previous) ELSE engine # "postgres" => r = Reads!FalseWitness

(* Whatever their order, the tests of a row decoder are those.             *)
LEMMA RowsAreChecked ==
    ASSUME NEW r, NEW previous
    PROVE  /\ Reads!MssqlRowRefusal(r, previous) \in Kinds
           /\ Reads!PostgresRowRefusal(r, previous) \in Kinds
           /\ Reads!ClickHouseRowRefusal(r, previous) \in Kinds
           /\ Reads!GreengageRowRefusal(r, previous) \in Kinds
           /\ Reads!OriginalGreenplumRowRefusal(r, previous) \in Kinds
           /\ engine = "mssql" =>
                (Reads!MssqlRowRefusal(r, previous) = "none" <=> RowChecked(r, previous))
           /\ engine = "postgres" =>
                (Reads!PostgresRowRefusal(r, previous) = "none" <=> RowChecked(r, previous))
           /\ engine = "clickhouse" /\ r.data =>
                (Reads!ClickHouseRowRefusal(r, previous) = "none" <=> RowChecked(r, previous))
           /\ engine = "greengage" =>
                (Reads!GreengageRowRefusal(r, previous) = "none" <=> RowChecked(r, previous))
           /\ engine = "greenplum" =>
                (Reads!OriginalGreenplumRowRefusal(r, previous) = "none" <=> RowChecked(r, previous))
<1> DEFINE data == r.data = TRUE
<1>0. /\ "invalid" \in Kinds /\ "limit" \in Kinds /\ "lost" \in Kinds /\ "none" \in Kinds
      /\ "invalid" # "none" /\ "limit" # "none" /\ "lost" # "none"
  BY DEF Kinds
<1>1. /\ Reads!MssqlRowRefusal(r, previous) \in Kinds
      /\ r.data => (Reads!MssqlRowRefusal(r, previous) = "none" <=> Clean(r, previous))
      /\ ~r.data => (Reads!MssqlRowRefusal(r, previous) = "none" <=> r = Reads!FalseWitness)
  BY ONLY <1>0, Zenon DEF Reads!MssqlRowRefusal, Clean
<1>2. /\ Reads!PostgresRowRefusal(r, previous) \in Kinds
      /\ r.data => (Reads!PostgresRowRefusal(r, previous) = "none" <=> Clean(r, previous))
      /\ ~r.data => Reads!PostgresRowRefusal(r, previous) = "none"
  BY ONLY <1>0, Zenon DEF Reads!PostgresRowRefusal, Clean
<1>3. /\ Reads!ClickHouseRowRefusal(r, previous) \in Kinds
      /\ Reads!ClickHouseRowRefusal(r, previous) = "none" <=> Clean(r, previous)
  BY ONLY <1>0, Zenon DEF Reads!ClickHouseRowRefusal, Clean
<1>4. /\ Reads!GreengageRowRefusal(r, previous) \in Kinds
      /\ r.data => (Reads!GreengageRowRefusal(r, previous) = "none" <=> Clean(r, previous))
      /\ ~r.data => (Reads!GreengageRowRefusal(r, previous) = "none" <=> r = Reads!FalseWitness)
  BY ONLY <1>0, Zenon DEF Reads!GreengageRowRefusal, Clean
<1>5. Reads!OriginalGreenplumRowRefusal(r, previous) = Reads!GreengageRowRefusal(r, previous)
  BY Zenon DEF Reads!OriginalGreenplumRowRefusal
<1>6. /\ r.data => (RowChecked(r, previous) <=> Clean(r, previous))
      /\ ~r.data => (RowChecked(r, previous) <=> (engine = "postgres" \/ r = Reads!FalseWitness))
  BY Zenon DEF RowChecked
<1>7. /\ "mssql" # "postgres" /\ "greengage" # "postgres" /\ "greenplum" # "postgres"
  OBVIOUS
<1>8. /\ engine = "mssql" =>
            (Reads!MssqlRowRefusal(r, previous) = "none" <=> RowChecked(r, previous))
      /\ engine = "postgres" =>
            (Reads!PostgresRowRefusal(r, previous) = "none" <=> RowChecked(r, previous))
      /\ engine = "clickhouse" /\ r.data =>
            (Reads!ClickHouseRowRefusal(r, previous) = "none" <=> RowChecked(r, previous))
      /\ engine \in {"greengage", "greenplum"} =>
            (Reads!GreengageRowRefusal(r, previous) = "none" <=> RowChecked(r, previous))
  BY ONLY <1>1, <1>2, <1>3, <1>4, <1>6, <1>7, Zenon
<1> QED
  BY ONLY <1>1, <1>2, <1>3, <1>4, <1>5, <1>8, Zenon

\* The reply is a sequence, and without witnesses from ClickHouse.
ReplyIsScanned ==
    /\ Len(reply) \in Nat /\ DOMAIN reply = 1 .. Len(reply)
    /\ engine = "clickhouse" => \A j \in 1 .. Len(reply) : reply[j].data

(* The loop over exact rows refuses nothing when it has nothing to refuse. *)
LEMMA RowsAreScanned ==
    ASSUME ReplyIsScanned, engine \in Reads!Engines
    PROVE  /\ Reads!RowsRefusal \in Kinds
           /\ Reads!RowsRefusal = "none"
                <=> /\ \A j \in 1 .. Len(reply) : RowChecked(reply[j], Reads!PreviousRow(j))
                    /\ Segmented => Reads!WitnessesCounted
<1> DEFINE n == Len(reply)
           mssql == [j \in DOMAIN reply |-> Reads!MssqlRowRefusal(reply[j], Reads!PreviousRow(j))]
           postgres ==
             [j \in DOMAIN reply |-> Reads!PostgresRowRefusal(reply[j], Reads!PreviousRow(j))]
           clickhouse ==
             [j \in DOMAIN reply |-> Reads!ClickHouseRowRefusal(reply[j], Reads!PreviousRow(j))]
           greengage ==
             [j \in DOMAIN reply |-> Reads!GreengageRowRefusal(reply[j], Reads!PreviousRow(j))]
           greenplum ==
             [j \in DOMAIN reply |->
                Reads!OriginalGreenplumRowRefusal(reply[j], Reads!PreviousRow(j))]
           counted == IF Reads!WitnessesCounted THEN "none" ELSE "invalid"
           Checked == \A j \in 1 .. n : RowChecked(reply[j], Reads!PreviousRow(j))
<1>0. n \in Nat /\ DOMAIN reply = 1 .. n
  BY DEF ReplyIsScanned
<1>1. /\ engine = "mssql" => Reads!RowsRefusal = Reads!FirstRefusal(mssql)
      /\ engine = "postgres" => Reads!RowsRefusal = Reads!FirstRefusal(postgres)
      /\ engine = "clickhouse" => Reads!RowsRefusal = Reads!FirstRefusal(clickhouse)
      /\ engine = "greengage" =>
            Reads!RowsRefusal = Reads!FirstRefusal(<<Reads!FirstRefusal(greengage), counted>>)
      /\ engine = "greenplum" =>
            Reads!RowsRefusal = Reads!FirstRefusal(<<Reads!FirstRefusal(greenplum), counted>>)
  BY DEF Reads!RowsRefusal, Reads!Scan
<1>2. /\ DOMAIN mssql = 1 .. n /\ \A j \in 1 .. n :
            mssql[j] = Reads!MssqlRowRefusal(reply[j], Reads!PreviousRow(j))
      /\ DOMAIN postgres = 1 .. n /\ \A j \in 1 .. n :
            postgres[j] = Reads!PostgresRowRefusal(reply[j], Reads!PreviousRow(j))
      /\ DOMAIN clickhouse = 1 .. n /\ \A j \in 1 .. n :
            clickhouse[j] = Reads!ClickHouseRowRefusal(reply[j], Reads!PreviousRow(j))
      /\ DOMAIN greengage = 1 .. n /\ \A j \in 1 .. n :
            greengage[j] = Reads!GreengageRowRefusal(reply[j], Reads!PreviousRow(j))
      /\ DOMAIN greenplum = 1 .. n /\ \A j \in 1 .. n :
            greenplum[j] = Reads!OriginalGreenplumRowRefusal(reply[j], Reads!PreviousRow(j))
  BY <1>0
<1>3. counted \in Kinds /\ (counted = "none" <=> Reads!WitnessesCounted)
  BY DEF Kinds
<1> HIDE DEF n, mssql, postgres, clickhouse, greengage, greenplum, counted
<1>4. CASE engine = "mssql"
  <2>1. \A j \in 1 .. n : mssql[j] \in Kinds
                          /\ (mssql[j] = "none" <=> RowChecked(reply[j], Reads!PreviousRow(j)))
    BY <1>2, <1>4, RowsAreChecked
  <2>2. /\ Reads!FirstRefusal(mssql) \in Kinds
        /\ Reads!FirstRefusal(mssql) = "none" <=> \A j \in 1 .. n : mssql[j] = "none"
    BY <1>0, <1>2, <2>1, FirstRefusals
  <2> QED
    BY <1>1, <1>4, <2>1, <2>2 DEF Segmented, n
<1>5. CASE engine = "postgres"
  <2>1. \A j \in 1 .. n : postgres[j] \in Kinds
                          /\ (postgres[j] = "none" <=> RowChecked(reply[j], Reads!PreviousRow(j)))
    BY <1>2, <1>5, RowsAreChecked
  <2>2. /\ Reads!FirstRefusal(postgres) \in Kinds
        /\ Reads!FirstRefusal(postgres) = "none" <=> \A j \in 1 .. n : postgres[j] = "none"
    BY <1>0, <1>2, <2>1, FirstRefusals
  <2> QED
    BY <1>1, <1>5, <2>1, <2>2 DEF Segmented, n
<1>6. CASE engine = "clickhouse"
  <2>1. \A j \in 1 .. n : clickhouse[j] \in Kinds
                          /\ (clickhouse[j] = "none" <=> RowChecked(reply[j], Reads!PreviousRow(j)))
    BY <1>2, <1>6, RowsAreChecked DEF ReplyIsScanned, n
  <2>2. /\ Reads!FirstRefusal(clickhouse) \in Kinds
        /\ Reads!FirstRefusal(clickhouse) = "none" <=> \A j \in 1 .. n : clickhouse[j] = "none"
    BY <1>0, <1>2, <2>1, FirstRefusals
  <2> QED
    BY <1>1, <1>6, <2>1, <2>2 DEF Segmented, n
<1>7. CASE engine = "greengage"
  <2>1. \A j \in 1 .. n : greengage[j] \in Kinds
                          /\ (greengage[j] = "none" <=> RowChecked(reply[j], Reads!PreviousRow(j)))
    BY <1>2, <1>7, RowsAreChecked
  <2>2. /\ Reads!FirstRefusal(greengage) \in Kinds
        /\ Reads!FirstRefusal(greengage) = "none" <=> \A j \in 1 .. n : greengage[j] = "none"
    BY <1>0, <1>2, <2>1, FirstRefusals
  <2>3. /\ Reads!RowsRefusal \in Kinds
        /\ Reads!RowsRefusal = "none"
              <=> Reads!FirstRefusal(greengage) = "none" /\ counted = "none"
    BY <1>1, <1>3, <1>7, <2>2, TwoRefusals
  <2> QED
    BY <1>3, <1>7, <2>1, <2>2, <2>3 DEF Segmented, n
<1>8. CASE engine = "greenplum"
  <2>1. \A j \in 1 .. n : greenplum[j] \in Kinds
                          /\ (greenplum[j] = "none" <=> RowChecked(reply[j], Reads!PreviousRow(j)))
    BY <1>2, <1>8, RowsAreChecked
  <2>2. /\ Reads!FirstRefusal(greenplum) \in Kinds
        /\ Reads!FirstRefusal(greenplum) = "none" <=> \A j \in 1 .. n : greenplum[j] = "none"
    BY <1>0, <1>2, <2>1, FirstRefusals
  <2>3. /\ Reads!RowsRefusal \in Kinds
        /\ Reads!RowsRefusal = "none"
              <=> Reads!FirstRefusal(greenplum) = "none" /\ counted = "none"
    BY <1>1, <1>3, <1>8, <2>2, TwoRefusals
  <2> QED
    BY <1>3, <1>8, <2>1, <2>2, <2>3 DEF Segmented, n
<1> QED
  BY <1>4, <1>5, <1>6, <1>7, <1>8 DEF Reads!Engines

\* What the decoders of fingerprints demand of record j.
FingerprintChecked(j) ==
    /\ reply[j].segment = ranges[j].id
    /\ Segmented => Reads!TopologyHolds(reply[j])
    /\ reply[j].invalid = 0 /\ reply[j].oversized = 0

(* The loop over fingerprints.                                             *)
LEMMA FingerprintsAreScanned ==
    ASSUME Len(reply) \in Nat, DOMAIN reply = 1 .. Len(reply), engine \in Reads!Engines
    PROVE  /\ Reads!FingerprintRefusal \in Kinds
           /\ Reads!FingerprintRefusal = "none"
                <=> Len(reply) = Len(ranges) /\ \A j \in 1 .. Len(reply) : FingerprintChecked(j)
<1> DEFINE n == Len(reply)
           status(j) == Reads!StatusRefusal(reply[j])
           m(j) == IF reply[j].segment # ranges[j].id THEN "lost" ELSE Reads!StatusRefusal(reply[j])
           p(j) == IF reply[j].segment # ranges[j].id THEN "invalid"
                   ELSE Reads!StatusRefusal(reply[j])
           g(j) == IF reply[j].segment # ranges[j].id THEN "invalid"
                   ELSE IF Reads!TopologyHolds(reply[j]) THEN Reads!StatusRefusal(reply[j])
                   ELSE "lost"
           mssql == [j \in DOMAIN reply |-> m(j)]
           postgres == [j \in DOMAIN reply |-> p(j)]
           greengage == [j \in DOMAIN reply |-> g(j)]
<1>0. /\ "invalid" \in Kinds /\ "limit" \in Kinds /\ "lost" \in Kinds /\ "none" \in Kinds
      /\ "invalid" # "none" /\ "limit" # "none" /\ "lost" # "none"
  BY DEF Kinds
<1>1. \A j : /\ Reads!StatusRefusal(reply[j]) \in Kinds
             /\ Reads!StatusRefusal(reply[j]) = "none"
                  <=> reply[j].invalid = 0 /\ reply[j].oversized = 0
  BY ONLY <1>0, Zenon DEF Reads!StatusRefusal
<1>2. \A j : m(j) \in Kinds /\ (~Segmented => (m(j) = "none" <=> FingerprintChecked(j)))
  BY ONLY <1>0, <1>1, Zenon DEF FingerprintChecked
<1>3. \A j : p(j) \in Kinds /\ (~Segmented => (p(j) = "none" <=> FingerprintChecked(j)))
  BY ONLY <1>0, <1>1, Zenon DEF FingerprintChecked
<1>4. \A j : g(j) \in Kinds /\ (Segmented => (g(j) = "none" <=> FingerprintChecked(j)))
  BY ONLY <1>0, <1>1, Zenon DEF FingerprintChecked
<1>5. /\ engine = "mssql" => Reads!FingerprintRefusal =
            IF n # Len(ranges) THEN "lost" ELSE Reads!FirstRefusal(mssql)
      /\ engine \in {"postgres", "clickhouse"} => Reads!FingerprintRefusal =
            IF n # Len(ranges) THEN "invalid" ELSE Reads!FirstRefusal(postgres)
      /\ engine \in {"greengage", "greenplum"} => Reads!FingerprintRefusal =
            IF n # Len(ranges) THEN "invalid" ELSE Reads!FirstRefusal(greengage)
  BY DEF Reads!FingerprintRefusal, Reads!MssqlFingerprintRefusal, Reads!PostgresFingerprintRefusal,
         Reads!ClickHouseFingerprintRefusal, Reads!GreengageFingerprintRefusal,
         Reads!OriginalGreenplumFingerprintRefusal, Reads!InRequestedOrder
<1> HIDE DEF m, p, g
<1>6. /\ DOMAIN mssql = 1 .. n /\ \A j \in 1 .. n : mssql[j] = m(j)
      /\ DOMAIN postgres = 1 .. n /\ \A j \in 1 .. n : postgres[j] = p(j)
      /\ DOMAIN greengage = 1 .. n /\ \A j \in 1 .. n : greengage[j] = g(j)
      /\ n \in Nat
  OBVIOUS
<1> HIDE DEF mssql, postgres, greengage, n
<1>7. /\ Reads!FirstRefusal(mssql) \in Kinds
      /\ Reads!FirstRefusal(mssql) = "none" <=> \A j \in 1 .. n : mssql[j] = "none"
  BY <1>2, <1>6, FirstRefusals
<1>8. /\ Reads!FirstRefusal(postgres) \in Kinds
      /\ Reads!FirstRefusal(postgres) = "none" <=> \A j \in 1 .. n : postgres[j] = "none"
  BY <1>3, <1>6, FirstRefusals
<1>9. /\ Reads!FirstRefusal(greengage) \in Kinds
      /\ Reads!FirstRefusal(greengage) = "none" <=> \A j \in 1 .. n : greengage[j] = "none"
  BY <1>4, <1>6, FirstRefusals
<1> DEFINE All == \A j \in 1 .. n : FingerprintChecked(j)
           F == Reads!FingerprintRefusal
<1> HIDE DEF F
<1>10. CASE engine = "mssql"
  <2>1. Reads!FirstRefusal(mssql) = "none" <=> All
    BY <1>2, <1>6, <1>7, <1>10 DEF Segmented
  <2>2. F = IF n # Len(ranges) THEN "lost" ELSE Reads!FirstRefusal(mssql)
    BY <1>5, <1>10 DEF F
  <2> HIDE DEF All
  <2>3. F \in Kinds /\ (F = "none" <=> n = Len(ranges) /\ All)
    BY ONLY <1>0, <1>7, <2>1, <2>2
  <2> QED
    BY <2>3 DEF F, All, n
<1>11. CASE engine \in {"postgres", "clickhouse"}
  <2>1. Reads!FirstRefusal(postgres) = "none" <=> All
    BY <1>3, <1>6, <1>8, <1>11 DEF Segmented
  <2>2. F = IF n # Len(ranges) THEN "invalid" ELSE Reads!FirstRefusal(postgres)
    BY <1>5, <1>11 DEF F
  <2> HIDE DEF All
  <2>3. F \in Kinds /\ (F = "none" <=> n = Len(ranges) /\ All)
    BY ONLY <1>0, <1>8, <2>1, <2>2
  <2> QED
    BY <2>3 DEF F, All, n
<1>12. CASE engine \in {"greengage", "greenplum"}
  <2>1. Reads!FirstRefusal(greengage) = "none" <=> All
    BY <1>4, <1>6, <1>9, <1>12 DEF Segmented
  <2>2. F = IF n # Len(ranges) THEN "invalid" ELSE Reads!FirstRefusal(greengage)
    BY <1>5, <1>12 DEF F
  <2> HIDE DEF All
  <2>3. F \in Kinds /\ (F = "none" <=> n = Len(ranges) /\ All)
    BY ONLY <1>0, <1>9, <2>1, <2>2
  <2> QED
    BY <2>3 DEF F, All, n
<1> QED
  BY <1>10, <1>11, <1>12 DEF Reads!Engines

(* The decoder of a summary.                                               *)
LEMMA SummariesAreScanned ==
    ASSUME engine \in Reads!Engines
    PROVE  /\ Reads!SummaryRefusal \in Kinds
           /\ Reads!SummaryRefusal = "none" <=> Len(reply) = 1 /\ Reads!SummaryPartitions(reply[1])
<1>0. /\ "invalid" \in Kinds /\ "lost" \in Kinds /\ "none" \in Kinds
      /\ "invalid" # "none" /\ "lost" # "none"
  BY DEF Kinds
<1>1. ASSUME NEW otherwise \in {"invalid", "lost"}
      PROVE  /\ Reads!OneRecord(otherwise) \in Kinds
             /\ Reads!OneRecord(otherwise) = "none"
                  <=> Len(reply) = 1 /\ Reads!SummaryPartitions(reply[1])
  <2>1. otherwise \in Kinds /\ otherwise # "none"
    BY <1>0
  <2> QED
    BY ONLY <1>0, <2>1, Zenon DEF Reads!OneRecord
<1>2. Reads!SummaryRefusal \in {Reads!OneRecord("invalid"), Reads!OneRecord("lost")}
  BY DEF Reads!SummaryRefusal, Reads!MssqlSummaryRefusal, Reads!PostgresSummaryRefusal,
         Reads!ClickHouseSummaryRefusal, Reads!GreengageSummaryRefusal,
         Reads!OriginalGreenplumSummaryRefusal, Reads!Engines
<1> QED
  BY <1>1, <1>2

(* What proves that the reply comes from the inspected relation.           *)
LEMMA ProvenanceIsChecked ==
    ASSUME engine \in Reads!Engines
    PROVE  /\ Reads!Provenance \in Kinds
           /\ Reads!Provenance = "none"
                <=> engine = "clickhouse"
                    \/ /\ \A j \in DOMAIN reply : reply[j].origin = "protected"
                       /\ Segmented \/ reply # <<>>
<1> DEFINE foreign == \E j \in DOMAIN reply : reply[j].origin # "protected"
<1>0. /\ "metadata" \in Kinds /\ "lost" \in Kinds /\ "none" \in Kinds
      /\ "metadata" # "none" /\ "lost" # "none"
  BY DEF Kinds
<1>1. /\ engine = "mssql" => Reads!Provenance = IF reply = <<>> \/ foreign THEN "lost" ELSE "none"
      /\ engine = "postgres" =>
            Reads!Provenance = IF reply = <<>> \/ foreign THEN "metadata" ELSE "none"
      /\ engine = "clickhouse" => Reads!Provenance = "none"
      /\ engine \in {"greengage", "greenplum"} =>
            Reads!Provenance = IF foreign THEN "lost" ELSE "none"
  BY DEF Reads!Provenance, Reads!MssqlProvenance, Reads!PostgresProvenance,
         Reads!GreengageProvenance, Reads!OriginalGreenplumProvenance
<1>2. ~foreign <=> \A j \in DOMAIN reply : reply[j].origin = "protected"
  OBVIOUS
<1> HIDE DEF foreign
<1> QED
  BY <1>0, <1>1, <1>2 DEF Reads!Engines, Segmented

-----------------------------------------------------------------------------
(* What is decoded of a reply that arrived as sent                         *)

\* The reply is a sequence, and without witnesses where ClickHouse answers with rows.
ReplyIsRead ==
    /\ Len(reply) \in Nat /\ DOMAIN reply = 1 .. Len(reply)
    /\ operation = "rows" => ReplyIsScanned

(* The steps of a decoder, which all of them take in this order.           *)
LEMMA RefusalsCombine ==
    ASSUME ReadArguments, ReplyIsRead
    PROVE  /\ Reads!Refusal \in Kinds
           /\ Reads!Refusal = "none"
                <=> /\ operation = "rows" => Len(reply) <= limit
                    /\ Reads!Provenance = "none"
                    /\ operation = "summary" => Reads!SummaryRefusal = "none"
                    /\ operation = "fingerprints" => Reads!FingerprintRefusal = "none"
                    /\ operation = "rows" => Reads!RowsRefusal = "none"
<1> DEFINE first == IF operation = "rows" /\ Len(reply) > limit THEN "limit" ELSE Reads!Provenance
           second == CASE operation = "summary" -> Reads!SummaryRefusal
                       [] operation = "fingerprints" -> Reads!FingerprintRefusal
                       [] operation = "rows" -> Reads!RowsRefusal
<1>1. /\ operation = "summary" \/ operation = "fingerprints" \/ operation = "rows"
      /\ engine \in Reads!Engines /\ (operation = "rows" => limit \in Nat)
  BY DEF ReadArguments, Reads!Operations
<1>2. Len(reply) \in Nat /\ DOMAIN reply = 1 .. Len(reply)
  BY DEF ReplyIsRead
<1>3. /\ Reads!Provenance \in Kinds /\ Reads!SummaryRefusal \in Kinds
      /\ Reads!FingerprintRefusal \in Kinds /\ (operation = "rows" => Reads!RowsRefusal \in Kinds)
  BY <1>1, <1>2, ProvenanceIsChecked, SummariesAreScanned, FingerprintsAreScanned, RowsAreScanned
  DEF ReplyIsRead
<1>4. Reads!Refusal = Reads!FirstRefusal(<<first, second>>)
  BY DEF Reads!Refusal
<1>5. /\ first \in Kinds
      /\ first = "none" <=> /\ operation = "rows" => Len(reply) <= limit
                            /\ Reads!Provenance = "none"
  <2>1. "limit" \in Kinds /\ "limit" # "none"
    BY DEF Kinds
  <2>2. operation = "rows" => (Len(reply) <= limit <=> ~(Len(reply) > limit))
    BY <1>1, <1>2
  <2> QED
    BY <1>3, <2>1, <2>2
<1>6. /\ operation = "summary" => second = Reads!SummaryRefusal
      /\ operation = "fingerprints" => second = Reads!FingerprintRefusal
      /\ operation = "rows" => second = Reads!RowsRefusal
  OBVIOUS
<1> HIDE DEF first, second
<1>7. second \in Kinds
  BY <1>1, <1>3, <1>6
<1>8. /\ Reads!FirstRefusal(<<first, second>>) \in Kinds
      /\ Reads!FirstRefusal(<<first, second>>) = "none" <=> first = "none" /\ second = "none"
  BY ONLY <1>5, <1>7, TwoRefusals
<1> QED
  BY <1>1, <1>4, <1>5, <1>6, <1>8

\* What a read means.
Means(v) ==
    /\ operation = "summary" => Reads!MeansSummary(v)
    /\ operation = "fingerprints" => Reads!MeansFingerprints(v)
    /\ operation = "rows" => Reads!MeansRows(v)

\* The decoder accepts a reply when there is an answer, and with what it means.
AnswersTruly ==
    /\ Reads!Refusal = "none" <=> Reads!Answerable
    /\ Reads!Refusal = "none" => Means(Reads!DecodedValue)

(* A summary.                                                              *)
LEMMA SummariesAnswer ==
    ASSUME ReadArguments, ReplyIsRead, operation = "summary", SaysSummary(reply)
    PROVE  AnswersTruly
<1>1. /\ Len(reply) = 1 /\ DOMAIN reply = {1} /\ reply[1].origin = "protected"
      /\ Reads!SummaryPartitions(reply[1]) /\ Reads!MeansSummary(Reads!SummaryFields(reply[1]))
  BY DEF SaysSummary
<1>2. Reads!SummaryRefusal = "none" /\ Reads!Provenance = "none"
  <2>1. reply # <<>>
    BY <1>1
  <2> QED
    BY <1>1, <2>1, SummariesAreScanned, ProvenanceIsChecked DEF ReadArguments
<1>3. Reads!Refusal = "none"
  BY <1>2, RefusalsCombine
<1>4. Reads!Answerable
  BY DEF Reads!Answerable
<1>5. Reads!DecodedValue = Reads!SummaryFields(reply[1])
  BY DEF Reads!DecodedValue
<1>6. Means(Reads!DecodedValue)
  <2>1. Reads!MeansSummary(Reads!DecodedValue)
    BY ONLY <1>1, <1>5
  <2> QED
    BY <2>1 DEF Means
<1> QED
  BY <1>3, <1>4, <1>6 DEF AnswersTruly

(* Fingerprints.                                                           *)
LEMMA FingerprintsAnswer ==
    ASSUME ReadArguments, RangesAreOrdered, ReplyIsRead, operation = "fingerprints",
           SaysFingerprints(reply)
    PROVE  AnswersTruly
<1> DEFINE n == Len(ranges)
<1>1. /\ n \in Nat \ {0} /\ DOMAIN ranges = 1 .. n /\ DOMAIN reply = 1 .. n
      /\ Len(reply) \in Nat /\ DOMAIN reply = 1 .. Len(reply)
  BY DEF RangesAreOrdered, SaysFingerprints, ReplyIsRead
<1>2. Len(reply) = n /\ reply # <<>>
  BY <1>1
<1>3. \A i \in 1 .. n : /\ Fingerprints(i, reply[i])
                        /\ Segmented => (Reads!TopologyHolds(reply[i]) <=> SeededOnce)
  BY DEF SaysFingerprints
<1>4. Reads!Provenance = "none"
  <2>1. \A i \in 1 .. n : reply[i].origin = "protected"
    BY <1>3 DEF Fingerprints
  <2> QED
    BY <1>1, <1>2, <2>1, ProvenanceIsChecked DEF ReadArguments
<1>5. ~Segmented => SeededOnce
  BY DEF ReadArguments, Segmented, SeededOnce
<1> DEFINE Fits(i) == \A r \in Reads!Selected(i) : Reads!AcceptedRow(r)
<1>6. \A i \in 1 .. n : /\ reply[i].segment = ranges[i].id
                        /\ (reply[i].invalid = 0 /\ reply[i].oversized = 0) <=> Fits(i)
                        /\ Fits(i) => /\ reply[i].count = Cardinality(Reads!Selected(i))
                                      /\ reply[i].sum = Reads!Once(Reads!Selected(i))
  BY <1>3 DEF Fingerprints
<1> HIDE DEF Fits
<1>7. \A i \in 1 .. n : FingerprintChecked(i) <=> SeededOnce /\ Fits(i)
  BY <1>3, <1>5, <1>6 DEF FingerprintChecked
<1>8. Reads!FingerprintRefusal = "none" <=> \A i \in 1 .. n : FingerprintChecked(i)
  <2> HIDE DEF n
  <2> QED
    BY <1>1, <1>2, FingerprintsAreScanned DEF ReadArguments, n
<1>9. Reads!Refusal = "none" <=> SeededOnce /\ \A i \in 1 .. n : Fits(i)
  <2>1. Reads!Refusal = "none" <=> Reads!FingerprintRefusal = "none"
    BY <1>4, RefusalsCombine
  <2>2. 1 \in 1 .. n
    BY <1>1
  <2> HIDE DEF n
  <2> QED
    BY <1>7, <1>8, <2>1, <2>2
<1>10. (\A i \in 1 .. n : Fits(i)) <=> \A r \in Reads!InSomeRange : Reads!AcceptedRow(r)
  <2>1. \A r : r \in Reads!InSomeRange <=> \E i \in 1 .. n : r \in Reads!Selected(i)
    BY <1>1 DEF Reads!InSomeRange
  <2> HIDE DEF n
  <2> QED
    BY ONLY <2>1, Zenon DEF Fits
<1>11. Reads!Answerable <=> SeededOnce /\ \A r \in Reads!InSomeRange : Reads!AcceptedRow(r)
  BY DEF Reads!Answerable, SeededOnce
<1>12. ASSUME \A i \in 1 .. n : Fits(i)
       PROVE  Means(Reads!DecodedValue)
  <2> DEFINE v == Reads!DecodedValue
  <2>1. v = [j \in 1 .. n |-> <<reply[j].segment, reply[j].count, reply[j].sum>>]
    BY <1>1 DEF Reads!DecodedValue
  <2>2. Len(v) = n /\ \A j \in 1 .. n : v[j] = <<reply[j].segment, reply[j].count, reply[j].sum>>
    <3> HIDE DEF v, n
    <3> QED
      BY ONLY <1>1, <2>1
  <2>3. \A i \in 1 .. n : v[i] = <<ranges[i].id, Cardinality(Reads!Selected(i)),
                                   Reads!Once(Reads!Selected(i))>>
    <3> HIDE DEF v, n
    <3> QED
      BY ONLY <1>6, <1>12, <2>2
  <2> HIDE DEF v
  <2>4. Reads!MeansFingerprints(v)
    BY <1>1, <2>2, <2>3, SameOperators DEF Reads!MeansFingerprints
  <2> QED
    BY <2>4 DEF Means, v
<1> HIDE DEF n
<1> QED
  BY <1>9, <1>10, <1>11, <1>12 DEF AnswersTruly

\* The data rows of the reply.
Data == {m \in DOMAIN reply : reply[m].data}

\* d lists them.
DataRows(d) ==
    /\ Cardinality(Data) \in Nat
    /\ Reads!DecodedValue = [j \in 1 .. Cardinality(Data) |->
                               <<reply[d[j]].segment, reply[d[j]].key, reply[d[j]].row>>]
    /\ \A j \in 1 .. Cardinality(Data) : d[j] \in Data
    /\ \A i, j \in 1 .. Cardinality(Data) : i < j => d[i] < d[j]
    /\ \A m \in Data : \E j \in 1 .. Cardinality(Data) : d[j] = m

(* Exact rows are decoded in the order of the reply.                       *)
LEMMA RowsAreDecoded ==
    ASSUME operation = "rows", ReplyIsRead
    PROVE  \E d : DataRows(d)
<1> DEFINE n == Cardinality(Data)
           R == {ab \in Data \X Data : ab[1] < ab[2]}
           up == [m \in Data |-> Cardinality(UpTo(R, Data, m))]
           P == {m \in DOMAIN reply : reply[m].data}
           place(j) == CHOOSE m \in P : Reads!Cardinality({k \in P : k <= m}) = j
           d == [j \in 1 .. n |-> place(j)]
           value(j) == <<reply[place(j)].segment, reply[place(j)].key, reply[place(j)].row>>
<1>1. P = Data
  BY DEF Data
<1>2. Data \in SUBSET (1 .. Len(reply)) /\ Len(reply) \in Nat
  BY DEF Data, ReplyIsRead
<1>3. IsFiniteSet(Data) /\ \A m \in Data : m \in Int
  <2>1. IsFiniteSet(1 .. Len(reply))
    BY <1>2, FS_Interval
  <2>2. IsFiniteSet(Data)
    BY <1>2, <2>1, FS_Subset
  <2>3. \A m \in Data : m \in Int
    BY <1>2
  <2> QED
    BY ONLY <2>2, <2>3
<1>4. \A k, m \in Data : <<k, m>> \in R <=> k < m
  <2>1. \A k, m \in Data : <<k, m>> \in Data \X Data /\ <<k, m>>[1] = k /\ <<k, m>>[2] = m
    OBVIOUS
  <2> QED
    BY <2>1
<1> HIDE DEF R
<1>5. IsOrder(R, Data)
  BY <1>3, <1>4 DEF IsOrder
<1>6. \A m \in Data : /\ up[m] = Cardinality(UpTo(R, Data, m))
                      /\ UpTo(R, Data, m) = {k \in Data : k <= m}
  <2>1. \A k, m \in Data : k <= m <=> <<m, k>> \notin R
    BY <1>3, <1>4
  <2> QED
    BY <2>1 DEF UpTo
<1> HIDE DEF up
<1>7. Ranks(R, Data, up)
  BY <1>3, <1>5, <1>6, Ranking
<1>8. n \in Nat
  BY <1>7 DEF Ranks
<1>9. Reads!DecodedValue = [j \in 1 .. n |-> value(j)]
  <2>1. Reads!DecodedValue = [j \in 1 .. Reads!Cardinality(P) |-> value(j)]
    BY Zenon DEF Reads!DecodedValue
  <2>2. Reads!Cardinality(P) = n
    BY <1>1, SameOperators
  <2> HIDE DEF P, n, value
  <2> QED
    BY ONLY <2>1, <2>2
<1>10. ASSUME NEW j \in 1 .. n
       PROVE  place(j) \in Data /\ up[place(j)] = j
  <2>1. PICK m \in Data : up[m] = j
    BY <1>7 DEF Ranks
  <2>2. \A k : Reads!Cardinality({l \in P : l <= k}) = Cardinality({l \in Data : l <= k})
    BY ONLY <1>1, SameOperators
  <2> HIDE DEF P
  <2>3. m \in P /\ Reads!Cardinality({k \in P : k <= m}) = j
    BY <1>1, <1>6, <2>1, <2>2
  <2>4. place(j) \in P /\ Reads!Cardinality({k \in P : k <= place(j)}) = j
    BY ONLY <2>3, Zenon
  <2> HIDE DEF place
  <2> QED
    BY <1>1, <1>6, <2>2, <2>4
<1> HIDE DEF P, place
<1>11. \A j \in 1 .. n : d[j] = place(j) /\ d[j] \in Data /\ up[d[j]] = j
  BY <1>10
<1>12. Reads!DecodedValue =
         [j \in 1 .. n |-> <<reply[d[j]].segment, reply[d[j]].key, reply[d[j]].row>>]
  <2>1. \A j \in 1 .. n : value(j) = <<reply[d[j]].segment, reply[d[j]].key, reply[d[j]].row>>
    BY <1>11
  <2> HIDE DEF value, d
  <2> QED
    BY ONLY <1>9, <2>1
<1> HIDE DEF d
<1>13. \A i, j \in 1 .. n : i < j => d[i] < d[j]
  <2>1. SUFFICES ASSUME NEW i \in 1 .. n, NEW j \in 1 .. n, i < j
                 PROVE  d[i] < d[j]
    OBVIOUS
  <2>2. d[i] \in Data /\ d[j] \in Data /\ up[d[i]] = i /\ up[d[j]] = j
    BY <1>11
  <2>3. up[d[i]] < up[d[j]]
    BY ONLY <2>1, <2>2
  <2>4. <<d[i], d[j]>> \in R
    BY <1>7, <2>2, <2>3 DEF Ranks
  <2> QED
    BY <1>4, <2>2, <2>4
<1>14. \A m \in Data : \E j \in 1 .. n : d[j] = m
  <2>1. SUFFICES ASSUME NEW m \in Data
                 PROVE  \E j \in 1 .. n : d[j] = m
    OBVIOUS
  <2>2. up[m] \in 1 .. n
    BY <1>7 DEF Ranks
  <2>3. d[up[m]] \in Data /\ up[d[up[m]]] = up[m]
    BY <1>11, <2>2
  <2>4. d[up[m]] = m
    BY <1>7, <2>3 DEF Ranks
  <2> QED
    BY <2>2, <2>4
<1>15. DataRows(d)
  BY <1>8, <1>11, <1>12, <1>13, <1>14 DEF DataRows
<1> QED
  BY <1>15

(* The data row before a row is the last one before it.                    *)
LEMMA PreviousRows ==
    ASSUME NEW j \in Int, NEW m \in Int, m < j, 1 <= m, reply[m].data,
           \A k \in 1 .. j - 1 : reply[k].data => k <= m
    PROVE  Reads!PreviousRow(j) = reply[m]
<1> DEFINE earlier == {k \in 1 .. j - 1 : reply[k].data}
<1>1. Reads!PreviousRow(j) =
        IF earlier = {} THEN Reads!FalseWitness ELSE reply[Max(earlier)]
  BY SameOperators DEF Reads!PreviousRow
<1>2. m \in earlier /\ earlier \subseteq Int /\ \A k \in earlier : k <= m
  OBVIOUS
<1>3. IsFiniteSet(earlier)
  <2>1. IsFiniteSet(1 .. j - 1)
    BY FS_Interval
  <2>2. earlier \in SUBSET (1 .. j - 1)
    OBVIOUS
  <2> HIDE DEF earlier
  <2> QED
    BY <2>1, <2>2, FS_Subset
<1> HIDE DEF earlier
<1>4. Max(earlier) \in earlier /\ \A k \in earlier : Max(earlier) >= k
  BY <1>2, <1>3, Extremes
<1>5. Max(earlier) = m
  <2> DEFINE last == Max(earlier)
  <2>1. last \in earlier /\ last >= m /\ last <= m /\ last \in Int
    <3>1. last \in earlier /\ last >= m
      BY <1>2, <1>4
    <3> HIDE DEF last
    <3> QED
      BY <1>2, <3>1
  <2> HIDE DEF last
  <2>2. last = m
    BY <2>1
  <2> QED
    BY <2>2 DEF last
<1> QED
  BY <1>1, <1>2, <1>5

\* What record j says: it names row n of range i, and repeats what the row is.
Names(j, i, n) ==
    /\ reply[j].data /\ reply[j].origin = "protected"
    /\ reply[j].segment = ranges[i].id /\ Reads!Ordinal(reply[j].segment) = i
    /\ reply[j].key = table[n].key /\ reply[j].row = n
    /\ reply[j].invalid <=> Reads!InvalidRow(n)
    /\ reply[j].oversized <=> Reads!OversizedRow(n)

(* Records in order are clean when their rows are accepted and no key is   *)
(* that of the record before.                                              *)
LEMMA OrderedRowsAreClean ==
    ASSUME ReadArguments, RangesAreOrdered, PairsAreTyped, OrderedData(reply),
           NEW N \in Nat, N = Cardinality(Reads!InSomeRange)
    PROVE  /\ \A j \in 1 .. N : Names(j, At(reply, j)[1], At(reply, j)[2])
           /\ \A j \in 1 .. N : RowChecked(reply[j], Reads!PreviousRow(j))
                <=> /\ Reads!AcceptedRow(At(reply, j)[2])
                    /\ j > 1 => table[At(reply, j)[2]].key # table[At(reply, j - 1)[2]].key
<1> DEFINE t(j) == At(reply, j)
<1>1. /\ DOMAIN reply = 1 .. N
      /\ \A j \in 1 .. N : t(j) \in Pairs /\ reply[j] = Reads!DataRow(t(j)[1], t(j)[2])
      /\ \A i, j \in 1 .. N : i < j => Reads!Before(t(i), t(j))
  BY DEF OrderedData
<1>2. \A o \in Pairs : /\ o[1] \in 1 .. Len(ranges) /\ o[1] \in Int
                       /\ table[o[2]].key \in Int
                       /\ Reads!InRange(table[o[2]].key, ranges[o[1]])
  BY DEF PairsAreTyped
<1>3. \A o, p \in Pairs : table[o[2]].key = table[p[2]].key => o[1] = p[1]
  BY DEF PairsAreTyped
<1> HIDE DEF t
<1>4. ASSUME NEW j \in 1 .. N
      PROVE  Names(j, t(j)[1], t(j)[2])
  <2> DEFINE i == t(j)[1]
             n == t(j)[2]
  <2>1. t(j) \in Pairs /\ reply[j] = Reads!DataRow(i, n)
    BY <1>1
  <2>2. i \in 1 .. Len(ranges)
    BY <1>2, <2>1
  <2> HIDE DEF i, n
  <2>3. Reads!Ordinal(ranges[i].id) = i
    BY <2>2, Ordinals
  <2> DEFINE inv == Reads!InvalidRow(n)
             over == Reads!OversizedRow(n)
             r == reply[j]
  <2>6. r = [origin |-> "protected", data |-> TRUE, segment |-> ranges[i].id,
             key |-> table[n].key, row |-> n, invalid |-> inv, oversized |-> over]
    BY <2>1 DEF Reads!DataRow
  <2> HIDE DEF inv, over, r
  <2>7. r.origin = "protected" /\ r.segment = ranges[i].id /\ r.key = table[n].key /\ r.row = n
    BY ONLY <2>6
  <2>8. r.data = TRUE /\ r.invalid = inv /\ r.oversized = over
    BY ONLY <2>6, Zenon
  <2>4. /\ reply[j].data /\ reply[j].origin = "protected"
        /\ reply[j].segment = ranges[i].id /\ reply[j].key = table[n].key /\ reply[j].row = n
        /\ reply[j].invalid = Reads!InvalidRow(n) /\ reply[j].oversized = Reads!OversizedRow(n)
    BY ONLY <2>7, <2>8, Zenon DEF r, inv, over
  <2>5. Names(j, i, n)
    BY ONLY <2>3, <2>4, Zenon DEF Names
  <2> QED
    BY <2>5 DEF i, n
<1>5. ASSUME NEW j \in 1 .. N, j > 1
      PROVE  Reads!PreviousRow(j) = reply[j - 1]
  <2>1. j - 1 \in 1 .. N /\ j - 1 \in Int /\ j \in Int /\ j - 1 < j /\ 1 <= j - 1
    BY <1>5
  <2>2. reply[j - 1].data
    BY <1>4, <2>1 DEF Names
  <2>3. \A k \in 1 .. j - 1 : reply[k].data => k <= j - 1
    BY <2>1
  <2> DEFINE m == j - 1
  <2>4. m \in Int /\ m < j /\ 1 <= m /\ reply[m].data /\ \A k \in 1 .. j - 1 : reply[k].data => k <= m
    BY <2>1, <2>2, <2>3
  <2> HIDE DEF m
  <2>5. Reads!PreviousRow(j) = reply[m]
    BY <2>1, <2>4, PreviousRows
  <2> QED
    BY <2>5 DEF m
<1>6. Reads!PreviousRow(1) = Reads!FalseWitness
  <2>1. {k \in 1 .. 1 - 1 : reply[k].data} = {}
    OBVIOUS
  <2> QED
    BY <2>1, Zenon DEF Reads!PreviousRow
<1>7. ASSUME NEW j \in 1 .. N
      PROVE  /\ ~Reads!Unrequested(reply[j]) /\ ~Reads!KeyDisagrees(reply[j])
             /\ ~Reads!OutOfRange(reply[j])
             /\ (~reply[j].invalid /\ ~reply[j].oversized) <=> Reads!AcceptedRow(t(j)[2])
  <2>1. Names(j, t(j)[1], t(j)[2]) /\ t(j) \in Pairs
    BY <1>1, <1>4
  <2>2. /\ t(j)[1] # 0 /\ Reads!InRange(table[t(j)[2]].key, ranges[t(j)[1]])
    BY <1>2, <2>1
  <2>3. /\ ~Reads!Unrequested(reply[j]) /\ ~Reads!KeyDisagrees(reply[j])
        /\ ~Reads!OutOfRange(reply[j])
    BY ONLY <2>1, <2>2, Zenon
    DEF Names, Reads!Unrequested, Reads!KeyDisagrees, Reads!OutOfRange
  <2>4. (~reply[j].invalid /\ ~reply[j].oversized) <=> Reads!AcceptedRow(t(j)[2])
    BY ONLY <2>1, Zenon DEF Names, Reads!AcceptedRow
  <2> QED
    BY ONLY <2>3, <2>4
<1>8. ASSUME NEW j \in 1 .. N, j > 1
      PROVE  /\ ~Reads!SegmentBack(reply[j], reply[j - 1])
             /\ Reads!KeyNotAbove(reply[j], reply[j - 1])
                  <=> table[t(j)[2]].key = table[t(j - 1)[2]].key
  <2> DEFINE o == t(j - 1)
             p == t(j)
             r == reply[j]
             q == reply[j - 1]
  <2>1. j - 1 \in 1 .. N /\ j - 1 < j
    BY <1>8
  <2>2. /\ o \in Pairs /\ p \in Pairs /\ Reads!Before(o, p)
        /\ Names(j, p[1], p[2]) /\ Names(j - 1, o[1], o[2])
    BY <1>1, <1>4, <2>1
  <2>3. /\ q.data /\ Reads!Ordinal(r.segment) = p[1] /\ Reads!Ordinal(q.segment) = o[1]
        /\ r.segment = ranges[p[1]].id /\ q.segment = ranges[o[1]].id
        /\ r.key = table[p[2]].key /\ q.key = table[o[2]].key
    BY <2>2 DEF Names
  <2> DEFINE a == table[p[2]].key
             b == table[o[2]].key
             x == p[1]
             y == o[1]
  <2>4. /\ a \in Int /\ b \in Int /\ x \in Int /\ y \in Int
        /\ y < x \/ (y = x /\ b <= a)
    <3>1. a \in Int /\ b \in Int /\ x \in Int /\ y \in Int
      BY <1>2, <2>2
    <3>2. y < x \/ (y = x /\ b < a) \/ (y = x /\ b = a)
      BY <2>2 DEF Reads!Before
    <3> HIDE DEF a, b, x, y
    <3> QED
      BY ONLY <3>1, <3>2
  <2>5. a = b => x = y
    BY <1>3, <2>2
  <2>6. r.segment = q.segment <=> x = y
    <3>1. (r.segment = q.segment => Reads!Ordinal(r.segment) = Reads!Ordinal(q.segment))
      OBVIOUS
    <3> QED
      BY ONLY <2>3, <3>1
  <2>7. /\ Reads!SegmentBack(r, q) <=> x < y
        /\ Reads!KeyNotAbove(r, q) <=> x = y /\ a <= b
    BY <2>3, <2>6 DEF Reads!SegmentBack, Reads!KeyNotAbove
  <2> HIDE DEF a, b, x, y, r, q
  <2>8. ~Reads!SegmentBack(r, q) /\ (Reads!KeyNotAbove(r, q) <=> a = b)
    BY ONLY <2>4, <2>5, <2>7
  <2> QED
    BY <2>8 DEF a, b, r, q
<1>9. ASSUME NEW j \in 1 .. N
      PROVE  RowChecked(reply[j], Reads!PreviousRow(j))
               <=> /\ Reads!AcceptedRow(t(j)[2])
                   /\ j > 1 => table[t(j)[2]].key # table[t(j - 1)[2]].key
  <2>0. reply[j].data
    BY <1>4 DEF Names
  <2>1. RowChecked(reply[j], Reads!PreviousRow(j)) <=> Clean(reply[j], Reads!PreviousRow(j))
    BY ONLY <2>0, Zenon DEF RowChecked
  <2>2. CASE j > 1
    <3>1. Reads!PreviousRow(j) = reply[j - 1]
      BY <1>5, <2>2
    <3>2. /\ ~Reads!SegmentBack(reply[j], reply[j - 1])
          /\ Reads!KeyNotAbove(reply[j], reply[j - 1])
               <=> table[t(j)[2]].key = table[t(j - 1)[2]].key
      BY <1>8, <2>2
    <3>3. Clean(reply[j], reply[j - 1])
            <=> Reads!AcceptedRow(t(j)[2]) /\ table[t(j)[2]].key # table[t(j - 1)[2]].key
      BY ONLY <1>7, <3>2, Zenon DEF Clean
    <3> QED
      BY ONLY <2>1, <2>2, <3>1, <3>3
  <2>3. CASE ~ j > 1
    <3>1. j = 1
      BY <2>3
    <3>2. Reads!PreviousRow(j) = Reads!FalseWitness
      BY <1>6, <3>1
    <3>3. ~Reads!FalseWitness.data
      BY Zenon DEF Reads!FalseWitness
    <3>4. Clean(reply[j], Reads!FalseWitness) <=> Reads!AcceptedRow(t(j)[2])
      BY ONLY <1>7, <3>3, Zenon DEF Clean, Reads!SegmentBack, Reads!KeyNotAbove
    <3> QED
      BY ONLY <2>1, <2>3, <3>2, <3>4
  <2> QED
    BY <2>2, <2>3
<1> QED
  BY <1>4, <1>9 DEF t

(* No key repeats when none repeats from one record to the next.           *)
LEMMA RepeatedKeysAreNeighbours ==
    ASSUME PairsAreTyped, OrderedData(reply), NEW N \in Nat, N = Cardinality(Reads!InSomeRange)
    PROVE  KeysDiffer(Reads!InSomeRange)
             <=> \A j \in 1 .. N : j > 1 =>
                    table[At(reply, j)[2]].key # table[At(reply, j - 1)[2]].key
<1> DEFINE t(j) == At(reply, j)
           key(j) == table[t(j)[2]].key
           first(j) == t(j)[1]
           second(j) == t(j)[2]
<1>1. /\ \A j \in 1 .. N : t(j) \in Pairs
      /\ \A i, j \in 1 .. N : i < j => Reads!Before(t(i), t(j))
      /\ \A o \in Pairs : \E j \in 1 .. N : t(j) = o
  BY DEF OrderedData
<1> HIDE DEF t
<1>2. \A j \in 1 .. N : /\ first(j) \in Int /\ second(j) \in Int /\ key(j) \in Int
                        /\ second(j) \in Reads!InSomeRange
  BY <1>1 DEF PairsAreTyped
<1>3. \A i, j \in 1 .. N : key(i) = key(j) => first(i) = first(j)
  BY <1>1 DEF PairsAreTyped
<1>4. \A i, j \in 1 .. N : i < j =>
         \/ first(i) < first(j)
         \/ first(i) = first(j) /\ key(i) < key(j)
         \/ first(i) = first(j) /\ key(i) = key(j) /\ second(i) < second(j)
  BY <1>1 DEF Reads!Before
<1>5. \A n \in Reads!InSomeRange : \E j \in 1 .. N : second(j) = n
  <2>1. SUFFICES ASSUME NEW n \in Reads!InSomeRange
                 PROVE  \E j \in 1 .. N : second(j) = n
    OBVIOUS
  <2>2. PICK o \in Pairs : o[2] = n
    BY DEF PairsAreTyped
  <2>3. PICK j \in 1 .. N : t(j) = o
    BY <1>1
  <2> QED
    BY <2>2, <2>3
<1>6. \A i, j \in 1 .. N : key(i) = table[second(i)].key
  OBVIOUS
<1>7. ASSUME KeysDiffer(Reads!InSomeRange), NEW j \in 1 .. N, j > 1
      PROVE  key(j) # key(j - 1)
  <2>1. j - 1 \in 1 .. N /\ j - 1 < j
    BY <1>7
  <2>2. key(j) = key(j - 1) => second(j) = second(j - 1)
    BY <1>2, <1>7, <2>1 DEF KeysDiffer
  <2> HIDE DEF key, first, second
  <2>3. ASSUME key(j) = key(j - 1)
        PROVE  FALSE
    <3>1. second(j) = second(j - 1) /\ first(j) = first(j - 1)
      BY <1>3, <2>1, <2>2, <2>3
    <3>2. /\ first(j) \in Int /\ second(j) \in Int /\ key(j) \in Int
          /\ \/ first(j - 1) < first(j)
             \/ key(j - 1) < key(j)
             \/ second(j - 1) < second(j)
      BY <1>2, <1>4, <2>1
    <3> QED
      BY ONLY <2>3, <3>1, <3>2
  <2> QED
    BY <2>3
<1>8. ASSUME NEW i \in 1 .. N, NEW j \in 1 .. N, i < j, key(i) = key(j)
      PROVE  key(i + 1) = key(i) /\ i + 1 \in 1 .. N
  <2>1. i + 1 \in 1 .. N /\ i < i + 1 /\ (i + 1 = j \/ i + 1 < j)
    BY <1>8
  <2> HIDE DEF key, first, second
  <2>2. first(i) = first(j)
    BY <1>3, <1>8
  <2>3. CASE i + 1 = j
    BY <1>8, <2>1, <2>3
  <2>4. CASE i + 1 < j
    <3> DEFINE k == i + 1
    <3>1. k \in 1 .. N /\ i < k /\ k < j
      BY <2>1, <2>4
    <3> HIDE DEF k
    <3>2. /\ first(i) \in Int /\ key(i) \in Int /\ first(k) \in Int /\ key(k) \in Int
          /\ first(j) \in Int /\ key(j) \in Int
      BY <1>2, <3>1
    <3>3. /\ first(i) < first(k) \/ (first(i) = first(k) /\ key(i) <= key(k))
          /\ first(k) < first(j) \/ (first(k) = first(j) /\ key(k) <= key(j))
      BY <1>4, <3>1, <3>2
    <3>4. key(k) = key(i)
      BY ONLY <1>8, <2>2, <3>2, <3>3
    <3> QED
      BY <2>1, <3>4 DEF k
  <2> QED
    BY <2>1, <2>3, <2>4
<1>9. ASSUME \A j \in 1 .. N : j > 1 => key(j) # key(j - 1)
      PROVE  KeysDiffer(Reads!InSomeRange)
  <2>1. SUFFICES ASSUME NEW m \in Reads!InSomeRange, NEW n \in Reads!InSomeRange,
                        table[m].key = table[n].key, m # n
                 PROVE  FALSE
    BY DEF KeysDiffer
  <2>2. PICK i \in 1 .. N : second(i) = m
    BY <1>5
  <2>3. PICK j \in 1 .. N : second(j) = n
    BY <1>5
  <2>4. key(i) = key(j) /\ i # j
    BY <2>1, <2>2, <2>3
  <2> HIDE DEF key, first, second
  <2>5. \E k \in 1 .. N : key(k + 1) = key(k) /\ k + 1 \in 1 .. N
    <3>1. i < j \/ j < i
      BY <2>4
    <3> QED
      BY <1>8, <2>4, <3>1
  <2>6. PICK k \in 1 .. N : key(k + 1) = key(k) /\ k + 1 \in 1 .. N
    BY <2>5
  <2> DEFINE l == k + 1
  <2>7. l \in 1 .. N /\ l > 1 /\ l - 1 = k /\ key(l) = key(k)
    BY <2>6
  <2> HIDE DEF l
  <2>8. key(l) # key(l - 1)
    BY <1>9, <2>7
  <2> QED
    BY ONLY <2>7, <2>8
<1> HIDE DEF key
<1>10. KeysDiffer(Reads!InSomeRange) <=> \A j \in 1 .. N : j > 1 => key(j) # key(j - 1)
  BY <1>7, <1>9
<1> QED
  BY <1>10 DEF key, t

(* Exact rows.                                                             *)
LEMMA RowsAnswer ==
    ASSUME ReadArguments, RowsAreTyped, RangesAreOrdered, ReplyIsRead, operation = "rows",
           SaysRows(reply)
    PROVE  AnswersTruly
<1> DEFINE S == Reads!InSomeRange
           N == Cardinality(S)
<1>1. PairsAreTyped
  BY PairsAreRows
<1>2. IsFiniteSet(S) /\ N \in Nat /\ (N = 0 <=> S = {})
  <2> DEFINE source == [i \in 1 .. Len(ranges) |-> Reads!Selected(i)]
  <2>1. \A i \in 1 .. Len(ranges) : source[i] = Reads!Selected(i)
    OBVIOUS
  <2> HIDE DEF source
  <2>2. N \in Nat /\ IsFiniteSet(S)
    BY <2>1, RowsAreOrdered
  <2> QED
    BY <2>2, FS_EmptySet
<1>3. /\ Len(reply) \in Nat /\ DOMAIN reply = 1 .. Len(reply) /\ ReplyIsScanned
      /\ limit \in Nat \ {0} /\ engine \in Reads!Engines
  BY DEF ReplyIsRead, ReadArguments
<1>4. Reads!Answerable <=> /\ \A n \in S : Reads!AcceptedRow(n)
                           /\ N <= limit /\ KeysDiffer(S)
  <2>1. Reads!Answerable <=> /\ \A n \in S : Reads!AcceptedRow(n)
                             /\ Cardinality(S) <= limit
                             /\ Cardinality(Reads!KeysOf(S)) = Cardinality(S)
    BY SameOperators DEF Reads!Answerable
  <2>2. Cardinality(Reads!KeysOf(S)) = Cardinality(S) <=> KeysDiffer(S)
    BY <1>2, KeysAreFew
  <2> QED
    BY <2>1, <2>2
<1>5. Reads!Refusal = "none"
        <=> /\ Len(reply) <= limit /\ Reads!Provenance = "none" /\ Reads!RowsRefusal = "none"
  BY RefusalsCombine
<1>6. Reads!RowsRefusal = "none"
        <=> /\ \A j \in 1 .. Len(reply) : RowChecked(reply[j], Reads!PreviousRow(j))
            /\ Segmented => Reads!WitnessesCounted
  BY <1>3, RowsAreScanned
<1>7. CASE ~ N <= limit
  <2>1. Len(reply) > limit
    BY <1>7 DEF SaysRows
  <2>2. ~ Len(reply) <= limit
    BY <1>3, <2>1
  <2> QED
    BY <1>4, <1>5, <1>7, <2>2 DEF AnswersTruly
<1>8. CASE N <= limit /\ S = {} /\ engine # "clickhouse"
  <2>1. reply = <<Reads!FalseWitness>>
    BY <1>8 DEF SaysRows
  <2>2. /\ Len(reply) = 1 /\ reply[1] = Reads!FalseWitness /\ DOMAIN reply = {1} /\ reply # <<>>
        /\ 1 .. Len(reply) = {1}
    BY <2>1
  <2>3. ~Reads!FalseWitness.data /\ Reads!FalseWitness.origin = "protected"
    BY Zenon DEF Reads!FalseWitness
  <2>4. Reads!Provenance = "none"
    BY <1>3, <2>2, <2>3, ProvenanceIsChecked
  <2>5. RowChecked(reply[1], Reads!PreviousRow(1))
    BY ONLY <2>2, <2>3, Zenon DEF RowChecked
  <2>6. Reads!WitnessesCounted
    <3>1. {j \in DOMAIN reply : ~reply[j].data} = {1}
      BY <2>2, <2>3
    <3>2. Reads!Cardinality({j \in DOMAIN reply : ~reply[j].data}) = 1
      BY <3>1, SameOperators, FS_Singleton
    <3> QED
      BY ONLY <2>2, <3>2 DEF Reads!WitnessesCounted
  <2>7. Reads!Refusal = "none"
    BY <1>3, <1>5, <1>6, <2>2, <2>4, <2>5, <2>6
  <2>8. Reads!Answerable
    BY <1>4, <1>8 DEF KeysDiffer
  <2>9. Means(Reads!DecodedValue)
    <3>1. PICK d : DataRows(d)
      BY RowsAreDecoded
    <3>2. Data = {}
      BY <2>2, <2>3 DEF Data
    <3>3. Cardinality(Data) = 0
      BY <3>2, FS_EmptySet
    <3> DEFINE v == Reads!DecodedValue
    <3>4. v = [j \in 1 .. 0 |-> <<reply[d[j]].segment, reply[d[j]].key, reply[d[j]].row>>]
      BY <3>1, <3>3 DEF DataRows
    <3> HIDE DEF v
    <3>5. Len(v) = 0 /\ DOMAIN v = {}
      BY ONLY <3>4
    <3>6. {v[j][3] : j \in DOMAIN v} = {}
      BY ONLY <3>5
    <3>7. Reads!Cardinality(S) = 0
      BY <1>2, <1>8, SameOperators
    <3> HIDE DEF S
    <3>8. Reads!MeansRows(v)
      BY ONLY <1>8, <3>5, <3>6, <3>7 DEF Reads!MeansRows, S
    <3>9. Means(v)
      BY <3>8 DEF Means
    <3> QED
      BY <3>9 DEF v
  <2> QED
    BY <2>7, <2>8, <2>9 DEF AnswersTruly
<1>9. CASE N <= limit /\ ~(S = {} /\ engine # "clickhouse")
  <2> DEFINE t(j) == At(reply, j)
  <2>1. OrderedData(reply)
    BY <1>9 DEF SaysRows
  <2>2. DOMAIN reply = 1 .. N /\ Len(reply) = N
    <3>1. DOMAIN reply = 1 .. N
      BY <2>1 DEF OrderedData
    <3> HIDE DEF N
    <3> DEFINE n == Len(reply)
    <3>2. n \in Nat /\ N \in Nat /\ 1 .. n = 1 .. N
      BY <1>2, <1>3, <3>1
    <3> HIDE DEF n
    <3>3. (n \in 1 .. n => n \in 1 .. N) /\ (N \in 1 .. N => N \in 1 .. n)
      BY ONLY <3>2
    <3>4. n = N
      BY ONLY <3>2, <3>3
    <3> QED
      BY <3>1, <3>4 DEF n
  <2>3. /\ \A j \in 1 .. N : Names(j, t(j)[1], t(j)[2])
        /\ \A j \in 1 .. N : RowChecked(reply[j], Reads!PreviousRow(j))
                <=> /\ Reads!AcceptedRow(t(j)[2])
                    /\ j > 1 => table[t(j)[2]].key # table[t(j - 1)[2]].key
    BY <1>1, <1>2, <2>1, OrderedRowsAreClean
  <2>4. KeysDiffer(S) <=> \A j \in 1 .. N : j > 1 => table[t(j)[2]].key # table[t(j - 1)[2]].key
    BY <1>1, <1>2, <2>1, RepeatedKeysAreNeighbours
  <2>5. /\ \A j \in 1 .. N : t(j) \in Pairs
        /\ \A o \in Pairs : \E j \in 1 .. N : t(j) = o
    BY <2>1, <2>2 DEF OrderedData
  <2> HIDE DEF t
  <2>6. /\ \A j \in 1 .. N : t(j)[2] \in S /\ t(j)[2] \in Reads!Selected(t(j)[1])
        /\ \A n \in S : \E j \in 1 .. N : t(j)[2] = n
    <3>1. /\ \A o \in Pairs : o[2] \in S /\ o[2] \in Reads!Selected(o[1])
          /\ \A n \in S : \E o \in Pairs : o[2] = n
      BY <1>1 DEF PairsAreTyped
    <3> HIDE DEF S
    <3>2. \A n \in S : \E j \in 1 .. N : t(j)[2] = n
      <4>1. SUFFICES ASSUME NEW n \in S
                     PROVE  \E j \in 1 .. N : t(j)[2] = n
        OBVIOUS
      <4>2. PICK o \in Pairs : o[2] = n
        BY <3>1
      <4>3. PICK j \in 1 .. N : t(j) = o
        BY <2>5
      <4> QED
        BY <4>2, <4>3
    <3> QED
      BY ONLY <2>5, <3>1, <3>2
  <2>7. \A j \in 1 .. N : reply[j].data /\ reply[j].origin = "protected"
    BY <2>3 DEF Names
  <2>8. Reads!Provenance = "none"
    <3>1. Segmented \/ reply # <<>> \/ engine = "clickhouse"
      <4>1. N = 0 => engine = "clickhouse"
        BY <1>2, <1>9
      <4> HIDE DEF N
      <4>2. reply = <<>> => N = 0
        BY <2>2
      <4> QED
        BY <4>1, <4>2
    <3> HIDE DEF N, S
    <3> QED
      BY <1>3, <2>2, <2>7, <3>1, ProvenanceIsChecked
  <2>9. Segmented => Reads!WitnessesCounted
    <3>1. SUFFICES ASSUME Segmented PROVE Reads!WitnessesCounted
      OBVIOUS
    <3>2. N # 0
      BY <1>2, <1>9, <3>1 DEF Segmented
    <3> HIDE DEF N
    <3>3. {j \in DOMAIN reply : ~reply[j].data} = {}
      BY <2>2, <2>7
    <3>4. Reads!Cardinality({j \in DOMAIN reply : ~reply[j].data}) = 0
      BY <3>3, SameOperators, FS_EmptySet
    <3>5. 0 < Len(reply)
      BY <1>2, <2>2, <3>2
    <3> QED
      BY ONLY <3>4, <3>5 DEF Reads!WitnessesCounted
  <2>10. Reads!Refusal = "none" <=> (\A n \in S : Reads!AcceptedRow(n)) /\ KeysDiffer(S)
    <3> HIDE DEF N, S
    <3>1. Len(reply) <= limit
      BY <1>9, <2>2
    <3>2. Reads!Refusal = "none"
            <=> \A j \in 1 .. N : RowChecked(reply[j], Reads!PreviousRow(j))
      BY <1>5, <1>6, <2>2, <2>8, <2>9, <3>1
    <3>3. (\A n \in S : Reads!AcceptedRow(n)) <=> \A j \in 1 .. N : Reads!AcceptedRow(t(j)[2])
      BY ONLY <2>6, Zenon
    <3> QED
      BY ONLY <2>3, <2>4, <3>2, <3>3, Zenon
  <2>11. Reads!Refusal = "none" <=> Reads!Answerable
    BY <1>4, <1>9, <2>10
  <2>12. Means(Reads!DecodedValue)
    <3>1. PICK d : DataRows(d)
      BY RowsAreDecoded
    <3> DEFINE v == Reads!DecodedValue
    <3>2. Data = 1 .. N
      BY <2>2, <2>7 DEF Data
    <3>3. Cardinality(Data) = N
      <4> HIDE DEF N
      <4>1. Cardinality(1 .. N) = IF 1 > N THEN 0 ELSE N - 1 + 1
        BY <1>2, FS_Interval
      <4> QED
        BY <1>2, <3>2, <4>1
    <3> HIDE DEF N, S, v
    <3>4. /\ v = [j \in 1 .. N |-> <<reply[d[j]].segment, reply[d[j]].key, reply[d[j]].row>>]
          /\ \A j \in 1 .. N : d[j] \in 1 .. N
          /\ \A m \in 1 .. N : \E j \in 1 .. N : d[j] = m
      BY <3>1, <3>2, <3>3 DEF DataRows, v
    <3>5. \A j \in 1 .. N : /\ reply[j].row = t(j)[2] /\ reply[j].key = table[t(j)[2]].key
                            /\ Reads!Ordinal(reply[j].segment) = t(j)[1]
      BY <2>3 DEF Names
    <3>6. Len(v) = N /\ DOMAIN v = 1 .. N
      BY ONLY <1>2, <3>4
    <3>7. \A j \in 1 .. N : /\ v[j][1] = reply[d[j]].segment /\ v[j][2] = reply[d[j]].key
                            /\ v[j][3] = reply[d[j]].row
      BY ONLY <3>4
    <3>8. \A j \in 1 .. N : /\ v[j][3] = t(d[j])[2] /\ v[j][2] = table[t(d[j])[2]].key
                            /\ Reads!Ordinal(v[j][1]) = t(d[j])[1]
      BY ONLY <3>4, <3>5, <3>7, Zenon
    <3>9. {v[j][3] : j \in DOMAIN v} = S
      <4>1. \A j \in 1 .. N : v[j][3] \in S
        BY ONLY <2>6, <3>4, <3>8
      <4>2. \A n \in S : \E j \in 1 .. N : v[j][3] = n
        <5>1. SUFFICES ASSUME NEW n \in S
                       PROVE  \E j \in 1 .. N : v[j][3] = n
          OBVIOUS
        <5>2. PICK m \in 1 .. N : t(m)[2] = n
          BY <2>6
        <5>3. PICK j \in 1 .. N : d[j] = m
          BY <3>4
        <5> QED
          BY <3>8, <5>2, <5>3
      <4> QED
        BY ONLY <3>6, <4>1, <4>2
    <3>10. \A j \in 1 .. N : /\ v[j][2] = table[v[j][3]].key
                             /\ v[j][3] \in Reads!Selected(Reads!Ordinal(v[j][1]))
      <4> HIDE DEF t
      <4> SUFFICES ASSUME NEW j \in 1 .. N
                   PROVE  /\ v[j][2] = table[v[j][3]].key
                          /\ v[j][3] \in Reads!Selected(Reads!Ordinal(v[j][1]))
        OBVIOUS
      <4>1. d[j] \in 1 .. N
        BY <3>4
      <4>2. t(d[j])[2] \in Reads!Selected(t(d[j])[1])
        BY ONLY <2>6, <4>1
      <4>3. /\ v[j][3] = t(d[j])[2] /\ v[j][2] = table[t(d[j])[2]].key
            /\ Reads!Ordinal(v[j][1]) = t(d[j])[1]
        BY ONLY <3>8
      <4> QED
        BY ONLY <4>2, <4>3
    <3>11. Reads!Cardinality(S) = N
      BY SameOperators DEF N
    <3>12. Reads!MeansRows(v)
      BY ONLY <3>6, <3>9, <3>10, <3>11 DEF Reads!MeansRows, S
    <3>13. Means(v)
      BY <3>12 DEF Means
    <3> QED
      BY <3>13 DEF v
  <2> QED
    BY <2>11, <2>12 DEF AnswersTruly
<1> QED
  BY <1>7, <1>8, <1>9

(* Of a reply that arrived as sent, each engine decodes what was asked.    *)
LEMMA RepliesAnswer ==
    ASSUME ReadArguments, ReplyIsRead, Says(reply)
    PROVE  AnswersTruly
<1>1. RowsAreTyped /\ RangesAreOrdered
  BY Relations, RangesFollow DEF ReadArguments
<1>2. operation = "summary" \/ operation = "fingerprints" \/ operation = "rows"
  BY DEF ReadArguments, Reads!Operations
<1>3. CASE operation = "summary"
  BY <1>3, SummariesAnswer DEF Says
<1>4. CASE operation = "fingerprints"
  BY <1>1, <1>4, FingerprintsAnswer DEF Says
<1>5. CASE operation = "rows"
  BY <1>1, <1>5, RowsAnswer DEF Says
<1> QED
  BY <1>2, <1>3, <1>4, <1>5

-----------------------------------------------------------------------------
(* What is accepted of any reply                                           *)

\* What AcceptedReadsAreWellFormed asks of an accepted value.
WellFormed(v) ==
    /\ operation = "summary" => v[1] = v[2] + v[3] + v[4] /\ v[5] <= v[4]
    /\ operation = "fingerprints" =>
          Len(v) = Len(ranges) /\ \A i \in DOMAIN v : v[i][1] = ranges[i].id
    /\ operation = "rows" =>
          /\ \A j \in DOMAIN v : /\ v[j][2] = table[v[j][3]].key
                                 /\ Reads!InRange(v[j][2], ranges[Reads!Ordinal(v[j][1])])
                                 /\ Reads!AcceptedRow(v[j][3])
          /\ \A i, j \in DOMAIN v : i < j =>
                \/ Reads!Ordinal(v[i][1]) < Reads!Ordinal(v[j][1])
                \/ v[i][1] = v[j][1] /\ v[i][2] < v[j][2]
          /\ engine # "clickhouse" => reply # <<>>

(* What relates neighbours, and is transitive, relates all before to all   *)
(* after them.                                                             *)
LEMMA StepsChain ==
    ASSUME NEW n \in Nat, NEW R, \A j \in 2 .. n : <<j - 1, j>> \in R,
           \A i, j, k \in 1 .. n : <<i, j>> \in R /\ <<j, k>> \in R => <<i, k>> \in R
    PROVE  \A i, j \in 1 .. n : i < j => <<i, j>> \in R
<1> DEFINE G == {d \in Nat : \A i, j \in 1 .. n : i < j /\ j <= i + d => <<i, j>> \in R}
<1>1. 0 \in G
  OBVIOUS
<1>2. ASSUME NEW d \in Nat, d \in G
      PROVE  d + 1 \in G
  <2>1. ASSUME NEW i \in 1 .. n, NEW j \in 1 .. n, i < j, j <= i + (d + 1)
        PROVE  <<i, j>> \in R
    <3>1. j \in 2 .. n /\ j - 1 \in 1 .. n
      BY <2>1
    <3>2. <<j - 1, j>> \in R
      BY <3>1
    <3>3. CASE i = j - 1
      BY <3>2, <3>3
    <3>4. CASE i # j - 1
      <4> DEFINE k == j - 1
      <4>1. k \in 1 .. n /\ i < k /\ k <= i + d /\ <<k, j>> \in R
        BY <2>1, <3>1, <3>2, <3>4
      <4> HIDE DEF k
      <4>2. <<i, k>> \in R
        BY <1>2, <4>1
      <4> QED
        BY <4>1, <4>2
    <3> QED
      BY <3>3, <3>4
  <2> QED
    BY <2>1
<1>3. n \in G
  <2> HIDE DEF G
  <2> QED
    BY <1>1, <1>2, NaturalsAreIn
<1>4. ASSUME NEW i \in 1 .. n, NEW j \in 1 .. n, i < j
      PROVE  <<i, j>> \in R
  <2>1. j <= i + n
    OBVIOUS
  <2> QED
    BY <1>3, <1>4, <2>1
<1> QED
  BY <1>4

\* The reply is what may be read: a sequence of records of the operation.
ReplyMayBeRead == ReadArguments /\ ReplyTyped(reply)

(* Such a reply can be scanned.                                            *)
LEMMA TypedRepliesAreRead ==
    ASSUME ReplyMayBeRead
    PROVE  /\ ReplyIsRead
           /\ operation = "rows" => \A j \in DOMAIN reply : RowRecord(reply[j])
<1>1. PICK S : reply \in Seq(S) /\ (operation = "rows" => \A x \in S : RowRecord(x))
  BY DEF ReplyMayBeRead, ReplyTyped
<1>2. Len(reply) \in Nat /\ DOMAIN reply = 1 .. Len(reply) /\ \A j \in DOMAIN reply : reply[j] \in S
  BY ONLY <1>1
<1>3. operation = "rows" => \A j \in DOMAIN reply : RowRecord(reply[j])
  BY ONLY <1>1, <1>2
<1>4. operation = "rows" => ReplyIsScanned
  BY ONLY <1>2, <1>3, Zenon DEF ReplyIsScanned, RowRecord
<1> QED
  BY ONLY <1>2, <1>3, <1>4 DEF ReplyIsRead

(* Accepted rows: each is clean after the one before, so they are ordered. *)
LEMMA AcceptedRowsAreOrdered ==
    ASSUME RangesAreOrdered, operation = "rows", ReplyIsRead,
           \A j \in DOMAIN reply : RowRecord(reply[j]),
           \A m \in Data : Clean(reply[m], Reads!PreviousRow(m)),
           engine # "clickhouse" => reply # <<>>
    PROVE  WellFormed(Reads!DecodedValue)
<1>1. PICK d : DataRows(d)
  BY RowsAreDecoded
<1> DEFINE n == Cardinality(Data)
           v == Reads!DecodedValue
           r(j) == reply[d[j]]
           ord(j) == Reads!Ordinal(reply[d[j]].segment)
           key(j) == reply[d[j]].key
<1>2. /\ n \in Nat
      /\ v = [j \in 1 .. n |-> <<reply[d[j]].segment, reply[d[j]].key, reply[d[j]].row>>]
      /\ \A j \in 1 .. n : d[j] \in Data
      /\ \A i, j \in 1 .. n : i < j => d[i] < d[j]
      /\ \A m \in Data : \E j \in 1 .. n : d[j] = m
  BY <1>1 DEF DataRows
<1>3. DOMAIN reply = 1 .. Len(reply) /\ Len(reply) \in Nat
  BY DEF ReplyIsRead
<1>4. \A m \in Data : m \in 1 .. Len(reply) /\ m \in Int /\ reply[m].data
  BY <1>3 DEF Data
<1> HIDE DEF n, v
<1>5. /\ DOMAIN v = 1 .. n
      /\ \A j \in 1 .. n : /\ v[j][1] = reply[d[j]].segment /\ v[j][2] = key(j)
                           /\ v[j][3] = reply[d[j]].row
  BY ONLY <1>2
<1>6. ASSUME NEW m \in Data
      PROVE  /\ reply[m].key = table[reply[m].row].key /\ reply[m].key \in Int
             /\ Reads!InRange(reply[m].key, ranges[Reads!Ordinal(reply[m].segment)])
             /\ Reads!AcceptedRow(reply[m].row)
             /\ Reads!Ordinal(reply[m].segment) # 0
  <2> DEFINE x == reply[m]
  <2>2. RowRecord(x) /\ x.data /\ Clean(x, Reads!PreviousRow(m))
    BY <1>3, <1>4
  <2> HIDE DEF x
  <2>3. x.key \in Int
    <3>1. x \in [origin : Origins, data : BOOLEAN, segment : Segments, key : Int, row : Nat,
                 invalid : BOOLEAN, oversized : BOOLEAN]
      BY ONLY <2>2, Zenon DEF RowRecord
    <3> QED
      BY ONLY <3>1
  <2>4. /\ x.key = table[x.row].key /\ Reads!InRange(x.key, ranges[Reads!Ordinal(x.segment)])
        /\ Reads!Ordinal(x.segment) # 0 /\ ~x.invalid /\ ~x.oversized
    BY ONLY <2>2, Zenon DEF Clean, Reads!KeyDisagrees, Reads!OutOfRange, Reads!Unrequested
  <2>5. x.invalid = Reads!InvalidRow(x.row) /\ x.oversized = Reads!OversizedRow(x.row)
    BY ONLY <2>2, Zenon DEF RowRecord
  <2>6. Reads!AcceptedRow(x.row)
    BY ONLY <2>4, <2>5, Zenon DEF Reads!AcceptedRow
  <2> QED
    BY <2>3, <2>4, <2>6 DEF x
<1>7. \A j \in 1 .. n : /\ key(j) \in Int /\ ord(j) \in 1 .. Len(ranges) /\ ord(j) \in Int
                        /\ ranges[ord(j)].id = reply[d[j]].segment
  <2>1. Len(ranges) \in Nat
    BY DEF RangesAreOrdered
  <2>2. \A j \in 1 .. n : d[j] \in Data
    BY <1>2
  <2>3. \A id : Reads!Ordinal(id) # 0 => /\ Reads!Ordinal(id) \in 1 .. Len(ranges)
                                         /\ ranges[Reads!Ordinal(id)].id = id
    BY Ordinals
  <2>4. \A j \in 1 .. n : /\ key(j) \in Int /\ ord(j) \in 1 .. Len(ranges)
                          /\ ranges[ord(j)].id = reply[d[j]].segment
    BY ONLY <1>6, <2>2, <2>3
  <2> HIDE DEF ord, key
  <2> QED
    BY ONLY <2>1, <2>4
<1> DEFINE Less(i, j) == \/ ord(i) < ord(j)
                         \/ reply[d[i]].segment = reply[d[j]].segment /\ key(i) < key(j)
           R == {ij \in (1 .. n) \X (1 .. n) : Less(ij[1], ij[2])}
<1>8. \A i, j \in 1 .. n : <<i, j>> \in R <=> Less(i, j)
  <2> HIDE DEF Less
  <2>1. \A i, j \in 1 .. n : /\ <<i, j>> \in (1 .. n) \X (1 .. n)
                             /\ <<i, j>>[1] = i /\ <<i, j>>[2] = j
    OBVIOUS
  <2> QED
    BY <2>1
<1>9. ASSUME NEW j \in 2 .. n
      PROVE  Less(j - 1, j)
  <2> DEFINE i == j - 1
             m == d[i]
             l == d[j]
  <2>1. i \in 1 .. n /\ j \in 1 .. n /\ i < j
    BY <1>2
  <2>2. m \in Data /\ l \in Data /\ m < l
    BY <1>2, <2>1
  <2> HIDE DEF i
  <2>3. \A k \in 1 .. l - 1 : reply[k].data => k <= m
    <3>1. SUFFICES ASSUME NEW k \in 1 .. l - 1, reply[k].data
                   PROVE  k <= m
      OBVIOUS
    <3>2. m \in Int /\ l \in Int /\ l \in 1 .. Len(reply)
      BY <1>4, <2>2
    <3>3. k \in Data
      BY <1>3, <3>1, <3>2 DEF Data
    <3>4. PICK p \in 1 .. n : d[p] = k
      BY <1>2, <3>3
    <3>5. p <= i \/ j <= p
      BY <1>2, <2>1 DEF i
    <3>6. k < l
      BY <3>2
    <3>7. CASE p < i
      <4>1. k < m
        BY <1>2, <2>1, <3>4, <3>7
      <4> QED
        BY <3>2, <4>1
    <3>8. CASE p = i
      BY <3>2, <3>4, <3>8
    <3>9. CASE j < p
      <4>1. l < k
        BY <1>2, <2>1, <3>4, <3>9
      <4> QED
        BY <3>2, <3>6, <4>1
    <3>10. CASE j = p
      <4>1. k = l
        BY ONLY <3>4, <3>10
      <4> QED
        BY <3>2, <3>6, <4>1
    <3>11. p < i \/ p = i \/ j < p \/ j = p
      BY <2>1, <3>5
    <3> QED
      BY <3>7, <3>8, <3>9, <3>10, <3>11
  <2>4. /\ m \in Int /\ l \in Int /\ 1 <= m /\ reply[m].data
        /\ Clean(reply[l], Reads!PreviousRow(l))
    <3>1. m \in 1 .. Len(reply) /\ m \in Int /\ l \in Int /\ reply[m].data
      BY <1>4, <2>2
    <3> HIDE DEF m, l
    <3> QED
      BY <1>3, <2>2, <3>1
  <2> HIDE DEF m, l
  <2>5. Reads!PreviousRow(l) = reply[m]
    BY <2>2, <2>3, <2>4, PreviousRows
  <2>6. ~Reads!SegmentBack(reply[l], reply[m]) /\ ~Reads!KeyNotAbove(reply[l], reply[m])
    BY ONLY <2>4, <2>5, Zenon DEF Clean
  <2> DEFINE a == Reads!Ordinal(reply[m].segment)
             b == Reads!Ordinal(reply[l].segment)
             s == reply[m].segment
             t == reply[l].segment
             x == reply[m].key
             y == reply[l].key
  <2>7. ~(b < a) /\ (s = t => ~(y <= x))
    BY <2>4, <2>6 DEF Reads!SegmentBack, Reads!KeyNotAbove
  <2>8. /\ a \in Int /\ b \in Int /\ x \in Int /\ y \in Int /\ a \in 1 .. Len(ranges)
        /\ b \in 1 .. Len(ranges) /\ ranges[a].id = s /\ ranges[b].id = t
    BY <1>7, <2>1 DEF m, l
  <2>9. a = b => s = t
    BY ONLY <2>8
  <2>10. a < b \/ (s = t /\ x < y)
    <3> HIDE DEF a, b, s, t, x, y
    <3> QED
      BY ONLY <2>7, <2>8, <2>9
  <2>11. Less(i, j)
    <3>1. /\ a = Reads!Ordinal(reply[d[i]].segment) /\ b = Reads!Ordinal(reply[d[j]].segment)
          /\ s = reply[d[i]].segment /\ t = reply[d[j]].segment
          /\ x = reply[d[i]].key /\ y = reply[d[j]].key
      BY DEF m, l
    <3> HIDE DEF a, b, s, t, x, y
    <3> QED
      BY ONLY <2>10, <3>1
  <2> QED
    BY <2>11 DEF i
<1>10. ASSUME NEW i \in 1 .. n, NEW j \in 1 .. n, NEW k \in 1 .. n, Less(i, j), Less(j, k)
       PROVE  Less(i, k)
  <2>1. /\ ord(i) \in Int /\ ord(j) \in Int /\ ord(k) \in Int
        /\ key(i) \in Int /\ key(j) \in Int /\ key(k) \in Int
    BY <1>7
  <2>2. /\ reply[d[i]].segment = reply[d[j]].segment => ord(i) = ord(j)
        /\ reply[d[j]].segment = reply[d[k]].segment => ord(j) = ord(k)
    OBVIOUS
  <2> HIDE DEF ord, key
  <2> QED
    BY ONLY <1>10, <2>1, <2>2
<1> HIDE DEF Less, R
<1>11. \A i, j \in 1 .. n : i < j => <<i, j>> \in R
  <2>1. \A j \in 2 .. n : <<j - 1, j>> \in R
    <3>1. SUFFICES ASSUME NEW j \in 2 .. n PROVE <<j - 1, j>> \in R
      OBVIOUS
    <3>2. j - 1 \in 1 .. n /\ j \in 1 .. n
      BY <1>2
    <3> QED
      BY <1>8, <1>9, <3>2
  <2>2. \A i, j, k \in 1 .. n : <<i, j>> \in R /\ <<j, k>> \in R => <<i, k>> \in R
    BY <1>8, <1>10
  <2>3. n \in Nat
    BY <1>2
  <2> QED
    BY ONLY <2>1, <2>2, <2>3, StepsChain
<1>12. \A i, j \in 1 .. n : i < j => Less(i, j)
  BY <1>8, <1>11
<1>13. \A i, j \in DOMAIN v : i < j =>
          \/ Reads!Ordinal(v[i][1]) < Reads!Ordinal(v[j][1])
          \/ v[i][1] = v[j][1] /\ v[i][2] < v[j][2]
  <2>1. SUFFICES ASSUME NEW i \in 1 .. n, NEW j \in 1 .. n, i < j
                 PROVE  \/ Reads!Ordinal(v[i][1]) < Reads!Ordinal(v[j][1])
                        \/ v[i][1] = v[j][1] /\ v[i][2] < v[j][2]
    BY <1>5
  <2>2. /\ v[i][1] = reply[d[i]].segment /\ v[i][2] = reply[d[i]].key
        /\ v[j][1] = reply[d[j]].segment /\ v[j][2] = reply[d[j]].key
    BY <1>5
  <2>3. Less(i, j)
    BY <1>12, <2>1
  <2> QED
    BY ONLY <2>2, <2>3 DEF Less
<1>14. \A j \in DOMAIN v : /\ v[j][2] = table[v[j][3]].key
                           /\ Reads!InRange(v[j][2], ranges[Reads!Ordinal(v[j][1])])
                           /\ Reads!AcceptedRow(v[j][3])
  <2>1. SUFFICES ASSUME NEW j \in 1 .. n
                 PROVE  /\ v[j][2] = table[v[j][3]].key
                        /\ Reads!InRange(v[j][2], ranges[Reads!Ordinal(v[j][1])])
                        /\ Reads!AcceptedRow(v[j][3])
    BY <1>5
  <2>2. /\ v[j][1] = reply[d[j]].segment /\ v[j][2] = reply[d[j]].key
        /\ v[j][3] = reply[d[j]].row /\ d[j] \in Data
    BY <1>2, <1>5
  <2> QED
    BY ONLY <1>6, <2>2
<1>15. WellFormed(v)
  BY <1>13, <1>14 DEF WellFormed
<1> QED
  BY <1>15 DEF v

(* Whatever a reply went through, what is accepted of it is well formed.   *)
LEMMA AcceptedAreWellFormed ==
    ASSUME ReplyMayBeRead, Reads!Refusal = "none"
    PROVE  WellFormed(Reads!DecodedValue)
<1>1. ReadArguments /\ RangesAreOrdered /\ engine \in Reads!Engines
  BY RangesFollow DEF ReplyMayBeRead, ReadArguments
<1>2. ReplyIsRead /\ Len(reply) \in Nat /\ DOMAIN reply = 1 .. Len(reply)
  BY TypedRepliesAreRead DEF ReplyIsRead
<1>3. /\ Reads!Provenance = "none"
      /\ operation = "summary" => Reads!SummaryRefusal = "none"
      /\ operation = "fingerprints" => Reads!FingerprintRefusal = "none"
      /\ operation = "rows" => Reads!RowsRefusal = "none"
  BY <1>1, <1>2, RefusalsCombine
<1>4. operation = "summary" \/ operation = "fingerprints" \/ operation = "rows"
  BY <1>1 DEF ReadArguments, Reads!Operations
<1>5. CASE operation = "summary"
  <2>1. Reads!SummaryPartitions(reply[1])
    BY <1>1, <1>3, <1>5, SummariesAreScanned
  <2> DEFINE x == reply[1]
             v == Reads!DecodedValue
  <2>2. v = <<x.rows, x.null, x.invalid, x.valid, x.distinct, x.minimum, x.maximum>>
    BY <1>5 DEF Reads!DecodedValue, Reads!SummaryFields
  <2>3. x.rows = x.null + x.invalid + x.valid /\ x.distinct <= x.valid
    BY <2>1 DEF Reads!SummaryPartitions
  <2> HIDE DEF x, v
  <2>4. v[1] = v[2] + v[3] + v[4] /\ v[5] <= v[4]
    BY ONLY <2>2, <2>3
  <2> QED
    BY <1>5, <2>4 DEF WellFormed, v
<1>6. CASE operation = "fingerprints"
  <2>1. Len(reply) = Len(ranges) /\ \A j \in 1 .. Len(reply) : reply[j].segment = ranges[j].id
    BY <1>1, <1>2, <1>3, <1>6, FingerprintsAreScanned DEF FingerprintChecked
  <2> DEFINE v == Reads!DecodedValue
             n == Len(reply)
  <2>2. v = [j \in 1 .. n |-> <<reply[j].segment, reply[j].count, reply[j].sum>>]
    BY <1>2, <1>6 DEF Reads!DecodedValue
  <2>3. n \in Nat /\ n = Len(ranges)
    BY <1>2, <2>1
  <2> HIDE DEF v, n
  <2>4. Len(v) = n /\ DOMAIN v = 1 .. n /\ \A j \in 1 .. n : v[j][1] = reply[j].segment
    BY ONLY <2>2, <2>3
  <2>5. \A i \in DOMAIN v : v[i][1] = ranges[i].id
    BY ONLY <2>1, <2>4 DEF n
  <2> QED
    BY <1>6, <2>3, <2>4, <2>5 DEF WellFormed, v
<1>7. CASE operation = "rows"
  <2>1. \A j \in DOMAIN reply : RowRecord(reply[j])
    BY <1>7, TypedRepliesAreRead
  <2>2. /\ \A j \in 1 .. Len(reply) : RowChecked(reply[j], Reads!PreviousRow(j))
        /\ Segmented => Reads!WitnessesCounted
    BY <1>1, <1>2, <1>3, <1>7, RowsAreScanned DEF ReplyIsRead
  <2>3. \A m \in Data : Clean(reply[m], Reads!PreviousRow(m))
    <3>1. \A m \in Data : m \in 1 .. Len(reply) /\ reply[m].data
      BY <1>2 DEF Data
    <3> QED
      BY ONLY <2>2, <3>1, Zenon DEF RowChecked
  <2>4. engine # "clickhouse" => reply # <<>>
    <3>1. engine # "clickhouse" => Segmented \/ reply # <<>>
      BY <1>1, <1>3, ProvenanceIsChecked
    <3>2. ASSUME Reads!WitnessesCounted
          PROVE  reply # <<>>
      <4>1. SUFFICES ASSUME reply = <<>> PROVE FALSE
        OBVIOUS
      <4>2. Len(reply) = 0 /\ {j \in DOMAIN reply : ~reply[j].data} = {}
        BY <4>1
      <4>3. Reads!Cardinality({j \in DOMAIN reply : ~reply[j].data}) = 0
        BY <4>2, SameOperators, FS_EmptySet
      <4> QED
        BY ONLY <3>2, <4>2, <4>3 DEF Reads!WitnessesCounted
    <3> QED
      BY <2>2, <3>1, <3>2
  <2> QED
    BY <1>1, <1>2, <1>7, <2>1, <2>3, <2>4, AcceptedRowsAreOrdered
<1> QED
  BY <1>4, <1>5, <1>6, <1>7

-----------------------------------------------------------------------------
(* Steps of a read                                                         *)

\* The arguments and the relation, which no step of a read changes.
SameRead == UNCHANGED <<engine, table, ranges, operation, limit, seeds>>

(* So no step changes what a reply should say or what a value means.       *)
LEMMA ArgumentsStay ==
    ASSUME ReadArguments, SameRead
    PROVE  ReadArguments'
<1>1. engine' = engine /\ table' = table /\ ranges' = ranges /\ operation' = operation
      /\ limit' = limit /\ seeds' = seeds
  BY DEF SameRead
<1>2. Reads!Rows' = Reads!Rows /\ (\A rs : Reads!ValidRanges(rs)' <=> Reads!ValidRanges(rs))
      /\ Reads!Engines' = Reads!Engines /\ Reads!Operations' = Reads!Operations
  OBVIOUS
<1> QED
  BY <1>1, <1>2 DEF ReadArguments

(* The relation.                                                           *)
LEMMA SelectionStays ==
    ASSUME SameRead
    PROVE  /\ Numbers' = Numbers /\ Reads!Scoped' = Reads!Scoped
           /\ Reads!InSomeRange' = Reads!InSomeRange
           /\ \A n : Reads!ValidKey(n)' <=> Reads!ValidKey(n)
           /\ \A n : Reads!InvalidRow(n)' <=> Reads!InvalidRow(n)
           /\ \A n : Reads!OversizedRow(n)' <=> Reads!OversizedRow(n)
           /\ \A n : Reads!AcceptedRow(n)' <=> Reads!AcceptedRow(n)
           /\ \A i : Reads!Selected(i)' = Reads!Selected(i)
           /\ \A S : Reads!Once(S)' = Reads!Once(S)
           /\ \A S : Reads!KeysOf(S)' = Reads!KeysOf(S)
           /\ \A id : Reads!Ordinal(id)' = Reads!Ordinal(id)
<1>1. /\ \A n : Reads!ValidKey(n)' <=> Reads!ValidKey(n)
      /\ \A n : Reads!InvalidRow(n)' <=> Reads!InvalidRow(n)
      /\ \A n : Reads!OversizedRow(n)' <=> Reads!OversizedRow(n)
  BY DEF SameRead, Reads!ValidKey, Reads!InvalidRow, Reads!OversizedRow
<1>2. \A n : Reads!AcceptedRow(n)' <=> Reads!AcceptedRow(n)
  BY <1>1 DEF Reads!AcceptedRow
<1>3. Numbers' = Numbers /\ Reads!Scoped' = Reads!Scoped
  BY DEF SameRead, Reads!Scoped, Numbers
<1>4. \A i : Reads!Selected(i)' = Reads!Selected(i)
  BY <1>1, <1>3 DEF SameRead, Reads!Selected
<1>5. Reads!InSomeRange' = Reads!InSomeRange
  BY <1>4 DEF SameRead, Reads!InSomeRange
<1>6. \A S : Reads!Once(S)' = Reads!Once(S)
  BY DEF SameRead, Reads!Once
<1>7. \A S : Reads!KeysOf(S)' = Reads!KeysOf(S)
  BY DEF SameRead, Reads!KeysOf
<1>8. \A id : Reads!Ordinal(id)' = Reads!Ordinal(id)
  BY DEF SameRead, Reads!Ordinal, Reads!SelectInSeq
<1> QED
  BY <1>1, <1>2, <1>3, <1>4, <1>5, <1>6, <1>7, <1>8

(* What a reply says, and what a value means.                              *)
LEMMA MeaningStays ==
    ASSUME SameRead
    PROVE  /\ \A v : Reads!MeansSummary(v)' <=> Reads!MeansSummary(v)
           /\ \A v : Means(v)' <=> Means(v)
           /\ Reads!Answerable' <=> Reads!Answerable
           /\ SeededOnce' <=> SeededOnce
           /\ Segmented' <=> Segmented
<1>1. /\ engine' = engine /\ table' = table /\ ranges' = ranges /\ operation' = operation
      /\ limit' = limit /\ seeds' = seeds
  BY DEF SameRead
<1>2. \A v : Reads!MeansSummary(v)' <=> Reads!MeansSummary(v)
  BY <1>1, SelectionStays DEF Reads!MeansSummary
<1>3. \A v : Reads!MeansFingerprints(v)' <=> Reads!MeansFingerprints(v)
  BY <1>1, SelectionStays DEF Reads!MeansFingerprints
<1>4. \A v : Reads!MeansRows(v)' <=> Reads!MeansRows(v)
  BY <1>1, SelectionStays DEF Reads!MeansRows
<1>5. \A v : Means(v)' <=> Means(v)
  BY <1>1, <1>2, <1>3, <1>4 DEF Means
<1>6. Reads!Answerable' <=> Reads!Answerable
  BY <1>1, SelectionStays DEF Reads!Answerable
<1>7. (SeededOnce' <=> SeededOnce) /\ (Segmented' <=> Segmented)
  BY <1>1 DEF SeededOnce, Segmented
<1> QED
  BY <1>2, <1>5, <1>6, <1>7

(* What a reply may say.                                                   *)
LEMMA SayingStays ==
    ASSUME SameRead
    PROVE  /\ \A r : Says(r)' <=> Says(r)
           /\ \A r : ReplyTyped(r)' <=> ReplyTyped(r)
<1>1. /\ engine' = engine /\ table' = table /\ ranges' = ranges /\ operation' = operation
      /\ limit' = limit /\ seeds' = seeds
  BY DEF SameRead
<1>2. \A r : SaysSummary(r)' <=> SaysSummary(r)
  BY MeaningStays DEF SaysSummary
<1>3. \A i, a : Fingerprints(i, a)' <=> Fingerprints(i, a)
  BY <1>1, SelectionStays DEF Fingerprints
<1>4. \A r : SaysFingerprints(r)' <=> SaysFingerprints(r)
  BY <1>1, <1>3, MeaningStays DEF SaysFingerprints, Reads!TopologyHolds
<1>5. Pairs' = Pairs
  BY <1>1, SelectionStays DEF Pairs
<1>6. \A r, j : At(r, j)' = At(r, j)
  BY SelectionStays DEF At
<1>7. \A a, b : Reads!Before(a, b)' <=> Reads!Before(a, b)
  BY <1>1 DEF Reads!Before
<1>8. \A i, n : Reads!DataRow(i, n)' = Reads!DataRow(i, n)
  BY <1>1 DEF Reads!DataRow, Reads!InvalidRow, Reads!OversizedRow
<1>9. \A r : OrderedData(r)' <=> OrderedData(r)
  BY <1>5, <1>6, <1>7, <1>8, SelectionStays DEF OrderedData
<1>10. \A r : SaysRows(r)' <=> SaysRows(r)
  BY <1>1, <1>9, SelectionStays DEF SaysRows
<1>11. \A r : Says(r)' <=> Says(r)
  BY <1>1, <1>2, <1>4, <1>10 DEF Says
<1>12. Segments' = Segments
  BY <1>1 DEF Segments
<1>13. \A x : RowRecord(x)' <=> RowRecord(x)
  <2>1. /\ \A n : Reads!InvalidRow(n)' = Reads!InvalidRow(n)
        /\ \A n : Reads!OversizedRow(n)' = Reads!OversizedRow(n)
        /\ Numbers' = Numbers
    BY <1>1 DEF Numbers, Reads!InvalidRow, Reads!OversizedRow
  <2> QED
    BY ONLY <1>1, <1>12, <2>1, Zenon DEF RowRecord, Origins
<1>14. \A r : ReplyTyped(r)' <=> ReplyTyped(r)
  BY <1>1, <1>13 DEF ReplyTyped
<1> QED
  BY <1>11, <1>14

(* What an accepted value must be, as long as the reply stays as well.     *)
LEMMA WellFormedStays ==
    ASSUME SameRead, reply' = reply
    PROVE  \A v : WellFormed(v)' <=> WellFormed(v)
<1>1. /\ engine' = engine /\ table' = table /\ ranges' = ranges /\ operation' = operation
  BY DEF SameRead
<1> QED
  BY <1>1, SelectionStays DEF WellFormed

-----------------------------------------------------------------------------
(* What a disturbance leaves of a reply                                    *)

(* Records that are lost, repeated or turned round are of the same kind.   *)
LEMMA MovedRecords ==
    ASSUME NEW S, NEW s \in Seq(S), NEW j \in DOMAIN s
    PROVE  /\ Reads!RemoveAt(s, j) \in Seq(S)
           /\ Reads!InsertAt(s, j, s[j]) \in Seq(S)
           /\ Reads!Reverse(s) \in Seq(S)
<1>1. /\ Len(s) \in Nat /\ j \in 1 .. Len(s) /\ s[j] \in S /\ <<s[j]>> \in Seq(S)
      /\ \A k \in 1 .. Len(s) : s[k] \in S
  OBVIOUS
<1>2. /\ SubSeq(s, 1, j - 1) \in Seq(S) /\ SubSeq(s, j + 1, Len(s)) \in Seq(S)
      /\ SubSeq(s, j, Len(s)) \in Seq(S)
  BY <1>1
<1>3. Reads!RemoveAt(s, j) \in Seq(S)
  BY <1>2 DEF Reads!RemoveAt
<1>4. Reads!InsertAt(s, j, s[j]) \in Seq(S)
  <2>1. SubSeq(s, 1, j - 1) \o <<s[j]>> \in Seq(S)
    BY <1>1, <1>2
  <2> QED
    BY <1>2, <2>1 DEF Reads!InsertAt
<1>5. Reads!Reverse(s) \in Seq(S)
  <2>1. \A k \in 1 .. Len(s) : (Len(s) - k) + 1 \in 1 .. Len(s)
    BY <1>1
  <2>2. Reads!Reverse(s) \in [1 .. Len(s) -> S]
    BY <1>1, <2>1 DEF Reads!Reverse
  <2> QED
    BY <1>1, <2>2, FunctionsAreSequences
<1> QED
  BY <1>3, <1>4, <1>5

(* A record that is replaced adds one value to those of the reply.         *)
LEMMA ReplacedRecords ==
    ASSUME NEW S, NEW s \in Seq(S), NEW j \in DOMAIN s, NEW x
    PROVE  [s EXCEPT ![j] = x] \in Seq(S \cup {x})
<1>1. /\ Len(s) \in Nat /\ DOMAIN s = 1 .. Len(s)
      /\ s \in [1 .. Len(s) -> S \cup {x}]
  OBVIOUS
<1>2. [s EXCEPT ![j] = x] \in [1 .. Len(s) -> S \cup {x}]
  BY <1>1
<1> QED
  BY <1>1, <1>2, FunctionsAreSequences

(* The record of a row stays one from another relation, segment or key.    *)
LEMMA RelabelledRows ==
    ASSUME NEW x, RowRecord(x), NEW s \in Segments, NEW k \in Int
    PROVE  /\ RowRecord([x EXCEPT !.origin = "foreign"])
           /\ RowRecord([x EXCEPT !.segment = s])
           /\ RowRecord([x EXCEPT !.key = k])
<1>1. /\ x \in [origin : Origins, data : BOOLEAN, segment : Segments, key : Int, row : Nat,
                invalid : BOOLEAN, oversized : BOOLEAN]
      /\ x.data => /\ x.row \in Numbers /\ x.invalid = Reads!InvalidRow(x.row)
                   /\ x.oversized = Reads!OversizedRow(x.row)
      /\ engine = "clickhouse" => x.data
  BY DEF RowRecord
<1>2. "foreign" \in Origins
  BY DEF Origins
<1> DEFINE a == [x EXCEPT !.origin = "foreign"]
           b == [x EXCEPT !.segment = s]
           c == [x EXCEPT !.key = k]
<1>3. \A y \in {a, b, c} :
        /\ y \in [origin : Origins, data : BOOLEAN, segment : Segments, key : Int, row : Nat,
                  invalid : BOOLEAN, oversized : BOOLEAN]
        /\ y.data = x.data /\ y.row = x.row /\ y.invalid = x.invalid /\ y.oversized = x.oversized
  BY ONLY <1>1, <1>2
<1> HIDE DEF a, b, c
<1>4. \A y \in {a, b, c} : RowRecord(y)
  BY ONLY <1>1, <1>3, Zenon DEF RowRecord
<1> QED
  BY ONLY <1>4 DEF a, b, c

(* So whatever a reply went through, it is still one that can be read.     *)
LEMMA DisturbedRepliesAreTyped ==
    ASSUME ReplyMayBeRead, Reads!Disturb
    PROVE  ReplyTyped(reply')
<1>1. PICK S : reply \in Seq(S) /\ (operation = "rows" => \A x \in S : RowRecord(x))
  BY DEF ReplyMayBeRead, ReplyTyped
<1>2. ASSUME NEW j \in DOMAIN reply
      PROVE  /\ ReplyTyped(Reads!RemoveAt(reply, j))
             /\ ReplyTyped(Reads!InsertAt(reply, j, reply[j]))
             /\ ReplyTyped(Reads!Reverse(reply))
  BY <1>1, MovedRecords DEF ReplyTyped
<1>3. ASSUME NEW j \in DOMAIN reply, NEW x, operation = "rows" => RowRecord(x)
      PROVE  ReplyTyped([reply EXCEPT ![j] = x])
  <2>1. [reply EXCEPT ![j] = x] \in Seq(S \cup {x})
    BY ONLY <1>1, ReplacedRecords
  <2>2. operation = "rows" => \A y \in S \cup {x} : RowRecord(y)
    BY ONLY <1>1, <1>3
  <2> QED
    BY ONLY <2>1, <2>2 DEF ReplyTyped
<1>4. operation = "rows" => \A j \in DOMAIN reply : RowRecord(reply[j])
  BY TypedRepliesAreRead
<1>5. Keys \subseteq Int /\ \A i \in 1 .. Len(ranges) : ranges[i].id \in Segments
  <2>1. Keys \subseteq Nat
    BY DEF ReplyMayBeRead, ReadArguments
  <2>2. \A i \in 1 .. Len(ranges) : ranges[i].id \in Segments
    BY ONLY Zenon DEF Segments
  <2> QED
    BY ONLY <2>1, <2>2
<1>6. Len(ranges) \in Nat
  BY DEF ReplyMayBeRead, ReadArguments, Reads!ValidRanges
<1>7. CASE \E j \in DOMAIN reply : \/ reply' = Reads!RemoveAt(reply, j)
                                   \/ reply' = Reads!InsertAt(reply, j, reply[j])
  BY <1>2, <1>7
<1>8. CASE Len(reply) > 1 /\ reply' = Reads!Reverse(reply)
  <2>1. 1 \in DOMAIN reply
    BY <1>1, <1>8
  <2> QED
    BY <1>2, <1>8, <2>1
<1>9. CASE \E j \in DOMAIN reply : reply' = [reply EXCEPT ![j].origin = "foreign"]
  <2>1. PICK j \in DOMAIN reply : reply' = [reply EXCEPT ![j] = [reply[j] EXCEPT !.origin = "foreign"]]
    BY <1>9
  <2> DEFINE x == [reply[j] EXCEPT !.origin = "foreign"]
  <2>2. operation = "rows" => RowRecord(x)
    <3>1. "other" \in Segments /\ 0 \in Int
      BY DEF Segments
    <3> QED
      BY <1>4, <3>1, RelabelledRows
  <2> HIDE DEF x
  <2>3. ReplyTyped([reply EXCEPT ![j] = x])
    BY <1>3, <2>2
  <2> QED
    BY <2>1, <2>3 DEF x
<1>10. CASE \E j \in DOMAIN reply, i \in 0 .. Len(ranges) :
              reply' = [reply EXCEPT ![j].segment = IF i = 0 THEN "other" ELSE ranges[i].id]
  <2>1. PICK j \in DOMAIN reply, i \in 0 .. Len(ranges) :
          reply' = [reply EXCEPT ![j] =
                      [reply[j] EXCEPT !.segment = IF i = 0 THEN "other" ELSE ranges[i].id]]
    BY <1>10
  <2> DEFINE s == IF i = 0 THEN "other" ELSE ranges[i].id
             x == [reply[j] EXCEPT !.segment = s]
  <2>2. s \in Segments
    <3>1. "other" \in Segments
      BY ONLY Zenon DEF Segments
    <3>2. i = 0 \/ i \in 1 .. Len(ranges)
      BY ONLY <1>6, i \in 0 .. Len(ranges)
    <3> QED
      BY ONLY <1>5, <3>1, <3>2, Zenon DEF s
  <2> HIDE DEF s
  <2>3. operation = "rows" => RowRecord(x)
    <3>1. 0 \in Int
      OBVIOUS
    <3> QED
      BY <1>4, <2>2, <3>1, RelabelledRows
  <2> HIDE DEF x
  <2>4. ReplyTyped([reply EXCEPT ![j] = x])
    BY <1>3, <2>3
  <2> QED
    BY <2>1, <2>4 DEF x, s
<1>11. CASE \E j \in DOMAIN reply, k \in Keys : reply' = [reply EXCEPT ![j].key = k]
  <2>1. PICK j \in DOMAIN reply, k \in Keys : reply' = [reply EXCEPT ![j] = [reply[j] EXCEPT !.key = k]]
    BY <1>11
  <2> DEFINE x == [reply[j] EXCEPT !.key = k]
  <2>2. operation = "rows" => RowRecord(x)
    <3>1. "other" \in Segments /\ k \in Int
      BY <1>5 DEF Segments
    <3> QED
      BY <1>4, <3>1, RelabelledRows
  <2> HIDE DEF x
  <2>3. ReplyTyped([reply EXCEPT ![j] = x])
    BY <1>3, <2>2
  <2> QED
    BY <2>1, <2>3 DEF x
<1>12. CASE /\ operation = "summary"
            /\ \E j \in DOMAIN reply : reply' = [reply EXCEPT ![j].valid = @ + 1]
  <2>1. PICK j \in DOMAIN reply :
          reply' = [reply EXCEPT ![j] = [reply[j] EXCEPT !.valid = reply[j].valid + 1]]
    BY <1>12
  <2> DEFINE x == [reply[j] EXCEPT !.valid = reply[j].valid + 1]
  <2>2. operation = "rows" => RowRecord(x)
    BY <1>12
  <2> HIDE DEF x
  <2>3. ReplyTyped([reply EXCEPT ![j] = x])
    BY <1>3, <2>2
  <2> QED
    BY <2>1, <2>3 DEF x
<1> QED
  BY <1>7, <1>8, <1>9, <1>10, <1>11, <1>12 DEF Reads!Disturb

-----------------------------------------------------------------------------
(* The invariant of a read                                                 *)

\* What a decision must be.
Decided ==
    /\ ~disturbed => /\ result.kind = "accepted" <=> Reads!Answerable
                     /\ result.kind = "accepted" => Means(result.value)
    /\ result.kind = "accepted" => WellFormed(result.value)

\* The reply is one the decoder can read, and the statement's own as long as nothing disturbed it.
ReadInv ==
    /\ ReadArguments /\ disturbed \in BOOLEAN
    /\ result = Reads!Unasked => disturbed = FALSE
    /\ result # Reads!Unasked => /\ ReplyTyped(reply)
                                 /\ ~disturbed => Says(reply)
    /\ result \notin {Reads!Unasked, Reads!Pending} => Decided

(* The outcomes of a read are told apart by their kind.                    *)
LEMMA OutcomesDiffer ==
    /\ Reads!Unasked # Reads!Pending
    /\ \A v : Reads!Accepted(v).kind = "accepted" /\ Reads!Accepted(v).value = v
    /\ \A k \in Kinds : Reads!Refused(k).kind = k /\ k # "accepted" /\ k # Reads!Unasked.kind
    /\ Reads!Unasked.kind # "accepted" /\ Reads!Pending.kind # "accepted"
  BY DEF Reads!Unasked, Reads!Pending, Reads!Accepted, Reads!Refused, Kinds

(* A read starts from arguments the requests allow, with nothing asked.    *)
LEMMA ReadsStart ==
    ASSUME Reads!Init
    PROVE  ReadInv
<1>1. /\ Keys \subseteq Nat \ {0} /\ IsFiniteSet(Homes) /\ MaxRows \in Nat
      /\ \A rs \in RangeLists : Reads!ValidRanges(rs)
      /\ RecordLimits \subseteq Nat \ {0}
  BY SourceRequestsAssumption, SameOperators
     DEF Reads!RangeReadsAssumption
<1>2. /\ engine \in Reads!Engines /\ operation \in Reads!Operations
      /\ ranges \in RangeLists
      /\ operation = "rows" => limit \in RecordLimits
      /\ result = Reads!Unasked /\ disturbed = FALSE
  BY Zenon DEF Reads!Init
<1>3. \E m \in Nat : table \in [1 .. m -> Reads!Rows]
  <2>1. PICK m \in 0 .. MaxRows : table \in [1 .. m -> Reads!Rows]
    BY DEF Reads!Init
  <2> QED
    BY <1>1, <2>1
<1>4. /\ seeds \in [Homes -> Nat]
      /\ engine \notin {"greengage", "greenplum"} => \A h \in Homes : seeds[h] = 1
  <2>1. /\ seeds = [h \in Homes |-> 1] \/ seeds \in Reads!SeedsNow
        /\ engine \notin {"greengage", "greenplum"} => seeds = [h \in Homes |-> 1]
    BY DEF Reads!Init
  <2>2. Reads!SeedsNow \subseteq [Homes -> Nat]
    BY DEF Reads!SeedsNow
  <2> QED
    BY <2>1, <2>2
<1>5. ReadArguments
  BY <1>1, <1>2, <1>3, <1>4 DEF ReadArguments
<1> QED
  BY <1>2, <1>5, OutcomesDiffer DEF ReadInv

(* The statement answers what it says.                                     *)
LEMMA ReadIsQueried ==
    ASSUME ReadInv, Reads!Query
    PROVE  ReadInv'
<1>1. /\ result = Reads!Unasked /\ result' = Reads!Pending /\ reply' = Queried
      /\ disturbed' = disturbed
  BY Zenon DEF Reads!Query, Queried
<1>2. SameRead
  BY Zenon DEF Reads!Query, SameRead
<1>3. ReadArguments /\ disturbed = FALSE
  BY <1>1 DEF ReadInv
<1>4. Says(Queried) /\ ReplyTyped(Queried)
  BY <1>3, QueriesSay
<1>5. ReadArguments'
  BY <1>2, <1>3, ArgumentsStay
<1>6. Says(reply)' /\ ReplyTyped(reply)'
  BY <1>1, <1>2, <1>4, SayingStays
<1>7. result' # Reads!Unasked /\ disturbed' = FALSE
  BY <1>1, <1>3, OutcomesDiffer
<1> QED
  BY <1>1, <1>5, <1>6, <1>7 DEF ReadInv, Reads!Unasked, Reads!Pending

(* A disturbed reply can still be read.                                    *)
LEMMA ReadIsDisturbed ==
    ASSUME ReadInv, Reads!Disturb
    PROVE  ReadInv'
<1>1. result = Reads!Pending /\ result' = result /\ disturbed' = TRUE
  BY Zenon DEF Reads!Disturb
<1>2. SameRead
  BY Zenon DEF Reads!Disturb, SameRead
<1>3. ReadArguments /\ ReplyTyped(reply)
  BY <1>1, OutcomesDiffer DEF ReadInv
<1>4. ReplyTyped(reply')
  BY <1>3, DisturbedRepliesAreTyped DEF ReplyMayBeRead
<1>5. ReadArguments'
  BY <1>2, <1>3, ArgumentsStay
<1>6. ReplyTyped(reply)'
  BY <1>2, <1>4, SayingStays
<1> QED
  BY <1>1, <1>5, <1>6, OutcomesDiffer DEF ReadInv, Reads!Unasked, Reads!Pending

(* The decoder decides as it must.                                         *)
LEMMA ReadIsDecoded ==
    ASSUME ReadInv, Reads!Decode
    PROVE  ReadInv'
<1> DEFINE value == Reads!DecodedValue
           refusal == Reads!Refusal
<1>1. /\ result = Reads!Pending
      /\ result' = IF refusal = "none" THEN Reads!Accepted(value) ELSE Reads!Refused(refusal)
      /\ disturbed' = disturbed /\ reply' = reply
  BY Zenon DEF Reads!Decode
<1>2. SameRead
  BY Zenon DEF Reads!Decode, SameRead
<1>3. /\ ReadArguments /\ disturbed \in BOOLEAN /\ ReplyTyped(reply)
      /\ ~disturbed => Says(reply)
  BY <1>1, OutcomesDiffer DEF ReadInv
<1>4. ReplyMayBeRead /\ ReplyIsRead
  BY <1>3, TypedRepliesAreRead DEF ReplyMayBeRead
<1>5. refusal \in Kinds
  BY <1>3, <1>4, RefusalsCombine
<1>6. ~disturbed => /\ refusal = "none" <=> Reads!Answerable
                    /\ refusal = "none" => Means(value)
  BY <1>3, <1>4, RepliesAnswer DEF AnswersTruly
<1>7. refusal = "none" => WellFormed(value)
  BY <1>4, AcceptedAreWellFormed
<1> HIDE DEF value, refusal
<1>8. /\ result'.kind = "accepted" <=> refusal = "none"
      /\ refusal = "none" => result'.value = value
  BY <1>1, <1>5, OutcomesDiffer
<1>9. /\ ~disturbed => /\ result'.kind = "accepted" <=> Reads!Answerable
                       /\ result'.kind = "accepted" => Means(result'.value)
      /\ result'.kind = "accepted" => WellFormed(result'.value)
  BY ONLY <1>6, <1>7, <1>8
<1>10. /\ \A v : Means(v)' <=> Means(v)
       /\ Reads!Answerable' <=> Reads!Answerable
       /\ \A v : WellFormed(v)' <=> WellFormed(v)
  BY <1>1, <1>2, MeaningStays, WellFormedStays
<1>11. Decided'
  BY <1>1, <1>9, <1>10 DEF Decided
<1>12. ReadArguments' /\ ReplyTyped(reply)' /\ (~disturbed' => Says(reply)')
  BY <1>1, <1>2, <1>3, ArgumentsStay, SayingStays
<1>13. result' # Reads!Unasked
  BY <1>8, <1>1, <1>5, OutcomesDiffer
<1> QED
  BY <1>1, <1>3, <1>11, <1>12, <1>13 DEF ReadInv, Reads!Unasked, Reads!Pending

(* Nothing changes when a read stutters.                                   *)
LEMMA ReadStutters ==
    ASSUME ReadInv, UNCHANGED readVars
    PROVE  ReadInv'
<1>1. SameRead /\ reply' = reply /\ disturbed' = disturbed /\ result' = result
  BY DEF readVars, readOnly, SameRead
<1>2. /\ \A v : Means(v)' <=> Means(v)
      /\ Reads!Answerable' <=> Reads!Answerable
      /\ \A v : WellFormed(v)' <=> WellFormed(v)
  BY <1>1, MeaningStays, WellFormedStays
<1>3. Decided' <=> Decided
  BY <1>1, <1>2 DEF Decided
<1>4. (ReplyTyped(reply)' <=> ReplyTyped(reply)) /\ (Says(reply)' <=> Says(reply))
  BY <1>1, SayingStays
<1>5. ReadArguments'
  BY <1>1, ArgumentsStay DEF ReadInv
<1> QED
  BY <1>1, <1>3, <1>4, <1>5 DEF ReadInv, Reads!Unasked, Reads!Pending

(* A read keeps its invariant: its reply can be read, says what the        *)
(* statement says of the relation until something disturbs it, and is      *)
(* decided as it must be (the decoders of mssql.py, postgres.py,           *)
(* clickhouse_endpoint.py and the two Greenplum endpoints).                *)
THEOREM ReadsKeepTheirInvariant == Spec => [](part = "read" => ReadInv)
<1>1. Init => (part = "read" => ReadInv)
  BY ReadsStart DEF Init
<1>2. (part = "read" => ReadInv) /\ [Next]_vars => (part = "read" => ReadInv)'
  <2> SUFFICES ASSUME part = "read" => ReadInv, [Next]_vars, part' = "read"
               PROVE  ReadInv'
    OBVIOUS
  <2>1. CASE part = "read" /\ Reads!Next
    BY <2>1, ReadIsQueried, ReadIsDisturbed, ReadIsDecoded DEF Reads!Next
  <2>2. CASE part # "read" /\ UNCHANGED part
    BY <2>2
  <2>3. CASE UNCHANGED vars
    BY <2>3, ReadStutters DEF vars, readVars
  <2> QED
    BY <2>1, <2>2, <2>3 DEF Next
<1> QED
  BY <1>1, <1>2, PTL DEF Spec

(* What a decoder accepts of a reply that arrived as sent is what the read *)
(* means, whenever it means something, and what it accepts of any reply is *)
(* well formed: for every relation, range list, record limit, topology and *)
(* engine, not only the small ones of the run (the comparison reads of     *)
(* mssql_sql.py:681, postgres_sql.py:756, clickhouse_endpoint_sql.py:42,   *)
(* greengage_endpoint_sql.py:60 and original_greenplum_endpoint_sql.py:49).*)
THEOREM AcceptedReadsAreTheRelation == Spec => []AcceptedReadsAreTrue
<1>1. (part = "read" => ReadInv) => AcceptedReadsAreTrue
  <2> SUFFICES ASSUME part = "read", ReadInv
               PROVE  Reads!AcceptedReadsAreTrue
    BY DEF AcceptedReadsAreTrue
  <2>1. operation \in {"summary", "fingerprints", "rows"}
    BY DEF ReadInv, ReadArguments, Reads!Operations
  <2>2. result.kind = "accepted" => result \notin {Reads!Unasked, Reads!Pending}
    BY OutcomesDiffer
  <2>3. Reads!EnginesAgreeOnTheRelation
    <3> SUFFICES ASSUME result \notin {Reads!Unasked, Reads!Pending}, ~disturbed
                 PROVE  /\ result.kind = "accepted" <=> Reads!Answerable
                        /\ result.kind = "accepted" =>
                             CASE operation = "summary" -> Reads!MeansSummary(result.value)
                               [] operation = "fingerprints" -> Reads!MeansFingerprints(result.value)
                               [] operation = "rows" -> Reads!MeansRows(result.value)
      BY Zenon DEF Reads!EnginesAgreeOnTheRelation
    <3>1. /\ result.kind = "accepted" <=> Reads!Answerable
          /\ result.kind = "accepted" => Means(result.value)
      BY DEF ReadInv, Decided
    <3> QED
      BY <2>1, <3>1 DEF Means
  <2>4. Reads!AcceptedReadsAreWellFormed
    <3>1. result.kind = "accepted" => WellFormed(result.value)
      BY <2>2 DEF ReadInv, Decided
    <3>2. CASE operation = "summary"
      BY <3>1, <3>2 DEF WellFormed, Reads!AcceptedReadsAreWellFormed
    <3>3. CASE operation = "fingerprints"
      BY <3>1, <3>3 DEF WellFormed, Reads!AcceptedReadsAreWellFormed
    <3>4. CASE operation = "rows"
      BY <3>1, <3>4 DEF WellFormed, Reads!AcceptedReadsAreWellFormed
    <3> QED
      BY <2>1, <3>2, <3>3, <3>4
  <2> QED
    BY <2>3, <2>4 DEF Reads!AcceptedReadsAreTrue
<1> QED
  BY <1>1, ReadsKeepTheirInvariant, PTL

-----------------------------------------------------------------------------
(* Plans, for any number of ranges and changes: what the validators read   *)
(* off the lines, as statements about the tree.                            *)

Lines == Plans!Lines

PlanNodes == [depth : Int, kind : Plans!Kinds, exact : BOOLEAN, sums : BOOLEAN]

\* Lines with indentations.
PlanTyped == plan \in Seq(PlanNodes)

(* The least element of a set is its minimum, the greatest its maximum.    *)
LEMMA LeastAndGreatest ==
    ASSUME NEW S \in SUBSET Int, NEW m \in S
    PROVE  /\ (\A x \in S : m <= x) => Plans!Min(S) = m
           /\ (\A x \in S : m >= x) => Plans!Max(S) = m
<1>1. ASSUME \A x \in S : m <= x
      PROVE  Plans!Min(S) = m
  <2>1. Plans!Min(S) \in S /\ \A y \in S : Plans!Min(S) <= y
    BY <1>1, Zenon DEF Plans!Min
  <2> DEFINE c == Plans!Min(S)
  <2> HIDE DEF c
  <2>2. c <= m /\ m <= c
    BY <1>1, <2>1, Zenon DEF c
  <2>3. c \in Int /\ m \in Int
    BY <2>1 DEF c
  <2>4. c = m
    BY ONLY <2>2, <2>3
  <2> QED
    BY <2>4 DEF c
<1>2. ASSUME \A x \in S : m >= x
      PROVE  Plans!Max(S) = m
  <2>1. Plans!Max(S) \in S /\ \A y \in S : Plans!Max(S) >= y
    BY <1>2, Zenon DEF Plans!Max
  <2> DEFINE c == Plans!Max(S)
  <2> HIDE DEF c
  <2>2. c >= m /\ m >= c
    BY <1>2, <2>1, Zenon DEF c
  <2>3. c \in Int /\ m \in Int
    BY <2>1 DEF c
  <2>4. c = m
    BY ONLY <2>2, <2>3
  <2> QED
    BY <2>4 DEF c
<1> QED
  BY <1>1, <1>2

(* A set of lines is finite.                                               *)
LEMMA LinesAreFew ==
    ASSUME PlanTyped
    PROVE  /\ Len(plan) \in Nat /\ Lines = 1 .. Len(plan)
           /\ \A i \in Lines : plan[i] \in PlanNodes /\ plan[i].depth \in Int
           /\ \A S \in SUBSET Lines : IsFiniteSet(S) /\ S \subseteq Int
<1>1. Len(plan) \in Nat /\ Lines = 1 .. Len(plan)
  BY DEF PlanTyped, Lines, Plans!Lines
<1>2. \A i \in Lines : plan[i] \in PlanNodes
  BY <1>1 DEF PlanTyped
<1>3. IsFiniteSet(Lines)
  BY <1>1, FS_Interval
<1>4. \A S \in SUBSET Lines : IsFiniteSet(S)
  BY <1>3, FS_Subset
<1> QED
  BY <1>1, <1>2, <1>4 DEF PlanNodes

(* A line is above those behind it up to the end of its subtree, which is  *)
(* the first line that is not deeper (_human_subtree_end,                  *)
(* greenplum_sql.py).                                                      *)
LEMMA SubtreesEnd ==
    ASSUME PlanTyped, NEW i \in Lines
    PROVE  /\ Plans!SubtreeEnd(i) \in (i + 1) .. (Len(plan) + 1)
           /\ \A j \in Lines : Plans!Above(i, j) <=> i < j /\ j < Plans!SubtreeEnd(i)
<1> DEFINE Ends == {j \in Lines : j > i /\ plan[j].depth <= plan[i].depth} \cup {Len(plan) + 1}
           end == Plans!Min(Ends)
<1>1. /\ Len(plan) \in Nat /\ Lines = 1 .. Len(plan)
      /\ \A j \in Lines : plan[j].depth \in Int
      /\ \A S \in SUBSET Lines : IsFiniteSet(S)
  BY LinesAreFew
<1>2. Plans!SubtreeEnd(i) = end
  BY DEF Plans!SubtreeEnd, Plans!Indent, Lines
<1>3. /\ IsFiniteSet(Ends) /\ Ends \subseteq Int /\ Ends # {}
  <2>1. IsFiniteSet({j \in Lines : j > i /\ plan[j].depth <= plan[i].depth})
    BY <1>1
  <2>2. IsFiniteSet(Ends)
    BY <2>1, FS_AddElement
  <2> QED
    BY <1>1, <2>2
<1>4. end \in Ends /\ \A y \in Ends : end <= y
  <2> HIDE DEF Ends
  <2> QED
    BY <1>3, Extremes, SameOperators
<1>5. end \in (i + 1) .. (Len(plan) + 1)
  BY <1>1, <1>4
<1>6. ASSUME NEW j \in Lines
      PROVE  Plans!Above(i, j) <=> i < j /\ j < end
  <2>1. Plans!Above(i, j) <=> i < j /\ \A k \in (i + 1) .. j : plan[k].depth > plan[i].depth
    BY DEF Plans!Above, Plans!Indent
  <2>2. ASSUME i < j, \A k \in (i + 1) .. j : plan[k].depth > plan[i].depth
        PROVE  j < end
    <3> HIDE DEF end
    <3>1. end \in (i + 1) .. j => plan[end].depth > plan[i].depth
      BY <2>2
    <3> QED
      BY <1>1, <1>4, <1>5, <3>1
  <2>3. ASSUME i < j, j < end, NEW k \in (i + 1) .. j
        PROVE  plan[k].depth > plan[i].depth
    <3>1. k \in Lines /\ k < end /\ k > i
      BY <1>1, <1>5, <2>3
    <3>2. k \notin Ends
      <4> HIDE DEF Ends
      <4> QED
        BY <1>1, <1>3, <1>4, <1>5, <3>1
    <3> QED
      BY <1>1, <3>1, <3>2
  <2> QED
    BY <2>1, <2>2, <2>3
<1> QED
  BY <1>2, <1>5, <1>6

(* What is above a line that is above another is above that one.           *)
LEMMA AboveIsTransitive ==
    ASSUME PlanTyped, NEW i \in Lines, NEW j \in Lines, NEW k \in Lines,
           Plans!Above(i, j), Plans!Above(j, k)
    PROVE  Plans!Above(i, k)
<1>1. /\ Len(plan) \in Nat /\ Lines = 1 .. Len(plan)
      /\ \A m \in Lines : plan[m].depth \in Int
  BY LinesAreFew
<1>2. i < j /\ j < k
  BY DEF Plans!Above
<1>3. ASSUME NEW m \in (i + 1) .. k
      PROVE  plan[m].depth > plan[i].depth
  <2>1. CASE m <= j
    <3>1. m \in (i + 1) .. j
      BY <1>1, <2>1
    <3> QED
      BY <3>1 DEF Plans!Above, Plans!Indent
  <2>2. CASE m > j
    <3>1. m \in (j + 1) .. k /\ j \in (i + 1) .. j /\ m \in Lines
      BY <1>1, <1>2, <2>2
    <3>2. plan[m].depth > plan[j].depth /\ plan[j].depth > plan[i].depth
      BY <3>1 DEF Plans!Above, Plans!Indent
    <3> QED
      BY <1>1, <3>1, <3>2
  <2> QED
    BY <1>1, <2>1, <2>2
<1> QED
  BY <1>1, <1>2, <1>3 DEF Plans!Above, Plans!Indent

(* The parent of a line is the last shallower one before it, and above it; *)
(* what is above a line is its parent or above its parent.                 *)
LEMMA Parents ==
    ASSUME PlanTyped, NEW i \in Lines
    PROVE  /\ Plans!Parent(i) # 0 => Plans!Parent(i) \in Lines /\ Plans!Above(Plans!Parent(i), i)
           /\ \A m \in Lines : Plans!Above(m, i) =>
                 Plans!Parent(i) \in Lines /\ (m = Plans!Parent(i) \/ Plans!Above(m, Plans!Parent(i)))
           /\ i = 1 => Plans!Parent(i) = 0
           /\ \A p \in Lines :
                 /\ p < i /\ plan[p].depth < plan[i].depth
                 /\ \A j \in (p + 1) .. (i - 1) : plan[j].depth >= plan[i].depth
                 => Plans!Parent(i) = p
<1> DEFINE Shallower == {j \in Lines : j < i /\ plan[j].depth < plan[i].depth} \cup {0}
           parent == Plans!Max(Shallower)
<1>1. /\ Len(plan) \in Nat /\ Lines = 1 .. Len(plan)
      /\ \A j \in Lines : plan[j].depth \in Int
      /\ \A S \in SUBSET Lines : IsFiniteSet(S)
  BY LinesAreFew
<1>2. Plans!Parent(i) = parent
  BY DEF Plans!Parent, Plans!Indent, Lines
<1>3. IsFiniteSet(Shallower) /\ Shallower \in SUBSET Int /\ Shallower # {}
  <2>1. IsFiniteSet({j \in Lines : j < i /\ plan[j].depth < plan[i].depth})
    BY <1>1
  <2>2. IsFiniteSet(Shallower)
    BY <2>1, FS_AddElement
  <2> QED
    BY <1>1, <2>2
<1>4. parent \in Shallower /\ \A y \in Shallower : parent >= y
  <2> HIDE DEF Shallower
  <2> QED
    BY <1>3, Extremes, SameOperators
<1>5. ASSUME parent # 0
      PROVE  parent \in Lines /\ Plans!Above(parent, i)
  <2>1. parent \in Lines /\ parent < i /\ plan[parent].depth < plan[i].depth
    BY <1>4, <1>5
  <2>2. ASSUME NEW k \in (parent + 1) .. i
        PROVE  plan[k].depth > plan[parent].depth
    <3> HIDE DEF parent
    <3>1. k \in Lines /\ k > parent /\ k <= i
      BY <1>1, <2>1
    <3>2. CASE k = i
      BY <2>1, <3>2
    <3>3. CASE k < i
      <4>1. k \notin Shallower
        <5> HIDE DEF Shallower
        <5> QED
          BY <1>1, <1>3, <1>4, <2>1, <3>1
      <4>2. plan[k].depth >= plan[i].depth
        BY <1>1, <3>1, <3>3, <4>1
      <4> QED
        BY <1>1, <2>1, <3>1, <4>2
    <3> QED
      BY <1>1, <3>1, <3>2, <3>3
  <2> QED
    BY <2>1, <2>2 DEF Plans!Above, Plans!Indent
<1>6. ASSUME i = 1
      PROVE  parent = 0
  <2>1. Shallower = {0}
    BY <1>1, <1>6
  <2> QED
    BY <1>4, <2>1
<1>7. ASSUME NEW p \in Lines, p < i, plan[p].depth < plan[i].depth,
             \A j \in (p + 1) .. (i - 1) : plan[j].depth >= plan[i].depth
      PROVE  parent = p
  <2>1. p \in Shallower
    BY <1>7
  <2>2. ASSUME NEW x \in Shallower
        PROVE  p >= x
    <3>1. CASE x = 0
      BY <1>1, <3>1
    <3>2. CASE x \in Lines /\ x < i /\ plan[x].depth < plan[i].depth
      <4>1. x \notin (p + 1) .. (i - 1)
        BY <1>1, <1>7, <3>2
      <4> QED
        BY <1>1, <3>2, <4>1
    <3> QED
      BY <3>1, <3>2
  <2> QED
    <3> HIDE DEF Shallower
    <3> QED
      BY <1>3, <2>1, <2>2, LeastAndGreatest
<1>8. ASSUME NEW m \in Lines, Plans!Above(m, i)
      PROVE  parent \in Lines /\ (m = parent \/ Plans!Above(m, parent))
  <2>1. m < i /\ plan[m].depth < plan[i].depth
    <3>1. m < i
      BY <1>8 DEF Plans!Above
    <3>2. i \in (m + 1) .. i
      BY <1>1, <3>1
    <3> QED
      BY <1>1, <1>8, <3>1, <3>2 DEF Plans!Above, Plans!Indent
  <2>2. m \in Shallower
    BY <2>1
  <2>3. m <= parent /\ parent \in Lines /\ parent < i
    <3> HIDE DEF parent
    <3> QED
      BY <1>1, <1>4, <2>2
  <2> HIDE DEF parent
  <2>4. m # parent => Plans!Above(m, parent)
    BY <1>1, <1>8, <2>3 DEF Plans!Above
  <2> QED
    BY <2>3, <2>4
<1> QED
  BY <1>2, <1>5, <1>6, <1>7, <1>8

(* The lines of a set in the order of the text.                            *)
LEMMA LinesInOrder ==
    ASSUME PlanTyped, NEW S \in SUBSET Lines
    PROVE  LET list == Plans!InOrder(S)
           IN  /\ Len(list) = Cardinality(S) /\ Cardinality(S) \in Nat
               /\ \A k \in 1 .. Cardinality(S) : list[k] \in S
               /\ \A k, l \in 1 .. Cardinality(S) : k < l => list[k] < list[l]
               /\ \A x \in S : \E k \in 1 .. Cardinality(S) : list[k] = x
<1> DEFINE R == {pair \in S \X S : pair[1] < pair[2]}
           up == [x \in S |-> Cardinality(UpTo(R, S, x))]
           n == Cardinality(S)
           list == Plans!InOrder(S)
<1>1. IsFiniteSet(S) /\ S \subseteq Int
  BY LinesAreFew
<1>2. IsOrder(R, S)
  BY <1>1 DEF IsOrder
<1>3. Ranks(R, S, up)
  <2>1. \A x \in S : up[x] = Cardinality(UpTo(R, S, x))
    OBVIOUS
  <2> HIDE DEF up, R
  <2> QED
    BY <1>1, <1>2, <2>1, Ranking
<1>4. \A x \in S : Plans!Cardinality({j \in S : j <= x}) = up[x]
  <2> SUFFICES ASSUME NEW x \in S
               PROVE  Plans!Cardinality({j \in S : j <= x}) = up[x]
    OBVIOUS
  <2>1. UpTo(R, S, x) = {j \in S : j <= x}
    <3>1. ASSUME NEW y \in S
          PROVE  <<x, y>> \notin R <=> y <= x
      BY <1>1
    <3> HIDE DEF R
    <3> QED
      BY <3>1 DEF UpTo
  <2> QED
    BY <2>1, SameOperators
<1>5. list = [k \in 1 .. n |-> CHOOSE i \in S : Plans!Cardinality({j \in S : j <= i}) = k]
  <2>1. Plans!Cardinality(S) = n
    BY SameOperators
  <2> QED
    BY <2>1 DEF Plans!InOrder
<1> HIDE DEF up, list, n
<1>6. /\ n \in Nat /\ \A x \in S : up[x] \in 1 .. n
      /\ \A i \in 1 .. n : \E x \in S : up[x] = i
      /\ \A x, y \in S : up[x] < up[y] <=> <<x, y>> \in R
      /\ \A x, y \in S : up[x] = up[y] => x = y
  BY <1>3 DEF Ranks, n
<1>7. \A k \in 1 .. n : list[k] \in S /\ up[list[k]] = k
  <2> SUFFICES ASSUME NEW k \in 1 .. n
               PROVE  list[k] \in S /\ up[list[k]] = k
    OBVIOUS
  <2>1. list[k] = CHOOSE i \in S : Plans!Cardinality({j \in S : j <= i}) = k
    BY <1>5
  <2>2. PICK x \in S : up[x] = k
    BY <1>6
  <2>3. \E i \in S : Plans!Cardinality({j \in S : j <= i}) = k
    BY <1>4, <2>2
  <2>4. list[k] \in S /\ Plans!Cardinality({j \in S : j <= list[k]}) = k
    BY ONLY <2>1, <2>3
  <2> QED
    BY <1>4, <2>4
<1>8. Len(list) = n
  BY <1>5, <1>6
<1>9. ASSUME NEW k \in 1 .. n, NEW l \in 1 .. n, k < l
      PROVE  list[k] < list[l]
  <2>1. <<list[k], list[l]>> \in R
    <3> HIDE DEF R
    <3> QED
      BY <1>6, <1>7, <1>9
  <2> QED
    BY <2>1
<1>10. ASSUME NEW x \in S
       PROVE  \E k \in 1 .. n : list[k] = x
  <2>1. up[x] \in 1 .. n
    BY <1>6
  <2> QED
    BY <1>6, <1>7, <2>1
<1> QED
  BY <1>6, <1>7, <1>8, <1>9, <1>10 DEF list, n

\* A line as it was asked for, and one that computes the sums.
PlainLine(depth, kind) == [depth |-> depth, kind |-> kind, exact |-> TRUE, sums |-> FALSE]
SummingLine(depth, kind) == [depth |-> depth, kind |-> kind, exact |-> TRUE, sums |-> TRUE]

EndpointKinds == <<"gather", "finalize", "redistribute", "partial", "finalize",
                   "redistribute", "partial", "append", "scan">>
CanonicalKinds == <<"finalize", "gather", "subquery", "finalize", "redistribute", "partial",
                    "subquery", "append", "scan">>

(* Such lines are lines of plans.                                          *)
LEMMA LinesOfPlans ==
    \A d \in Int : \A kind \in Plans!Kinds :
       SummingLine(d, kind) \in PlanNodes /\ PlainLine(d, kind) \in PlanNodes
BY DEF PlainLine, SummingLine, PlanNodes

(* A line that sums.                                                       *)
LEMMA SummingLines ==
    ASSUME NEW d, NEW kind
    PROVE  Plans!Summing(PlainLine(d, kind)) = SummingLine(d, kind)
<1> DEFINE y == Plans!Summing(PlainLine(d, kind))
           z == SummingLine(d, kind)
           F == {"depth", "kind", "exact", "sums"}
<1>1. /\ y = [q \in F |-> y[q]]
      /\ y.depth = d /\ y.kind = kind /\ y.exact = TRUE /\ y.sums = TRUE
  BY DEF Plans!Summing, PlainLine
<1>2. /\ z = [q \in F |-> z[q]]
      /\ z.depth = d /\ z.kind = kind /\ z.exact = TRUE /\ z.sums = TRUE
  BY DEF SummingLine
<1>3. \A q \in F : y[q] = z[q]
  <2> HIDE DEF y, z
  <2> QED
    BY <1>1, <1>2
<1> HIDE DEF y, z, F
<1> QED
  BY <1>1, <1>2, <1>3, Zenon DEF y, z

(* The elements of a sequence of nine and what follows it.                 *)
LEMMA NineAndMore ==
    ASSUME NEW s \in Seq(PlanNodes), NEW t \in Seq(PlanNodes), Len(s) = 9
    PROVE  /\ s \o t \in Seq(PlanNodes) /\ Len(s \o t) = 9 + Len(t)
           /\ \A i \in 1 .. 9 : (s \o t)[i] = s[i]
           /\ Len(t) >= 1 => (s \o t)[10] = t[1]
           /\ Len(t) >= 2 => (s \o t)[11] = t[2]
           /\ Len(t) >= 3 => (s \o t)[12] = t[3]
<1> DEFINE both == s \o t
<1>6. /\ both \in Seq(PlanNodes) /\ Len(both) = Len(s) + Len(t)
      /\ \A i \in 1 .. Len(s) + Len(t) : both[i] = IF i <= Len(s) THEN s[i] ELSE t[i - Len(s)]
  BY ConcatProperties, Zenon
<1>7. Len(t) \in Nat
  OBVIOUS
<1> HIDE DEF both
<1>1. /\ both \in Seq(PlanNodes) /\ Len(both) = 9 + Len(t) /\ Len(t) \in Nat
      /\ \A i \in 1 .. 9 + Len(t) : both[i] = IF i <= 9 THEN s[i] ELSE t[i - 9]
  BY <1>6, <1>7
<1>2. \A i \in 1 .. 9 : both[i] = s[i]
  BY <1>1
<1>3. Len(t) >= 1 => both[10] = t[10 - 9]
  BY <1>1
<1>4. Len(t) >= 2 => both[11] = t[11 - 9]
  BY <1>1
<1>5. Len(t) >= 3 => both[12] = t[12 - 9]
  BY <1>1
<1> QED
  BY <1>1, <1>2, <1>3, <1>4, <1>5 DEF both

(* The first nine lines of both plans, one below the other; one of them    *)
(* sums.                                                                   *)
LEMMA UpperLines ==
    ASSUME NEW kinds, Len(kinds) = 9, \A i \in 1 .. 9 : kinds[i] \in Plans!Kinds,
           NEW n \in 1 .. 9
    PROVE  LET upper == [Plans!Depths(kinds) EXCEPT ![n] = Plans!Summing(@)]
           IN  /\ upper \in Seq(PlanNodes) /\ Len(upper) = 9
               /\ \A i \in 1 .. 9 : upper[i] = IF i = n THEN SummingLine(i - 1, kinds[i])
                                              ELSE PlainLine(i - 1, kinds[i])
<1> DEFINE depths == Plans!Depths(kinds)
           upper == [depths EXCEPT ![n] = Plans!Summing(depths[n])]
<1>1. depths = [i \in 1 .. 9 |-> PlainLine(i - 1, kinds[i])]
  BY DEF Plans!Depths, Plans!Node, PlainLine
<1>2. Plans!Summing(depths[n]) = SummingLine(n - 1, kinds[n])
  <2>1. depths[n] = PlainLine(n - 1, kinds[n])
    BY <1>1
  <2> QED
    BY <2>1, SummingLines
<1>3. upper = [depths EXCEPT ![n] = SummingLine(n - 1, kinds[n])]
  BY <1>2, Zenon
<1> HIDE DEF depths, upper
<1>4. \A i \in 1 .. 9 : upper[i] = IF i = n THEN SummingLine(i - 1, kinds[i])
                                  ELSE PlainLine(i - 1, kinds[i])
  BY <1>1, <1>3
<1>5. ASSUME NEW i \in 1 .. 9
      PROVE  upper[i] \in PlanNodes
  <2>1. SummingLine(i - 1, kinds[i]) \in PlanNodes /\ PlainLine(i - 1, kinds[i]) \in PlanNodes
    BY LinesOfPlans
  <2> QED
    BY <1>4, <2>1
<1>6. upper \in Seq(PlanNodes) /\ Len(upper) = 9
  <2>1. upper = [i \in 1 .. 9 |-> upper[i]]
    BY <1>1, <1>3
  <2> QED
    BY <1>5, <2>1
<1> QED
  BY <1>4, <1>6 DEF upper, depths

(* The plan of the endpoint's query, line by line                          *)
(* (build_greengage_range_fingerprint_query).                              *)
LEMMA EndpointLines ==
    LET lines == Plans!EndpointPlan
    IN  /\ lines \in Seq(PlanNodes) /\ Len(lines) = IF Ranges = 1 THEN 10 ELSE 12
        /\ \A i \in 1 .. 9 : lines[i] = IF i = 7 THEN SummingLine(i - 1, EndpointKinds[i])
                                        ELSE PlainLine(i - 1, EndpointKinds[i])
        /\ Ranges = 1 => lines[10] = PlainLine(8, "gp_id")
        /\ Ranges # 1 => /\ lines[10] = PlainLine(8, "loop")
                         /\ lines[11] = PlainLine(9, "gp_id")
                         /\ lines[12] = PlainLine(9, "values")
<1> DEFINE upper == [Plans!Depths(EndpointKinds) EXCEPT ![7] = Plans!Summing(@)]
           seed == IF Ranges = 1 THEN <<PlainLine(8, "gp_id")>>
                   ELSE <<PlainLine(8, "loop"), PlainLine(9, "gp_id"), PlainLine(9, "values")>>
           lines == upper \o seed
<1>1. Plans!EndpointPlan = lines
  BY DEF Plans!EndpointPlan, Plans!Node, PlainLine, EndpointKinds
<1>2. /\ Len(EndpointKinds) = 9
      /\ \A i \in 1 .. 9 : EndpointKinds[i] \in Plans!Kinds
  BY DEF EndpointKinds, Plans!Kinds, Plans!Motions, Plans!Aggregates
<1>3. /\ upper \in Seq(PlanNodes) /\ Len(upper) = 9
      /\ \A i \in 1 .. 9 : upper[i] = IF i = 7 THEN SummingLine(i - 1, EndpointKinds[i])
                                     ELSE PlainLine(i - 1, EndpointKinds[i])
  BY <1>2, UpperLines
<1>4. /\ seed \in Seq(PlanNodes) /\ Len(seed) = IF Ranges = 1 THEN 1 ELSE 3
      /\ Ranges = 1 => seed[1] = PlainLine(8, "gp_id")
      /\ Ranges # 1 => /\ seed[1] = PlainLine(8, "loop")
                       /\ seed[2] = PlainLine(9, "gp_id") /\ seed[3] = PlainLine(9, "values")
  <2>1. /\ PlainLine(8, "gp_id") \in PlanNodes /\ PlainLine(8, "loop") \in PlanNodes
        /\ PlainLine(9, "gp_id") \in PlanNodes /\ PlainLine(9, "values") \in PlanNodes
    BY LinesOfPlans DEF Plans!Kinds
  <2> QED
    BY <2>1
<1> HIDE DEF upper, seed
<1>5. /\ lines \in Seq(PlanNodes) /\ Len(lines) = 9 + Len(seed)
      /\ \A i \in 1 .. 9 : lines[i] = upper[i]
      /\ Len(seed) >= 1 => lines[10] = seed[1]
      /\ Len(seed) >= 2 => lines[11] = seed[2]
      /\ Len(seed) >= 3 => lines[12] = seed[3]
  BY <1>3, <1>4, NineAndMore, Zenon
<1> HIDE DEF lines
<1>6. CASE Ranges = 1
  <2>1. Len(seed) = 1
    BY <1>4, <1>6
  <2>2. Len(lines) = 10 /\ lines[10] = PlainLine(8, "gp_id")
    BY <1>4, <1>5, <1>6, <2>1
  <2> QED
    BY <1>1, <1>3, <1>5, <1>6, <2>2
<1>7. CASE Ranges # 1
  <2>1. Len(seed) = 3
    BY <1>4, <1>7
  <2>2. /\ Len(lines) = 12 /\ lines[10] = PlainLine(8, "loop")
        /\ lines[11] = PlainLine(9, "gp_id") /\ lines[12] = PlainLine(9, "values")
    BY <1>4, <1>5, <1>7, <2>1
  <2> QED
    BY <1>1, <1>3, <1>5, <1>7, <2>2
<1> QED
  BY <1>6, <1>7

(* The plan of the canonical queries (_build_greenplum_fingerprint_query). *)
LEMMA CanonicalLines ==
    LET lines == Plans!CanonicalPlan
    IN  /\ lines \in Seq(PlanNodes) /\ Len(lines) = 11
        /\ \A i \in 1 .. 9 : lines[i] = IF i = 6 THEN SummingLine(i - 1, CanonicalKinds[i])
                                        ELSE PlainLine(i - 1, CanonicalKinds[i])
        /\ lines[10] = PlainLine(8, "subquery") /\ lines[11] = PlainLine(9, "gp_id")
<1> DEFINE upper == [Plans!Depths(CanonicalKinds) EXCEPT ![6] = Plans!Summing(@)]
           seed == <<PlainLine(8, "subquery"), PlainLine(9, "gp_id")>>
           lines == upper \o seed
<1>1. Plans!CanonicalPlan = lines
  BY DEF Plans!CanonicalPlan, Plans!Node, PlainLine, CanonicalKinds
<1>2. /\ Len(CanonicalKinds) = 9
      /\ \A i \in 1 .. 9 : CanonicalKinds[i] \in Plans!Kinds
  BY DEF CanonicalKinds, Plans!Kinds, Plans!Motions, Plans!Aggregates
<1>3. /\ upper \in Seq(PlanNodes) /\ Len(upper) = 9
      /\ \A i \in 1 .. 9 : upper[i] = IF i = 6 THEN SummingLine(i - 1, CanonicalKinds[i])
                                     ELSE PlainLine(i - 1, CanonicalKinds[i])
  BY <1>2, UpperLines
<1>4. /\ seed \in Seq(PlanNodes) /\ Len(seed) = 2
      /\ seed[1] = PlainLine(8, "subquery") /\ seed[2] = PlainLine(9, "gp_id")
  <2>1. PlainLine(8, "subquery") \in PlanNodes /\ PlainLine(9, "gp_id") \in PlanNodes
    BY LinesOfPlans DEF Plans!Kinds
  <2> QED
    BY <2>1
<1> HIDE DEF upper, seed
<1>5. /\ lines \in Seq(PlanNodes) /\ Len(lines) = 9 + Len(seed)
      /\ \A i \in 1 .. 9 : lines[i] = upper[i]
      /\ Len(seed) >= 1 => lines[10] = seed[1]
      /\ Len(seed) >= 2 => lines[11] = seed[2]
  BY <1>3, <1>4, NineAndMore, Zenon
<1> HIDE DEF lines
<1> QED
  BY <1>1, <1>3, <1>4, <1>5

PlannersPlan == IF validator = "endpoint" THEN Plans!EndpointPlan ELSE Plans!CanonicalPlan

\* A plan is a text of lines, and the planner's own as long as nothing changed.
PlanInv ==
    /\ validator \in {"endpoint", "greengage", "original"} /\ changes \in Nat
    /\ PlanTyped /\ (changes = 0 => plan = PlannersPlan)

(* The planner's plans are texts of lines.                                 *)
LEMMA PlansStart ==
    ASSUME Plans!Init
    PROVE  PlanInv
<1>1. Plans!EndpointPlan \in Seq(PlanNodes) /\ Plans!CanonicalPlan \in Seq(PlanNodes)
  BY EndpointLines, CanonicalLines
<1> QED
  BY <1>1 DEF Plans!Init, PlanInv, PlanTyped, PlannersPlan

(* Another planner's plan is one, too.                                     *)
LEMMA PlansChange ==
    ASSUME PlanInv, Plans!Next
    PROVE  PlanInv'
<1> DEFINE Changed(new) == new \in Seq(PlanNodes) /\ Plans!Change(new)
<1>1. /\ Len(plan) \in Nat /\ Lines = 1 .. Len(plan) /\ Plans!Lines = Lines
      /\ plan \in Seq(PlanNodes) /\ \A i \in Lines : plan[i] \in PlanNodes
  BY LinesAreFew DEF PlanInv, PlanTyped, Lines
<1>2. ASSUME NEW new, Changed(new)
      PROVE  PlanInv'
  BY <1>2 DEF PlanInv, PlanTyped, Plans!Change, PlannersPlan
<1>3. ASSUME NEW x \in PlanNodes, NEW d \in Int
      PROVE  [x EXCEPT !.depth = d] \in PlanNodes
  BY <1>3 DEF PlanNodes
<1>4. ASSUME NEW i \in Lines
      PROVE  /\ Plans!Shift(i, Plans!Deeper) \in Seq(PlanNodes)
             /\ Len(Plans!Shift(i, Plans!Deeper)) = Len(plan)
             /\ Plans!Shift(i, Plans!Shallower) \in Seq(PlanNodes)
             /\ Len(Plans!Shift(i, Plans!Shallower)) = Len(plan)
  <2> DEFINE deeper == Plans!Shift(i, Plans!Deeper)
             shallower == Plans!Shift(i, Plans!Shallower)
  <2>1. /\ deeper = [j \in 1 .. Len(plan) |-> IF j = i \/ Plans!Above(i, j)
                                              THEN [plan[j] EXCEPT !.depth = plan[j].depth + 1]
                                              ELSE plan[j]]
        /\ shallower = [j \in 1 .. Len(plan) |-> IF j = i \/ Plans!Above(i, j)
                                              THEN [plan[j] EXCEPT !.depth = plan[j].depth - 1]
                                              ELSE plan[j]]
    BY <1>1 DEF Plans!Shift, Plans!Deeper, Plans!Shallower
  <2>2. \A j \in 1 .. Len(plan) : plan[j].depth + 1 \in Int /\ plan[j].depth - 1 \in Int
    BY <1>1 DEF PlanNodes
  <2>3. \A j \in 1 .. Len(plan) : deeper[j] \in PlanNodes /\ shallower[j] \in PlanNodes
    BY <1>1, <1>3, <2>1, <2>2
  <2>4. /\ deeper = [j \in 1 .. Len(plan) |-> deeper[j]]
        /\ shallower = [j \in 1 .. Len(plan) |-> shallower[j]]
    BY <2>1
  <2> HIDE DEF deeper, shallower
  <2>5. deeper \in Seq(PlanNodes) /\ Len(deeper) = Len(plan)
    BY <1>1, <2>3, <2>4
  <2>6. shallower \in Seq(PlanNodes) /\ Len(shallower) = Len(plan)
    BY <1>1, <2>3, <2>4
  <2> QED
    BY <2>5, <2>6 DEF deeper, shallower
<1>5. ASSUME NEW s \in Seq(PlanNodes), NEW i \in 1 .. Len(s) + 1, NEW x \in PlanNodes
      PROVE  Plans!InsertAt(s, i, x) \in Seq(PlanNodes)
  <2>1. /\ SubSeq(s, 1, i - 1) \in Seq(PlanNodes) /\ SubSeq(s, i, Len(s)) \in Seq(PlanNodes)
        /\ <<x>> \in Seq(PlanNodes)
    BY <1>5, SubSeqProperties
  <2> QED
    BY <2>1 DEF Plans!InsertAt
<1>6. ASSUME NEW s \in Seq(PlanNodes), NEW i \in 1 .. Len(s)
      PROVE  Plans!RemoveAt(s, i) \in Seq(PlanNodes)
  <2>1. SubSeq(s, 1, i - 1) \in Seq(PlanNodes) /\ SubSeq(s, i + 1, Len(s)) \in Seq(PlanNodes)
    BY <1>6, SubSeqProperties
  <2> QED
    BY <2>1 DEF Plans!RemoveAt
<1>7. ASSUME NEW d \in Int, NEW kind \in Plans!Kinds
      PROVE  Plans!Node(d, kind) \in PlanNodes
  BY DEF Plans!Node, PlanNodes
<1>8. PICK i \in Lines :
         \/ \E kind \in Plans!Kinds :
               Plans!Wrap(i, kind) \/ Plans!AddChild(i, kind) \/ Plans!Rename(i, kind)
         \/ Plans!Splice(i) \/ Plans!Rehang(i) \/ Plans!Blur(i)
         \/ \E j \in Lines : Plans!SumsMove(i, j)
  BY <1>1 DEF Plans!Next
<1>9. plan[i].depth \in Int /\ plan[i].depth + 1 \in Int /\ i \in 1 .. Len(plan)
      /\ i \in 1 .. Len(plan) + 1 /\ i + 1 \in 1 .. Len(plan) + 1
  BY <1>1 DEF PlanNodes
<1> HIDE DEF Changed
<1>10. ASSUME NEW kind \in Plans!Kinds, Plans!Wrap(i, kind)
       PROVE  PlanInv'
  <2>1. Changed(Plans!InsertAt(Plans!Shift(i, Plans!Deeper), i, Plans!Node(plan[i].depth, kind)))
    BY <1>4, <1>5, <1>7, <1>9, <1>10 DEF Plans!Wrap, Plans!Indent, Changed
  <2> QED
    BY <1>2, <2>1
<1>11. ASSUME NEW kind \in Plans!Kinds, Plans!AddChild(i, kind)
       PROVE  PlanInv'
  <2>1. Changed(Plans!InsertAt(plan, i + 1, Plans!Node(plan[i].depth + 1, kind)))
    BY <1>1, <1>5, <1>7, <1>9, <1>11 DEF Plans!AddChild, Plans!Indent, Changed
  <2> QED
    BY <1>2, <2>1
<1>12. ASSUME NEW kind \in Plans!Kinds, Plans!Rename(i, kind)
       PROVE  PlanInv'
  <2>1. [plan[i] EXCEPT !.kind = kind] \in PlanNodes
    BY <1>1 DEF PlanNodes
  <2>2. Changed([plan EXCEPT ![i].kind = kind])
    BY <1>1, <1>9, <1>12, <2>1 DEF Plans!Rename, Changed
  <2> QED
    BY <1>2, <2>2
<1>13. ASSUME Plans!Splice(i)
       PROVE  PlanInv'
  <2>1. Changed(Plans!RemoveAt(Plans!Shift(i, Plans!Shallower), i))
    BY <1>4, <1>6, <1>9, <1>13 DEF Plans!Splice, Changed
  <2> QED
    BY <1>2, <2>1
<1>14. ASSUME Plans!Rehang(i)
       PROVE  PlanInv'
  <2>1. Changed(Plans!Shift(i, Plans!Shallower))
    BY <1>4, <1>14 DEF Plans!Rehang, Changed
  <2> QED
    BY <1>2, <2>1
<1>15. ASSUME Plans!Blur(i)
       PROVE  PlanInv'
  <2>1. [plan[i] EXCEPT !.exact = FALSE] \in PlanNodes
    BY <1>1 DEF PlanNodes
  <2>2. Changed([plan EXCEPT ![i].exact = FALSE])
    BY <1>1, <1>9, <1>15, <2>1 DEF Plans!Blur, Changed
  <2> QED
    BY <1>2, <2>2
<1>16. ASSUME NEW j \in Lines, Plans!SumsMove(i, j)
       PROVE  PlanInv'
  <2>1. /\ [plan[i] EXCEPT !.sums = FALSE] \in PlanNodes
        /\ [plan[j] EXCEPT !.sums = TRUE] \in PlanNodes /\ i # j
    BY <1>1, <1>16 DEF PlanNodes, Plans!SumsMove
  <2> DEFINE one == [plan EXCEPT ![i] = [plan[i] EXCEPT !.sums = FALSE]]
             both == [one EXCEPT ![j] = [plan[j] EXCEPT !.sums = TRUE]]
  <2>3. one \in Seq(PlanNodes) /\ Len(one) = Len(plan) /\ one[j] = plan[j]
    BY <1>1, <1>9, <2>1
  <2>4. both = [plan EXCEPT ![i].sums = FALSE, ![j].sums = TRUE]
    BY <2>3
  <2>5. both \in Seq(PlanNodes)
    <3> HIDE DEF one
    <3> QED
      BY <1>1, <2>1, <2>3
  <2>2. Changed(both)
    BY <1>16, <2>4, <2>5 DEF Plans!SumsMove, Changed
  <2> QED
    BY <1>2, <2>2
<1> QED
  BY <1>8, <1>10, <1>11, <1>12, <1>13, <1>14, <1>15, <1>16

\* The five stages of a distributed aggregation, each above the next.
Stages(g, f, r, p, a) ==
    /\ g \in Lines /\ f \in Lines /\ r \in Lines /\ p \in Lines /\ a \in Lines
    /\ Plans!Is(g, {"gather"}) /\ plan[g].exact /\ Plans!Is(f, Plans!Aggregates)
    /\ Plans!Is(r, {"redistribute"}) /\ plan[r].exact /\ Plans!Is(p, Plans!Aggregates)
    /\ Plans!Is(a, {"append"})
    /\ Plans!Above(g, f) /\ Plans!Above(f, r) /\ Plans!Above(r, p) /\ Plans!Above(p, a)

\* The relation and the topology seed below them, with no Motion on the way.
Sources(p, a, s, t) ==
    /\ s \in Lines /\ t \in Lines /\ Plans!Is(s, {"scan"}) /\ Plans!Is(t, {"gp_id"})
    /\ plan[s].exact /\ Plans!Above(a, s) /\ Plans!Above(a, t) /\ ~Plans!Above(s, t) /\ ~Plans!Above(t, s)
    /\ ~Plans!MotionBetween(p, s) /\ ~Plans!MotionBetween(p, t)

\* What the endpoint's validator asks of the lines themselves.
ExactStages(g, f, p, a, s, t) ==
    /\ Plans!Parent(g) = 0 /\ plan[f].exact /\ plan[p].exact
    /\ plan[s].exact /\ plan[t].exact /\ Plans!Parent(s) = a
    /\ \A m \in Lines : Plans!Is(m, Plans!Motions) /\ Plans!Above(m, s) => plan[m].exact

(* Together they are the tree.                                             *)
LEMMA StagesMakeTheTree ==
    ASSUME NEW g, NEW f, NEW r, NEW p, NEW a, Stages(g, f, r, p, a),
           NEW s, NEW t, Sources(p, a, s, t),
           validator = "endpoint" => plan[p].sums /\ ExactStages(g, f, p, a, s, t),
           validator = "greengage" => Plans!Sums(p),
           validator = "original" => Plans!SummedBelowMotion
    PROVE  Plans!DistributedTree
BY Zenon DEF Stages, Sources, ExactStages, Plans!DistributedTree, Lines

(* No Motion in the subtree of the lowest aggregate is none on the way.    *)
LEMMA NoMotionOnTheWay ==
    ASSUME PlanTyped, NEW p \in Lines, NEW x \in Lines, NEW end \in Int, x < end,
           ~ \E i \in (p + 1) .. (end - 1) : Plans!Is(i, Plans!Motions)
    PROVE  ~Plans!MotionBetween(p, x)
<1>1. Len(plan) \in Nat /\ Lines = 1 .. Len(plan)
  BY LinesAreFew
<1>2. ASSUME NEW m \in Lines, Plans!Is(m, Plans!Motions), Plans!Above(p, m), Plans!Above(m, x)
      PROVE  FALSE
  <2>1. p < m /\ m < x
    BY <1>2 DEF Plans!Above
  <2>2. m \in (p + 1) .. (end - 1)
    BY <1>1, <2>1
  <2> QED
    BY <1>2, <2>2
<1> QED
  BY <1>2 DEF Plans!MotionBetween, Lines

(* A line found after another is there, after it, and as asked for         *)
(* (_find_human_node).                                                     *)
LEMMA NodesAreFound ==
    ASSUME PlanTyped, NEW kinds, NEW after \in Nat, Plans!FindNode(kinds, after) # 0
    PROVE  LET node == Plans!FindNode(kinds, after)
           IN  /\ node \in Lines /\ node > after /\ after # 0 /\ Plans!Is(node, kinds)
               /\ kinds \subseteq Plans!Motions => plan[node].exact
<1> DEFINE found == {i \in Lines : /\ i > after /\ after > 0 /\ Plans!Is(i, kinds)
                                   /\ (kinds \subseteq Plans!Motions => plan[i].exact)}
           node == Plans!FindNode(kinds, after)
<1>1. node = IF found = {} THEN 0 ELSE Plans!Min(found)
  BY Zenon DEF Plans!FindNode, Lines
<1>2. IsFiniteSet(found) /\ found \subseteq Int
  BY LinesAreFew
<1> HIDE DEF node
<1>3. node \in found
  <2> HIDE DEF found
  <2>1. found # {} /\ node = Plans!Min(found)
    BY <1>1 DEF node
  <2> QED
    BY <1>2, <2>1, Extremes, SameOperators
<1>4. node \in Lines /\ node > after /\ after > 0
  BY <1>3
<1>5. Plans!Is(node, kinds) /\ (kinds \subseteq Plans!Motions => plan[node].exact)
  BY <1>3, Zenon
<1>6. after # 0
  BY <1>4
<1> QED
  BY <1>4, <1>5, <1>6 DEF node

(* What is found is a number.                                              *)
LEMMA FoundIsANumber ==
    ASSUME PlanTyped, NEW kinds, NEW after \in Nat
    PROVE  Plans!FindNode(kinds, after) \in Nat
<1>1. CASE Plans!FindNode(kinds, after) # 0
  BY <1>1, NodesAreFound, LinesAreFew
<1> QED
  BY <1>1

(* The shape the canonical validators read off the printed plan is that of *)
(* the tree, wherever the limb sums are                                    *)
(* (_parse_greenplum_fingerprint_plan_shape).                              *)
LEMMA ShapesAreStages ==
    ASSUME PlanTyped, Plans!FingerprintShape(Plans!HumanStages)
    PROVE  LET stage == Plans!HumanStages
           IN  /\ Stages(stage.gather, stage.final, stage.redistribute, stage.partial,
                         stage.append)
               /\ \E s, t \in Lines : Sources(stage.partial, stage.append, s, t)
<1> DEFINE outer == IF \E i \in Plans!Lines : Plans!Is(i, Plans!Aggregates)
                    THEN Plans!Found(Plans!Aggregates)[1] ELSE 0
           g == Plans!FindNode({"gather"}, outer)
           f == Plans!FindNode(Plans!Aggregates, g)
           r == Plans!FindNode({"redistribute"}, f)
           p == Plans!FindNode(Plans!Aggregates, r)
           a == Plans!FindNode({"append"}, p)
           stage == Plans!HumanStages
<1>1. /\ stage.outer = outer /\ stage.gather = g /\ stage.final = f
      /\ stage.redistribute = r /\ stage.partial = p /\ stage.append = a
  BY DEF Plans!HumanStages
<1>2. outer \in Nat
  <2>1. ASSUME NEW i \in Lines, Plans!Is(i, Plans!Aggregates)
        PROVE  Plans!Found(Plans!Aggregates)[1] \in Nat
    <3> DEFINE S == {x \in Lines : Plans!Is(x, Plans!Aggregates)}
    <3>1. Plans!Found(Plans!Aggregates) = Plans!InOrder(S)
      BY DEF Plans!Found, Lines
    <3>2. S \in SUBSET Lines /\ S # {}
      BY <2>1
    <3> HIDE DEF S
    <3>3. IsFiniteSet(S) /\ S \subseteq Int /\ Lines \subseteq Nat
      BY <3>2, LinesAreFew
    <3>4. Cardinality(S) # 0 /\ Cardinality(S) \in Nat
      BY <3>2, <3>3, FS_EmptySet, FS_CardinalityType
    <3>5. 1 \in 1 .. Cardinality(S)
      BY <3>4
    <3>6. Plans!InOrder(S)[1] \in S
      BY <3>2, <3>5, LinesInOrder
    <3> QED
      BY <3>1, <3>2, <3>3, <3>6
  <2> QED
    BY <2>1 DEF Lines
<1> HIDE DEF outer, g, f, r, p, a, stage
<1>3. g \in Nat /\ f \in Nat /\ r \in Nat /\ p \in Nat
  <2>1. g \in Nat
    BY <1>2, FoundIsANumber DEF g
  <2>2. f \in Nat
    BY <2>1, FoundIsANumber DEF f
  <2>3. r \in Nat
    BY <2>2, FoundIsANumber DEF r
  <2>4. p \in Nat
    BY <2>3, FoundIsANumber DEF p
  <2> QED
    BY <2>1, <2>2, <2>3, <2>4
<1>4. /\ a # 0 /\ Plans!ShapeNests(stage) /\ Plans!SourceSiblings(stage)
  BY <1>1 DEF Plans!FingerprintShape, stage
<1>5. /\ a \in Lines /\ p # 0 /\ Plans!Is(a, {"append"})
  BY <1>3, <1>4, NodesAreFound DEF a
<1>6. /\ p \in Lines /\ r # 0 /\ Plans!Is(p, Plans!Aggregates)
  BY <1>3, <1>5, NodesAreFound DEF p
<1>7. /\ r \in Lines /\ f # 0 /\ Plans!Is(r, {"redistribute"})
      /\ ({"redistribute"} \subseteq Plans!Motions => plan[r].exact)
  BY <1>3, <1>6, NodesAreFound DEF r
<1>8. /\ f \in Lines /\ g # 0 /\ Plans!Is(f, Plans!Aggregates)
  BY <1>3, <1>7, NodesAreFound DEF f
<1>9. /\ g \in Lines /\ Plans!Is(g, {"gather"})
      /\ ({"gather"} \subseteq Plans!Motions => plan[g].exact)
  BY <1>2, <1>8, NodesAreFound DEF g
<1>10. {"gather"} \subseteq Plans!Motions /\ {"redistribute"} \subseteq Plans!Motions
  BY DEF Plans!Motions
<1>11. Plans!Above(g, f) /\ Plans!Above(f, r) /\ Plans!Above(r, p) /\ Plans!Above(p, a)
  <2> DEFINE Pairs5 == {<<g, f>>, <<f, r>>, <<r, p>>, <<p, a>>}
  <2>1. \A pair \in Pairs5 : pair[2] < Plans!SubtreeEnd(pair[1])
    BY <1>1, <1>4 DEF Plans!ShapeNests
  <2>2. /\ f < Plans!SubtreeEnd(g) /\ r < Plans!SubtreeEnd(f)
        /\ p < Plans!SubtreeEnd(r) /\ a < Plans!SubtreeEnd(p)
    BY <2>1
  <2>3. g < f /\ f < r /\ r < p /\ p < a
    BY <1>3, <1>4, <1>5, <1>6, <1>7, <1>8, NodesAreFound DEF f, r, p, a
  <2> QED
    BY <1>5, <1>6, <1>7, <1>8, <1>9, <2>2, <2>3, SubtreesEnd
<1>12. Stages(g, f, r, p, a)
  BY <1>5, <1>6, <1>7, <1>8, <1>9, <1>10, <1>11 DEF Stages
<1> DEFINE end == Plans!SubtreeEnd(a)
           scans(kind) == {i \in (a + 1) .. (end - 1) :
                               Plans!Is(i, {kind}) /\ (kind = "scan" => plan[i].exact)}
<1>13. /\ Plans!Cardinality(scans("scan")) = 1 /\ Plans!Cardinality(scans("gp_id")) = 1
       /\ \A s \in scans("scan"), t \in scans("gp_id") : t >= Plans!SubtreeEnd(s)
       /\ ~ \E i \in (p + 1) .. (end - 1) : Plans!Is(i, Plans!Motions)
  BY <1>1, <1>4 DEF Plans!SourceSiblings
<1>14. end \in (a + 1) .. (Len(plan) + 1) /\ Len(plan) \in Nat /\ Lines = 1 .. Len(plan)
  BY <1>5, SubtreesEnd, LinesAreFew
<1>15. scans("scan") # {} /\ scans("gp_id") # {}
  <2> HIDE DEF scans
  <2> QED
    BY <1>13, SameOperators, FS_EmptySet
<1>16. PICK s \in scans("scan"), t \in scans("gp_id") : t >= Plans!SubtreeEnd(s)
  BY <1>13, <1>15
<1> HIDE DEF end
<1>17. /\ s \in Lines /\ t \in Lines /\ a < s /\ s < end /\ a < t /\ t < end
       /\ Plans!Is(s, {"scan"}) /\ plan[s].exact /\ Plans!Is(t, {"gp_id"})
  BY <1>5, <1>14, <1>16
<1>18. Plans!Above(a, s) /\ Plans!Above(a, t)
  BY <1>5, <1>17, SubtreesEnd DEF end
<1>19. ~Plans!Above(s, t) /\ ~Plans!Above(t, s)
  <2>1. /\ Plans!SubtreeEnd(s) \in (s + 1) .. (Len(plan) + 1)
        /\ Plans!SubtreeEnd(t) \in (t + 1) .. (Len(plan) + 1)
        /\ Plans!Above(s, t) => t < Plans!SubtreeEnd(s)
        /\ Plans!Above(t, s) => t < s
    BY <1>17, SubtreesEnd
  <2> QED
    BY <1>14, <1>16, <1>17, <2>1
<1>20. ~Plans!MotionBetween(p, s) /\ ~Plans!MotionBetween(p, t)
  <2>1. end \in Int
    BY <1>14
  <2>2. s < end /\ t < end /\ s \in Lines /\ t \in Lines
    BY <1>17
  <2>3. ~ \E i \in (p + 1) .. (end - 1) : Plans!Is(i, Plans!Motions)
    BY <1>13 DEF end
  <2> QED
    BY <1>6, <2>1, <2>2, <2>3, NoMotionOnTheWay, Zenon
<1>21. Sources(p, a, s, t)
  BY <1>17, <1>18, <1>19, <1>20 DEF Sources
<1> QED
  BY <1>1, <1>12, <1>17, <1>21 DEF stage

(* The sums the canonical Greengage validator finds are in the lowest      *)
(* aggregate or below it (_greengage_limb_sum_expressions).                *)
LEMMA GreengagePlansAreTrees ==
    ASSUME PlanTyped, validator = "greengage", Plans!GreengageAccepts
    PROVE  Plans!DistributedTree
<1> DEFINE stage == Plans!HumanStages
           r == stage.redistribute
           p == stage.partial
<1>1. /\ Plans!FingerprintShape(stage)
      /\ \E i \in p .. (Plans!SubtreeEnd(p) - 1) : plan[i].sums
  BY DEF Plans!GreengageAccepts
<1> HIDE DEF stage
<1>2. /\ Stages(stage.gather, stage.final, r, p, stage.append)
      /\ \E s, t \in Lines : Sources(p, stage.append, s, t)
  BY <1>1, ShapesAreStages DEF stage
<1> HIDE DEF r, p
<1>3. p \in Lines /\ r \in Lines /\ Plans!Above(r, p)
  BY <1>2 DEF Stages
<1>4. PICK i \in p .. (Plans!SubtreeEnd(p) - 1) : plan[i].sums
  BY <1>1
<1>5. /\ Plans!SubtreeEnd(p) \in (p + 1) .. (Len(plan) + 1)
      /\ Len(plan) \in Nat /\ Lines = 1 .. Len(plan)
  BY <1>3, SubtreesEnd, LinesAreFew
<1>6. Plans!Sums(p)
  <2>1. i \in Lines /\ p <= i /\ i < Plans!SubtreeEnd(p)
    BY <1>3, <1>5
  <2>2. i = p \/ Plans!Above(p, i)
    <3> SUFFICES ASSUME i # p
                 PROVE  Plans!Above(p, i)
      OBVIOUS
    <3>1. p < i
      BY <1>3, <1>5, <2>1
    <3> QED
      BY <1>3, <2>1, <3>1, SubtreesEnd
  <2> QED
    BY <1>4, <2>1, <2>2, Zenon DEF Plans!Sums, Lines
<1>7. PICK s \in Lines, t \in Lines : Sources(p, stage.append, s, t)
  BY <1>2
<1>8. validator # "endpoint" /\ validator # "original"
  OBVIOUS
<1> QED
  BY <1>2, <1>6, <1>7, <1>8, StagesMakeTheTree, Zenon

(* A Motion between a line and another is the parent of that one or     *)
(* between the line and the parent.                                        *)
LEMMA MotionsOnTheWay ==
    ASSUME PlanTyped, NEW q \in Lines, NEW i \in Lines, NEW p, p = Plans!Parent(i),
           ~Plans!Is(p, Plans!Motions), ~Plans!MotionBetween(q, p)
    PROVE  ~Plans!MotionBetween(q, i)
<1> SUFFICES ASSUME NEW m \in Lines, Plans!Is(m, Plans!Motions), Plans!Above(q, m),
                    Plans!Above(m, i)
             PROVE  FALSE
  BY Zenon DEF Plans!MotionBetween, Lines
<1>1. m = p \/ Plans!Above(m, p)
  BY Parents, Zenon
<1> QED
  BY <1>1, Zenon DEF Plans!MotionBetween, Lines

(* A node of the serialized plan that is found is there, after the other.  *)
LEMMA SerializedAreFound ==
    ASSUME PlanTyped, NEW kinds, NEW after, Plans!FindSerialized(kinds, after) # 0
    PROVE  LET node == Plans!FindSerialized(kinds, after)
           IN  node \in Lines /\ node > after /\ Plans!Is(node, kinds)
<1> DEFINE found == {i \in Lines : i > after /\ Plans!Is(i, kinds)}
           node == Plans!FindSerialized(kinds, after)
<1>1. node = IF found = {} THEN 0 ELSE Plans!Min(found)
  BY Zenon DEF Plans!FindSerialized, Lines
<1>2. IsFiniteSet(found) /\ found \subseteq Int
  BY LinesAreFew
<1> HIDE DEF node
<1>3. node \in found
  <2> HIDE DEF found
  <2>1. found # {} /\ node = Plans!Min(found)
    BY <1>1 DEF node
  <2> QED
    BY <1>2, <2>1, Extremes, SameOperators
<1> QED
  BY <1>3 DEF node

(* The chain of the serialized plan leads from a Motion over an aggregate  *)
(* to the scans, each node the parent of the next, and the limb sums are   *)
(* between the aggregate and the first scan                                *)
(* (parse_original_greenplum_fingerprint_plan).                            *)
LEMMA OriginalPlansSumBelowMotion ==
    ASSUME PlanTyped, Plans!OriginalAccepts
    PROVE  Plans!SummedBelowMotion
<1> DEFINE chain == Plans!SerializedChain
           gather == Plans!FindSerialized(Plans!Motions, 0)
           member == Plans!FindSerialized({"subquery"}, gather)
           aggregate == Plans!FindSerialized(Plans!Aggregates, member)
           m == Plans!FindSerialized(Plans!Motions, aggregate)
           q == Plans!FindSerialized(Plans!Aggregates, m)
           row == Plans!FindSerialized({"subquery"}, q)
           a == Plans!FindSerialized({"append"}, row)
           s == Plans!FindSerialized({"scan", "gp_id"}, a)
           seed == Plans!FindSerialized({"subquery"}, s)
           t == Plans!FindSerialized({"scan", "gp_id"}, seed)
           source == {i \in (row + 1) .. (a - 1) : Plans!Is(i, {"subquery"})}
<1>1. chain # <<>> /\ Plans!SerializedParents(chain) /\ Plans!SerializedSums(chain)
  BY DEF Plans!OriginalAccepts
<1>2. chain = IF 0 \in {gather, member, aggregate, m, q, row, a} THEN <<>>
              ELSE <<gather, member, aggregate, m, q, row, a>>
  BY Zenon DEF Plans!SerializedChain
<1> HIDE DEF gather, member, aggregate, m, q, row, a, chain
<1>3. /\ m # 0 /\ q # 0 /\ row # 0 /\ a # 0
      /\ chain[4] = m /\ chain[5] = q /\ chain[6] = row /\ chain[7] = a
  BY <1>1, <1>2
<1>4. /\ \A k \in 1 .. 5 : Plans!Parent(chain[k + 1]) = chain[k]
      /\ \A i \in source : Plans!Parent(i) = row
      /\ Plans!Parent(a) = IF source = {} THEN row ELSE CHOOSE i \in source : TRUE
      /\ 0 \notin {s, seed, t}
      /\ Plans!Parent(s) = a /\ Plans!Parent(seed) = a /\ Plans!Parent(t) = seed
  BY <1>1, <1>3, Zenon DEF Plans!SerializedParents
<1> HIDE DEF t
<1> HIDE DEF seed
<1> HIDE DEF s
<1>5. Plans!Parent(q) = m /\ Plans!Parent(row) = q /\ s # 0 /\ seed # 0 /\ t # 0
  <2>1. Plans!Parent(chain[4 + 1]) = chain[4] /\ Plans!Parent(chain[5 + 1]) = chain[5]
    BY <1>4
  <2> QED
    BY <1>3, <1>4, <2>1
<1>6. /\ m \in Lines /\ Plans!Is(m, Plans!Motions)
      /\ q \in Lines /\ Plans!Is(q, Plans!Aggregates)
      /\ row \in Lines /\ Plans!Is(row, {"subquery"})
      /\ a \in Lines /\ Plans!Is(a, {"append"})
      /\ s \in Lines /\ s > a /\ Plans!Is(s, {"scan", "gp_id"})
      /\ seed \in Lines /\ seed > s /\ Plans!Is(seed, {"subquery"})
      /\ t \in Lines /\ t > seed /\ Plans!Is(t, {"scan", "gp_id"})
  BY <1>3, <1>5, SerializedAreFound DEF m, q, row, a, s, seed, t
<1>7. Len(plan) \in Nat /\ Lines = 1 .. Len(plan)
  BY LinesAreFew
<1>8. ASSUME NEW i \in Lines, NEW p \in Lines, Plans!Parent(i) = p
      PROVE  Plans!Above(p, i)
  <2>1. p # 0
    BY <1>7
  <2> QED
    BY <1>8, <2>1, Parents
<1>9. Plans!Above(m, q) /\ Plans!Above(q, row)
  BY <1>5, <1>6, <1>8
<1>10. \A i \in Lines : Plans!Is(i, {"subquery"}) \/ Plans!Is(i, {"append"})
          => ~Plans!Is(i, Plans!Motions)
  BY DEF Plans!Is, Plans!Motions
<1>11. ~Plans!MotionBetween(q, row)
  <2> SUFFICES ASSUME NEW x \in Lines, Plans!Above(q, x), Plans!Above(x, row)
               PROVE  FALSE
    BY Zenon DEF Plans!MotionBetween, Lines
  <2>1. x = q \/ Plans!Above(x, q)
    BY <1>5, <1>6, Parents, Zenon
  <2>2. q < x /\ (Plans!Above(x, q) => x < q)
    BY DEF Plans!Above
  <2> QED
    BY <1>6, <1>7, <2>1, <2>2
<1>12. Plans!Above(q, a) /\ ~Plans!MotionBetween(q, a)
  <2>1. CASE source = {}
    <3>1. Plans!Parent(a) = row
      BY <1>4, <2>1
    <3>2. Plans!Above(row, a)
      BY <1>6, <1>8, <3>1
    <3>3. Plans!Above(q, a)
      BY <1>6, <1>9, <3>2, AboveIsTransitive
    <3>4. ~Plans!MotionBetween(q, a)
      BY <1>6, <1>10, <1>11, <3>1, MotionsOnTheWay, Zenon
    <3> QED
      BY <3>3, <3>4
  <2>2. CASE source # {}
    <3>1. PICK i \in source : Plans!Parent(a) = i
      <4> HIDE DEF source
      <4> QED
        BY <1>4, <2>2, Zenon
    <3>2. i \in Lines /\ Plans!Parent(i) = row /\ Plans!Is(i, {"subquery"})
      BY <1>4, <1>6, <1>7, <3>1
    <3>3. Plans!Above(row, i) /\ Plans!Above(i, a)
      BY <1>6, <1>8, <3>1, <3>2
    <3>4. Plans!Above(q, i)
      BY <1>6, <1>9, <3>2, <3>3, AboveIsTransitive
    <3>5. Plans!Above(q, a)
      BY <1>6, <3>2, <3>3, <3>4, AboveIsTransitive
    <3>6. ~Plans!MotionBetween(q, i)
      BY <1>6, <1>10, <1>11, <3>2, MotionsOnTheWay, Zenon
    <3>7. ~Plans!MotionBetween(q, a)
      BY <1>6, <1>10, <3>1, <3>2, <3>6, MotionsOnTheWay, Zenon
    <3> QED
      BY <3>5, <3>7
  <2> QED
    BY <2>1, <2>2
<1>13. ~Plans!MotionBetween(q, s) /\ ~Plans!MotionBetween(q, seed)
  BY <1>4, <1>6, <1>10, <1>12, MotionsOnTheWay, Zenon
<1>14. ~Plans!MotionBetween(q, t)
  BY <1>4, <1>6, <1>10, <1>13, MotionsOnTheWay, Zenon
<1>15. Plans!Above(a, s) /\ Plans!Above(a, t)
  <2>1. Plans!Above(a, s) /\ Plans!Above(a, seed) /\ Plans!Above(seed, t)
    BY <1>4, <1>6, <1>8
  <2> QED
    BY <1>6, <2>1, AboveIsTransitive
<1>16. s < t /\ ~Plans!Above(s, t)
  <2>1. s < t /\ s # seed /\ s # a
    BY <1>6, <1>7
  <2>2. ~Plans!Above(s, a)
    <3>1. ~(s < a)
      BY <1>6, <1>7
    <3> QED
      BY <3>1 DEF Plans!Above
  <2>3. ~Plans!Above(s, seed)
    BY <1>4, <1>6, <2>1, <2>2, Parents
  <2>4. ~Plans!Above(s, t)
    BY <1>4, <1>6, <2>1, <2>3, Parents
  <2> QED
    BY <2>1, <2>4
<1>17. Plans!Sums(q)
  <2>1. PICK i \in q .. (s - 1) : plan[i].sums
    BY <1>1, <1>3 DEF Plans!SerializedSums, s
  <2>2. i \in Lines /\ q <= i /\ i < s
    BY <1>6, <1>7
  <2>3. Plans!Above(q, s)
    BY <1>6, <1>12, <1>15, AboveIsTransitive
  <2>4. s < Plans!SubtreeEnd(q) /\ Plans!SubtreeEnd(q) \in Int
    BY <1>6, <1>7, <2>3, SubtreesEnd
  <2>5. i = q \/ (q < i /\ i < Plans!SubtreeEnd(q))
    BY <1>6, <1>7, <2>2, <2>4
  <2>6. i = q \/ Plans!Above(q, i)
    BY <1>6, <2>2, <2>5, SubtreesEnd
  <2> QED
    BY <2>1, <2>2, <2>6, Zenon DEF Plans!Sums, Lines
<1> QED
  BY <1>6, <1>9, <1>12, <1>13, <1>14, <1>15, <1>16, <1>17, Zenon
  DEF Plans!SummedBelowMotion, Lines

(* The original validator reads the shape off the text and finds the sums  *)
(* in the serialized plan.                                                 *)
LEMMA OriginalPlansAreTrees ==
    ASSUME PlanTyped, validator = "original", Plans!OriginalAccepts
    PROVE  Plans!DistributedTree
<1> DEFINE stage == Plans!HumanStages
<1>1. Plans!FingerprintShape(stage)
  BY DEF Plans!OriginalAccepts
<1>2. /\ Stages(stage.gather, stage.final, stage.redistribute, stage.partial, stage.append)
      /\ \E s, t \in Lines : Sources(stage.partial, stage.append, s, t)
  BY <1>1, ShapesAreStages
<1>3. Plans!SummedBelowMotion
  BY OriginalPlansSumBelowMotion
<1>4. validator # "endpoint" /\ validator # "greengage"
  OBVIOUS
<1> HIDE DEF stage
<1>5. PICK s \in Lines, t \in Lines : Sources(stage.partial, stage.append, s, t)
  BY <1>2
<1> QED
  BY <1>2, <1>3, <1>4, <1>5, StagesMakeTheTree, Zenon

(* Lines of some kinds, in the order of the text.                          *)
LEMMA FoundLines ==
    ASSUME PlanTyped, NEW kinds
    PROVE  \A k \in 1 .. Len(Plans!Found(kinds)) :
              Plans!Found(kinds)[k] \in Lines /\ Plans!Is(Plans!Found(kinds)[k], kinds)
<1> DEFINE S == {i \in Lines : Plans!Is(i, kinds)}
<1>1. Plans!Found(kinds) = Plans!InOrder(S)
  BY Zenon DEF Plans!Found, Lines
<1>2. S \in SUBSET Lines
  OBVIOUS
<1>3. /\ Len(Plans!InOrder(S)) = Cardinality(S)
      /\ \A k \in 1 .. Cardinality(S) : Plans!InOrder(S)[k] \in S
  <2> HIDE DEF S
  <2> QED
    BY <1>2, LinesInOrder
<1> QED
  BY <1>1, <1>3, Zenon

(* The stages the endpoint's validator takes from the text                 *)
(* (_range_fingerprint_stage_indexes).                                     *)
LEMMA StagesAreFound ==
    ASSUME PlanTyped, Plans!StageIndexes # <<>>
    PROVE  LET stages == Plans!StageIndexes
           IN  /\ \A k \in 1 .. 8 : stages[k] \in Lines
               /\ Plans!Is(stages[1], {"gather"})
               /\ Plans!Is(stages[5], {"finalize"}) /\ Plans!Is(stages[6], {"redistribute"})
               /\ Plans!Is(stages[7], {"partial"}) /\ Plans!Is(stages[8], {"append"})
<1> DEFINE stages == Plans!StageIndexes
           First(kind) == Plans!Found({kind})[1]
           Second(kind) == Plans!Found({kind})[2]
<1>1. /\ Len(Plans!Found({"gather"})) = 1 /\ Len(Plans!Found({"redistribute"})) = 2
      /\ Len(Plans!Found({"finalize"})) = 2 /\ Len(Plans!Found({"partial"})) = 2
      /\ Len(Plans!Found({"append"})) = 1
      /\ stages = <<First("gather"), First("finalize"), First("redistribute"), First("partial"),
                    Second("finalize"), Second("redistribute"), Second("partial"),
                    First("append")>>
  BY DEF Plans!StageIndexes
<1>2. \A kind : Len(Plans!Found({kind})) = 1 \/ Len(Plans!Found({kind})) = 2
                    => First(kind) \in Lines /\ Plans!Is(First(kind), {kind})
  BY FoundLines
<1>3. \A kind : Len(Plans!Found({kind})) = 2
                    => Second(kind) \in Lines /\ Plans!Is(Second(kind), {kind})
  BY FoundLines
<1> HIDE DEF stages, First, Second
<1>4. /\ stages[1] = First("gather") /\ stages[2] = First("finalize")
      /\ stages[3] = First("redistribute") /\ stages[4] = First("partial")
      /\ stages[5] = Second("finalize") /\ stages[6] = Second("redistribute")
      /\ stages[7] = Second("partial") /\ stages[8] = First("append")
  BY <1>1
<1>5. /\ Plans!Is(stages[1], {"gather"}) /\ Plans!Is(stages[5], {"finalize"})
      /\ Plans!Is(stages[6], {"redistribute"}) /\ Plans!Is(stages[7], {"partial"})
      /\ Plans!Is(stages[8], {"append"})
  BY <1>1, <1>2, <1>3, <1>4
<1>6. /\ stages[1] \in Lines /\ stages[2] \in Lines /\ stages[3] \in Lines
      /\ stages[4] \in Lines /\ stages[8] \in Lines
  BY <1>1, <1>2, <1>4, Zenon
<1>7. stages[5] \in Lines /\ stages[6] \in Lines /\ stages[7] \in Lines
  BY <1>1, <1>3, <1>4
<1>8. \A k \in 1 .. 8 : stages[k] \in Lines
  BY <1>6, <1>7
<1> QED
  BY <1>5, <1>8 DEF stages

(* The roots of a branch are lines of it, none is deeper than another line *)
(* of it, and they are in order.                                           *)
LEMMA RootsOfABranch ==
    ASSUME PlanTyped, NEW i \in Lines, NEW end \in Int, end <= Len(plan) + 1,
           NEW roots, roots = Plans!BranchRoots(i, end), Len(roots) = 2
    PROVE  /\ \A k \in {1, 2} : /\ roots[k] \in Lines /\ i < roots[k] /\ roots[k] < end
                                /\ \A j \in (i + 1) .. (end - 1) :
                                      plan[roots[k]].depth <= plan[j].depth
           /\ roots[1] < roots[2]
<1> DEFINE inside == (i + 1) .. (end - 1)
           S == {j \in inside : \A k \in inside : plan[j].depth <= plan[k].depth}
<1>1. /\ Len(plan) \in Nat /\ Lines = 1 .. Len(plan)
  BY LinesAreFew
<1>2. roots = Plans!InOrder(S)
  BY DEF Plans!BranchRoots, Plans!Indent
<1>3. S \in SUBSET Lines
  BY <1>1
<1>4. /\ Cardinality(S) = 2 /\ \A k \in 1 .. 2 : roots[k] \in S
      /\ roots[1] < roots[2]
  <2> HIDE DEF S
  <2>1. /\ Len(roots) = Cardinality(S)
        /\ \A k \in 1 .. Cardinality(S) : roots[k] \in S
        /\ \A k, l \in 1 .. Cardinality(S) : k < l => roots[k] < roots[l]
    BY <1>2, <1>3, LinesInOrder
  <2> QED
    BY <2>1
<1>5. roots[1] \in S /\ roots[2] \in S
  BY <1>4
<1>6. ASSUME NEW k \in {1, 2}
      PROVE  /\ roots[k] \in Lines /\ i < roots[k] /\ roots[k] < end
             /\ \A j \in inside : plan[roots[k]].depth <= plan[j].depth
  <2>1. roots[k] \in S
    BY <1>5
  <2> QED
    BY <1>1, <2>1
<1> QED
  BY <1>4, <1>6

(* The topology branch has the scan of the seed in it                      *)
(* (_require_topology_branch).                                             *)
LEMMA SeedsAreScanned ==
    ASSUME PlanTyped, NEW i \in Lines, NEW end \in Int, end <= Len(plan) + 1, i < end,
           Plans!TopologyBranch(i, end)
    PROVE  \E t \in Lines : /\ i <= t /\ t < end
                            /\ Plans!Is(t, {"gp_id"}) /\ plan[t].exact
<1>1. CASE Plans!TopologyScan(i)
  BY <1>1, LinesAreFew DEF Plans!TopologyScan
<1>2. CASE ~Plans!TopologyScan(i)
  <2> DEFINE inner == Plans!Min({Plans!SubtreeEnd(i), end})
             roots == Plans!BranchRoots(i, inner)
  <2>1. Len(roots) = 2 /\ Plans!TopologyScan(roots[1])
    BY <1>2 DEF Plans!TopologyBranch
  <2>2. Plans!SubtreeEnd(i) \in Int /\ Len(plan) \in Nat /\ Lines = 1 .. Len(plan)
    BY SubtreesEnd, LinesAreFew
  <2>3. inner \in Int /\ inner <= end
    <3> DEFINE Ends == {Plans!SubtreeEnd(i), end}
    <3>1. Ends \in SUBSET Int /\ Plans!SubtreeEnd(i) \in Ends /\ end \in Ends
      BY <2>2
    <3>2. CASE Plans!SubtreeEnd(i) <= end
      <4>1. \A x \in Ends : Plans!SubtreeEnd(i) <= x
        BY <2>2, <3>2
      <4>2. Plans!Min(Ends) = Plans!SubtreeEnd(i)
        <5> HIDE DEF Ends
        <5> QED
          BY <3>1, <4>1, LeastAndGreatest, Zenon
      <4> QED
        BY <2>2, <3>2, <4>2 DEF inner
    <3>3. CASE end <= Plans!SubtreeEnd(i)
      <4>1. \A x \in Ends : end <= x
        BY <2>2, <3>3
      <4>2. Plans!Min(Ends) = end
        <5> HIDE DEF Ends
        <5> QED
          BY <3>1, <4>1, LeastAndGreatest, Zenon
      <4> QED
        BY <2>2, <4>2 DEF inner
    <3> QED
      BY <2>2, <3>2, <3>3
  <2> HIDE DEF inner
  <2>4. inner <= Len(plan) + 1
    BY <2>2, <2>3
  <2> HIDE DEF roots
  <2>5. roots[1] \in Lines /\ i < roots[1] /\ roots[1] < inner
    BY <2>1, <2>3, <2>4, RootsOfABranch DEF roots
  <2>6. i <= roots[1] /\ roots[1] < end
    BY <2>2, <2>3, <2>5
  <2>7. Plans!Is(roots[1], {"gp_id"}) /\ plan[roots[1]].exact
    BY <2>1 DEF Plans!TopologyScan
  <2> QED
    BY <2>5, <2>6, <2>7, Zenon
<1> QED
  BY <1>1, <1>2

(* The stages the endpoint's validator finds nest as in the tree           *)
(* (validate_greengage_range_fingerprint_plan).                            *)
LEMMA EndpointPlansAreTrees ==
    ASSUME PlanTyped, validator = "endpoint", Plans!EndpointAccepts
    PROVE  Plans!DistributedTree
<1> DEFINE stages == Plans!StageIndexes
           g == stages[1]
           f == stages[5]
           r == stages[6]
           p == stages[7]
           a == stages[8]
           end == Plans!SubtreeEnd(a)
           roots == Plans!BranchRoots(a, end)
<1>1. /\ Plans!MotionsExpected /\ stages # <<>>
      /\ Plans!StagesNest(stages) /\ Plans!PlanKeysExact(stages)
      /\ Plans!SourceBranches(p, a) /\ Plans!LowestPartialSums(p)
  BY Zenon DEF Plans!EndpointAccepts
<1> HIDE DEF stages
<1>2. /\ \A k \in 1 .. 8 : stages[k] \in Lines
      /\ Plans!Is(g, {"gather"}) /\ Plans!Is(f, {"finalize"}) /\ Plans!Is(r, {"redistribute"})
      /\ Plans!Is(p, {"partial"}) /\ Plans!Is(a, {"append"})
  BY <1>1, StagesAreFound DEF stages
<1>3. \A k \in 1 .. 7 : Plans!Above(stages[k], stages[k + 1])
  <2> SUFFICES ASSUME NEW k \in 1 .. 7
               PROVE  Plans!Above(stages[k], stages[k + 1])
    OBVIOUS
  <2>1. stages[k] \in Lines /\ stages[k + 1] \in Lines
    BY <1>2
  <2>2. stages[k] < stages[k + 1] /\ stages[k + 1] < Plans!SubtreeEnd(stages[k])
    BY <1>1 DEF Plans!StagesNest
  <2> QED
    BY <2>1, <2>2, SubtreesEnd
<1>4. /\ Plans!Above(g, stages[2]) /\ Plans!Above(stages[2], stages[3])
      /\ Plans!Above(stages[3], stages[4]) /\ Plans!Above(stages[4], f)
      /\ Plans!Above(f, r) /\ Plans!Above(r, p) /\ Plans!Above(p, a)
  <2>1. /\ Plans!Above(stages[1], stages[1 + 1]) /\ Plans!Above(stages[2], stages[2 + 1])
        /\ Plans!Above(stages[3], stages[3 + 1]) /\ Plans!Above(stages[4], stages[4 + 1])
        /\ Plans!Above(stages[5], stages[5 + 1]) /\ Plans!Above(stages[6], stages[6 + 1])
        /\ Plans!Above(stages[7], stages[7 + 1])
    BY <1>3
  <2> QED
    BY <2>1
<1>5. /\ g \in Lines /\ stages[2] \in Lines /\ stages[3] \in Lines /\ stages[4] \in Lines
      /\ f \in Lines /\ r \in Lines /\ p \in Lines /\ a \in Lines
  BY <1>2
<1>6. Plans!Above(g, f)
  <2>1. Plans!Above(g, stages[3])
    BY <1>4, <1>5, AboveIsTransitive
  <2>2. Plans!Above(g, stages[4])
    BY <1>4, <1>5, <2>1, AboveIsTransitive
  <2> QED
    BY <1>4, <1>5, <2>2, AboveIsTransitive
<1>7. /\ plan[f].exact /\ plan[p].exact /\ g = 1
  BY <1>1 DEF Plans!PlanKeysExact, Plans!StagesNest
<1>8. plan[p].sums
  BY <1>1 DEF Plans!LowestPartialSums
<1>9. \A m \in Lines : Plans!Is(m, Plans!Motions) => plan[m].exact
  BY <1>1, Zenon DEF Plans!MotionsExpected, Lines
<1>10. /\ Len(roots) = 2 /\ Plans!TargetScan(roots[1]) /\ Plans!TopologyBranch(roots[2], end)
       /\ roots[2] >= Plans!SubtreeEnd(roots[1])
       /\ ~ \E i \in (p + 1) .. (Plans!SubtreeEnd(p) - 1) : Plans!Is(i, Plans!Motions)
  BY <1>1, Zenon DEF Plans!SourceBranches
<1> HIDE DEF g, f, r, p, a
<1>11. /\ end \in Int /\ end <= Len(plan) + 1 /\ Len(plan) \in Nat /\ Lines = 1 .. Len(plan)
       /\ \A j \in Lines : plan[j].depth \in Int
  <2>1. a \in Lines
    BY <1>5
  <2>2. end \in Int /\ end <= Len(plan) + 1
    BY <2>1, LinesAreFew, SubtreesEnd
  <2> QED
    BY <2>2, LinesAreFew
<1> HIDE DEF roots, end
<1>12. /\ \A k \in {1, 2} : /\ roots[k] \in Lines /\ a < roots[k] /\ roots[k] < end
                            /\ \A j \in (a + 1) .. (end - 1) :
                                  plan[roots[k]].depth <= plan[j].depth
       /\ roots[1] < roots[2]
  BY <1>5, <1>10, <1>11, RootsOfABranch DEF roots
<1> DEFINE s == roots[1]
<1>13. /\ s \in Lines /\ a < s /\ s < end /\ Plans!Above(a, s)
       /\ Plans!Is(s, {"scan"}) /\ plan[s].exact
  <2>1. s \in Lines /\ a < s /\ s < end
    BY <1>12
  <2>2. Plans!Above(a, s)
    BY <1>5, <2>1, SubtreesEnd DEF end
  <2>3. Plans!Is(s, {"scan"}) /\ plan[s].exact
    BY <1>10 DEF Plans!TargetScan
  <2> QED
    BY <2>1, <2>2, <2>3
<1>14. PICK t \in Lines : roots[2] <= t /\ t < end /\ Plans!Is(t, {"gp_id"}) /\ plan[t].exact
  <2>1. roots[2] \in Lines /\ roots[2] < end
    BY <1>12
  <2> QED
    BY <1>10, <1>11, <2>1, SeedsAreScanned
<1>15. Plans!Above(a, t)
  <2>1. a < t
    BY <1>5, <1>11, <1>12, <1>14
  <2> QED
    BY <1>5, <1>14, <2>1, SubtreesEnd DEF end
<1>16. ~Plans!Above(s, t) /\ ~Plans!Above(t, s)
  <2>1. /\ Plans!SubtreeEnd(s) \in Int /\ s < Plans!SubtreeEnd(s)
        /\ Plans!Above(s, t) => t < Plans!SubtreeEnd(s)
        /\ Plans!Above(t, s) => t < s
    BY <1>11, <1>13, <1>14, SubtreesEnd
  <2>2. roots[2] \in Lines /\ roots[2] >= Plans!SubtreeEnd(s)
    BY <1>10, <1>12
  <2> QED
    BY <1>11, <1>13, <1>14, <2>1, <2>2
<1>17. ~Plans!MotionBetween(p, s) /\ ~Plans!MotionBetween(p, t)
  <2>1. Plans!Above(p, s) /\ Plans!Above(p, t)
    BY <1>4, <1>5, <1>13, <1>14, <1>15, AboveIsTransitive DEF p, a
  <2>2. s < Plans!SubtreeEnd(p) /\ t < Plans!SubtreeEnd(p) /\ Plans!SubtreeEnd(p) \in Int
    <3>1. p \in Lines
      BY <1>5
    <3>2. /\ Plans!SubtreeEnd(p) \in Int
          /\ Plans!Above(p, s) => s < Plans!SubtreeEnd(p)
          /\ Plans!Above(p, t) => t < Plans!SubtreeEnd(p)
      BY <1>13, <1>14, <3>1, SubtreesEnd
    <3> QED
      BY <2>1, <3>2
  <2> QED
    BY <1>5, <1>10, <1>13, <1>14, <2>2, NoMotionOnTheWay
<1>18. Plans!Parent(s) = a /\ Plans!Parent(g) = 0
  <2>1. plan[a].depth < plan[s].depth
    <3>1. s \in (a + 1) .. s
      BY <1>5, <1>11, <1>13
    <3>2. plan[s].depth > plan[a].depth
      BY <1>13, <3>1 DEF Plans!Above, Plans!Indent
    <3> QED
      BY <1>5, <1>11, <1>13, <3>2
  <2>2. \A j \in (a + 1) .. (s - 1) : plan[j].depth >= plan[s].depth
    <3>1. \A j \in (a + 1) .. (end - 1) : plan[s].depth <= plan[j].depth
      BY <1>12
    <3> QED
      BY <1>5, <1>11, <1>13, <3>1
  <2>3. Plans!Parent(s) = a
    BY <1>5, <1>13, <2>1, <2>2, Parents
  <2>4. Plans!Parent(g) = 0
    BY <1>5, <1>7, Parents DEF g
  <2> QED
    BY <2>3, <2>4
<1> HIDE DEF s
<1>19. plan[g].exact /\ plan[r].exact
  <2>1. Plans!Is(g, Plans!Motions) /\ Plans!Is(r, Plans!Motions)
    BY <1>2 DEF Plans!Is, Plans!Motions, g, r
  <2>2. g \in Lines /\ r \in Lines
    BY <1>5 DEF g, r
  <2> QED
    BY <1>9, <2>1, <2>2, Zenon
<1>20. Plans!Is(f, Plans!Aggregates) /\ Plans!Is(p, Plans!Aggregates)
  BY <1>2 DEF Plans!Is, Plans!Aggregates, f, p
<1>21. Stages(g, f, r, p, a)
  BY <1>2, <1>4, <1>5, <1>6, <1>19, <1>20, Zenon DEF Stages, g, f, r, p, a
<1>22. Sources(p, a, s, t)
  BY <1>13, <1>14, <1>15, <1>16, <1>17, Zenon DEF Sources
<1>23. ExactStages(g, f, p, a, s, t)
  BY <1>7, <1>9, <1>13, <1>14, <1>18, Zenon DEF ExactStages, g, f, p
<1>24. validator # "greengage" /\ validator # "original"
  OBVIOUS
<1> QED
  BY <1>8, <1>21, <1>22, <1>23, <1>24, StagesMakeTheTree, Zenon

(* The end of a subtree whose lines are known.                             *)
LEMMA KnownEnd ==
    ASSUME PlanTyped, NEW i \in Lines, NEW e \in Int, i < e, e <= Len(plan) + 1,
           \A j \in (i + 1) .. (e - 1) : plan[j].depth > plan[i].depth,
           e \in Lines => plan[e].depth <= plan[i].depth
    PROVE  Plans!SubtreeEnd(i) = e
<1> DEFINE end == Plans!SubtreeEnd(i)
<1>1. /\ Len(plan) \in Nat /\ Lines = 1 .. Len(plan)
      /\ \A j \in Lines : plan[j].depth \in Int
  BY LinesAreFew
<1>2. /\ end \in (i + 1) .. (Len(plan) + 1)
      /\ \A j \in Lines : Plans!Above(i, j) <=> i < j /\ j < end
  BY SubtreesEnd
<1> HIDE DEF end
<1>3. end >= e
  <2>1. CASE e = i + 1
    BY <1>1, <1>2, <2>1
  <2>2. CASE e # i + 1
    <3>1. e - 1 \in Lines /\ i < e - 1
      BY <1>1, <2>2
    <3>2. \A k \in (i + 1) .. (e - 1) : Plans!Indent(k) > Plans!Indent(i)
      BY DEF Plans!Indent
    <3>3. Plans!Above(i, e - 1)
      BY <3>1, <3>2 DEF Plans!Above
    <3> QED
      BY <1>1, <1>2, <3>1, <3>3
  <2> QED
    BY <2>1, <2>2
<1>4. end <= e
  <2>1. CASE e \in Lines
    <3>1. ~Plans!Above(i, e)
      <4>1. e \in (i + 1) .. e
        BY <1>1
      <4>2. ~(plan[e].depth > plan[i].depth)
        BY <1>1, <2>1
      <4> QED
        BY <4>1, <4>2 DEF Plans!Above, Plans!Indent
    <3> QED
      BY <1>1, <1>2, <2>1, <3>1
  <2>2. CASE e \notin Lines
    BY <1>1, <1>2, <2>2
  <2> QED
    BY <2>1, <2>2
<1> QED
  BY <1>1, <1>2, <1>3, <1>4 DEF end

(* The list of one line, of two, and the first of a list.                  *)
LEMMA ShortLists ==
    ASSUME PlanTyped
    PROVE  /\ \A i \in Lines : Len(Plans!InOrder({i})) = 1 /\ Plans!InOrder({i})[1] = i
           /\ \A i, j \in Lines : i < j =>
                 /\ Len(Plans!InOrder({i, j})) = 2
                 /\ Plans!InOrder({i, j})[1] = i /\ Plans!InOrder({i, j})[2] = j
           /\ \A S \in SUBSET Lines : \A i \in S :
                 (\A j \in S : i <= j) => Plans!InOrder(S)[1] = i
<1>1. /\ Len(plan) \in Nat /\ Lines = 1 .. Len(plan)
      /\ \A S \in SUBSET Lines : IsFiniteSet(S) /\ S \subseteq Int
  BY LinesAreFew
<1>2. ASSUME NEW i \in Lines
      PROVE  Len(Plans!InOrder({i})) = 1 /\ Plans!InOrder({i})[1] = i
  <2> DEFINE list == Plans!InOrder({i})
  <2>1. {i} \in SUBSET Lines /\ Cardinality({i}) = 1
    BY FS_Singleton
  <2>2. Len(list) = Cardinality({i}) /\ \A k \in 1 .. Cardinality({i}) : list[k] \in {i}
    BY <2>1, LinesInOrder
  <2> HIDE DEF list
  <2>3. Len(list) = 1 /\ list[1] = i
    BY <2>1, <2>2
  <2> QED
    BY <2>3 DEF list
<1>3. ASSUME NEW i \in Lines, NEW j \in Lines, i < j
      PROVE  /\ Len(Plans!InOrder({i, j})) = 2
             /\ Plans!InOrder({i, j})[1] = i /\ Plans!InOrder({i, j})[2] = j
  <2> DEFINE S == {i, j}
             list == Plans!InOrder(S)
  <2>1. S \in SUBSET Lines
    OBVIOUS
  <2>2. Cardinality(S) = 2
    <3>1. IsFiniteSet({i}) /\ Cardinality({i}) = 1
      BY FS_Singleton
    <3>2. Cardinality({i} \cup {j}) = Cardinality({i}) + 1
      <4>1. j \notin {i}
        BY <1>1, <1>3
      <4> QED
        BY <3>1, <4>1, FS_AddElement
    <3>3. {i} \cup {j} = S
      OBVIOUS
    <3> HIDE DEF S
    <3> QED
      BY <3>1, <3>2, <3>3
  <2> HIDE DEF S
  <2>3. /\ Len(list) = Cardinality(S)
        /\ \A k \in 1 .. Cardinality(S) : list[k] \in S
        /\ \A k, l \in 1 .. Cardinality(S) : k < l => list[k] < list[l]
    BY <2>1, LinesInOrder
  <2> HIDE DEF list
  <2>4. /\ Len(list) = 2 /\ list[1] \in S /\ list[2] \in S /\ list[1] < list[2]
    BY <2>2, <2>3
  <2>5. list[1] = i /\ list[2] = j
    BY <1>1, <1>3, <2>4 DEF S
  <2> QED
    BY <2>4, <2>5 DEF list, S
<1>4. ASSUME NEW S \in SUBSET Lines, NEW i \in S, \A j \in S : i <= j
      PROVE  Plans!InOrder(S)[1] = i
  <2> DEFINE list == Plans!InOrder(S)
             n == Cardinality(S)
  <2>1. /\ n \in Nat
        /\ \A k \in 1 .. n : list[k] \in S
        /\ \A k, l \in 1 .. n : k < l => list[k] < list[l]
        /\ \A x \in S : \E k \in 1 .. n : list[k] = x
    BY LinesInOrder
  <2> HIDE DEF list, n
  <2>2. PICK k \in 1 .. n : list[k] = i
    BY <2>1
  <2>3. 1 \in 1 .. n /\ list[1] \in S /\ i <= list[1]
    BY <1>4, <2>1
  <2>4. k = 1
    <3> SUFFICES ASSUME 1 < k
                 PROVE  FALSE
      BY <2>2
    <3>1. list[1] < list[k] /\ list[1] \in Int /\ i \in Int
      BY <1>1, <2>1, <2>2, <2>3
    <3> QED
      BY <2>2, <2>3, <3>1
  <2> QED
    BY <2>2, <2>4 DEF list
<1> QED
  BY <1>2, <1>3, <1>4

(* The node that comes first after a line.                                 *)
LEMMA KnownNode ==
    ASSUME PlanTyped, NEW kinds, NEW after \in Nat, NEW i \in Lines, after < i,
           Plans!Is(i, kinds), \A j \in (after + 1) .. (i - 1) : ~Plans!Is(j, kinds)
    PROVE  /\ Plans!FindSerialized(kinds, after) = i
           /\ after > 0 /\ plan[i].exact => Plans!FindNode(kinds, after) = i
<1>1. /\ Len(plan) \in Nat /\ Lines = 1 .. Len(plan)
      /\ \A S \in SUBSET Lines : IsFiniteSet(S) /\ S \subseteq Int
  BY LinesAreFew
<1> DEFINE S == {j \in Lines : j > after /\ Plans!Is(j, kinds)}
           T == {j \in Lines : /\ j > after /\ after > 0 /\ Plans!Is(j, kinds)
                               /\ (kinds \subseteq Plans!Motions => plan[j].exact)}
<1>2. S \in SUBSET Int /\ T \in SUBSET Int /\ i \in S
  BY <1>1
<1>3. \A j \in S : i <= j
  BY <1>1
<1>4. T \subseteq S
  OBVIOUS
<1>5. Plans!FindSerialized(kinds, after) = IF S = {} THEN 0 ELSE Plans!Min(S)
  BY Zenon DEF Plans!FindSerialized, Lines
<1>6. Plans!FindNode(kinds, after) = IF T = {} THEN 0 ELSE Plans!Min(T)
  BY Zenon DEF Plans!FindNode, Lines
<1>7. after > 0 /\ plan[i].exact => i \in T
  BY <1>1
<1> HIDE DEF S, T
<1>8. Plans!Min(S) = i
  BY <1>2, <1>3, LeastAndGreatest, Zenon
<1>9. i \in T => Plans!Min(T) = i
  BY <1>2, <1>3, <1>4, LeastAndGreatest, Zenon
<1> QED
  BY <1>2, <1>5, <1>6, <1>7, <1>8, <1>9, Zenon

\* The endpoint's plan as it is read.
EndpointText ==
    /\ PlanTyped /\ Len(plan) = IF Ranges = 1 THEN 10 ELSE 12
    /\ \A i \in Lines : plan[i].exact
    /\ \A i \in 1 .. 9 : plan[i].depth = i - 1
    /\ plan[1].kind = "gather" /\ plan[2].kind = "finalize" /\ plan[3].kind = "redistribute"
    /\ plan[4].kind = "partial" /\ plan[5].kind = "finalize" /\ plan[6].kind = "redistribute"
    /\ plan[7].kind = "partial" /\ plan[8].kind = "append" /\ plan[9].kind = "scan"
    /\ plan[7].sums
    /\ plan[10].depth = 8 /\ (Ranges = 1 => plan[10].kind = "gp_id")
    /\ Ranges # 1 => /\ plan[10].kind = "loop"
                     /\ plan[11].depth = 9 /\ plan[11].kind = "gp_id"
                     /\ plan[12].depth = 9 /\ plan[12].kind = "values"

\* The canonical plan as it is read.
CanonicalText ==
    /\ PlanTyped /\ Len(plan) = 11
    /\ \A i \in Lines : plan[i].exact
    /\ \A i \in 1 .. 9 : plan[i].depth = i - 1
    /\ plan[1].kind = "finalize" /\ plan[2].kind = "gather" /\ plan[3].kind = "subquery"
    /\ plan[4].kind = "finalize" /\ plan[5].kind = "redistribute" /\ plan[6].kind = "partial"
    /\ plan[7].kind = "subquery" /\ plan[8].kind = "append" /\ plan[9].kind = "scan"
    /\ plan[6].sums
    /\ plan[10].depth = 8 /\ plan[10].kind = "subquery"
    /\ plan[11].depth = 9 /\ plan[11].kind = "gp_id"

(* A line as it was asked for, field by field.                             *)
LEMMA FieldsOfLines ==
    ASSUME NEW d, NEW kind
    PROVE  /\ PlainLine(d, kind).depth = d /\ PlainLine(d, kind).kind = kind
           /\ PlainLine(d, kind).exact
           /\ SummingLine(d, kind).depth = d /\ SummingLine(d, kind).kind = kind
           /\ SummingLine(d, kind).exact /\ SummingLine(d, kind).sums
BY DEF PlainLine, SummingLine

(* The planner's plans are read as these texts.                            *)
LEMMA PlansAsRead ==
    ASSUME PlanTyped
    PROVE  /\ plan = Plans!EndpointPlan => EndpointText
           /\ plan = Plans!CanonicalPlan => CanonicalText
<1>1. Len(plan) \in Nat /\ Lines = 1 .. Len(plan)
  BY LinesAreFew
<1>2. ASSUME plan = Plans!EndpointPlan
      PROVE  EndpointText
  <2>1. /\ Len(plan) = IF Ranges = 1 THEN 10 ELSE 12
        /\ \A i \in 1 .. 9 : plan[i] = IF i = 7 THEN SummingLine(i - 1, EndpointKinds[i])
                                       ELSE PlainLine(i - 1, EndpointKinds[i])
        /\ Ranges = 1 => plan[10] = PlainLine(8, "gp_id")
        /\ Ranges # 1 => /\ plan[10] = PlainLine(8, "loop")
                         /\ plan[11] = PlainLine(9, "gp_id")
                         /\ plan[12] = PlainLine(9, "values")
    BY <1>2, EndpointLines
  <2>2. \A i \in 1 .. 9 : /\ plan[i].depth = i - 1 /\ plan[i].kind = EndpointKinds[i]
                          /\ plan[i].exact /\ (i = 7 => plan[i].sums)
    BY <2>1, FieldsOfLines
  <2>3. /\ plan[10].depth = 8 /\ plan[10].exact /\ (Ranges = 1 => plan[10].kind = "gp_id")
        /\ Ranges # 1 => /\ plan[10].kind = "loop"
                         /\ plan[11].depth = 9 /\ plan[11].kind = "gp_id" /\ plan[11].exact
                         /\ plan[12].depth = 9 /\ plan[12].kind = "values" /\ plan[12].exact
    BY <2>1, FieldsOfLines
  <2>4. \A i \in Lines : plan[i].exact
    <3> SUFFICES ASSUME NEW i \in Lines
                 PROVE  plan[i].exact
      OBVIOUS
    <3>1. i \in 1 .. 9 \/ i = 10 \/ (Ranges # 1 /\ (i = 11 \/ i = 12))
      BY <1>1, <2>1
    <3> QED
      BY <2>2, <2>3, <3>1
  <2> QED
    BY <2>1, <2>2, <2>3, <2>4 DEF EndpointText, EndpointKinds
<1>3. ASSUME plan = Plans!CanonicalPlan
      PROVE  CanonicalText
  <2>1. /\ Len(plan) = 11
        /\ \A i \in 1 .. 9 : plan[i] = IF i = 6 THEN SummingLine(i - 1, CanonicalKinds[i])
                                       ELSE PlainLine(i - 1, CanonicalKinds[i])
        /\ plan[10] = PlainLine(8, "subquery") /\ plan[11] = PlainLine(9, "gp_id")
    BY <1>3, CanonicalLines
  <2>2. \A i \in 1 .. 9 : /\ plan[i].depth = i - 1 /\ plan[i].kind = CanonicalKinds[i]
                          /\ plan[i].exact /\ (i = 6 => plan[i].sums)
    BY <2>1, FieldsOfLines
  <2>3. /\ plan[10].depth = 8 /\ plan[10].exact /\ plan[10].kind = "subquery"
        /\ plan[11].depth = 9 /\ plan[11].exact /\ plan[11].kind = "gp_id"
    BY <2>1, FieldsOfLines
  <2>4. \A i \in Lines : plan[i].exact
    <3> SUFFICES ASSUME NEW i \in Lines
                 PROVE  plan[i].exact
      OBVIOUS
    <3>1. i \in 1 .. 9 \/ i = 10 \/ i = 11
      BY <1>1, <2>1
    <3> QED
      BY <2>2, <2>3, <3>1
  <2> QED
    BY <2>1, <2>2, <2>3, <2>4 DEF CanonicalText, CanonicalKinds
<1> QED
  BY <1>2, <1>3

(* The lines of the endpoint's own plan, those of the seed last.           *)
LEMMA EndpointTail ==
    ASSUME EndpointText, NEW i \in Lines
    PROVE  \/ i = 1 \/ i = 2 \/ i = 3 \/ i = 4 \/ i = 5 \/ i = 6 \/ i = 7 \/ i = 8 \/ i = 9
           \/ (i = 10 /\ plan[i].kind \in {"gp_id", "loop"} /\ plan[i].depth = 8)
           \/ (i = 11 /\ plan[i].kind = "gp_id" /\ plan[i].depth = 9)
           \/ (i = 12 /\ plan[i].kind = "values" /\ plan[i].depth = 9)
<1>1. /\ Len(plan) \in Nat /\ Lines = 1 .. Len(plan)
      /\ Len(plan) = IF Ranges = 1 THEN 10 ELSE 12
  BY LinesAreFew DEF EndpointText
<1>2. CASE Ranges = 1
  <2>1. plan[10].kind = "gp_id" /\ plan[10].depth = 8
    BY <1>2 DEF EndpointText
  <2>2. i \in 1 .. 10
    BY <1>1, <1>2
  <2> QED
    BY <2>1, <2>2
<1>3. CASE Ranges # 1
  <2>1. /\ plan[10].kind = "loop" /\ plan[10].depth = 8
        /\ plan[11].kind = "gp_id" /\ plan[11].depth = 9
        /\ plan[12].kind = "values" /\ plan[12].depth = 9
    BY <1>3 DEF EndpointText
  <2>2. i \in 1 .. 12
    BY <1>1, <1>3
  <2> QED
    BY <2>1, <2>2
<1> QED
  BY <1>2, <1>3

(* The stages of the endpoint's own plan are its first eight lines.        *)
LEMMA EndpointStages ==
    ASSUME EndpointText
    PROVE  Plans!StageIndexes = <<1, 2, 3, 4, 5, 6, 7, 8>>
<1> DEFINE Of(kinds) == {i \in Plans!Lines : Plans!Is(i, kinds)}
<1>1. /\ PlanTyped /\ Len(plan) \in Nat /\ Lines = 1 .. Len(plan) /\ Plans!Lines = Lines
      /\ Len(plan) = IF Ranges = 1 THEN 10 ELSE 12
  BY LinesAreFew DEF EndpointText, Lines
<1>2. 1 \in Lines /\ 2 \in Lines /\ 3 \in Lines /\ 4 \in Lines /\ 5 \in Lines /\ 6 \in Lines
      /\ 7 \in Lines /\ 8 \in Lines
  BY <1>1
<1>3. Of({"gather"}) = {1}
  BY <1>1, <1>2, EndpointTail DEF EndpointText, Plans!Is
<1>4. Of({"redistribute"}) = {3, 6}
  BY <1>1, <1>2, EndpointTail DEF EndpointText, Plans!Is
<1>5. Of({"finalize"}) = {2, 5}
  BY <1>1, <1>2, EndpointTail DEF EndpointText, Plans!Is
<1>6. Of({"partial"}) = {4, 7}
  BY <1>1, <1>2, EndpointTail DEF EndpointText, Plans!Is
<1>7. Of({"append"}) = {8}
  BY <1>1, <1>2, EndpointTail DEF EndpointText, Plans!Is
<1>8. ASSUME NEW kinds, NEW i \in Lines, Of(kinds) = {i}
      PROVE  Len(Plans!Found(kinds)) = 1 /\ Plans!Found(kinds)[1] = i
  <2>1. Len(Plans!InOrder({i})) = 1 /\ Plans!InOrder({i})[1] = i
    BY <1>1, ShortLists
  <2> QED
    BY <1>8, <2>1 DEF Plans!Found
<1>9. ASSUME NEW kinds, NEW i \in Lines, NEW j \in Lines, i < j, Of(kinds) = {i, j}
       PROVE  /\ Len(Plans!Found(kinds)) = 2
              /\ Plans!Found(kinds)[1] = i /\ Plans!Found(kinds)[2] = j
  <2>1. /\ Len(Plans!InOrder({i, j})) = 2
        /\ Plans!InOrder({i, j})[1] = i /\ Plans!InOrder({i, j})[2] = j
    BY <1>1, <1>9, ShortLists
  <2> QED
    BY <1>9, <2>1 DEF Plans!Found
<1> HIDE DEF Of
<1>10. /\ Len(Plans!Found({"gather"})) = 1 /\ Plans!Found({"gather"})[1] = 1
       /\ Len(Plans!Found({"append"})) = 1 /\ Plans!Found({"append"})[1] = 8
  BY <1>2, <1>3, <1>7, <1>8
<1>11. /\ Len(Plans!Found({"redistribute"})) = 2
       /\ Plans!Found({"redistribute"})[1] = 3 /\ Plans!Found({"redistribute"})[2] = 6
       /\ Len(Plans!Found({"finalize"})) = 2
       /\ Plans!Found({"finalize"})[1] = 2 /\ Plans!Found({"finalize"})[2] = 5
       /\ Len(Plans!Found({"partial"})) = 2
       /\ Plans!Found({"partial"})[1] = 4 /\ Plans!Found({"partial"})[2] = 7
  <2>1. 3 < 6 /\ 2 < 5 /\ 4 < 7
    OBVIOUS
  <2> QED
    BY <1>2, <1>4, <1>5, <1>6, <1>9, <2>1
<1> QED
  BY <1>10, <1>11, Zenon DEF Plans!StageIndexes

(* The subtrees of the first lines of both plans end with the text, that   *)
(* of the scan ends before the next line.                                  *)
LEMMA SubtreesOfPlans ==
    ASSUME EndpointText \/ CanonicalText
    PROVE  /\ PlanTyped /\ Len(plan) \in Nat /\ Lines = 1 .. Len(plan) /\ Plans!Lines = Lines
           /\ Len(plan) >= 10 /\ Len(plan) <= 12
           /\ \A i \in 1 .. 8 : Plans!SubtreeEnd(i) = Len(plan) + 1
           /\ Plans!SubtreeEnd(9) = 10 /\ Plans!SubtreeEnd(10) = Len(plan) + 1
<1>1. PlanTyped
  BY DEF EndpointText, CanonicalText
<1>2. /\ Len(plan) \in Nat /\ Lines = 1 .. Len(plan) /\ Plans!Lines = Lines
      /\ Len(plan) >= 10 /\ Len(plan) <= 12
  <2> DEFINE n == Len(plan)
  <2>1. n = 10 \/ n = 11 \/ n = 12
    BY DEF EndpointText, CanonicalText
  <2>2. Len(plan) \in Nat /\ Lines = 1 .. Len(plan)
    BY <1>1, LinesAreFew
  <2>3. Plans!Lines = Lines
    BY DEF Lines
  <2> HIDE DEF n
  <2>4. n >= 10 /\ n <= 12
    BY <2>1
  <2> QED
    BY <2>2, <2>3, <2>4, Zenon DEF n
<1>3. /\ \A i \in 1 .. 9 : plan[i].depth = i - 1
      /\ plan[10].depth = 8
  BY DEF EndpointText, CanonicalText
<1>4. /\ 11 \in Lines => plan[11].depth = 9
      /\ 12 \in Lines => plan[12].depth = 9
  <2>1. CASE EndpointText
    <3>1. 11 \in Lines => Ranges # 1
      BY <1>2, <2>1 DEF EndpointText
    <3>2. 12 \in Lines => Ranges # 1
      BY <1>2, <2>1 DEF EndpointText
    <3> QED
      BY <2>1, <3>1, <3>2 DEF EndpointText
  <2>2. CASE CanonicalText
    <3>1. 12 \notin Lines /\ plan[11].depth = 9
      BY <1>2, <2>2 DEF CanonicalText
    <3> QED
      BY <3>1
  <2> QED
    BY <2>1, <2>2
<1> DEFINE n == Len(plan) + 1
<1>5. ASSUME NEW i \in 1 .. 8
      PROVE  Plans!SubtreeEnd(i) = n
  <2>1. ASSUME NEW j \in (i + 1) .. (n - 1)
        PROVE  plan[j].depth > plan[i].depth
    <3>1. j \in 1 .. 9 \/ j = 10 \/ (j \in Lines /\ (j = 11 \/ j = 12))
      BY <1>2
    <3>2. plan[i].depth = i - 1 /\ i <= 8 /\ i < j /\ i \in Int
      BY <1>2, <1>3
    <3>3. j \in 1 .. 9 => plan[j].depth = j - 1
      BY <1>3
    <3>4. j \notin 1 .. 9 => plan[j].depth = 8 \/ plan[j].depth = 9
      BY <1>3, <1>4, <3>1
    <3> QED
      BY <3>2, <3>3, <3>4
  <2>2. i \in Lines /\ n \in Int /\ i < n /\ n <= Len(plan) + 1 /\ n \notin Lines
    BY <1>2
  <2> HIDE DEF n
  <2> QED
    BY <1>1, <2>1, <2>2, KnownEnd
<1>6. Plans!SubtreeEnd(9) = 10
  <2>1. \A j \in (9 + 1) .. (10 - 1) : plan[j].depth > plan[9].depth
    OBVIOUS
  <2>2. 9 \in Lines /\ 10 \in Int /\ 9 < 10 /\ 10 <= Len(plan) + 1
        /\ plan[10].depth <= plan[9].depth
    BY <1>2, <1>3
  <2> QED
    BY <1>1, <2>1, <2>2, KnownEnd
<1>7. Plans!SubtreeEnd(10) = n
  <2>1. ASSUME NEW j \in (10 + 1) .. (n - 1)
        PROVE  plan[j].depth > plan[10].depth
    <3>1. j \in Lines /\ (j = 11 \/ j = 12)
      BY <1>2
    <3> QED
      BY <1>3, <1>4, <3>1
  <2>2. 10 \in Lines /\ n \in Int /\ 10 < n /\ n <= Len(plan) + 1 /\ n \notin Lines
    BY <1>2
  <2> HIDE DEF n
  <2> QED
    BY <1>1, <2>1, <2>2, KnownEnd
<1> QED
  BY <1>1, <1>2, <1>5, <1>6, <1>7

(* The topology branch of the endpoint's own plan.                         *)
LEMMA EndpointSeed ==
    ASSUME EndpointText
    PROVE  Plans!TopologyBranch(10, Len(plan) + 1)
<1>1. /\ PlanTyped /\ Len(plan) \in Nat /\ Lines = 1 .. Len(plan)
      /\ Plans!SubtreeEnd(10) = Len(plan) + 1
  BY SubtreesOfPlans
<1>2. CASE Ranges = 1
  <2>1. 10 \in Lines /\ plan[10].kind = "gp_id" /\ plan[10].exact
    BY <1>1, <1>2 DEF EndpointText
  <2> QED
    BY <1>2, <2>1 DEF Plans!TopologyBranch, Plans!TopologyScan, Plans!Is
<1>3. CASE Ranges # 1
  <2>1. Len(plan) = 12 /\ 10 \in Lines /\ 11 \in Lines /\ 12 \in Lines
    BY <1>1, <1>3 DEF EndpointText
  <2>2. /\ plan[10].kind = "loop" /\ plan[10].exact
        /\ plan[11].kind = "gp_id" /\ plan[11].exact /\ plan[11].depth = 9
        /\ plan[12].kind = "values" /\ plan[12].exact /\ plan[12].depth = 9
    BY <1>3, <2>1 DEF EndpointText
  <2>3. Plans!Min({Plans!SubtreeEnd(10), Len(plan) + 1}) = 13
    <3> DEFINE Ends == {Plans!SubtreeEnd(10), Len(plan) + 1}
    <3>1. Ends \in SUBSET Int /\ 13 \in Ends /\ \A x \in Ends : 13 <= x
      BY <1>1, <2>1
    <3> HIDE DEF Ends
    <3>2. Plans!Min(Ends) = 13
      BY <3>1, LeastAndGreatest, Zenon
    <3> QED
      BY <3>2 DEF Ends
  <2> DEFINE inside == (10 + 1) .. (13 - 1)
             S == {j \in inside : \A k \in inside : plan[j].depth <= plan[k].depth}
  <2>4. S = {11, 12}
    <3>1. inside = {11, 12}
      OBVIOUS
    <3> HIDE DEF inside
    <3> QED
      BY <2>2, <3>1
  <2>5. Plans!BranchRoots(10, 13) = Plans!InOrder(S)
    BY DEF Plans!BranchRoots, Plans!Indent
  <2> HIDE DEF S
  <2>6. 11 < 12
    OBVIOUS
  <2> DEFINE roots == Plans!BranchRoots(10, 13)
  <2>7. Len(roots) = 2 /\ roots[1] = 11 /\ roots[2] = 12
    <3>1. \A i, j \in Lines : i < j =>
             /\ Len(Plans!InOrder({i, j})) = 2
             /\ Plans!InOrder({i, j})[1] = i /\ Plans!InOrder({i, j})[2] = j
      BY <1>1, ShortLists, Zenon
    <3>2. /\ Len(Plans!InOrder({11, 12})) = 2
          /\ Plans!InOrder({11, 12})[1] = 11 /\ Plans!InOrder({11, 12})[2] = 12
      BY <1>1, <2>1, <2>6, <3>1, Zenon
    <3> HIDE DEF roots
    <3>3. roots = Plans!InOrder({11, 12})
      BY <2>4, <2>5, Zenon DEF roots
    <3> QED
      BY <3>2, <3>3, Zenon
  <2> HIDE DEF roots
  <2>8. Plans!TopologyScan(roots[1]) /\ Plans!RangeValuesScan(roots[2])
    BY <2>2, <2>7 DEF Plans!TopologyScan, Plans!RangeValuesScan, Plans!Is
  <2>9. Plans!Is(10, {"loop"}) /\ plan[10].exact
    BY <2>2 DEF Plans!Is
  <2> QED
    BY <2>3, <2>7, <2>8, <2>9 DEF Plans!TopologyBranch, roots
<1> QED
  BY <1>2, <1>3

(* The endpoint's validator accepts the plan it was written for            *)
(* (greengage_endpoint_sql.py).                                            *)
LEMMA EndpointPlanIsAccepted ==
    ASSUME EndpointText
    PROVE  Plans!EndpointAccepts
<1> DEFINE stages == Plans!StageIndexes
           n == Len(plan) + 1
<1>1. /\ PlanTyped /\ Len(plan) \in Nat /\ Lines = 1 .. Len(plan) /\ Plans!Lines = Lines
      /\ Len(plan) >= 10 /\ Len(plan) <= 12
      /\ \A i \in 1 .. 8 : Plans!SubtreeEnd(i) = n
      /\ Plans!SubtreeEnd(9) = 10
  BY SubtreesOfPlans
<1>2. stages = <<1, 2, 3, 4, 5, 6, 7, 8>>
  BY EndpointStages
<1> HIDE DEF stages
<1>3. /\ stages # <<>> /\ stages[1] = 1 /\ stages[7] = 7 /\ stages[8] = 8
      /\ \A k \in 1 .. 8 : stages[k] = k
  BY <1>2
<1>4. Plans!MotionsExpected
  BY <1>1, EndpointTail DEF Plans!MotionsExpected, Plans!Is, Plans!Motions, EndpointText
<1>5. Plans!StagesNest(stages)
  <2>1. ASSUME NEW k \in 1 .. 7
        PROVE  /\ stages[k] < stages[k + 1]
               /\ stages[k + 1] < Plans!SubtreeEnd(stages[k])
               /\ Plans!Indent(stages[k + 1]) > Plans!Indent(stages[k])
    <3>1. stages[k] = k /\ stages[k + 1] = k + 1 /\ Plans!SubtreeEnd(k) = n
      BY <1>1, <1>3
    <3>2. plan[k].depth = k - 1 /\ plan[k + 1].depth = (k + 1) - 1
      BY DEF EndpointText
    <3> QED
      BY <1>1, <3>1, <3>2 DEF Plans!Indent
  <2> QED
    BY <1>3, <2>1 DEF Plans!StagesNest
<1>6. Plans!PlanKeysExact(stages)
  <2>1. ASSUME NEW k \in 2 .. 7
        PROVE  Plans!HasChild(stages[k]) /\ plan[stages[k]].exact
    <3>1. stages[k] = k /\ Plans!SubtreeEnd(k) = n /\ k \in Lines
      BY <1>1, <1>3
    <3>2. plan[k].exact
      BY <3>1 DEF EndpointText
    <3>3. k + 1 < n
      BY <1>1
    <3> QED
      BY <3>1, <3>2, <3>3 DEF Plans!HasChild
  <2> QED
    BY <2>1 DEF Plans!PlanKeysExact
<1>7. Plans!SourceBranches(7, 8)
  <2> DEFINE inside == (8 + 1) .. (n - 1)
             S == {j \in inside : \A k \in inside : plan[j].depth <= plan[k].depth}
             roots == Plans!BranchRoots(8, n)
  <2>1. Plans!SubtreeEnd(8) = n /\ Plans!SubtreeEnd(7) = n
    BY <1>1
  <2>2. S = {9, 10}
    <3>1. ASSUME NEW i \in inside
          PROVE  \/ (i = 9 /\ plan[i].depth = 8) \/ (i = 10 /\ plan[i].depth = 8)
                 \/ (i \in {11, 12} /\ plan[i].depth = 9)
      <4>1. i \in Lines /\ i >= 9
        BY <1>1
      <4>2. plan[9].depth = 9 - 1
        BY DEF EndpointText
      <4> QED
        BY <4>1, <4>2, EndpointTail
    <3>2. 9 \in inside /\ 10 \in inside
      BY <1>1
    <3> HIDE DEF inside
    <3> QED
      BY <3>1, <3>2
  <2>3. roots = Plans!InOrder(S)
    BY DEF Plans!BranchRoots, Plans!Indent
  <2> HIDE DEF S
  <2>4. 9 < 10 /\ 9 \in Lines /\ 10 \in Lines
    BY <1>1
  <2>5. Len(roots) = 2 /\ roots[1] = 9 /\ roots[2] = 10
    <3>1. \A i, j \in Lines : i < j =>
             /\ Len(Plans!InOrder({i, j})) = 2
             /\ Plans!InOrder({i, j})[1] = i /\ Plans!InOrder({i, j})[2] = j
      BY <1>1, ShortLists, Zenon
    <3>2. /\ Len(Plans!InOrder({9, 10})) = 2
          /\ Plans!InOrder({9, 10})[1] = 9 /\ Plans!InOrder({9, 10})[2] = 10
      BY <1>1, <2>4, <3>1, Zenon
    <3> HIDE DEF roots
    <3>3. roots = Plans!InOrder({9, 10})
      BY <2>2, <2>3, Zenon
    <3> QED
      BY <3>2, <3>3, Zenon
  <2> HIDE DEF roots
  <2>6. Plans!TargetScan(roots[1])
    BY <2>4, <2>5 DEF Plans!TargetScan, Plans!Is, EndpointText
  <2>7. Plans!TopologyBranch(roots[2], n)
    BY <2>5, EndpointSeed
  <2>8. roots[2] >= Plans!SubtreeEnd(roots[1])
    BY <1>1, <2>5
  <2>9. ~ \E i \in (7 + 1) .. (n - 1) : Plans!Is(i, Plans!Motions)
    <3> SUFFICES ASSUME NEW i \in (7 + 1) .. (n - 1), Plans!Is(i, Plans!Motions)
                 PROVE  FALSE
      OBVIOUS
    <3>1. i \in Lines /\ i >= 8
      BY <1>1
    <3> QED
      BY <3>1, EndpointTail DEF Plans!Is, Plans!Motions, EndpointText
  <2> HIDE DEF n
  <2> QED
    BY <2>1, <2>5, <2>6, <2>7, <2>8, <2>9, Zenon DEF Plans!SourceBranches, roots
<1>8. Plans!LowestPartialSums(7)
  BY DEF Plans!LowestPartialSums, EndpointText
<1> QED
  BY <1>3, <1>4, <1>5, <1>6, <1>7, <1>8, Zenon DEF Plans!EndpointAccepts, stages

(* The stages of the canonical plan, as they are found in the text.        *)
LEMMA CanonicalStages ==
    ASSUME CanonicalText
    PROVE  /\ Plans!HumanStages = [outer |-> 1, gather |-> 2, final |-> 4, redistribute |-> 5,
                                   partial |-> 6, append |-> 8]
           /\ Plans!SerializedChain = <<2, 3, 4, 5, 6, 7, 8>>
           /\ Plans!FindSerialized({"scan", "gp_id"}, 8) = 9
           /\ Plans!FindSerialized({"subquery"}, 9) = 10
           /\ Plans!FindSerialized({"scan", "gp_id"}, 10) = 11
<1>1. PlanTyped /\ Lines = 1 .. 11 /\ Plans!Lines = Lines
  BY LinesAreFew DEF CanonicalText, Lines
<1>2. /\ Plans!Is(2, {"gather"}) /\ Plans!Is(2, Plans!Motions)
      /\ Plans!Is(5, {"redistribute"}) /\ Plans!Is(5, Plans!Motions)
      /\ Plans!Is(1, Plans!Aggregates) /\ Plans!Is(4, Plans!Aggregates)
      /\ Plans!Is(6, Plans!Aggregates) /\ Plans!Is(8, {"append"})
      /\ Plans!Is(3, {"subquery"}) /\ Plans!Is(7, {"subquery"}) /\ Plans!Is(10, {"subquery"})
      /\ Plans!Is(9, {"scan", "gp_id"}) /\ Plans!Is(11, {"scan", "gp_id"})
  BY DEF CanonicalText, Plans!Is, Plans!Motions, Plans!Aggregates
<1>3. /\ ~Plans!Is(1, Plans!Motions)
      /\ ~Plans!Is(3, Plans!Aggregates) /\ ~Plans!Is(7, {"append"})
  BY DEF CanonicalText, Plans!Is, Plans!Motions, Plans!Aggregates
<1>4. \A i \in Lines : plan[i].exact
  BY DEF CanonicalText
<1>5. Plans!FindNode({"gather"}, 1) = 2
  <2>1. 1 \in Nat /\ 2 \in Lines /\ 1 < 2 /\ 1 > 0
        /\ \A j \in (1 + 1) .. (2 - 1) : ~Plans!Is(j, {"gather"})
    BY <1>1
  <2> QED
    BY <1>1, <1>2, <1>4, <2>1, KnownNode
<1>6. Plans!FindNode(Plans!Aggregates, 2) = 4
  <2>1. 2 \in Nat /\ 4 \in Lines /\ 2 < 4 /\ 2 > 0
        /\ \A j \in (2 + 1) .. (4 - 1) : j = 3
    BY <1>1
  <2>2. \A j \in (2 + 1) .. (4 - 1) : ~Plans!Is(j, Plans!Aggregates)
    BY <1>3, <2>1, Zenon
  <2> QED
    BY <1>1, <1>2, <1>4, <2>1, <2>2, KnownNode
<1>7. Plans!FindNode({"redistribute"}, 4) = 5 /\ Plans!FindSerialized(Plans!Motions, 4) = 5
  <2>1. 4 \in Nat /\ 5 \in Lines /\ 4 < 5 /\ 4 > 0 /\ (4 + 1) .. (5 - 1) = {}
    BY <1>1
  <2> QED
    BY <1>1, <1>2, <1>4, <2>1, KnownNode
<1>8. Plans!FindNode(Plans!Aggregates, 5) = 6 /\ Plans!FindSerialized(Plans!Aggregates, 5) = 6
  <2>1. 5 \in Nat /\ 6 \in Lines /\ 5 < 6 /\ 5 > 0 /\ (5 + 1) .. (6 - 1) = {}
    BY <1>1
  <2> QED
    BY <1>1, <1>2, <1>4, <2>1, KnownNode
<1>9. Plans!FindNode({"append"}, 6) = 8
  <2>1. 6 \in Nat /\ 8 \in Lines /\ 6 < 8 /\ 6 > 0 /\ \A j \in (6 + 1) .. (8 - 1) : j = 7
    BY <1>1
  <2>2. \A j \in (6 + 1) .. (8 - 1) : ~Plans!Is(j, {"append"})
    BY <1>3, <2>1, Zenon
  <2> QED
    BY <1>1, <1>2, <1>4, <2>1, <2>2, KnownNode
<1>10. Plans!FindSerialized(Plans!Motions, 0) = 2
  <2>1. 0 \in Nat /\ 2 \in Lines /\ 0 < 2 /\ \A j \in (0 + 1) .. (2 - 1) : j = 1
    BY <1>1
  <2>2. \A j \in (0 + 1) .. (2 - 1) : ~Plans!Is(j, Plans!Motions)
    BY <1>3, <2>1, Zenon
  <2> QED
    BY <1>1, <1>2, <2>1, <2>2, KnownNode
<1>11. ASSUME NEW k \in Nat, NEW kinds, k + 1 \in Lines, Plans!Is(k + 1, kinds)
       PROVE  Plans!FindSerialized(kinds, k) = k + 1
  <2>1. k < k + 1 /\ (k + 1) .. ((k + 1) - 1) = {}
    OBVIOUS
  <2> QED
    BY <1>1, <1>11, <2>1, KnownNode
<1>12. /\ Plans!FindSerialized({"subquery"}, 2) = 3
       /\ Plans!FindSerialized(Plans!Aggregates, 3) = 4
       /\ Plans!FindSerialized({"subquery"}, 6) = 7
       /\ Plans!FindSerialized({"append"}, 7) = 8
       /\ Plans!FindSerialized({"scan", "gp_id"}, 8) = 9
       /\ Plans!FindSerialized({"subquery"}, 9) = 10
       /\ Plans!FindSerialized({"scan", "gp_id"}, 10) = 11
  <2>1. /\ Plans!Is(2 + 1, {"subquery"}) /\ Plans!Is(3 + 1, Plans!Aggregates)
        /\ Plans!Is(6 + 1, {"subquery"}) /\ Plans!Is(7 + 1, {"append"})
        /\ Plans!Is(8 + 1, {"scan", "gp_id"}) /\ Plans!Is(9 + 1, {"subquery"})
        /\ Plans!Is(10 + 1, {"scan", "gp_id"})
    BY <1>2
  <2>2. \A k \in 2 .. 10 : k + 1 \in Lines
    BY <1>1
  <2>3. /\ Plans!FindSerialized({"subquery"}, 2) = 2 + 1
        /\ Plans!FindSerialized(Plans!Aggregates, 3) = 3 + 1
        /\ Plans!FindSerialized({"subquery"}, 6) = 6 + 1
        /\ Plans!FindSerialized({"append"}, 7) = 7 + 1
        /\ Plans!FindSerialized({"scan", "gp_id"}, 8) = 8 + 1
        /\ Plans!FindSerialized({"subquery"}, 9) = 9 + 1
        /\ Plans!FindSerialized({"scan", "gp_id"}, 10) = 10 + 1
    BY <1>11, <2>1, <2>2
  <2> QED
    BY <2>3
<1>13. Plans!Found(Plans!Aggregates)[1] = 1
  <2> DEFINE S == {i \in Plans!Lines : Plans!Is(i, Plans!Aggregates)}
  <2>1. S \in SUBSET Lines /\ 1 \in S /\ \A j \in S : 1 <= j
    BY <1>1, <1>2
  <2>2. Plans!Found(Plans!Aggregates) = Plans!InOrder(S)
    BY DEF Plans!Found
  <2>3. \A T \in SUBSET Lines : \A i \in T :
           (\A j \in T : i <= j) => Plans!InOrder(T)[1] = i
    BY <1>1, ShortLists, Zenon
  <2> HIDE DEF S
  <2>4. Plans!InOrder(S)[1] = 1
    BY <2>1, <2>3, Zenon
  <2> QED
    BY <2>2, <2>4
<1>14. \E i \in Plans!Lines : Plans!Is(i, Plans!Aggregates)
  BY <1>1, <1>2
<1>15. Plans!HumanStages = [outer |-> 1, gather |-> 2, final |-> 4, redistribute |-> 5,
                            partial |-> 6, append |-> 8]
  BY <1>5, <1>6, <1>7, <1>8, <1>9, <1>13, <1>14, Zenon DEF Plans!HumanStages
<1>16. Plans!SerializedChain = <<2, 3, 4, 5, 6, 7, 8>>
  <2>1. 0 \notin {2, 3, 4, 5, 6, 7, 8}
    OBVIOUS
  <2> QED
    BY <1>7, <1>8, <1>10, <1>12, <2>1, Zenon DEF Plans!SerializedChain
<1> QED
  BY <1>12, <1>15, <1>16

(* The canonical plan has the shape its validators read                    *)
(* (_parse_greenplum_fingerprint_plan_shape, greenplum_sql.py).            *)
LEMMA CanonicalShape ==
    ASSUME CanonicalText
    PROVE  Plans!FingerprintShape(Plans!HumanStages)
<1> DEFINE stage == [outer |-> 1, gather |-> 2, final |-> 4, redistribute |-> 5,
                     partial |-> 6, append |-> 8]
<1>1. /\ PlanTyped /\ Lines = 1 .. 11 /\ Plans!Lines = Lines /\ Len(plan) + 1 = 12
      /\ \A i \in 1 .. 8 : Plans!SubtreeEnd(i) = 12
      /\ Plans!SubtreeEnd(9) = 10
  <2>1. Len(plan) = 11
    BY DEF CanonicalText
  <2> QED
    BY <2>1, SubtreesOfPlans
<1>2. /\ \A i \in 1 .. 9 : plan[i].depth = i - 1
      /\ plan[10].depth = 8 /\ plan[11].depth = 9
  BY DEF CanonicalText
<1>3. Plans!HumanStages = stage
  BY CanonicalStages
<1>4. /\ stage.outer = 1 /\ stage.gather = 2 /\ stage.final = 4 /\ stage.redistribute = 5
      /\ stage.partial = 6 /\ stage.append = 8
  OBVIOUS
<1> HIDE DEF stage
<1>5. Plans!ShapeNests(stage)
  <2>1. plan[2].depth > plan[1].depth
    <3>1. plan[2].depth = 2 - 1 /\ plan[1].depth = 1 - 1
      BY <1>2
    <3> QED
      BY <3>1
  <2>2. ASSUME NEW i \in 1 .. 8, NEW j \in 1 .. 8, i < j
        PROVE  plan[j].depth > plan[i].depth /\ j < Plans!SubtreeEnd(i)
    <3>1. plan[i].depth = i - 1 /\ plan[j].depth = j - 1 /\ Plans!SubtreeEnd(i) = 12
      BY <1>1, <1>2
    <3> QED
      BY <2>2, <3>1
  <2>3. ASSUME NEW pair \in {<<2, 4>>, <<4, 5>>, <<5, 6>>, <<6, 8>>}
        PROVE  plan[pair[2]].depth > plan[pair[1]].depth /\ pair[2] < Plans!SubtreeEnd(pair[1])
    <3>1. pair[1] \in 1 .. 8 /\ pair[2] \in 1 .. 8 /\ pair[1] < pair[2]
      BY <2>3
    <3> QED
      BY <2>2, <3>1
  <2> QED
    BY <1>4, <2>1, <2>3 DEF Plans!ShapeNests, Plans!Indent
<1>6. Plans!SourceSiblings(stage)
  <2> DEFINE inside == (8 + 1) .. (12 - 1)
             of(kind) == {i \in inside : Plans!Is(i, {kind}) /\ (kind = "scan" => plan[i].exact)}
             scans == of("scan")
             topology == of("gp_id")
  <2>1. inside = {9, 10, 11}
    OBVIOUS
  <2>2. /\ plan[9].kind = "scan" /\ plan[10].kind = "subquery" /\ plan[11].kind = "gp_id"
        /\ plan[7].kind = "subquery" /\ plan[8].kind = "append" /\ plan[9].exact
    BY <1>1 DEF CanonicalText
  <2>3. scans = {9} /\ topology = {11}
    <3> HIDE DEF inside
    <3>1. /\ Plans!Is(9, {"scan"}) /\ ~Plans!Is(10, {"scan"}) /\ ~Plans!Is(11, {"scan"})
          /\ Plans!Is(11, {"gp_id"}) /\ ~Plans!Is(10, {"gp_id"}) /\ ~Plans!Is(9, {"gp_id"})
          /\ plan[9].exact
      BY <2>2 DEF Plans!Is
    <3> QED
      BY <2>1, <3>1
  <2> HIDE DEF scans, topology
  <2>4. Plans!Cardinality(scans) = 1 /\ Plans!Cardinality(topology) = 1
    <3>1. Cardinality(scans) = 1 /\ Cardinality(topology) = 1
      BY <2>3, FS_Singleton
    <3> QED
      BY <3>1, SameOperators
  <2>5. ASSUME NEW s \in scans, NEW g \in topology
        PROVE  /\ plan[s].depth > plan[8].depth /\ plan[g].depth > plan[8].depth
               /\ g >= Plans!SubtreeEnd(s)
    <3>1. s = 9 /\ g = 11
      BY <2>3
    <3>2. plan[9].depth = 9 - 1 /\ plan[8].depth = 8 - 1 /\ plan[11].depth = 9
      BY <1>2
    <3> QED
      BY <1>1, <3>1, <3>2
  <2>6. ~ \E i \in (6 + 1) .. (12 - 1) : Plans!Is(i, Plans!Motions)
    <3> SUFFICES ASSUME NEW i \in (6 + 1) .. (12 - 1)
                 PROVE  ~Plans!Is(i, Plans!Motions)
      OBVIOUS
    <3>1. i = 7 \/ i = 8 \/ i = 9 \/ i = 10 \/ i = 11
      OBVIOUS
    <3> QED
      BY <2>2, <3>1 DEF Plans!Is, Plans!Motions
  <2>7. ASSUME NEW i \in (6 + 1) .. (12 - 1), Plans!Is(i, {"append"})
        PROVE  i = 8
    <3>1. i = 7 \/ i = 8 \/ i = 9 \/ i = 10 \/ i = 11
      OBVIOUS
    <3> QED
      BY <2>2, <2>7, <3>1 DEF Plans!Is
  <2>8. Plans!SubtreeEnd(stage.append) = 12 /\ Plans!SubtreeEnd(stage.partial) = 12
    BY <1>1, <1>4
  <2> QED
    BY <1>4, <2>4, <2>5, <2>6, <2>7, <2>8, Zenon
    DEF Plans!SourceSiblings, Plans!Indent, scans, topology
<1>7. stage.append # 0
  BY <1>4
<1> QED
  BY <1>3, <1>5, <1>6, <1>7, Zenon DEF Plans!FingerprintShape

(* Both canonical validators accept the plan they were written for         *)
(* (greenplum_sql.py).                                                     *)
LEMMA CanonicalPlanIsAccepted ==
    ASSUME CanonicalText
    PROVE  Plans!GreengageAccepts /\ Plans!OriginalAccepts
<1> DEFINE stage == Plans!HumanStages
           chain == Plans!SerializedChain
<1>1. /\ PlanTyped /\ Lines = 1 .. 11 /\ Plans!Lines = Lines
      /\ Plans!SubtreeEnd(6) = 12
  <2>1. Len(plan) = 11
    BY DEF CanonicalText
  <2> QED
    BY <2>1, SubtreesOfPlans
<1>2. /\ \A i \in 1 .. 9 : plan[i].depth = i - 1
      /\ plan[10].depth = 8 /\ plan[11].depth = 9 /\ plan[6].sums
  BY DEF CanonicalText
<1>3. stage.partial = 6
  BY CanonicalStages
<1>4. chain = <<2, 3, 4, 5, 6, 7, 8>>
  BY CanonicalStages
<1>5. Plans!FingerprintShape(stage)
  BY CanonicalShape
<1> HIDE DEF stage, chain
<1>6. /\ chain # <<>> /\ chain[5] = 6 /\ chain[6] = 7 /\ chain[7] = 8
      /\ \A k \in 1 .. 6 : chain[k] = k + 1
  BY <1>4
<1>7. Plans!GreengageAccepts
  <2>1. 6 \in 6 .. (Plans!SubtreeEnd(6) - 1)
    BY <1>1
  <2> QED
    BY <1>2, <1>3, <1>5, <2>1, Zenon DEF Plans!GreengageAccepts, stage
<1>8. ASSUME NEW i \in Lines, NEW p \in Lines, p < i, plan[p].depth < plan[i].depth,
             \A j \in (p + 1) .. (i - 1) : plan[j].depth >= plan[i].depth
      PROVE  Plans!Parent(i) = p
  BY <1>1, <1>8, Parents
<1>9. \A k \in 1 .. 8 : Plans!Parent(k + 1) = k
  <2> SUFFICES ASSUME NEW k \in 1 .. 8
               PROVE  Plans!Parent(k + 1) = k
    OBVIOUS
  <2>1. /\ k \in Lines /\ k + 1 \in Lines /\ k < k + 1
        /\ (k + 1) .. ((k + 1) - 1) = {}
    BY <1>1
  <2>2. plan[k].depth < plan[k + 1].depth
    <3>1. plan[k].depth = k - 1 /\ plan[k + 1].depth = (k + 1) - 1
      BY <1>2
    <3> QED
      BY <3>1
  <2> QED
    BY <1>8, <2>1, <2>2
<1>10. Plans!Parent(10) = 8 /\ Plans!Parent(11) = 10
  <2>1. plan[8].depth = 8 - 1 /\ plan[9].depth = 9 - 1
    BY <1>2
  <2>2. \A j \in (8 + 1) .. (10 - 1) : j = 9
    OBVIOUS
  <2>3. Plans!Parent(10) = 8
    <3>1. \A j \in (8 + 1) .. (10 - 1) : plan[j].depth >= plan[10].depth
      BY <1>2, <2>1, <2>2
    <3>2. 10 \in Lines /\ 8 \in Lines /\ 8 < 10 /\ plan[8].depth < plan[10].depth
      BY <1>1, <1>2, <2>1
    <3> QED
      BY <1>8, <3>1, <3>2
  <2>4. Plans!Parent(11) = 10
    <3>1. \A j \in (10 + 1) .. (11 - 1) : plan[j].depth >= plan[11].depth
      OBVIOUS
    <3>2. 10 \in Lines /\ 11 \in Lines /\ 10 < 11 /\ plan[10].depth < plan[11].depth
      BY <1>1, <1>2
    <3> QED
      BY <1>8, <3>1, <3>2
  <2> QED
    BY <2>3, <2>4
<1>11. Plans!SerializedParents(chain)
  <2> DEFINE source == {i \in (chain[6] + 1) .. (chain[7] - 1) : Plans!Is(i, {"subquery"})}
  <2>1. source = {}
    BY <1>6
  <2>2. Plans!Cardinality(source) <= 1
    <3>1. Cardinality(source) = 0
      BY <2>1, FS_EmptySet
    <3>2. Plans!Cardinality(source) = 0
      BY <3>1, SameOperators
    <3> QED
      BY <3>2
  <2> HIDE DEF source
  <2>3. \A k \in 1 .. 5 : Plans!Parent(chain[k + 1]) = chain[k]
    <3> SUFFICES ASSUME NEW k \in 1 .. 5
                 PROVE  Plans!Parent(chain[k + 1]) = chain[k]
      OBVIOUS
    <3>1. chain[k + 1] = (k + 1) + 1 /\ chain[k] = k + 1
      BY <1>6
    <3> QED
      BY <1>9, <3>1
  <2>4. Plans!Parent(chain[7]) = chain[6]
    <3>1. Plans!Parent(7 + 1) = 7
      BY <1>9
    <3> QED
      BY <1>6, <3>1
  <2>5. /\ Plans!FindSerialized({"scan", "gp_id"}, chain[7]) = 9
        /\ Plans!FindSerialized({"subquery"}, 9) = 10
        /\ Plans!FindSerialized({"scan", "gp_id"}, 10) = 11
    BY <1>6, CanonicalStages
  <2>6. Plans!Parent(9) = 8
    <3>1. Plans!Parent(8 + 1) = 8
      BY <1>9
    <3> QED
      BY <3>1
  <2>7. 0 \notin {9, 10, 11}
    OBVIOUS
  <2> QED
    BY <1>6, <1>10, <2>1, <2>2, <2>3, <2>4, <2>5, <2>6, <2>7, Zenon
    DEF Plans!SerializedParents, source
<1>12. Plans!SerializedSums(chain)
  <2>1. Plans!FindSerialized({"scan", "gp_id"}, chain[7]) = 9
    BY <1>6, CanonicalStages
  <2>2. 6 \in chain[5] .. (9 - 1)
    BY <1>6
  <2> QED
    BY <1>2, <2>1, <2>2 DEF Plans!SerializedSums
<1>13. Plans!OriginalAccepts
  BY <1>5, <1>6, <1>11, <1>12, Zenon DEF Plans!OriginalAccepts, stage, chain
<1> QED
  BY <1>7, <1>13

(* A plan keeps its invariant: whatever the planner changes, it is a text  *)
(* of lines, and its own as long as nothing changed.                       *)
THEOREM PlansKeepTheirInvariant == Spec => [](part = "plan" => PlanInv)
<1>1. Init => (part = "plan" => PlanInv)
  BY PlansStart DEF Init
<1>2. (part = "plan" => PlanInv) /\ [Next]_vars => (part = "plan" => PlanInv)'
  <2> SUFFICES ASSUME part = "plan" => PlanInv, [Next]_vars, part' = "plan"
               PROVE  PlanInv'
    OBVIOUS
  <2>1. CASE part = "plan" /\ Plans!Next
    BY <2>1, PlansChange
  <2>2. CASE part # "plan" /\ UNCHANGED part
    BY <2>2
  <2>3. CASE UNCHANGED vars
    <3>1. UNCHANGED <<part, validator, plan, changes>>
      BY <2>3 DEF vars, planOnly
    <3>2. PlanInv
      BY <3>1
    <3> QED
      BY <3>1, <3>2 DEF PlanInv, PlanTyped, PlannersPlan
  <2> QED
    BY <2>1, <2>2, <2>3 DEF Next
<1> QED
  BY <1>1, <1>2, PTL DEF Spec

(* What a validator accepts is aggregated on the segments before any row   *)
(* moves, and the plans of the supported versions are accepted: for every  *)
(* number of ranges and however many nodes another planner adds, moves,    *)
(* renames or leaves out (greenplum_sql.py:248, 466, 753 and               *)
(* greengage_endpoint_sql.py:462).                                         *)
THEOREM PlansAggregateBelowMotion == Spec => []AggregatedBelowMotion
<1>1. (part = "plan" => PlanInv) => AggregatedBelowMotion
  <2> SUFFICES ASSUME PlanInv
               PROVE  Plans!AggregatedBelowMotion
    BY DEF AggregatedBelowMotion
  <2>1. PlanTyped /\ validator \in {"endpoint", "greengage", "original"}
    BY DEF PlanInv
  <2>2. Plans!Accepted <=> \/ validator = "endpoint" /\ Plans!EndpointAccepts
                           \/ validator = "greengage" /\ Plans!GreengageAccepts
                           \/ validator = "original" /\ Plans!OriginalAccepts
    BY <2>1 DEF Plans!Accepted
  <2>3. Plans!Accepted => Plans!DistributedTree
    BY <2>1, <2>2, EndpointPlansAreTrees, GreengagePlansAreTrees, OriginalPlansAreTrees, Zenon
  <2>4. ASSUME changes = 0
        PROVE  Plans!Accepted
    <3>1. CASE validator = "endpoint"
      <4>1. plan = Plans!EndpointPlan
        BY <2>4, <3>1 DEF PlanInv, PlannersPlan
      <4> QED
        BY <2>1, <2>2, <3>1, <4>1, PlansAsRead, EndpointPlanIsAccepted, Zenon
    <3>2. CASE validator # "endpoint"
      <4>1. plan = Plans!CanonicalPlan
        BY <2>4, <3>2 DEF PlanInv, PlannersPlan
      <4>2. CanonicalText
        BY <2>1, <4>1, PlansAsRead, Zenon
      <4> QED
        BY <2>1, <2>2, <3>2, <4>2, CanonicalPlanIsAccepted, Zenon
    <3> QED
      BY <3>1, <3>2
  <2> QED
    BY <2>3, <2>4 DEF Plans!AggregatedBelowMotion
<1> QED
  BY <1>1, PlansKeepTheirInvariant, PTL
=============================================================================
