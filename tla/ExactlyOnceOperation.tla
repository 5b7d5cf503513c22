------------------------ MODULE ExactlyOnceOperation ------------------------
(***************************************************************************)
(* What a lifecycle write promises its callers, without connections, locks *)
(* or retries: a request gets at most one row; "ok" names the row that is  *)
(* there and suits the caller; after "transaction_error" or "refused" the  *)
(* caller's row is not there and never will be; after "commit_unknown" it  *)
(* may still appear.  CommitReconciliation implements this specification.  *)
(***************************************************************************)
CONSTANTS Clients, Requests, RequestOf, Payloads, None

VARIABLES store, reply, payload

vars == <<store, reply, payload>>

Definitive == {"transaction_error", "refused"}

Init ==
    /\ store = [q \in Requests |-> None]
    /\ payload \in Payloads
    /\ reply = [c \in Clients |-> [kind |-> "none", row |-> None]]

(* The row appears, at any time unless the caller was told it would not.   *)
Apply(c) ==
    /\ store[RequestOf[c]] = None
    /\ reply[c].kind \in {"none", "commit_unknown"}
    /\ store' = [store EXCEPT ![RequestOf[c]] = c]
    /\ UNCHANGED <<reply, payload>>

Reply(c, answer) ==
    /\ reply[c].kind = "none"
    /\ answer.kind = "ok" =>
          /\ answer.row = store[RequestOf[c]]
          /\ answer.row \in Clients
          /\ payload[answer.row] = payload[c]
    /\ answer.kind \in Definitive => store[RequestOf[c]] # c
    /\ reply' = [reply EXCEPT ![c] = answer]
    /\ UNCHANGED <<store, payload>>

Answers ==
    [kind : {"ok"}, row : Clients]
        \cup [kind : Definitive \cup {"commit_unknown"}, row : {None}]

Next ==
    \E c \in Clients :
        \/ Apply(c)
        \/ \E answer \in Answers : Reply(c, answer)

Spec == Init /\ [][Next]_vars
=============================================================================
