----------------------------- MODULE RunOutcome -----------------------------
(***************************************************************************)
(* What the metadata store promises of a run, without attempts, leases,    *)
(* sessions or locks: a request names one run for ever, the run is bound   *)
(* to at most one input cut, and it gets at most one outcome, which is     *)
(* final and, when it carries comparison evidence, is evidence about that  *)
(* cut.  RunLifecycle implements this specification.                       *)
(***************************************************************************)
CONSTANTS RunIds, Requests, Payloads, Cuts, None

VARIABLES request, payload, cut, outcome

vars == <<request, payload, cut, outcome>>

Outcomes ==
    [status : {"completed", "incomplete", "error"},
     result : {"none", "completed", "partial"}, cut : Cuts \cup {None}]

Init ==
    /\ request = [r \in RunIds |-> None]
    /\ payload = [r \in RunIds |-> None]
    /\ cut = [r \in RunIds |-> None]
    /\ outcome = [r \in RunIds |-> None]

Claim(r, q, p) ==
    /\ request[r] = None
    /\ \A other \in RunIds : request[other] # q
    /\ request' = [request EXCEPT ![r] = q]
    /\ payload' = [payload EXCEPT ![r] = p]
    /\ UNCHANGED <<cut, outcome>>

BindCut(r, c) ==
    /\ request[r] # None
    /\ outcome[r] = None
    /\ cut[r] = None
    /\ cut' = [cut EXCEPT ![r] = c]
    /\ UNCHANGED <<request, payload, outcome>>

Publish(r, o) ==
    /\ request[r] # None
    /\ outcome[r] = None
    /\ o.cut \in {None, cut[r]}
    /\ o.status = "completed" <=> o.result = "completed"
    /\ o.result # "none" => o.cut # None
    /\ outcome' = [outcome EXCEPT ![r] = o]
    /\ UNCHANGED <<request, payload, cut>>

Next ==
    \E r \in RunIds :
        \/ \E q \in Requests, p \in Payloads : Claim(r, q, p)
        \/ \E c \in Cuts : BindCut(r, c)
        \/ \E o \in Outcomes : Publish(r, o)

Spec == Init /\ [][Next]_vars
=============================================================================
