------------------------ MODULE RunLifecycleProofs -------------------------
(***************************************************************************)
(* Proofs about RunLifecycle, for any number of runs, sessions,            *)
(* invocations, attempts and renewals.                                     *)
(*                                                                         *)
(* The safety properties talk about committed rows.  They are not          *)
(* inductive, because Commit installs rows that were computed earlier: the *)
(* invariant must say that staged rows are already good (RunInv), that     *)
(* they follow from the rows they will replace (StepOK), and that no other *)
(* session can replace those rows first (TxnInv, the locks).               *)
(***************************************************************************)
EXTENDS RunLifecycle, SequenceTheorems, TLAPS

(* Facts about one attempt; the run matters only through its bound cut.    *)
AttemptInv(cut, a) ==
    /\ IF a.input_cut = None
       THEN a.observations = {}
       ELSE a.observations = Sides /\ cut = a.input_cut
    /\ a.status = "running" => a.result = "none" /\ a.stable_reads = "unknown"
    /\ a.status # "running" => OutcomeReadable(cut, a)

(* Facts about the rows of one run.                                        *)
RunInv(run) ==
    /\ run.request = None => run = NoRun
    /\ Len(run.attempts) <= MaxAttempts
    /\ \A k \in 1..Len(run.attempts) :
          /\ run.attempts[k].status = "running" =>
                k = Len(run.attempts) /\ run.selected = 0
          /\ RequestOf[run.attempts[k].owner_token] = run.request
          /\ PayloadOf[run.attempts[k].owner_token] = run.payload
          /\ run.attempts[k].owner_token = run.attempts[1].owner_token
          /\ AttemptInv(run.bound_cut, run.attempts[k])
          /\ run.attempts[k].status = "completed" => run.selected = k
    /\ run.selected # 0 =>
          /\ run.selected = Len(run.attempts)
          /\ Len(run.attempts) # 0
          /\ run.attempts[run.selected].status \in FailedStatuses \cup {"completed"}

(* How the rows of a claimed run may change.                               *)
AttemptStepOK(a, b) ==
    /\ b.owner_token = a.owner_token
    /\ a.input_cut # None => b.input_cut = a.input_cut
    /\ Ended(a) => b = a
    /\ \/ /\ b.lease_revision = a.lease_revision
          /\ b.lease_expires_at = a.lease_expires_at
       \/ /\ b.lease_revision = a.lease_revision + 1
          /\ b.lease_expires_at > a.lease_expires_at

StepOK(old, new) ==
    /\ old.selected = 0
    /\ old.request # None
    /\ new.request = old.request
    /\ new.payload = old.payload
    /\ old.bound_cut # None => /\ new.bound_cut = old.bound_cut
                               /\ new.cut_binding = old.cut_binding
    /\ Len(old.attempts) <= Len(new.attempts)
    /\ \A k \in 1..Len(old.attempts) : AttemptStepOK(old.attempts[k], new.attempts[k])

(* A claim has reserved its request; any other writer has its run.         *)
ClaimTxn(t) ==
    /\ t.lock = RequestLock(t.rows.request)
    /\ t.rows = [NoRun EXCEPT !.request = t.rows.request, !.payload = t.rows.payload]
    /\ t.rows.request # None /\ t.rows.payload # None
    /\ db[t.run].request = None
    /\ \A r \in RunIds : db[r].request # t.rows.request

WriteTxn(t) ==
    /\ t.lock = RunLock(t.run)
    /\ StepOK(db[t.run], t.rows)

TxnInv ==
    \A s \in Sessions : Open(s) =>
        /\ RunInv(txn[s].rows)
        /\ ClaimTxn(txn[s]) \/ WriteTxn(txn[s])
        /\ \A o \in Sessions : o # s /\ Open(o) =>
              txn[o].run # txn[s].run /\ txn[o].lock # txn[s].lock

IInv ==
    /\ TypeOK
    /\ \A r \in RunIds : RunInv(db[r])
    /\ OneRunPerRequest
    /\ TxnInv

-----------------------------------------------------------------------------
(* Rows                                                                    *)

(* An attempt of a stored run is an attempt record.                        *)
LEMMA AttemptType ==
    ASSUME NEW run \in Run, NEW k \in 1..Len(run.attempts)
    PROVE  run.attempts[k] \in Attempt
<1>1. run.attempts \in Seq(Attempt)
  BY DEF Run
<1> QED
  BY <1>1, ElementOfSeq

(* Rewriting one attempt row leaves the others and the run row alone.      *)
LEMMA PutAttemptRows ==
    ASSUME NEW run \in Run, NEW k \in 1..Len(run.attempts), NEW a \in Attempt
    PROVE  /\ PutAttempt(run, k, a) \in Run
           /\ Len(PutAttempt(run, k, a).attempts) = Len(run.attempts)
           /\ PutAttempt(run, k, a).attempts[k] = a
           /\ \A j \in 1..Len(run.attempts) :
                 j # k => PutAttempt(run, k, a).attempts[j] = run.attempts[j]
           /\ PutAttempt(run, k, a).request = run.request
           /\ PutAttempt(run, k, a).payload = run.payload
           /\ PutAttempt(run, k, a).bound_cut = run.bound_cut
           /\ PutAttempt(run, k, a).cut_binding = run.cut_binding
           /\ PutAttempt(run, k, a).selected = run.selected
<1> DEFINE seq == [run.attempts EXCEPT ![k] = a]
<1>1. run.attempts \in Seq(Attempt)
  BY DEF Run
<1>2. /\ seq \in Seq(Attempt)
      /\ Len(seq) = Len(run.attempts)
      /\ \A j \in 1..Len(run.attempts) : seq[j] = IF j = k THEN a ELSE run.attempts[j]
  BY <1>1, ExceptSeq
<1>3. PutAttempt(run, k, a) = [run EXCEPT !.attempts = seq]
  BY DEF PutAttempt
<1> HIDE DEF seq
<1> QED
  BY <1>2, <1>3 DEF Run

(* Facts about an attempt survive the binding of the run's first cut.      *)
LEMMA AttemptInvCut ==
    ASSUME NEW a \in Attempt, NEW c, NEW d, AttemptInv(c, a), c # None => d = c
    PROVE  AttemptInv(d, a)
BY DEF AttemptInv, OutcomeReadable

(* Rewriting the running attempt of a good run gives a good run, if the    *)
(* new attempt row is good and the run selects it exactly when it should.  *)
LEMMA UpdateOK ==
    ASSUME NEW old \in Run, NEW new \in Run, NEW k \in 1..Len(old.attempts),
           RunInv(old), old.attempts[k].status = "running",
           new.request = old.request, new.payload = old.payload,
           Len(new.attempts) = Len(old.attempts),
           \A j \in 1..Len(old.attempts) : j # k => new.attempts[j] = old.attempts[j],
           old.bound_cut # None => /\ new.bound_cut = old.bound_cut
                                   /\ new.cut_binding = old.cut_binding,
           AttemptStepOK(old.attempts[k], new.attempts[k]),
           AttemptInv(new.bound_cut, new.attempts[k]),
           new.selected \in {0, k},
           new.attempts[k].status = "running" => new.selected = 0,
           new.attempts[k].status = "completed" => new.selected = k,
           new.selected = k =>
               new.attempts[k].status \in FailedStatuses \cup {"completed"}
    PROVE  RunInv(new) /\ StepOK(old, new)
<1>1. old.selected = 0 /\ k = Len(old.attempts) /\ Len(old.attempts) \in Nat
  BY LenProperties DEF RunInv, Run
<1>2. old.request # None
  BY <1>1, EmptySeq DEF RunInv, NoRun
<1>3. \A j \in 1..Len(old.attempts) :
         j # k => old.attempts[j] \in Attempt /\ AttemptInv(new.bound_cut, old.attempts[j])
  BY AttemptType, AttemptInvCut DEF RunInv
<1>4. \A j \in 1..Len(old.attempts) : AttemptStepOK(old.attempts[j], new.attempts[j])
  BY <1>3 DEF AttemptStepOK, Attempt
<1>5. \A j \in 1..Len(new.attempts) :
         /\ new.attempts[j].owner_token = old.attempts[j].owner_token
         /\ AttemptInv(new.bound_cut, new.attempts[j])
  BY <1>3, <1>4 DEF AttemptStepOK
<1>6. \A j \in 1..Len(new.attempts) :
         /\ new.attempts[j].status = "running" =>
               j = Len(new.attempts) /\ new.selected = 0
         /\ new.attempts[j].status = "completed" => new.selected = j
  BY <1>1 DEF RunInv
<1>7. \A j \in 1..Len(new.attempts) :
         /\ RequestOf[new.attempts[j].owner_token] = new.request
         /\ PayloadOf[new.attempts[j].owner_token] = new.payload
         /\ new.attempts[j].owner_token = new.attempts[1].owner_token
  BY <1>1, <1>5 DEF RunInv
<1>8. RunInv(new)
  BY <1>1, <1>2, <1>5, <1>6, <1>7 DEF RunInv
<1>9. StepOK(old, new)
  BY <1>1, <1>2, <1>4 DEF StepOK
<1> QED
  BY <1>8, <1>9
-----------------------------------------------------------------------------
(* Transactions                                                            *)

(* Staging good rows under a lock nobody holds keeps the invariant.        *)
LEMMA StageOK ==
    ASSUME IInv, NEW s \in Sessions, NEW t \in Transaction,
           txn[s] = Idle, txn' = [txn EXCEPT ![s] = t], clock' = clock, db' = db,
           LockFree(t.lock), RunInv(t.rows), ClaimTxn(t) \/ WriteTxn(t),
           \A o \in Sessions : Open(o) => txn[o].run # t.run
    PROVE  IInv'
<1>1. txn' = [txn EXCEPT ![s] = t] /\ clock' = clock /\ db' = db /\ txn[s] = Idle
  OBVIOUS
<1>2. t \in Transaction
  OBVIOUS
<1>3. TypeOK'
  BY <1>1, <1>2 DEF IInv, TypeOK
<1>4. txn'[s] = t /\ \A o \in Sessions : o # s => txn'[o] = txn[o]
  BY <1>1 DEF IInv, TypeOK
<1>5. (\A q \in RunIds : RunInv(db[q]))' /\ OneRunPerRequest'
  BY <1>1 DEF IInv, OneRunPerRequest
<1>6. (ClaimTxn(t) \/ WriteTxn(t))'
  <2>1. CASE ClaimTxn(t)
    BY <2>1, <1>1 DEF ClaimTxn
  <2>2. CASE WriteTxn(t)
    BY <2>2, <1>1 DEF WriteTxn
  <2> QED
    BY <2>1, <2>2
<1>7. TxnInv'
  <2> SUFFICES ASSUME NEW u \in Sessions, Open(u)'
               PROVE  /\ RunInv(txn'[u].rows)
                      /\ ClaimTxn(txn[u])' \/ WriteTxn(txn[u])'
                      /\ \A o \in Sessions : o # u /\ Open(o)' =>
                            txn'[o].run # txn'[u].run /\ txn'[o].lock # txn'[u].lock
    BY DEF TxnInv
  <2>1. \A o \in Sessions : o # s /\ Open(o)' => Open(o)
    BY <1>4 DEF Open
  <2>2. \A o \in Sessions : o # s /\ Open(o)' => txn[o].run # t.run /\ txn[o].lock # t.lock
    BY <2>1 DEF LockFree
  <2>3. CASE u = s
    BY <2>3, <2>2, <1>4, <1>6
  <2>4. CASE u # s
    <3>1. Open(u) /\ txn'[u] = txn[u]
      BY <2>4, <2>1, <1>4
    <3>2. /\ RunInv(txn[u].rows)
          /\ ClaimTxn(txn[u]) \/ WriteTxn(txn[u])
          /\ \A o \in Sessions : o # u /\ Open(o) =>
                txn[o].run # txn[u].run /\ txn[o].lock # txn[u].lock
      BY <3>1 DEF IInv, TxnInv
    <3>3. ClaimTxn(txn[u])' \/ WriteTxn(txn[u])'
      BY <3>1, <3>2, <1>1 DEF ClaimTxn, WriteTxn
    <3>4. \A o \in Sessions : o # u /\ Open(o)' =>
             txn'[o].run # txn'[u].run /\ txn'[o].lock # txn'[u].lock
      <4> SUFFICES ASSUME NEW o \in Sessions, o # u, Open(o)'
                   PROVE  txn'[o].run # txn'[u].run /\ txn'[o].lock # txn'[u].lock
        OBVIOUS
      <4>1. CASE o = s
        <5>1. txn'[o].run = t.run /\ txn'[o].lock = t.lock
          BY <4>1, <1>4
        <5> QED
          BY <5>1, <2>2, <2>4, <3>1
      <4>2. CASE o # s
        BY <4>2, <2>1, <1>4, <3>1, <3>2
      <4> QED
        BY <4>1, <4>2
    <3> QED
      BY <3>1, <3>2, <3>3, <3>4
  <2> QED
    BY <2>3, <2>4
<1> QED
  BY <1>3, <1>5, <1>7 DEF IInv

(* A writer that holds the run row has the run to itself.                  *)
LEMMA StageWriteOK ==
    ASSUME IInv, NEW s \in Sessions, NEW r \in RunIds,
           NEW rows \in Run, NEW fenced \in BOOLEAN, NEW lease \in Times,
           Stage(s, RunLock(r), r, rows, fenced, lease), LockFree(RunLock(r)),
           RunInv(rows), StepOK(db[r], rows)
    PROVE  IInv'
<1> DEFINE t == [phase |-> "staged", lock |-> RunLock(r), run |-> r, rows |-> rows,
                 fenced |-> fenced, lease |-> lease]
<1>1. RunLock(r) \in Locks
  BY DEF RunLock, Locks
<1>2. WriteTxn(t)
  BY DEF WriteTxn
<1>3. \A o \in Sessions : Open(o) => txn[o].run # r
  <2> SUFFICES ASSUME NEW o \in Sessions, Open(o) PROVE txn[o].run # r
    OBVIOUS
  <2>1. ClaimTxn(txn[o]) \/ WriteTxn(txn[o])
    BY DEF IInv, TxnInv
  <2>2. txn[o].lock # RunLock(r)
    BY DEF LockFree
  <2>3. db[r].request # None
    BY DEF StepOK
  <2> QED
    BY <2>1, <2>2, <2>3 DEF ClaimTxn, WriteTxn
<1>4. t \in Transaction
  BY <1>1 DEF Transaction
<1>5. /\ txn[s] = Idle /\ txn' = [txn EXCEPT ![s] = t]
      /\ clock' = clock /\ db' = db
  BY DEF Stage
<1>6. t.lock = RunLock(r) /\ t.rows = rows /\ t.run = r
  OBVIOUS
<1> HIDE DEF t
<1> QED
  BY <1>2, <1>3, <1>4, <1>5, <1>6, StageOK
-----------------------------------------------------------------------------
(* Operations on a running attempt                                         *)

(* A good row for the running attempt makes good rows of its run, selected *)
(* or not.                                                                 *)
LEMMA RewriteOK ==
    ASSUME NEW run \in Run, RunInv(run), NEW k \in 1..Len(run.attempts),
           run.attempts[k].status = "running", NEW b \in Attempt,
           AttemptStepOK(run.attempts[k], b), AttemptInv(run.bound_cut, b)
    PROVE  /\ b.status # "completed" =>
                 /\ PutAttempt(run, k, b) \in Run
                 /\ RunInv(PutAttempt(run, k, b))
                 /\ StepOK(run, PutAttempt(run, k, b))
           /\ b.status \in FailedStatuses \cup {"completed"} =>
                 /\ Select(PutAttempt(run, k, b), k) \in Run
                 /\ RunInv(Select(PutAttempt(run, k, b), k))
                 /\ StepOK(run, Select(PutAttempt(run, k, b), k))
<1> DEFINE put == PutAttempt(run, k, b)
           sel == Select(put, k)
<1>1. /\ put \in Run
      /\ Len(put.attempts) = Len(run.attempts)
      /\ put.attempts[k] = b
      /\ \A j \in 1..Len(run.attempts) : j # k => put.attempts[j] = run.attempts[j]
      /\ put.request = run.request /\ put.payload = run.payload
      /\ put.bound_cut = run.bound_cut /\ put.cut_binding = run.cut_binding
      /\ put.selected = run.selected
  BY PutAttemptRows
<1>2. run.selected = 0 /\ k \in Nat /\ k # 0
  BY LenProperties DEF RunInv, Run
<1> HIDE DEF put
<1>3. /\ sel \in Run
      /\ sel.attempts = put.attempts
      /\ sel.request = run.request /\ sel.payload = run.payload
      /\ sel.bound_cut = run.bound_cut /\ sel.cut_binding = run.cut_binding
      /\ sel.selected = k
  BY <1>1, <1>2 DEF Select, Run
<1> HIDE DEF sel
<1>4. b.status # "completed" => RunInv(put) /\ StepOK(run, put)
  BY <1>1, <1>2, UpdateOK
<1>5. b.status \in FailedStatuses \cup {"completed"} => RunInv(sel) /\ StepOK(run, sel)
  <2> SUFFICES ASSUME b.status \in FailedStatuses \cup {"completed"}
               PROVE  RunInv(sel) /\ StepOK(run, sel)
    OBVIOUS
  <2>1. b.status # "running"
    BY DEF FailedStatuses
  <2> QED
    BY <2>1, <1>1, <1>2, <1>3, UpdateOK
<1> QED
  BY <1>1, <1>3, <1>4, <1>5 DEF put, sel

(* A fenced writer that stages good rows keeps the invariant.              *)
LEMMA FencedOK ==
    ASSUME IInv, NEW s \in Sessions, NEW i \in Invocations, NEW r \in RunIds,
           NEW k \in 1..Len(db[r].attempts), NEW rev, NEW rows \in Run,
           FencedWrite(s, i, r, k, rev, rows), RunInv(rows), StepOK(db[r], rows)
    PROVE  IInv'
<1>1. db[r] \in Run
  BY DEF IInv, TypeOK
<1>2. db[r].attempts[k] \in Attempt
  BY <1>1, AttemptType
<1>3. db[r].attempts[k].lease_expires_at \in Times
  BY <1>2 DEF Attempt
<1> QED
  BY <1>3, StageWriteOK DEF FencedWrite

(* The fence finds a good, running attempt of a good run.                  *)
LEMMA FencedAttempt ==
    ASSUME IInv, NEW s \in Sessions, NEW i \in Invocations, NEW r \in RunIds,
           NEW k \in 1..Len(db[r].attempts), NEW rev, NEW rows,
           FencedWrite(s, i, r, k, rev, rows)
    PROVE  /\ db[r] \in Run
           /\ RunInv(db[r])
           /\ db[r].attempts[k] \in Attempt
           /\ db[r].attempts[k].status = "running"
           /\ AttemptInv(db[r].bound_cut, db[r].attempts[k])
<1>1. db[r] \in Run /\ RunInv(db[r])
  BY DEF IInv, TypeOK
<1> QED
  BY <1>1, AttemptType DEF RunInv, FencedWrite, AttemptFence

(* A renewal changes only the revision and the expiry of a running attempt.*)
LEMMA RenewAttemptOK ==
    ASSUME IInv, NEW s \in Sessions, NEW i \in Invocations, NEW r \in RunIds,
           NEW k \in 1..Len(db[r].attempts), NEW rev, NEW expiry \in Times,
           RenewAttempt(s, i, r, k, rev, expiry)
    PROVE  IInv'
<1> DEFINE a == db[r].attempts[k]
           b == [a EXCEPT !.lease_revision = @ + 1, !.lease_expires_at = expiry]
<1>1. /\ db[r] \in Run
      /\ RunInv(db[r])
      /\ a \in Attempt
      /\ a.status = "running"
      /\ AttemptInv(db[r].bound_cut, a)
  BY FencedAttempt DEF RenewAttempt
<1>2. expiry > a.lease_expires_at
  BY DEF RenewAttempt, ExtendsLease
<1>3. FencedWrite(s, i, r, k, rev, PutAttempt(db[r], k, b))
  BY DEF RenewAttempt
<1> HIDE DEF a
<1>4. b \in Attempt
  <2>1. a.lease_revision + 1 \in Nat
    BY <1>1 DEF Attempt
  <2> QED
    BY <1>1, <2>1 DEF Attempt, Times
<1>5. AttemptStepOK(a, b)
  BY <1>1, <1>2 DEF AttemptStepOK, Attempt, Ended, EndedStatuses, FailedStatuses
<1>6. AttemptInv(db[r].bound_cut, b) /\ b.status # "completed"
  BY <1>1 DEF AttemptInv, Attempt
<1> HIDE DEF b
<1> QED
  BY <1>1, <1>3, <1>4, <1>5, <1>6, RewriteOK, FencedOK DEF a

(* A context state change, with the evidence that goes with it, cannot     *)
(* harm a running attempt.                                                 *)
LEMMA ContextRowOK ==
    ASSUME IInv, NEW s \in Sessions, NEW i \in Invocations, NEW r \in RunIds,
           NEW k \in 1..Len(db[r].attempts), NEW rev, NEW d \in Sides,
           NEW state \in ContextStates, NEW evidence \in SUBSET Sides,
           FencedWrite(s, i, r, k, rev,
               PutAttempt(db[r], k,
                   [db[r].attempts[k] EXCEPT !.contexts[d] = state,
                                             !.closure_evidence = evidence]))
    PROVE  IInv'
<1> DEFINE a == db[r].attempts[k]
           b == [a EXCEPT !.contexts[d] = state, !.closure_evidence = evidence]
<1>1. /\ db[r] \in Run
      /\ RunInv(db[r])
      /\ a \in Attempt
      /\ a.status = "running"
      /\ AttemptInv(db[r].bound_cut, a)
  BY FencedAttempt
<1>2. FencedWrite(s, i, r, k, rev, PutAttempt(db[r], k, b))
  OBVIOUS
<1> HIDE DEF a
<1>3. b \in Attempt
  BY <1>1 DEF Attempt
<1>4. AttemptStepOK(a, b)
  BY <1>1 DEF AttemptStepOK, Attempt, Ended, EndedStatuses, FailedStatuses
<1>5. AttemptInv(db[r].bound_cut, b) /\ b.status # "completed"
  BY <1>1 DEF AttemptInv, Attempt
<1> HIDE DEF b
<1> QED
  BY <1>1, <1>2, <1>3, <1>4, <1>5, RewriteOK, FencedOK DEF a

(* Every context operation is such a change.                               *)
LEMMA ContextStepOK ==
    ASSUME IInv, NEW s \in Sessions, NEW i \in Invocations, NEW r \in RunIds,
           NEW k \in 1..Len(db[r].attempts), NEW rev,
           ContextStep(s, i, r, k, rev)
    PROVE  IInv'
<1> DEFINE a == db[r].attempts[k]
<1>1. PICK d \in Sides : \/ PersistContext(s, i, r, k, rev, d)
                         \/ CloseContext(s, i, r, k, rev, d)
                         \/ CloseClickHouseContext(s, i, r, k, rev, d)
                         \/ MarkContextLost(s, i, r, k, rev, d)
  BY DEF ContextStep
<1>2. a \in Attempt
  BY AttemptType DEF IInv, TypeOK
<1>3. /\ a.closure_evidence \in SUBSET Sides
      /\ a.closure_evidence \cup {d} \in SUBSET Sides
      /\ {"active", "closed", "lost"} \subseteq ContextStates
  BY <1>2 DEF Attempt, ContextStates
<1>4. PICK state \in ContextStates, evidence \in SUBSET Sides :
         FencedWrite(s, i, r, k, rev,
             PutAttempt(db[r], k, [a EXCEPT !.contexts[d] = state,
                                            !.closure_evidence = evidence]))
  <2>1. \A state : [a EXCEPT !.contexts[d] = state] =
                   [a EXCEPT !.contexts[d] = state,
                             !.closure_evidence = a.closure_evidence]
    BY <1>2 DEF Attempt
  <2>2. CASE PersistContext(s, i, r, k, rev, d)
    BY <1>3, <2>1, <2>2, Zenon DEF PersistContext
  <2>3. CASE CloseContext(s, i, r, k, rev, d)
    BY <1>3, <2>1, <2>3, Zenon DEF CloseContext
  <2>4. CASE CloseClickHouseContext(s, i, r, k, rev, d)
    BY <1>3, <2>4, Zenon DEF CloseClickHouseContext
  <2>5. CASE MarkContextLost(s, i, r, k, rev, d)
    BY <1>3, <2>1, <2>5, Zenon DEF MarkContextLost
  <2> QED
    BY <1>1, <2>2, <2>3, <2>4, <2>5
<1> QED
  BY <1>4, ContextRowOK

(* The cut is bound to the run in the transaction that stores it for the   *)
(* attempt, so earlier attempts keep agreeing with the run.                *)
LEMMA PersistCutOK ==
    ASSUME IInv, NEW s \in Sessions, NEW i \in Invocations, NEW r \in RunIds,
           NEW k \in 1..Len(db[r].attempts), NEW rev, NEW cut \in Cuts,
           NEW binding \in BindingOps,
           PersistCut(s, i, r, k, rev, cut, binding)
    PROVE  IInv'
<1> DEFINE a == db[r].attempts[k]
           b == [a EXCEPT !.input_cut = cut, !.observations = Sides]
           put == PutAttempt(db[r], k, b)
           rows == [put EXCEPT !.bound_cut = cut, !.cut_binding = binding]
<1>1. FencedWrite(s, i, r, k, rev, rows)
  BY DEF PersistCut
<1>2. /\ db[r] \in Run
      /\ RunInv(db[r])
      /\ a \in Attempt
      /\ a.status = "running"
      /\ AttemptInv(db[r].bound_cut, a)
  BY <1>1, FencedAttempt
<1>3. /\ a.input_cut = None
      /\ db[r].selected = 0
      /\ db[r].bound_cut # None => db[r].bound_cut = cut /\ db[r].cut_binding = binding
  BY DEF PersistCut, CutAdmissible, NotTerminal
<1> HIDE DEF a
<1>4. b \in Attempt
  BY <1>2 DEF Attempt
<1>5. AttemptStepOK(a, b)
  BY <1>2, <1>3 DEF AttemptStepOK, Attempt, Ended, EndedStatuses, FailedStatuses
<1>6. AttemptInv(cut, b) /\ b.status = "running"
  BY <1>2, ConstantsAssumption DEF AttemptInv, Attempt
<1> HIDE DEF b
<1>7. /\ put \in Run
      /\ Len(put.attempts) = Len(db[r].attempts)
      /\ put.attempts[k] = b
      /\ \A j \in 1..Len(db[r].attempts) : j # k => put.attempts[j] = db[r].attempts[j]
      /\ put.request = db[r].request /\ put.payload = db[r].payload
      /\ put.selected = 0
  BY <1>2, <1>3, <1>4, PutAttemptRows
<1> HIDE DEF put
<1>8. /\ rows \in Run
      /\ rows.attempts = put.attempts
      /\ rows.request = put.request /\ rows.payload = put.payload
      /\ rows.bound_cut = cut /\ rows.cut_binding = binding
      /\ rows.selected = 0
  BY <1>7 DEF Run
<1> HIDE DEF rows
<1>9. RunInv(rows) /\ StepOK(db[r], rows)
  <2>1. /\ rows.request = db[r].request /\ rows.payload = db[r].payload
        /\ Len(rows.attempts) = Len(db[r].attempts)
        /\ \A j \in 1..Len(db[r].attempts) : j # k => rows.attempts[j] = db[r].attempts[j]
        /\ rows.attempts[k] = b
    BY <1>7, <1>8
  <2>2. AttemptStepOK(db[r].attempts[k], rows.attempts[k])
    BY <1>5, <2>1 DEF a
  <2>3. db[r].attempts[k].status = "running"
    BY <1>2 DEF a
  <2>4. /\ AttemptInv(rows.bound_cut, rows.attempts[k])
        /\ rows.attempts[k].status = "running"
        /\ rows.selected # k
    BY <1>6, <1>8, <2>1
  <2> HIDE DEF a
  <2> QED
    BY <1>2, <1>3, <1>8, <2>1, <2>2, <2>3, <2>4, UpdateOK
<1> QED
  BY <1>1, <1>8, <1>9, FencedOK

(* The row of an attempt that has ended.                                   *)
EndedRow(a, status, result, level) ==
    [a EXCEPT !.status = status, !.result = result, !.stable_reads = level]

(* Ending the running attempt is safe when what is stored can be read back *)
(* (OutcomeReadable) and a completed attempt is selected.                  *)
LEMMA EndAttemptOK ==
    ASSUME IInv, NEW s \in Sessions, NEW i \in Invocations, NEW r \in RunIds,
           NEW k \in 1..Len(db[r].attempts), NEW rev, NEW rows,
           NEW status \in FailedStatuses \cup {"completed"}, NEW result \in Results,
           NEW level \in StableReads,
           FencedWrite(s, i, r, k, rev, rows),
           OutcomeReadable(db[r].bound_cut,
                           EndedRow(db[r].attempts[k], status, result, level)),
           \/ rows = EndAttempt(db[r], k, status, result, level) /\ status # "completed"
           \/ rows = Select(EndAttempt(db[r], k, status, result, level), k)
    PROVE  IInv'
<1> DEFINE a == db[r].attempts[k]
           b == EndedRow(a, status, result, level)
<1>1. /\ db[r] \in Run
      /\ RunInv(db[r])
      /\ a \in Attempt
      /\ a.status = "running"
      /\ AttemptInv(db[r].bound_cut, a)
  BY FencedAttempt
<1>2. \/ rows = PutAttempt(db[r], k, b) /\ status # "completed"
      \/ rows = Select(PutAttempt(db[r], k, b), k)
  BY DEF EndAttempt, EndedRow
<1>0. OutcomeReadable(db[r].bound_cut, b)
  OBVIOUS
<1> HIDE DEF a
<1>3. status \in AttemptStatuses /\ status # "running"
  BY DEF AttemptStatuses, EndedStatuses, FailedStatuses
<1>4. b \in Attempt /\ b.status = status
  BY <1>1, <1>3 DEF Attempt, EndedRow
<1>5. AttemptStepOK(a, b)
  BY <1>1 DEF AttemptStepOK, Attempt, Ended, EndedStatuses, FailedStatuses, EndedRow
<1>6. AttemptInv(db[r].bound_cut, b)
  <2>1. b.input_cut = a.input_cut /\ b.observations = a.observations
    BY <1>1 DEF Attempt, EndedRow
  <2> HIDE DEF b
  <2> QED
    BY <1>0, <1>1, <1>3, <1>4, <2>1 DEF AttemptInv
<1> HIDE DEF b
<1>7. rows \in Run /\ RunInv(rows) /\ StepOK(db[r], rows)
  BY <1>1, <1>2, <1>4, <1>5, <1>6, RewriteOK DEF a
<1> QED
  BY <1>7, FencedOK

(* The closure a failure without a comparison checks is enough to read the *)
(* outcome back.                                                           *)
LEMMA StoredClosureReadable ==
    ASSUME NEW run, NEW a \in Attempt, StoredAttemptClosure(run, a),
           NEW status \in FailedStatuses
    PROVE  OutcomeReadable(run.bound_cut, EndedRow(a, status, "none", "unknown"))
BY DEF StoredAttemptClosure, OutcomeReadable, Attempt, FailedStatuses, EndedRow

(* The same for a comparison, completed or partial.                        *)
LEMMA ComparisonClosureReadable ==
    ASSUME NEW run, NEW a \in Attempt, NEW level \in StableReads,
           NEW status, NEW result,
           \/ /\ CompletedClosure(ClickHouseSides, run, a, level)
              /\ status = "completed" /\ result = "completed"
           \/ /\ PartialClosure(ClickHouseSides, run, a, level)
              /\ status \in FailedStatuses /\ result = "partial"
    PROVE  OutcomeReadable(run.bound_cut, EndedRow(a, status, result, level))
<1> DEFINE b == EndedRow(a, status, result, level)
<1>1. /\ b.contexts = a.contexts /\ b.input_cut = a.input_cut
      /\ b.closure_evidence = a.closure_evidence
      /\ b.status = status /\ b.result = result /\ b.stable_reads = level
  BY DEF Attempt, EndedRow
<1> HIDE DEF b
<1>2. /\ \A d \in Sides : a.contexts[d] \in {"closed", "lost"}
      /\ result = "completed" => \A d \in Sides : a.contexts[d] = "closed"
      /\ result = "completed" <=> status = "completed"
      /\ result = "completed" => level # "unknown"
      /\ StableReadClosure(ClickHouseSides, a, level)
      /\ BoundCutClosure(run, a)
      /\ result \in {"completed", "partial"}
  BY DEF CompletedClosure, PartialClosure, FailedStatuses
<1>3. level = "verified" => ClickHouseSides = {}
  BY <1>2 DEF StableReadClosure
<1>4. level = "asserted" =>
         \A d \in Sides : /\ a.contexts[d] = "closed"
                          /\ d \in ClickHouseSides => d \in a.closure_evidence
  BY <1>2 DEF StableReadClosure
<1>5. a.input_cut # None /\ a.input_cut = run.bound_cut
  BY <1>2 DEF BoundCutClosure
<1> QED
  BY <1>1, <1>2, <1>3, <1>4, <1>5 DEF OutcomeReadable, b

(* Each way to end an attempt checks a closure that makes it readable.     *)
LEMMA OutcomeStepOK ==
    ASSUME IInv, NEW s \in Sessions, NEW i \in Invocations, NEW r \in RunIds,
           NEW k \in 1..Len(db[r].attempts), NEW rev,
           OutcomeStep(s, i, r, k, rev)
    PROVE  IInv'
<1> DEFINE a == db[r].attempts[k]
<1>1. a \in Attempt
  BY AttemptType DEF IInv, TypeOK
<1>2. {"none", "completed", "partial"} \subseteq Results /\ "unknown" \in StableReads
  BY DEF Results, StableReads
<1>3. \A status \in FailedStatuses : status # "completed"
  BY DEF FailedStatuses
<1>4. ASSUME NEW status \in FailedStatuses,
             \/ PersistRetryableOutcome(s, i, r, k, rev, status)
             \/ PublishTerminalOutcome(s, i, r, k, rev, status)
      PROVE  IInv'
  <2>1. OutcomeReadable(db[r].bound_cut, EndedRow(a, status, "none", "unknown"))
    BY <1>1, <1>4, StoredClosureReadable
       DEF PersistRetryableOutcome, PublishTerminalOutcome
  <2>2. CASE PersistRetryableOutcome(s, i, r, k, rev, status)
    BY <1>2, <1>3, <2>1, <2>2, EndAttemptOK DEF PersistRetryableOutcome
  <2>3. CASE PublishTerminalOutcome(s, i, r, k, rev, status)
    BY <1>2, <1>3, <2>1, <2>3, EndAttemptOK DEF PublishTerminalOutcome
  <2> QED
    BY <1>4, <2>2, <2>3
<1>5. ASSUME NEW status \in FailedStatuses, NEW level \in StableReads,
             \/ RecordRetryablePartialComparison(s, i, r, k, rev, status, level)
             \/ PublishTerminalPartialComparison(s, i, r, k, rev, status, level)
      PROVE  IInv'
  <2>1. OutcomeReadable(db[r].bound_cut, EndedRow(a, status, "partial", level))
    BY <1>1, <1>5, ComparisonClosureReadable
       DEF RecordRetryablePartialComparison, PublishTerminalPartialComparison
  <2>2. CASE RecordRetryablePartialComparison(s, i, r, k, rev, status, level)
    BY <1>2, <1>3, <2>1, <2>2, EndAttemptOK
       DEF RecordRetryablePartialComparison
  <2>3. CASE PublishTerminalPartialComparison(s, i, r, k, rev, status, level)
    BY <1>2, <1>3, <2>1, <2>3, EndAttemptOK
       DEF PublishTerminalPartialComparison
  <2> QED
    BY <1>5, <2>2, <2>3
<1>6. ASSUME NEW level \in StableReads,
             PublishCompletedComparison(s, i, r, k, rev, level)
      PROVE  IInv'
  <2>1. OutcomeReadable(db[r].bound_cut, EndedRow(a, "completed", "completed", level))
    BY <1>1, <1>6, ComparisonClosureReadable DEF PublishCompletedComparison
  <2> QED
    BY <1>2, <1>6, <2>1, EndAttemptOK DEF PublishCompletedComparison
<1> QED
  BY <1>4, <1>5, <1>6 DEF OutcomeStep

(* Abandonment needs no fence: under the run's lock the attempt it ends is *)
(* still running.                                                          *)
LEMMA AbandonAttemptOK ==
    ASSUME IInv, NEW s \in Sessions, NEW i \in Invocations, NEW r \in RunIds,
           NEW k \in 1..Len(db[r].attempts), AbandonAttempt(s, i, r, k)
    PROVE  IInv'
<1> DEFINE a == db[r].attempts[k]
           lost == [d \in Sides |->
                      IF a.contexts[d] = "active" THEN "lost" ELSE a.contexts[d]]
           b == [a EXCEPT !.status = "abandoned", !.contexts = lost]
           rows == PutAttempt(db[r], k, b)
<1>1. /\ LockFree(RunLock(r))
      /\ a.status = "running"
      /\ Stage(s, RunLock(r), r, rows, FALSE, 0)
  BY DEF AbandonAttempt
<1>2. db[r] \in Run /\ RunInv(db[r])
  BY DEF IInv, TypeOK
<1>3. a \in Attempt /\ AttemptInv(db[r].bound_cut, a)
  BY <1>2, AttemptType DEF RunInv
<1> HIDE DEF a
<1>4. lost \in [Sides -> ContextStates] /\ \A d \in Sides : lost[d] # "active"
  BY <1>3 DEF Attempt, ContextStates
<1> HIDE DEF lost
<1>5. b \in Attempt
  BY <1>3, <1>4 DEF Attempt, AttemptStatuses, EndedStatuses
<1>6. AttemptStepOK(a, b)
  BY <1>1, <1>3 DEF AttemptStepOK, Attempt, Ended, EndedStatuses, FailedStatuses
<1>7. AttemptInv(db[r].bound_cut, b) /\ b.status # "completed"
  BY <1>1, <1>3, <1>4 DEF AttemptInv, OutcomeReadable, Attempt
<1> HIDE DEF b
<1>8. rows \in Run /\ RunInv(rows) /\ StepOK(db[r], rows)
  BY <1>1, <1>2, <1>5, <1>6, <1>7, RewriteOK DEF a
<1> QED
  BY <1>1, <1>8, StageWriteOK DEF Times
-----------------------------------------------------------------------------
(* Admission                                                               *)

(* A new attempt is the last one, of the same process, and alone running.  *)
LEMMA StartAttemptOK ==
    ASSUME IInv, NEW s \in Sessions, NEW i \in Invocations, NEW r \in RunIds,
           NEW expiry \in Times, StartAttempt(s, i, r, expiry)
    PROVE  IInv'
<1> DEFINE run == db[r]
           a == NewAttempt(i, expiry)
           seq == Append(run.attempts, a)
           rows == [run EXCEPT !.attempts = seq]
<1>1. /\ LockFree(RunLock(r))
      /\ RequestOf[i] = run.request /\ PayloadOf[i] = run.payload
      /\ run.selected = 0
      /\ NoneRunning(run)
      /\ SameInvocation(run, i)
      /\ Len(run.attempts) < MaxAttempts
      /\ Stage(s, RunLock(r), r, rows, TRUE, expiry)
  BY DEF StartAttempt, RequestMatches, NotTerminal
<1>2. run \in Run /\ RunInv(run)
  BY DEF IInv, TypeOK
<1>3. run.request # None
  BY <1>1, ConstantsAssumption
<1> HIDE DEF run
<1>4. /\ a \in Attempt
      /\ a.owner_token = i
      /\ a.status = "running"
      /\ AttemptInv(run.bound_cut, a)
  BY DEF NewAttempt, Attempt, Times, AttemptStatuses, ContextStates, StableReads, Results,
         AttemptInv
<1> HIDE DEF a
<1>5. /\ run.attempts \in Seq(Attempt)
      /\ Len(run.attempts) \in Nat
      /\ MaxAttempts \in Nat
  BY <1>2, LenProperties, ConstantsAssumption DEF Run
<1>6. /\ seq \in Seq(Attempt)
      /\ Len(seq) = Len(run.attempts) + 1
      /\ \A j \in 1..Len(run.attempts) : seq[j] = run.attempts[j]
      /\ seq[Len(run.attempts) + 1] = a
  BY <1>4, <1>5, AppendProperties
<1> HIDE DEF seq
<1>7. /\ rows \in Run
      /\ rows.attempts = seq
      /\ rows.request = run.request /\ rows.payload = run.payload
      /\ rows.bound_cut = run.bound_cut /\ rows.cut_binding = run.cut_binding
      /\ rows.selected = 0
  BY <1>1, <1>2, <1>6 DEF Run
<1> HIDE DEF rows
<1>8. \A j \in 1..Len(seq) :
         /\ seq[j].status = "running" => j = Len(seq)
         /\ seq[j].owner_token = i
         /\ AttemptInv(run.bound_cut, seq[j])
         /\ seq[j].status # "completed"
  <2> SUFFICES ASSUME NEW j \in 1..Len(seq)
               PROVE  /\ seq[j].status = "running" => j = Len(seq)
                      /\ seq[j].owner_token = i
                      /\ AttemptInv(run.bound_cut, seq[j])
                      /\ seq[j].status # "completed"
    OBVIOUS
  <2>1. CASE j = Len(run.attempts) + 1
    BY <2>1, <1>4, <1>6
  <2>2. CASE j # Len(run.attempts) + 1
    <3>1. j \in 1..Len(run.attempts) /\ seq[j] = run.attempts[j]
      BY <2>2, <1>5, <1>6
    <3>2. /\ run.attempts[j].status # "running"
          /\ run.attempts[j].owner_token = i
      BY <3>1, <1>1 DEF NoneRunning, SameInvocation
    <3>3. /\ AttemptInv(run.bound_cut, run.attempts[j])
          /\ run.attempts[j].status = "completed" => run.selected = j
      BY <3>1, <1>2 DEF RunInv
    <3> QED
      BY <3>1, <3>2, <3>3, <1>1
  <2> QED
    BY <2>1, <2>2
<1>9. RunInv(rows)
  <2>1. Len(seq) <= MaxAttempts /\ 1 \in 1..Len(seq)
    BY <1>1, <1>5, <1>6
  <2> QED
    BY <2>1, <1>1, <1>3, <1>7, <1>8 DEF RunInv
<1>10. StepOK(run, rows)
  <2>1. \A j \in 1..Len(run.attempts) : AttemptStepOK(run.attempts[j], rows.attempts[j])
    BY <1>6, <1>7 DEF AttemptStepOK
  <2> QED
    BY <2>1, <1>1, <1>3, <1>5, <1>6, <1>7 DEF StepOK
<1> QED
  BY <1>1, <1>7, <1>9, <1>10, StageWriteOK DEF run

(* A claim reserves a request no run and no open transaction has.          *)
LEMMA ClaimRunOK ==
    ASSUME IInv, NEW s \in Sessions, NEW i \in Invocations, NEW r \in RunIds,
           ClaimRun(s, i, r)
    PROVE  IInv'
<1> DEFINE q == RequestOf[i]
           p == PayloadOf[i]
           rows == [NoRun EXCEPT !.request = q, !.payload = p]
           t == [phase |-> "staged", lock |-> RequestLock(q), run |-> r, rows |-> rows,
                 fenced |-> FALSE, lease |-> 0]
<1>1. /\ LockFree(RequestLock(q))
      /\ \A other \in RunIds : db[other].request # q
      /\ db[r].request = None
      /\ \A o \in Sessions : Open(o) => txn[o].run # r
      /\ Stage(s, RequestLock(q), r, rows, FALSE, 0)
  BY DEF ClaimRun
<1>2. q \in Requests /\ p \in Payloads /\ q # None /\ p # None
  BY ConstantsAssumption
<1>3. RequestLock(q) \in Locks
  BY <1>2 DEF RequestLock, Locks
<1> HIDE DEF q, p
<1>4. /\ rows \in Run
      /\ rows.request = q /\ rows.payload = p /\ rows.selected = 0
      /\ rows.attempts = <<>>
  <2>1. <<>> \in Seq(Attempt)
    BY EmptySeq
  <2> QED
    BY <1>2, <2>1 DEF NoRun, Run
<1>5. RunInv(rows)
  <2>1. Len(rows.attempts) = 0 /\ MaxAttempts \in Nat
    BY <1>4, EmptySeq, ConstantsAssumption
  <2> QED
    BY <1>2, <1>4, <2>1 DEF RunInv
<1>6. ClaimTxn(t)
  <2>1. t.lock = RequestLock(q) /\ t.rows = rows /\ t.run = r
    OBVIOUS
  <2> HIDE DEF t
  <2> QED
    BY <1>1, <1>2, <1>4, <2>1 DEF ClaimTxn
<1> HIDE DEF rows
<1>7. t \in Transaction
  BY <1>3, <1>4 DEF Transaction, Times
<1>8. /\ txn[s] = Idle /\ txn' = [txn EXCEPT ![s] = t]
      /\ clock' = clock /\ db' = db
  BY <1>1 DEF Stage
<1>9. t.lock = RequestLock(q) /\ t.rows = rows /\ t.run = r
  OBVIOUS
<1> HIDE DEF t
<1> QED
  BY <1>1, <1>5, <1>6, <1>7, <1>8, <1>9, StageOK

-----------------------------------------------------------------------------
(* The end of a transaction                                                *)

(* Sending COMMIT changes neither rows nor locks.                          *)
LEMMA SendCommitOK ==
    ASSUME IInv, NEW s \in Sessions, SendCommit(s)
    PROVE  IInv'
<1>1. /\ txn' = [txn EXCEPT ![s].phase = "committing"]
      /\ txn[s].phase = "staged" /\ clock' = clock /\ db' = db
  BY DEF SendCommit
<1>2. txn[s] \in Transaction
  BY <1>1 DEF IInv, TypeOK, Idle
<1>3. /\ txn'[s] = [txn[s] EXCEPT !.phase = "committing"]
      /\ \A o \in Sessions : o # s => txn'[o] = txn[o]
  BY <1>1 DEF IInv, TypeOK
<1>4. TypeOK'
  <2>1. txn'[s] \in Transaction
    BY <1>2, <1>3 DEF Transaction
  <2> QED
    BY <1>1, <1>3, <2>1 DEF IInv, TypeOK
<1>5. \A o \in Sessions : /\ Open(o)' <=> Open(o)
                          /\ txn'[o].run = txn[o].run /\ txn'[o].lock = txn[o].lock
                          /\ txn'[o].rows = txn[o].rows
  BY <1>1, <1>2, <1>3 DEF Open, Transaction
<1>6. (\A r \in RunIds : RunInv(db[r]))' /\ OneRunPerRequest'
  BY <1>1 DEF IInv, OneRunPerRequest
<1>7. TxnInv'
  <2> SUFFICES ASSUME NEW u \in Sessions, Open(u)'
               PROVE  /\ RunInv(txn'[u].rows)
                      /\ ClaimTxn(txn[u])' \/ WriteTxn(txn[u])'
                      /\ \A o \in Sessions : o # u /\ Open(o)' =>
                            txn'[o].run # txn'[u].run /\ txn'[o].lock # txn'[u].lock
    BY DEF TxnInv
  <2>1. /\ RunInv(txn[u].rows)
        /\ ClaimTxn(txn[u]) \/ WriteTxn(txn[u])
        /\ \A o \in Sessions : o # u /\ Open(o) =>
              txn[o].run # txn[u].run /\ txn[o].lock # txn[u].lock
    BY <1>5 DEF IInv, TxnInv
  <2>2. ClaimTxn(txn[u])' \/ WriteTxn(txn[u])'
    BY <2>1, <1>1, <1>5 DEF ClaimTxn, WriteTxn
  <2> QED
    BY <2>1, <2>2, <1>5
<1> QED
  BY <1>4, <1>6, <1>7 DEF IInv

(* A rolled back transaction leaves the others as they were.               *)
LEMMA RollbackOK ==
    ASSUME IInv, NEW s \in Sessions, Rollback(s)
    PROVE  IInv'
<1>1. /\ txn' = [txn EXCEPT ![s] = Idle]
      /\ clock' = clock /\ db' = db
  BY DEF Rollback
<1>2. TypeOK'
  BY <1>1 DEF IInv, TypeOK
<1>3. txn'[s] = Idle /\ \A o \in Sessions : o # s => txn'[o] = txn[o]
  BY <1>1 DEF IInv, TypeOK
<1>4. \A o \in Sessions : Open(o)' => o # s /\ Open(o)
  BY <1>3 DEF Open, Idle
<1>5. (\A r \in RunIds : RunInv(db[r]))' /\ OneRunPerRequest'
  BY <1>1 DEF IInv, OneRunPerRequest
<1>6. TxnInv'
  <2> SUFFICES ASSUME NEW u \in Sessions, Open(u)'
               PROVE  /\ RunInv(txn'[u].rows)
                      /\ ClaimTxn(txn[u])' \/ WriteTxn(txn[u])'
                      /\ \A o \in Sessions : o # u /\ Open(o)' =>
                            txn'[o].run # txn'[u].run /\ txn'[o].lock # txn'[u].lock
    BY DEF TxnInv
  <2>1. Open(u) /\ txn'[u] = txn[u]
    BY <1>3, <1>4
  <2>2. /\ RunInv(txn[u].rows)
        /\ ClaimTxn(txn[u]) \/ WriteTxn(txn[u])
        /\ \A o \in Sessions : o # u /\ Open(o) =>
              txn[o].run # txn[u].run /\ txn[o].lock # txn[u].lock
    BY <2>1 DEF IInv, TxnInv
  <2>3. ClaimTxn(txn[u])' \/ WriteTxn(txn[u])'
    BY <1>1, <2>1, <2>2 DEF ClaimTxn, WriteTxn
  <2> QED
    BY <1>3, <1>4, <2>1, <2>2, <2>3
<1> QED
  BY <1>2, <1>5, <1>6 DEF IInv

(* A step of a writer keeps its run's request, so nobody else's claim is   *)
(* affected; a claim installs a request no other run has.                  *)
LEMMA CommitOK ==
    ASSUME IInv, NEW s \in Sessions, Commit(s)
    PROVE  IInv'
<1> DEFINE t == txn[s]
           c == t.run
           new == t.rows
<1>1. /\ db' = [db EXCEPT ![c] = new]
      /\ txn' = [txn EXCEPT ![s] = Idle]
      /\ clock' = clock
      /\ Open(s)
  BY DEF Commit, Open
<1>2. t \in Transaction
  BY <1>1 DEF IInv, TypeOK, Open, Idle
<1>3. c \in RunIds /\ new \in Run
  BY <1>2 DEF Transaction
<1>4. /\ RunInv(new)
      /\ ClaimTxn(t) \/ WriteTxn(t)
      /\ \A o \in Sessions : o # s /\ Open(o) => txn[o].run # c /\ txn[o].lock # t.lock
  BY <1>1 DEF IInv, TxnInv
<1>5. db'[c] = new /\ \A r \in RunIds : r # c => db'[r] = db[r]
  BY <1>1, <1>3 DEF IInv, TypeOK
<1>6. txn'[s] = Idle /\ \A o \in Sessions : o # s => txn'[o] = txn[o]
  BY <1>1 DEF IInv, TypeOK
<1>7. \A o \in Sessions : Open(o)' => o # s /\ Open(o) /\ txn'[o] = txn[o]
  BY <1>6 DEF Open, Idle
<1>8. TypeOK'
  BY <1>1, <1>3 DEF IInv, TypeOK
<1>9. \A r \in RunIds : RunInv(db'[r])
  BY <1>4, <1>5, Zenon DEF IInv
<1>10. \/ /\ ClaimTxn(t)
          /\ \A r \in RunIds : db[r].request # new.request
       \/ /\ WriteTxn(t)
          /\ new.request = db[c].request
  BY <1>4, Zenon DEF ClaimTxn, WriteTxn, StepOK
<1>11. OneRunPerRequest'
  <2> SUFFICES ASSUME NEW r1 \in RunIds, NEW r2 \in RunIds,
                      db'[r1].request # None, db'[r1].request = db'[r2].request
               PROVE  r1 = r2
    BY DEF OneRunPerRequest
  <2>1. CASE \A r \in RunIds : db[r].request # new.request
    BY <2>1, <1>5 DEF IInv, OneRunPerRequest
  <2>2. CASE new.request = db[c].request
    BY <2>2, <1>3, <1>5 DEF IInv, OneRunPerRequest
  <2> QED
    BY <1>10, <2>1, <2>2
<1>12. TxnInv'
  <2> SUFFICES ASSUME NEW u \in Sessions, Open(u)'
               PROVE  /\ RunInv(txn'[u].rows)
                      /\ ClaimTxn(txn[u])' \/ WriteTxn(txn[u])'
                      /\ \A o \in Sessions : o # u /\ Open(o)' =>
                            txn'[o].run # txn'[u].run /\ txn'[o].lock # txn'[u].lock
    BY DEF TxnInv
  <2> DEFINE v == txn[u]
  <2>1. u # s /\ Open(u) /\ txn'[u] = v
    BY <1>7
  <2>2. /\ RunInv(v.rows)
        /\ ClaimTxn(v) \/ WriteTxn(v)
        /\ \A o \in Sessions : o # u /\ Open(o) =>
              txn[o].run # v.run /\ txn[o].lock # v.lock
    BY <2>1 DEF IInv, TxnInv
  <2>3. v.run # c /\ v.lock # t.lock
    BY <1>4, <2>1
  <2>4. v \in Transaction
    BY <2>1 DEF IInv, TypeOK, Open, Idle
  <2>5. db'[v.run] = db[v.run]
    BY <1>5, <2>3, <2>4 DEF Transaction
  <2> HIDE DEF t, v, c, new
  <2>6. CASE WriteTxn(v)
    <3>1. WriteTxn(txn[u])'
      BY <2>1, <2>5, <2>6 DEF WriteTxn
    <3> QED
      BY <1>7, <2>1, <2>2, <3>1 DEF v
  <2>7. CASE ClaimTxn(v)
    <3>1. \A r \in RunIds : db'[r].request # v.rows.request
      <4>1. CASE ClaimTxn(t)
        <5>1. new.request # v.rows.request
          BY <2>3, <2>7, <4>1 DEF ClaimTxn, new
        <5> QED
          BY <1>5, <2>7, <5>1 DEF ClaimTxn
      <4>2. CASE new.request = db[c].request
        BY <1>3, <1>5, <2>7, <4>2 DEF ClaimTxn
      <4> QED
        BY <1>10, <4>1, <4>2
    <3>2. ClaimTxn(txn[u])'
      BY <2>1, <2>5, <2>7, <3>1 DEF ClaimTxn
    <3> QED
      BY <1>7, <2>1, <2>2, <3>2 DEF v
  <2> QED
    BY <2>2, <2>6, <2>7
<1> QED
  BY <1>8, <1>9, <1>11, <1>12 DEF IInv

(* Time, and steps that change nothing, keep the invariant.                *)
LEMMA TickOK ==
    ASSUME IInv, Tick \/ UNCHANGED vars
    PROVE  IInv'
<1>1. db' = db /\ txn' = txn /\ clock' \in Times
  BY DEF Tick, vars, IInv, TypeOK, Times
<1>2. TypeOK' /\ OneRunPerRequest'
  BY <1>1 DEF IInv, TypeOK, OneRunPerRequest
<1>3. TxnInv'
  BY <1>1 DEF IInv, TxnInv, Open, ClaimTxn, WriteTxn
<1>4. ASSUME NEW r \in RunIds PROVE RunInv(db[r])'
  <2>1. RunInv(db[r])
    BY DEF IInv
  <2> QED
    BY <1>1, <2>1
<1> QED
  BY <1>2, <1>3, <1>4 DEF IInv

-----------------------------------------------------------------------------
(* The inductive invariant                                                 *)

(* An empty store satisfies the invariant.                                 *)
LEMMA InitOK == Init => IInv
<1> SUFFICES ASSUME Init PROVE IInv
  OBVIOUS
<1>1. \A r \in RunIds : db[r] = NoRun
  BY DEF Init
<1>2. NoRun \in Run
  <2>1. <<>> \in Seq(Attempt)
    BY EmptySeq
  <2> QED
    BY <2>1 DEF NoRun, Run
<1>3. TypeOK
  BY <1>2 DEF Init, TypeOK, Times
<1>4. RunInv(NoRun)
  <2>1. /\ NoRun.attempts = <<>> /\ NoRun.selected = 0
        /\ Len(<<>>) = 0 /\ MaxAttempts \in Nat
    BY EmptySeq, ConstantsAssumption DEF NoRun
  <2> QED
    BY <2>1 DEF RunInv
<1>5. OneRunPerRequest
  BY <1>1 DEF OneRunPerRequest, NoRun
<1>6. TxnInv
  BY DEF Init, TxnInv, Open, Idle
<1> QED
  BY <1>1, <1>3, <1>4, <1>5, <1>6 DEF IInv

(* Every step of the store preserves the invariant.                        *)
LEMMA NextOK == IInv /\ [Next]_vars => IInv'
<1> SUFFICES ASSUME IInv, [Next]_vars PROVE IInv'
  OBVIOUS
<1>1. CASE Tick \/ UNCHANGED vars
  BY <1>1, TickOK
<1>2. ASSUME NEW s \in Sessions, SendCommit(s) \/ Commit(s) \/ Rollback(s)
      PROVE  IInv'
  BY <1>2, SendCommitOK, CommitOK, RollbackOK
<1>3. ASSUME NEW s \in Sessions, NEW i \in Invocations, NEW r \in RunIds,
             ClaimRun(s, i, r)
      PROVE  IInv'
  BY <1>3, ClaimRunOK
<1>4. 1..MaxClock + 1 \subseteq Times
  BY ConstantsAssumption DEF Times
<1>5. ASSUME NEW s \in Sessions, NEW i \in Invocations, NEW r \in RunIds,
             NEW expiry \in 1..MaxClock + 1, StartAttempt(s, i, r, expiry)
      PROVE  IInv'
  BY <1>4, <1>5, StartAttemptOK
<1>6. ASSUME NEW s \in Sessions, NEW i \in Invocations, NEW r \in RunIds,
             NEW k \in 1..Len(db[r].attempts), AttemptStep(s, i, r, k)
      PROVE  IInv'
  <2>1. ASSUME NEW rev, NEW expiry \in 1..MaxClock + 1,
               RenewAttempt(s, i, r, k, rev, expiry)
        PROVE  IInv'
    BY <1>4, <2>1, RenewAttemptOK
  <2>2. ASSUME NEW rev, ContextStep(s, i, r, k, rev) PROVE IInv'
    BY <2>2, ContextStepOK
  <2>3. ASSUME NEW rev, NEW cut \in Cuts, NEW binding \in BindingOps,
               PersistCut(s, i, r, k, rev, cut, binding)
        PROVE  IInv'
    BY <2>3, PersistCutOK
  <2>4. ASSUME NEW rev, OutcomeStep(s, i, r, k, rev) PROVE IInv'
    BY <2>4, OutcomeStepOK
  <2>5. CASE AbandonAttempt(s, i, r, k)
    BY <2>5, AbandonAttemptOK
  <2> QED
    BY <1>6, <2>1, <2>2, <2>3, <2>4, <2>5 DEF AttemptStep
<1> QED
  BY <1>1, <1>2, <1>3, <1>5, <1>6 DEF Next

(* The strengthening of the safety properties holds in every reachable     *)
(* state of the metadata store.                                            *)
THEOREM Invariance == Spec => []IInv
BY InitOK, NextOK, PTL DEF Spec

(* The committed rows and open transactions always have the shape the      *)
(* model gives them; in particular no outcome writer mixes up the columns  *)
(* of an attempt row.                                                      *)
THEOREM TypeCorrectness == Spec => []TypeOK
<1>1. IInv => TypeOK
  BY DEF IInv
<1> QED
  BY <1>1, Invariance, PTL

(* Any number of processes claiming one request UUID at once leave one run *)
(* for it (_claim_run_once).                                               *)
THEOREM RequestIdentity == Spec => []OneRunPerRequest
<1>1. IInv => OneRunPerRequest
  BY DEF IInv
<1> QED
  BY <1>1, Invariance, PTL

(* However leases expire, renewals and abandonments race and processes     *)
(* restart, a run has at most one running attempt, its newest, and none    *)
(* after an outcome is selected (_start_attempt_once).                     *)
THEOREM AttemptExclusion == Spec => []OneRunningAttempt
<1>1. IInv => OneRunningAttempt
  BY DEF IInv, RunInv, OneRunningAttempt
<1> QED
  BY <1>1, Invariance, PTL

(* Every attempt of a run belongs to one process, whose request is the     *)
(* run's, and there are at most max_attempts of them.                      *)
THEOREM InvocationExclusion == Spec => []SingleInvocation
<1>1. ASSUME IInv, NEW r \in RunIds, NEW k \in 1..Len(db[r].attempts)
      PROVE  /\ db[r].attempts[k].owner_token = db[r].attempts[1].owner_token
             /\ RequestMatches(r, db[r].attempts[k].owner_token)
  BY <1>1 DEF IInv, RunInv, RequestMatches
<1>2. IInv => SingleInvocation
  BY <1>1 DEF IInv, RunInv, SingleInvocation
<1> QED
  BY <1>2, Invariance, PTL

(* Starts, abandonments and late records never give a run two running      *)
(* attempts or a second invocation (_start_attempt_once).                  *)
THEOREM AttemptsStayExclusive == Spec => []AttemptsAreExclusive
<1>1. OneRunningAttempt /\ SingleInvocation => AttemptsAreExclusive
  BY DEF AttemptsAreExclusive
<1> QED
  BY <1>1, AttemptExclusion, InvocationExclusion, PTL

(* No attempt ever holds a cut that differs from the one bound to its run, *)
(* or a cut without both observations (_persist_cut_once).                 *)
THEOREM CutIsAgreed == Spec => []CutAgreement
<1>1. IInv => CutAgreement
  BY DEF IInv, RunInv, AttemptInv, CutAgreement
<1> QED
  BY <1>1, Invariance, PTL

(* What the closure checks establish before an attempt ends is what the    *)
(* readers later require, for every attempt ever stored, abandoned ones    *)
(* included.                                                               *)
THEOREM EndedAttemptsStayReadable == Spec => []EndedAttemptsReadable
<1>1. ASSUME IInv, NEW r \in RunIds, NEW k \in 1..Len(db[r].attempts),
             Ended(db[r].attempts[k])
      PROVE  OutcomeReadable(db[r].bound_cut, db[r].attempts[k])
  <2>1. db[r].attempts[k].status # "running"
    BY <1>1 DEF Ended, EndedStatuses, FailedStatuses
  <2> QED
    BY <1>1, <2>1 DEF IInv, RunInv, AttemptInv
<1>2. IInv => EndedAttemptsReadable
  BY <1>1 DEF EndedAttemptsReadable
<1> QED
  BY <1>2, Invariance, PTL

(* A run's selected outcome is that of its last attempt, and a completed   *)
(* attempt cannot exist without being selected.                            *)
THEOREM SelectionIsFinal == Spec => []SelectedOutcome
<1>1. IInv => SelectedOutcome
  BY DEF IInv, RunInv, SelectedOutcome
<1> QED
  BY <1>1, Invariance, PTL

-----------------------------------------------------------------------------
(* What a step may do to committed rows                                    *)

(* A step lets time pass, ends a transaction or stages the rows of one.    *)
LEMMA StepKinds ==
    [Next]_vars =>
        \/ UNCHANGED vars
        \/ Tick
        \/ \E s \in Sessions :
              \/ SendCommit(s)
              \/ Commit(s)
              \/ Rollback(s)
              \/ \E lock, q, rows, fenced, lease : Stage(s, lock, q, rows, fenced, lease)
<1> SUFFICES ASSUME Next
             PROVE  \/ Tick
                    \/ \E s \in Sessions :
                          \/ SendCommit(s)
                          \/ Commit(s)
                          \/ Rollback(s)
                          \/ \E lock, q, rows, fenced, lease :
                                Stage(s, lock, q, rows, fenced, lease)
  OBVIOUS
<1> DEFINE Stages(s) ==
        \E lock, q, rows, fenced, lease : Stage(s, lock, q, rows, fenced, lease)
<1>1. ASSUME NEW s, NEW i, NEW q, NEW k, NEW rev, NEW rows,
             FencedWrite(s, i, q, k, rev, rows)
      PROVE  Stages(s)
  BY <1>1 DEF FencedWrite
<1>2. ASSUME NEW s, NEW i, NEW q, NEW expiry,
             ClaimRun(s, i, q) \/ StartAttempt(s, i, q, expiry)
      PROVE  Stages(s)
  BY <1>2 DEF ClaimRun, StartAttempt
<1>3. ASSUME NEW s, NEW i, NEW q, NEW k, AttemptStep(s, i, q, k) PROVE Stages(s)
  <2> HIDE DEF Stages
  <2>1. ASSUME NEW rev, NEW expiry, RenewAttempt(s, i, q, k, rev, expiry)
        PROVE  Stages(s)
    BY <2>1, <1>1 DEF RenewAttempt
  <2>2. ASSUME NEW rev, ContextStep(s, i, q, k, rev) PROVE Stages(s)
    BY <2>2, <1>1 DEF ContextStep, PersistContext, CloseContext,
                      CloseClickHouseContext, MarkContextLost
  <2>3. ASSUME NEW rev, NEW cut, NEW binding, PersistCut(s, i, q, k, rev, cut, binding)
        PROVE  Stages(s)
    BY <2>3, <1>1 DEF PersistCut
  <2>4. ASSUME NEW rev, OutcomeStep(s, i, q, k, rev) PROVE Stages(s)
    BY <2>4, <1>1 DEF OutcomeStep, PersistRetryableOutcome, PublishTerminalOutcome,
                      PublishCompletedComparison, RecordRetryablePartialComparison,
                      PublishTerminalPartialComparison
  <2>5. CASE AbandonAttempt(s, i, q, k)
    BY <2>5 DEF AbandonAttempt, Stages
  <2> QED
    BY <1>3, <2>1, <2>2, <2>3, <2>4, <2>5 DEF AttemptStep
<1> HIDE DEF Stages
<1> QED
  BY <1>2, <1>3 DEF Next, Stages

(* Only Commit changes them, and then by a claim or by a writer's step.    *)
LEMMA CommittedStep ==
    ASSUME IInv, [Next]_vars, NEW r \in RunIds
    PROVE  \/ db'[r] = db[r]
           \/ db[r] = NoRun
           \/ StepOK(db[r], db'[r])
<1>1. CASE db' = db
  BY <1>1
<1>2. ASSUME NEW s \in Sessions, Commit(s)
      PROVE  db'[r] = db[r] \/ db[r] = NoRun \/ StepOK(db[r], db'[r])
  <2>1. Open(s) /\ db' = [db EXCEPT ![txn[s].run] = txn[s].rows]
    BY <1>2 DEF Commit, Open
  <2>2. txn[s] \in Transaction /\ txn[s].run \in RunIds
    BY <2>1 DEF IInv, TypeOK, Open, Idle, Transaction
  <2>3. ClaimTxn(txn[s]) \/ WriteTxn(txn[s])
    BY <2>1 DEF IInv, TxnInv
  <2>4. /\ db'[txn[s].run] = txn[s].rows
        /\ r # txn[s].run => db'[r] = db[r]
    BY <2>1, <2>2 DEF IInv, TypeOK
  <2>5. CASE ClaimTxn(txn[s])
    BY <2>2, <2>4, <2>5 DEF ClaimTxn, IInv, RunInv
  <2>6. CASE WriteTxn(txn[s])
    BY <2>4, <2>6 DEF WriteTxn
  <2> QED
    BY <2>3, <2>5, <2>6
<1>3. db' = db \/ \E s \in Sessions : Commit(s)
  BY StepKinds DEF vars, Tick, SendCommit, Rollback, Stage
<1> QED
  BY <1>1, <1>2, <1>3

(* No transaction, however late its COMMIT lands, changes a run that has a *)
(* selected outcome.                                                       *)
THEOREM OutcomesAreFinal == Spec => [][TerminalRunKept]_vars
<1>1. IInv /\ [Next]_vars => TerminalRunKept
  <2> SUFFICES ASSUME IInv, [Next]_vars, NEW r \in RunIds, db[r].selected # 0
               PROVE  db'[r] = db[r]
    BY DEF TerminalRunKept
  <2>1. NoRun.selected = 0
    BY DEF NoRun
  <2> QED
    BY <2>1, CommittedStep DEF StepOK
<1> QED
  BY <1>1, Invariance, PTL DEF Spec

(* No transaction changes an attempt that has ended: a worker whose        *)
(* attempt was abandoned cannot write to it, nor to a later attempt.       *)
THEOREM EndedAttemptsAreFinal == Spec => [][EndedAttemptKept]_vars
<1>1. IInv /\ [Next]_vars => EndedAttemptKept
  <2> SUFFICES ASSUME IInv, [Next]_vars, NEW r \in RunIds,
                      NEW k \in 1..Len(db[r].attempts), Ended(db[r].attempts[k])
               PROVE  /\ k <= Len(db'[r].attempts)
                      /\ db'[r].attempts[k] = db[r].attempts[k]
    BY DEF EndedAttemptKept
  <2>1. /\ Len(db[r].attempts) \in Nat /\ Len(db'[r].attempts) \in Nat
        /\ Len(NoRun.attempts) = 0
    BY NextOK, LenProperties, EmptySeq DEF IInv, TypeOK, Run, NoRun
  <2> QED
    BY <2>1, CommittedStep DEF StepOK, AttemptStepOK
<1> QED
  BY <1>1, Invariance, PTL DEF Spec

(* The request, the bound cut and an attempt's owner and cut, once         *)
(* committed, are never overwritten by a transaction that read older rows. *)
THEOREM FactsAreWrittenOnce == Spec => [][FactsKept]_vars
<1> DEFINE Kept(r) ==
        /\ db[r].request # None => /\ db'[r].request = db[r].request
                                   /\ db'[r].payload = db[r].payload
        /\ db[r].bound_cut # None => /\ db'[r].bound_cut = db[r].bound_cut
                                     /\ db'[r].cut_binding = db[r].cut_binding
        /\ \A k \in 1..Len(db[r].attempts) :
              /\ k <= Len(db'[r].attempts)
              /\ db'[r].attempts[k].owner_token = db[r].attempts[k].owner_token
              /\ db[r].attempts[k].input_cut # None =>
                    db'[r].attempts[k].input_cut = db[r].attempts[k].input_cut
<1>1. ASSUME IInv, [Next]_vars, NEW r \in RunIds PROVE Kept(r)
  <2>1. /\ Len(db[r].attempts) \in Nat /\ Len(db'[r].attempts) \in Nat
    BY <1>1, NextOK, LenProperties DEF IInv, TypeOK, Run
  <2>2. CASE db'[r] = db[r]
    BY <2>1, <2>2
  <2>3. CASE db[r] = NoRun
    <3>1. Len(NoRun.attempts) = 0 /\ NoRun.request = None /\ NoRun.bound_cut = None
      BY EmptySeq DEF NoRun
    <3> QED
      BY <2>3, <3>1
  <2>4. CASE StepOK(db[r], db'[r])
    BY <2>1, <2>4 DEF StepOK, AttemptStepOK
  <2> QED
    BY <1>1, <2>2, <2>3, <2>4, CommittedStep
<1>2. IInv /\ [Next]_vars => FactsKept
  BY <1>1 DEF FactsKept
<1> QED
  BY <1>2, Invariance, PTL DEF Spec

(* No process that holds an old record of a run or an attempt can change   *)
(* what was recorded after it (_require_attempt_fence_row).                *)
THEOREM RecordsStayFinal == Spec => RecordsAreFinal
BY OutcomesAreFinal, EndedAttemptsAreFinal, FactsAreWrittenOnce, PTL DEF RecordsAreFinal

(* Every committed lease change is a renewal: one revision, a later        *)
(* expiry.                                                                 *)
THEOREM LeasesFollowRevisions == Spec => LeaseFollowsRevision
<1> DEFINE Renewed(a, b) ==
        \/ /\ b.lease_revision = a.lease_revision
           /\ b.lease_expires_at = a.lease_expires_at
        \/ /\ b.lease_revision = a.lease_revision + 1
           /\ b.lease_expires_at > a.lease_expires_at
<1>1. ASSUME IInv, [Next]_vars, NEW r \in RunIds, NEW k \in 1..Len(db[r].attempts)
      PROVE  Renewed(db[r].attempts[k], db'[r].attempts[k])
  <2>1. Len(NoRun.attempts) = 0
    BY EmptySeq DEF NoRun
  <2> QED
    BY <1>1, <2>1, CommittedStep DEF StepOK, AttemptStepOK
<1>2. IInv /\ [Next]_vars =>
         [\A r \in RunIds : \A k \in 1..Len(db[r].attempts) :
             Renewed(db[r].attempts[k], db'[r].attempts[k])]_vars
  BY <1>1
<1> QED
  BY <1>2, Invariance, PTL DEF Spec, LeaseFollowsRevision

-----------------------------------------------------------------------------
(* Leases                                                                  *)
(*                                                                         *)
(* The fence compares the clock with the lease the transaction read, not   *)
(* with the lease that is stored.  LeaseInv says that they are the same    *)
(* for as long as the transaction is open, and that a write without a      *)
(* fence can only be an abandonment that was already due.                  *)

StagedRow(t, a, b) ==
    b # a => IF b.status = "abandoned"
             THEN a.lease_expires_at <= clock
             ELSE t.fenced /\ t.lease = a.lease_expires_at

StagedOK(t) ==
    /\ t.rows.bound_cut = db[t.run].bound_cut \/ t.rows.selected = 0
    /\ \A k \in 1..Len(db[t.run].attempts) :
          StagedRow(t, db[t.run].attempts[k], t.rows.attempts[k])

LeaseInv == \A s \in Sessions : Open(s) => StagedOK(txn[s])

(* Staging rows that respect the leases keeps LeaseInv.                    *)
LEMMA StageLease ==
    ASSUME IInv, LeaseInv, NEW s \in Sessions, NEW r \in RunIds, NEW lock,
           NEW rows, NEW fenced \in BOOLEAN, NEW lease,
           Stage(s, lock, r, rows, fenced, lease),
           rows.bound_cut = db[r].bound_cut \/ rows.selected = 0,
           \A k \in 1..Len(db[r].attempts) :
              rows.attempts[k] # db[r].attempts[k] =>
                 IF rows.attempts[k].status = "abandoned"
                 THEN db[r].attempts[k].lease_expires_at <= clock
                 ELSE fenced = TRUE /\ lease = db[r].attempts[k].lease_expires_at
    PROVE  LeaseInv'
<1> DEFINE t == [phase |-> "staged", lock |-> lock, run |-> r, rows |-> rows,
                 fenced |-> fenced, lease |-> lease]
<1>1. /\ txn[s] = Idle /\ txn' = [txn EXCEPT ![s] = t]
      /\ clock' = clock /\ db' = db
  BY DEF Stage
<1>2. txn'[s] = t /\ \A o \in Sessions : o # s => txn'[o] = txn[o]
  BY <1>1 DEF IInv, TypeOK
<1>3. /\ t.run = r /\ t.rows = rows
      /\ t.fenced = fenced /\ t.lease = lease
  OBVIOUS
<1> HIDE DEF t
<1>4. StagedOK(txn[s])'
  BY <1>1, <1>2, <1>3 DEF StagedOK, StagedRow
<1>5. ASSUME NEW o \in Sessions, o # s, Open(o)' PROVE StagedOK(txn[o])'
  <2>1. StagedOK(txn[o])
    BY <1>2, <1>5 DEF LeaseInv, Open
  <2> QED
    BY <1>1, <1>2, <1>5, <2>1 DEF StagedOK, StagedRow
<1> QED
  BY <1>4, <1>5 DEF LeaseInv

(* Rewriting one attempt row, without knowing what is written.             *)
LEMMA PutRow ==
    ASSUME NEW run \in Run, NEW k \in 1..Len(run.attempts), NEW b
    PROVE  /\ PutAttempt(run, k, b).attempts[k] = b
           /\ \A j \in 1..Len(run.attempts) :
                 j # k => PutAttempt(run, k, b).attempts[j] = run.attempts[j]
           /\ PutAttempt(run, k, b).bound_cut = run.bound_cut
           /\ PutAttempt(run, k, b).selected = run.selected
           /\ Select(PutAttempt(run, k, b), k).attempts = PutAttempt(run, k, b).attempts
           /\ Select(PutAttempt(run, k, b), k).bound_cut = run.bound_cut
<1> DEFINE seq == [run.attempts EXCEPT ![k] = b]
<1>1. run.attempts \in [1..Len(run.attempts) -> Attempt]
  BY LenProperties DEF Run
<1>2. /\ seq[k] = b
      /\ \A j \in 1..Len(run.attempts) : j # k => seq[j] = run.attempts[j]
  BY <1>1
<1>3. PutAttempt(run, k, b) = [run EXCEPT !.attempts = seq]
  BY DEF PutAttempt
<1> HIDE DEF seq
<1> QED
  BY <1>2, <1>3 DEF Run, Select

(* The owner's writes stage the lease of the one attempt they change.      *)
LEMMA FencedLease ==
    ASSUME IInv, LeaseInv, NEW s \in Sessions, NEW i \in Invocations, NEW r \in RunIds,
           NEW k \in 1..Len(db[r].attempts), NEW rev, NEW rows,
           FencedWrite(s, i, r, k, rev, rows),
           rows.bound_cut = db[r].bound_cut \/ rows.selected = 0,
           rows.attempts[k].status # "abandoned",
           \A j \in 1..Len(db[r].attempts) :
              j # k => rows.attempts[j] = db[r].attempts[j]
    PROVE  LeaseInv'
<1>1. PICK fenced, lease :
         /\ fenced \in BOOLEAN /\ Stage(s, RunLock(r), r, rows, fenced, lease)
         /\ fenced = TRUE /\ lease = db[r].attempts[k].lease_expires_at
  BY DEF FencedWrite
<1>2. \A j \in 1..Len(db[r].attempts) :
         rows.attempts[j] # db[r].attempts[j] =>
            IF rows.attempts[j].status = "abandoned"
            THEN db[r].attempts[j].lease_expires_at <= clock
            ELSE fenced = TRUE /\ lease = db[r].attempts[j].lease_expires_at
  BY <1>1
<1>3. rows.bound_cut = db[r].bound_cut \/ rows.selected = 0
  OBVIOUS
<1>4. fenced \in BOOLEAN /\ Stage(s, RunLock(r), r, rows, fenced, lease)
  BY <1>1
<1> QED
  BY ONLY IInv, LeaseInv, s \in Sessions, r \in RunIds, <1>2, <1>3, <1>4, StageLease

(* The same for writes of an attempt row alone, selected or not.           *)
LEMMA FencedRowLease ==
    ASSUME IInv, LeaseInv, NEW s \in Sessions, NEW i \in Invocations, NEW r \in RunIds,
           NEW k \in 1..Len(db[r].attempts), NEW rev, NEW b, NEW rows,
           FencedWrite(s, i, r, k, rev, rows),
           b.status # "abandoned",
           rows \in {PutAttempt(db[r], k, b), Select(PutAttempt(db[r], k, b), k)}
    PROVE  LeaseInv'
<1>1. db[r] \in Run
  BY DEF IInv, TypeOK
<1>2. /\ rows.bound_cut = db[r].bound_cut
      /\ rows.attempts[k] = b
      /\ \A j \in 1..Len(db[r].attempts) :
            j # k => rows.attempts[j] = db[r].attempts[j]
  BY <1>1, PutRow
<1> QED
  BY <1>2, FencedLease

(* Renewals, contexts and outcomes are writes by the attempt's owner.      *)
LEMMA OwnerStepLease ==
    ASSUME IInv, LeaseInv, NEW s \in Sessions, NEW i \in Invocations, NEW r \in RunIds,
           NEW k \in 1..Len(db[r].attempts), NEW rev,
           \/ \E expiry \in Times : RenewAttempt(s, i, r, k, rev, expiry)
           \/ ContextStep(s, i, r, k, rev)
           \/ OutcomeStep(s, i, r, k, rev)
    PROVE  LeaseInv'
<1> DEFINE a == db[r].attempts[k]
<1>1. a \in Attempt
  BY AttemptType DEF IInv, TypeOK
<1>2. ASSUME NEW rows, FencedWrite(s, i, r, k, rev, rows)
      PROVE  a.status = "running"
  BY <1>2 DEF FencedWrite, AttemptFence
<1>3. ASSUME NEW expiry \in Times, RenewAttempt(s, i, r, k, rev, expiry)
      PROVE  LeaseInv'
  <2> DEFINE b == [a EXCEPT !.lease_revision = @ + 1, !.lease_expires_at = expiry]
  <2>1. FencedWrite(s, i, r, k, rev, PutAttempt(db[r], k, b))
    BY <1>3 DEF RenewAttempt
  <2>2. b.status # "abandoned"
    BY <1>1, <1>2, <2>1 DEF Attempt
  <2> HIDE DEF a, b
  <2> QED
    BY <2>1, <2>2, FencedRowLease
<1>4. ASSUME NEW d \in Sides,
             \/ PersistContext(s, i, r, k, rev, d)
             \/ CloseContext(s, i, r, k, rev, d)
             \/ CloseClickHouseContext(s, i, r, k, rev, d)
             \/ MarkContextLost(s, i, r, k, rev, d)
      PROVE  LeaseInv'
  <2>1. PICK b : /\ FencedWrite(s, i, r, k, rev, PutAttempt(db[r], k, b))
                 /\ b.status = a.status
    <3>1. \A state : [a EXCEPT !.contexts[d] = state].status = a.status
      BY <1>1 DEF Attempt
    <3>2. \A state, sides : [a EXCEPT !.contexts[d] = state,
                                      !.closure_evidence = sides].status = a.status
      BY <1>1 DEF Attempt
    <3>3. CASE PersistContext(s, i, r, k, rev, d)
      BY <3>1, <3>3 DEF PersistContext
    <3>4. CASE CloseContext(s, i, r, k, rev, d)
      BY <3>1, <3>4 DEF CloseContext
    <3>5. CASE CloseClickHouseContext(s, i, r, k, rev, d)
      BY <3>2, <3>5 DEF CloseClickHouseContext
    <3>6. CASE MarkContextLost(s, i, r, k, rev, d)
      BY <3>1, <3>6 DEF MarkContextLost
    <3> QED
      BY <1>4, <3>3, <3>4, <3>5, <3>6
  <2>2. b.status # "abandoned"
    BY <1>2, <2>1
  <2> QED
    BY <2>1, <2>2, FencedRowLease
<1>5. ASSUME NEW status \in FailedStatuses \cup {"completed"}, NEW result, NEW level,
             NEW rows, FencedWrite(s, i, r, k, rev, rows),
             rows \in {EndAttempt(db[r], k, status, result, level),
                       Select(EndAttempt(db[r], k, status, result, level), k)}
      PROVE  LeaseInv'
  <2> DEFINE b == EndedRow(a, status, result, level)
  <2>1. EndAttempt(db[r], k, status, result, level) = PutAttempt(db[r], k, b)
    BY DEF EndAttempt, EndedRow
  <2>2. b.status # "abandoned"
    BY <1>1 DEF EndedRow, Attempt, FailedStatuses
  <2> HIDE DEF a, b
  <2> QED
    BY <1>5, <2>1, <2>2, FencedRowLease
<1>6. CASE OutcomeStep(s, i, r, k, rev)
  BY <1>5, <1>6 DEF OutcomeStep, PersistRetryableOutcome, PublishTerminalOutcome,
                    PublishCompletedComparison, RecordRetryablePartialComparison,
                    PublishTerminalPartialComparison
<1> QED
  BY <1>3, <1>4, <1>6 DEF ContextStep

(* A cut is written under the attempt's lease and selects nothing.         *)
LEMMA PersistCutLease ==
    ASSUME IInv, LeaseInv, NEW s \in Sessions, NEW i \in Invocations, NEW r \in RunIds,
           NEW k \in 1..Len(db[r].attempts), NEW rev, NEW cut, NEW binding,
           PersistCut(s, i, r, k, rev, cut, binding)
    PROVE  LeaseInv'
<1> DEFINE a == db[r].attempts[k]
           b == [a EXCEPT !.input_cut = cut, !.observations = Sides]
           put == PutAttempt(db[r], k, b)
           rows == [put EXCEPT !.bound_cut = cut, !.cut_binding = binding]
<1>1. FencedWrite(s, i, r, k, rev, rows) /\ db[r].selected = 0
  BY DEF PersistCut, NotTerminal
<1>2. db[r] \in Run /\ a \in Attempt /\ a.status = "running"
  BY <1>1, AttemptType DEF IInv, TypeOK, FencedWrite, AttemptFence
<1>3. b.status # "abandoned"
  BY <1>2 DEF Attempt
<1> HIDE DEF a, b
<1>4. /\ put.attempts[k] = b
      /\ \A j \in 1..Len(db[r].attempts) : j # k => put.attempts[j] = db[r].attempts[j]
      /\ put.selected = 0
  BY <1>1, <1>2, PutRow
<1>5. rows.attempts = put.attempts /\ rows.selected = put.selected
  BY <1>2 DEF PutAttempt, Run
<1> HIDE DEF put, rows
<1> QED
  BY <1>1, <1>3, <1>4, <1>5, FencedLease

(* Maintenance abandons an attempt whose lease, under the run's lock, has  *)
(* already expired.                                                        *)
LEMMA AbandonLease ==
    ASSUME IInv, LeaseInv, NEW s \in Sessions, NEW i \in Invocations, NEW r \in RunIds,
           NEW k \in 1..Len(db[r].attempts), AbandonAttempt(s, i, r, k)
    PROVE  LeaseInv'
<1> DEFINE a == db[r].attempts[k]
           lost == [d \in Sides |->
                      IF a.contexts[d] = "active" THEN "lost" ELSE a.contexts[d]]
           b == [a EXCEPT !.status = "abandoned", !.contexts = lost]
           rows == PutAttempt(db[r], k, b)
<1>1. /\ a.lease_expires_at <= clock
      /\ Stage(s, RunLock(r), r, rows, FALSE, 0)
  BY DEF AbandonAttempt, LeaseExpired
<1>2. db[r] \in Run /\ a \in Attempt
  BY AttemptType DEF IInv, TypeOK
<1>3. b.status = "abandoned"
  BY <1>2 DEF Attempt
<1> HIDE DEF b
<1>4. /\ rows.bound_cut = db[r].bound_cut
      /\ rows.attempts[k] = b
      /\ \A j \in 1..Len(db[r].attempts) : j # k => rows.attempts[j] = db[r].attempts[j]
  BY <1>2, PutRow
<1> HIDE DEF rows
<1> QED
  BY <1>1, <1>3, <1>4, StageLease

(* Admission changes no attempt that is stored.                            *)
LEMMA AdmissionLease ==
    ASSUME IInv, LeaseInv, NEW s \in Sessions, NEW i \in Invocations, NEW r \in RunIds,
           ClaimRun(s, i, r) \/ \E expiry \in Times : StartAttempt(s, i, r, expiry)
    PROVE  LeaseInv'
<1>1. db[r] \in Run /\ RunInv(db[r])
  BY DEF IInv, TypeOK
<1>2. CASE ClaimRun(s, i, r)
  <2> DEFINE rows == [NoRun EXCEPT !.request = RequestOf[i], !.payload = PayloadOf[i]]
  <2>1. /\ db[r] = NoRun
        /\ Stage(s, RequestLock(RequestOf[i]), r, rows, FALSE, 0)
    BY <1>1, <1>2 DEF ClaimRun, RunInv
  <2>2. rows.bound_cut = db[r].bound_cut /\ 1..Len(db[r].attempts) = {}
    BY <2>1, EmptySeq DEF NoRun
  <2> HIDE DEF rows
  <2> QED
    BY <2>1, <2>2, StageLease
<1>3. ASSUME NEW expiry \in Times, StartAttempt(s, i, r, expiry) PROVE LeaseInv'
  <2> DEFINE a == NewAttempt(i, expiry)
             seq == Append(db[r].attempts, a)
             rows == [db[r] EXCEPT !.attempts = seq]
  <2>1. Stage(s, RunLock(r), r, rows, TRUE, expiry)
    BY <1>3 DEF StartAttempt
  <2>2. a \in Attempt
    BY DEF NewAttempt, Attempt, Times, AttemptStatuses, ContextStates, StableReads, Results
  <2> HIDE DEF a
  <2>3. \A j \in 1..Len(db[r].attempts) : seq[j] = db[r].attempts[j]
    <3>1. db[r].attempts \in Seq(Attempt)
      BY <1>1 DEF Run
    <3> QED
      BY <2>2, <3>1, AppendProperties
  <2> HIDE DEF seq
  <2>4. rows.bound_cut = db[r].bound_cut /\ rows.attempts = seq
    BY <1>1 DEF Run
  <2> HIDE DEF rows
  <2> QED
    BY <2>1, <2>3, <2>4, StageLease
<1> QED
  BY <1>2, <1>3

(* The end of one transaction leaves the rows and leases the others read:  *)
(* nobody else writes their run.  Time only makes abandonment more due.    *)
LEMMA OtherLease ==
    ASSUME IInv, LeaseInv,
           \/ Tick
           \/ UNCHANGED vars
           \/ \E s \in Sessions : SendCommit(s) \/ Commit(s) \/ Rollback(s)
    PROVE  LeaseInv'
<1> SUFFICES ASSUME NEW o \in Sessions, Open(o)' PROVE StagedOK(txn[o])'
  BY DEF LeaseInv
<1>0. clock \in Nat /\ clock' \in Nat /\ clock <= clock'
  BY DEF IInv, TypeOK, Times, Tick, vars, SendCommit, Commit, Rollback
<1> DEFINE Kept == /\ Open(o)
                   /\ txn'[o].run = txn[o].run /\ txn'[o].rows = txn[o].rows
                   /\ txn'[o].fenced = txn[o].fenced /\ txn'[o].lease = txn[o].lease
<1>1. Kept
  <2>1. CASE UNCHANGED vars \/ Tick
    BY <2>1 DEF vars, Tick, Open
  <2>2. ASSUME NEW s \in Sessions, SendCommit(s) PROVE Kept
    <3>1. txn' = [txn EXCEPT ![s].phase = "committing"] /\ txn[s].phase = "staged"
      BY <2>2 DEF SendCommit
    <3>2. txn[s] \in Transaction
      BY <3>1 DEF IInv, TypeOK, Idle
    <3>3. /\ txn'[s] = [txn[s] EXCEPT !.phase = "committing"]
          /\ \A u \in Sessions : u # s => txn'[u] = txn[u]
      BY <3>1 DEF IInv, TypeOK
    <3> QED
      BY <3>1, <3>2, <3>3 DEF Transaction, Open
  <2>3. ASSUME NEW s \in Sessions, Commit(s) \/ Rollback(s) PROVE Kept
    <3>1. txn' = [txn EXCEPT ![s] = Idle]
      BY <2>3 DEF Commit, Rollback
    <3>2. txn'[s] = Idle /\ \A u \in Sessions : u # s => txn'[u] = txn[u]
      BY <3>1 DEF IInv, TypeOK
    <3> QED
      BY <3>2 DEF Idle, Open
  <2> QED
    BY <2>1, <2>2, <2>3
<1>2. StagedOK(txn[o])
  BY <1>1 DEF LeaseInv
<1>3. txn[o] \in Transaction /\ db[txn[o].run] \in Run
  BY <1>1 DEF IInv, TypeOK, Open, Idle, Transaction
<1>4. db'[txn[o].run] = db[txn[o].run]
  <2>1. CASE db' = db
    BY <2>1
  <2>2. ASSUME NEW s \in Sessions, Commit(s)
        PROVE  db'[txn[o].run] = db[txn[o].run]
    <3>1. /\ txn' = [txn EXCEPT ![s] = Idle] /\ Open(s)
          /\ db' = [db EXCEPT ![txn[s].run] = txn[s].rows]
      BY <2>2 DEF Commit, Open
    <3>2. o # s
      BY <3>1 DEF IInv, TypeOK, Open, Idle
    <3>3. txn[o].run # txn[s].run
      BY <1>1, <3>1, <3>2 DEF IInv, TxnInv
    <3> QED
      BY <1>3, <3>1, <3>3 DEF IInv, TypeOK, Transaction
  <2> QED
    BY <2>1, <2>2 DEF Tick, vars, SendCommit, Rollback
<1>5. ASSUME NEW k \in 1..Len(db[txn[o].run].attempts)
      PROVE  StagedRow(txn[o], db[txn[o].run].attempts[k], txn[o].rows.attempts[k])'
  <2>1. StagedRow(txn[o], db[txn[o].run].attempts[k], txn[o].rows.attempts[k])
    BY <1>2 DEF StagedOK
  <2>2. db[txn[o].run].attempts[k].lease_expires_at \in Nat
    BY <1>3, AttemptType DEF Attempt, Times
  <2> QED
    BY <1>0, <1>1, <1>4, <2>1, <2>2 DEF StagedRow
<1> QED
  BY <1>1, <1>2, <1>4, <1>5 DEF StagedOK

(* Every step of the store keeps LeaseInv.                                 *)
LEMMA LeaseNext == IInv /\ LeaseInv /\ [Next]_vars => LeaseInv'
<1> SUFFICES ASSUME IInv, LeaseInv, [Next]_vars PROVE LeaseInv'
  OBVIOUS
<1>1. CASE \/ Tick
           \/ UNCHANGED vars
           \/ \E s \in Sessions : SendCommit(s) \/ Commit(s) \/ Rollback(s)
  BY <1>1, OtherLease
<1>2. 1..MaxClock + 1 \subseteq Times
  BY ConstantsAssumption DEF Times
<1>3. ASSUME NEW s \in Sessions, NEW i \in Invocations, NEW r \in RunIds,
             \/ ClaimRun(s, i, r)
             \/ \E expiry \in 1..MaxClock + 1 : StartAttempt(s, i, r, expiry)
      PROVE  LeaseInv'
  BY <1>2, <1>3, AdmissionLease
<1>4. ASSUME NEW s \in Sessions, NEW i \in Invocations, NEW r \in RunIds,
             NEW k \in 1..Len(db[r].attempts), AttemptStep(s, i, r, k)
      PROVE  LeaseInv'
  <2>1. ASSUME NEW rev, \/ \E expiry \in 1..MaxClock + 1 :
                              RenewAttempt(s, i, r, k, rev, expiry)
                        \/ ContextStep(s, i, r, k, rev)
                        \/ OutcomeStep(s, i, r, k, rev)
        PROVE  LeaseInv'
    BY <1>2, <2>1, OwnerStepLease
  <2>2. ASSUME NEW rev, NEW cut, NEW binding, PersistCut(s, i, r, k, rev, cut, binding)
        PROVE  LeaseInv'
    BY <2>2, PersistCutLease
  <2>3. CASE AbandonAttempt(s, i, r, k)
    BY <2>3, AbandonLease
  <2> QED
    BY <1>4, <2>1, <2>2, <2>3 DEF AttemptStep
<1> QED
  BY <1>1, <1>3, <1>4 DEF Next

(* Whatever is staged respects the leases stored for its run.              *)
THEOREM LeaseInvariance == Spec => []LeaseInv
<1>1. Init => LeaseInv
  BY DEF Init, LeaseInv, Open, Idle
<1> QED
  BY <1>1, LeaseNext, Invariance, PTL DEF Spec

(* No owner sends a COMMIT after the lease stored for its attempt, and     *)
(* nothing is abandoned before it, whatever happens between the checks and *)
(* the COMMIT (_commit_fenced_result, abandon).                            *)
THEOREM LeasesAreHonoured == Spec => LeaseIsHonoured
<1>1. ASSUME IInv, LeaseInv, [Next]_vars PROVE CommitSentUnderLease
  <2> SUFFICES ASSUME NEW s \in Sessions, txn[s].phase = "staged",
                      txn'[s].phase = "committing",
                      NEW k \in 1..Len(db[txn[s].run].attempts),
                      txn[s].rows.attempts[k] # db[txn[s].run].attempts[k],
                      txn[s].rows.attempts[k].status # "abandoned"
               PROVE  db[txn[s].run].attempts[k].lease_expires_at > clock
    BY DEF CommitSentUnderLease
  <2>1. txn \in [Sessions -> Transaction \cup {Idle}]
    BY <1>1 DEF IInv, TypeOK
  <2>2. SendCommit(s)
    <3>1. ASSUME NEW o \in Sessions, SendCommit(o), o # s PROVE FALSE
      BY <2>1, <3>1 DEF SendCommit
    <3>2. ASSUME NEW o \in Sessions, Commit(o) \/ Rollback(o) PROVE FALSE
      BY <2>1, <3>2 DEF Commit, Rollback, Idle
    <3>3. ASSUME NEW o \in Sessions, NEW lock, NEW q, NEW rows, NEW fenced, NEW lease,
                 Stage(o, lock, q, rows, fenced, lease)
          PROVE  FALSE
      <4>1. \/ txn'[s] = txn[s]
            \/ txn'[s] = [phase |-> "staged", lock |-> lock, run |-> q, rows |-> rows,
                          fenced |-> fenced, lease |-> lease]
        BY <2>1, <3>3 DEF Stage
      <4> QED
        BY <4>1
    <3>4. CASE UNCHANGED vars \/ Tick
      BY <3>4 DEF vars, Tick
    <3> QED
      BY <1>1, <3>1, <3>2, <3>3, <3>4, StepKinds
  <2>3. Open(s) /\ (txn[s].fenced => txn[s].lease > clock)
    BY <2>2 DEF SendCommit, CommitFence, Open
  <2>4. StagedRow(txn[s], db[txn[s].run].attempts[k], txn[s].rows.attempts[k])
    BY <1>1, <2>3 DEF LeaseInv, StagedOK
  <2> QED
    BY <2>3, <2>4 DEF StagedRow
<1>2. ASSUME IInv, LeaseInv, [Next]_vars PROVE AbandonedAfterExpiry
  <2> SUFFICES ASSUME NEW r \in RunIds, NEW k \in 1..Len(db[r].attempts),
                      db[r].attempts[k].status = "running",
                      db'[r].attempts[k].status = "abandoned"
               PROVE  db[r].attempts[k].lease_expires_at <= clock
    BY DEF AbandonedAfterExpiry
  <2>1. PICK s \in Sessions : Commit(s)
    BY <1>2, StepKinds DEF vars, Tick, SendCommit, Rollback, Stage
  <2>2. Open(s) /\ db' = [db EXCEPT ![txn[s].run] = txn[s].rows]
    BY <2>1 DEF Commit, Open
  <2>3. r = txn[s].run /\ db'[r] = txn[s].rows
    BY <1>2, <2>2 DEF IInv, TypeOK
  <2>4. StagedRow(txn[s], db[r].attempts[k], txn[s].rows.attempts[k])
    BY <1>2, <2>2, <2>3 DEF LeaseInv, StagedOK
  <2> QED
    BY <2>3, <2>4 DEF StagedRow
<1>3. IInv /\ LeaseInv /\ [Next]_vars => [CommitSentUnderLease /\ AbandonedAfterExpiry]_vars
  BY <1>1, <1>2
<1> QED
  BY <1>3, Invariance, LeaseInvariance, PTL DEF Spec, LeaseIsHonoured

-----------------------------------------------------------------------------
(* Refinement                                                              *)

(* A claim that lands is the promise's claim.                              *)
LEMMA ClaimRefines ==
    ASSUME IInv, NEW s \in Sessions, Commit(s), ClaimTxn(txn[s])
    PROVE  Promise!Next
<1> DEFINE r == txn[s].run
           new == txn[s].rows
<1>1. Open(s) /\ db' = [db EXCEPT ![r] = new]
  BY DEF Commit, Open
<1>2. r \in RunIds /\ new \in Run
  BY <1>1 DEF IInv, TypeOK, Open, Idle, Transaction
<1>3. db'[r] = new /\ \A o \in RunIds : o # r => db'[o] = db[o]
  BY <1>1, <1>2 DEF IInv, TypeOK
<1>4. /\ db[r] = NoRun
      /\ new = [NoRun EXCEPT !.request = new.request, !.payload = new.payload]
      /\ new.request \in Requests /\ new.payload \in Payloads
      /\ \A o \in RunIds : db[o].request # new.request
  BY <1>2 DEF ClaimTxn, IInv, RunInv, Run
<1>5. /\ NoRun.request = None
      /\ new.bound_cut = NoRun.bound_cut /\ new.selected = 0 /\ NoRun.selected = 0
  BY <1>4 DEF NoRun
<1>6. OutcomeOf(new) = OutcomeOf(NoRun)
  BY <1>5 DEF OutcomeOf
<1> HIDE DEF r, new
<1>7. PICK q \in Requests, p \in Payloads : q = new.request /\ p = new.payload
  BY <1>4
<1>8. Promise!Claim(r, q, p)
  <2>1. [o \in RunIds |-> db'[o].request] =
           [[o \in RunIds |-> db[o].request] EXCEPT ![r] = q]
    BY <1>2, <1>3, <1>7
  <2>2. [o \in RunIds |-> db'[o].payload] =
           [[o \in RunIds |-> db[o].payload] EXCEPT ![r] = p]
    BY <1>2, <1>3, <1>7
  <2>3. [o \in RunIds |-> db'[o].bound_cut] = [o \in RunIds |-> db[o].bound_cut]
    BY <1>3, <1>4, <1>5
  <2>4. [o \in RunIds |-> OutcomeOf(db[o])]' = [o \in RunIds |-> OutcomeOf(db[o])]
    BY <1>3, <1>4, <1>6 DEF OutcomeOf
  <2> QED
    BY <1>2, <1>4, <1>5, <1>7, <2>1, <2>2, <2>3, <2>4 DEF Promise!Claim
<1> QED
  BY <1>2, <1>8 DEF Promise!Next

(* A writer that lands binds the cut, publishes the outcome, or changes    *)
(* nothing the promise speaks of.                                          *)
LEMMA WriteRefines ==
    ASSUME IInv, LeaseInv, NEW s \in Sessions, Commit(s), WriteTxn(txn[s])
    PROVE  Promise!Next \/ UNCHANGED Promise!vars
<1> DEFINE r == txn[s].run
           new == txn[s].rows
           old == db[r]
           o == OutcomeOf(new)
<1>1. Open(s) /\ db' = [db EXCEPT ![r] = new]
  BY DEF Commit, Open
<1>2. r \in RunIds /\ new \in Run /\ old \in Run
  BY <1>1 DEF IInv, TypeOK, Open, Idle, Transaction
<1>3. db'[r] = new /\ \A q \in RunIds : q # r => db'[q] = db[q]
  BY <1>1, <1>2 DEF IInv, TypeOK
<1>4. /\ old.selected = 0 /\ old.request # None
      /\ new.request = old.request /\ new.payload = old.payload
      /\ old.bound_cut # None => new.bound_cut = old.bound_cut
  BY DEF WriteTxn, StepOK
<1>5. /\ new.bound_cut = old.bound_cut \/ new.selected = 0
      /\ RunInv(new)
  BY <1>1 DEF LeaseInv, StagedOK, IInv, TxnInv
<1>6. OutcomeOf(old) = None /\ (new.selected = 0 => o = None)
  BY <1>4 DEF OutcomeOf
<1> HIDE DEF r, new, o
<1>7. /\ [q \in RunIds |-> db'[q].request] = [q \in RunIds |-> db[q].request]
      /\ [q \in RunIds |-> db'[q].payload] = [q \in RunIds |-> db[q].payload]
  BY <1>2, <1>3, <1>4
<1>8. [q \in RunIds |-> db'[q].bound_cut] =
         [[q \in RunIds |-> db[q].bound_cut] EXCEPT ![r] = new.bound_cut]
  BY <1>2, <1>3
<1>9. [q \in RunIds |-> OutcomeOf(db[q])]' =
         [[q \in RunIds |-> OutcomeOf(db[q])] EXCEPT ![r] = o]
  BY <1>2, <1>3 DEF o, OutcomeOf
<1>10. new.selected = 0 =>
          [q \in RunIds |-> OutcomeOf(db[q])]' = [q \in RunIds |-> OutcomeOf(db[q])]
  BY <1>2, <1>6, <1>9
<1>11. new.bound_cut = old.bound_cut =>
          [q \in RunIds |-> db'[q].bound_cut] = [q \in RunIds |-> db[q].bound_cut]
  BY <1>2, <1>8
<1>12. CASE new.bound_cut = old.bound_cut /\ new.selected = 0
  BY <1>7, <1>10, <1>11, <1>12 DEF Promise!vars
<1>13. CASE new.bound_cut # old.bound_cut
  <2>1. new.bound_cut \in Cuts /\ old.bound_cut = None /\ new.selected = 0
    BY <1>2, <1>4, <1>5, <1>13 DEF Run
  <2>2. PICK c \in Cuts : c = new.bound_cut
    BY <2>1
  <2>3. Promise!BindCut(r, c)
    BY <1>2, <1>4, <1>6, <1>7, <1>8, <1>10, <2>1, <2>2 DEF Promise!BindCut
  <2> QED
    BY <1>2, <2>3 DEF Promise!Next
<1>14. CASE new.bound_cut = old.bound_cut /\ new.selected # 0
  <2> DEFINE a == new.attempts[new.selected]
  <2>1. /\ new.selected \in 1..Len(new.attempts)
        /\ a.status \in FailedStatuses \cup {"completed"}
    BY <1>2, <1>5, <1>14, LenProperties DEF RunInv, Run
  <2>2. a \in Attempt /\ AttemptInv(new.bound_cut, a)
    BY <1>2, <1>5, <2>1, AttemptType DEF RunInv
  <2>3. o = [status |-> a.status, result |-> a.result, cut |-> a.input_cut]
    BY <1>14 DEF o, OutcomeOf
  <2> HIDE DEF a
  <2>4. o \in Promise!Outcomes
    BY <2>1, <2>2, <2>3 DEF Promise!Outcomes, Attempt, FailedStatuses, Results
  <2>5. /\ o.cut \in {None, old.bound_cut}
        /\ o.status = "completed" <=> o.result = "completed"
        /\ o.result # "none" => o.cut # None
    BY <1>14, <2>1, <2>2, <2>3 DEF AttemptInv, OutcomeReadable, FailedStatuses
  <2>6. Promise!Publish(r, o)
    BY <1>2, <1>4, <1>6, <1>7, <1>9, <1>11, <1>14, <2>5 DEF Promise!Publish
  <2> QED
    BY <1>2, <2>4, <2>6 DEF Promise!Next
<1> QED
  BY <1>5, <1>12, <1>13, <1>14

(* A process outside sees one request, one cut and one final outcome per   *)
(* run, whatever claims, leases, retries and abandonments lie behind them. *)
THEOREM RunsKeepTheirPromise == Spec => ImplementsRunOutcome
<1>1. Init => Promise!Init
  <2> SUFFICES ASSUME Init PROVE Promise!Init
    OBVIOUS
  <2>1. \A r \in RunIds : db[r] = NoRun
    BY DEF Init
  <2>2. /\ NoRun.request = None /\ NoRun.payload = None
        /\ NoRun.bound_cut = None /\ OutcomeOf(NoRun) = None
    BY DEF NoRun, OutcomeOf
  <2> QED
    BY <2>1, <2>2 DEF Promise!Init
<1>2. ASSUME IInv, LeaseInv, [Next]_vars PROVE [Promise!Next]_(Promise!vars)
  <2>1. CASE db' = db
    BY <2>1 DEF Promise!vars, OutcomeOf
  <2>2. ASSUME NEW s \in Sessions, Commit(s) PROVE [Promise!Next]_(Promise!vars)
    <3>1. ClaimTxn(txn[s]) \/ WriteTxn(txn[s])
      BY <1>2, <2>2 DEF IInv, TxnInv, Open, Commit
    <3>2. CASE ClaimTxn(txn[s])
      BY <1>2, <2>2, <3>2, ClaimRefines
    <3>3. CASE WriteTxn(txn[s])
      BY <1>2, <2>2, <3>3, WriteRefines
    <3> QED
      BY <3>1, <3>2, <3>3
  <2>3. db' = db \/ \E s \in Sessions : Commit(s)
    BY <1>2, StepKinds DEF vars, Tick, SendCommit, Rollback, Stage
  <2> QED
    BY <2>1, <2>2, <2>3
<1>3. IInv /\ LeaseInv /\ [Next]_vars => [Promise!Next]_(Promise!vars)
  BY <1>2
<1> QED
  BY <1>1, <1>3, Invariance, LeaseInvariance, PTL
     DEF Spec, ImplementsRunOutcome, Promise!Spec
=============================================================================
