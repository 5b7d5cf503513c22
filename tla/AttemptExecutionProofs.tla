----------------------- MODULE AttemptExecutionProofs -----------------------
(***************************************************************************)
(* Proofs about AttemptExecution: contexts are released and their stored   *)
(* ends are true, what the application publishes is accepted, and a retry  *)
(* throws nothing away, for any number of attempts and any cuts.           *)
(*                                                                         *)
(* The invariant follows the call.  RowsOK: one attempt runs, and its cut, *)
(* observations and ClickHouse evidence agree.  ContextOK and ReceiptOK:   *)
(* which contexts are held and which are stored at each step, so that the  *)
(* stored ends are known when the attempt is settled.  CleanupOK: what     *)
(* releasing contexts came to; an error among its codes leads.  FailureOK: *)
(* what the attempt came to, and, once settled, that it is acceptable.     *)
(*                                                                         *)
(* The last is the heart of it.  A failure says (Told) the codes K of what *)
(* went wrong, one of them leading (Leads), and the codes P of what its    *)
(* comparison proved (Proves); every failure the application builds does,  *)
(* and the store accepts every failure that does.                          *)
(***************************************************************************)
EXTENDS AttemptExecution, TLAPS

(* The rows of the run, the ways the call may end, and where it may be.    *)
Store ==
    [clickhouse : Acquisitions, bound_cut : Cuts \cup {None}, selected : 0..MaxAttempts,
     attempts : Seq(Attempt)]
Replies == {"none", "result", "raised", "refused", "crashed"}

Acquiring == {"open", "persist", "ready", "align", "compare"}
Releasing == {"close", "record_end"}
Running == Acquiring \cup Releasing \cup {"settle", "publish"}
Codes == IncompleteCodes \cup ErrorCodes

StateType ==
    /\ pc \in Steps /\ side \in Sides /\ context \in [Sides -> ContextStates]
    /\ receipt \subseteq Sides /\ ending \in {"closed", "lost", None} /\ broken \in BOOLEAN
    /\ store \in Store /\ Ordinal <= MaxAttempts /\ reply.kind \in Replies

(* The rows of the run: one attempt runs, and its cut is the run's.        *)
RowsOK ==
    /\ pc # "stopped" => store.selected = 0
    /\ pc \in Running => Ordinal > 0 /\ Current.status = "running"
    /\ \A k \in 1..Ordinal :
          store.attempts[k].status = "running" => k = Ordinal /\ pc # "start"
    /\ Ordinal > 0 =>
          /\ IF Current.input_cut = None
             THEN Current.observations = {}
             ELSE Current.observations = Sides /\ store.bound_cut = Current.input_cut
          /\ Current.closure_evidence =
                {d \in store.clickhouse : Current.contexts[d] = "closed"}
          /\ \A d \in Sides : Current.contexts[d] = "closed" => context[d] = "closed"
    /\ pc \in {"open", "persist", "ready", "align"} => Current.input_cut = None
    /\ pc = "compare" => Current.input_cut # None

(* Which contexts are held at each step: the reference is opened and       *)
(* released first.                                                         *)
ContextOK ==
    /\ pc \in {"start", "settle", "publish"} => \A d \in Sides : context[d] # "active"
    /\ pc = "open" =>
          /\ context["reference"] = IF side = "reference" THEN "absent" ELSE "active"
          /\ context["target"] = "absent"
    /\ pc \in {"persist", "ready"} =>
          /\ context["reference"] = "active"
          /\ context["target"] = IF side = "reference" THEN "absent" ELSE "active"
    /\ pc \in {"align", "compare"} => \A d \in Sides : context[d] = "active"
    /\ pc = "close" => context[side] \in {"active", "lost"}
    /\ pc = "record_end" => ending = context[side] /\ context[side] \in {"closed", "lost"}
    /\ pc \in Releasing =>
          IF side = "reference"
          THEN context["target"] \in {"absent", "active", "lost"}
          ELSE context["reference"] \in {"closed", "lost"}
    /\ pc = "stopped" /\ reply.kind # "crashed" => \A d \in Sides : context[d] # "active"

(* A context is stored as active from its receipt to the end of its        *)
(* release, unless a metadata call has raised.                             *)
StoredAs(d, state) == Current.contexts[d] = IF d \in receipt THEN state ELSE "absent"

ReceiptOK ==
    /\ pc \in Acquiring \cup {"start", "publish"} => ~broken
    /\ pc \in {"open", "persist"} => receipt = IF side = "reference" THEN {} ELSE {"reference"}
    /\ pc = "ready" => receipt = IF side = "reference" THEN {"reference"} ELSE Sides
    /\ pc \in {"align", "compare"} => receipt = Sides
    /\ pc \in Acquiring => \A d \in Sides : StoredAs(d, "active")
    /\ pc \in Releasing =>
          /\ \A d \in {side, "target"} :
                /\ Current.contexts[d] \in {"absent", "active"}
                /\ ~broken => StoredAs(d, "active")
          /\ side = "target" /\ ~broken => StoredAs("reference", context["reference"])
    /\ pc = "record_end" => side \in receipt
    /\ pc = "settle" /\ ~broken => \A d \in Sides : StoredAs(d, context[d])
    /\ pc \in Releasing \cup {"settle"} =>
          /\ \A d \in receipt : context[d] # "absent"
          /\ ~broken /\ Current.input_cut # None => receipt = Sides

(* Codes that can be met while contexts are released; an error leads.      *)
CleanOK(c) ==
    /\ c \in CleanupFailures /\ CodesOf(AllReasons(c)) \subseteq Codes
    /\ CodesOf(AllReasons(c)) \cap ErrorCodes # {} => c.reason.code \in ErrorCodes

CleanupOK ==
    /\ cleanup # None => CleanOK(cleanup)
    /\ pc \in Acquiring \cup {"start"} => cleanup = None
    /\ pc \in Releasing /\ cleanup = None =>
          /\ side = "target" => context["reference"] = "closed"
          /\ pc = "record_end" => context[side] = "closed"
    /\ pc = "settle" /\ cleanup = None => \A d \in Sides : context[d] \in {"closed", "absent"}

(* The failure of an attempt before its contexts are released.             *)
Interrupted(f) ==
    \E code \in Codes, progress \in Progress, level \in StableReads, contract \in BOOLEAN :
       \E unresolved \in {code, "cancelled", "cancellation_unconfirmed"} :
          /\ f = FailureFromComparisonInterruption(code,
                    InterruptedPartial(progress, level, unresolved, contract), contract)
          /\ contract => code = "lossy_transport" /\ progress = "summarised" /\ level # "unknown"
          /\ level = "verified" => ClickHouseSides = {}
          /\ level = "asserted" => ClickHouseSides # {}

FailureBefore(f) ==
    /\ f \in Failures
    /\ \/ \E code \in Codes : f = FailureFromError(code)
       \/ Current.input_cut # None /\ Interrupted(f)

(* A completed comparison, its contexts not yet released.                  *)
Comparison ==
    /\ artifact \in Artifacts
    /\ artifact.structural => artifact.verdict = "mismatch"
    /\ artifact.stable_reads = IF ClickHouseSides = {} THEN "verified" ELSE "asserted"
    /\ failure = None /\ Current.input_cut # None

(* The outcome the store does not accept: a contract violation whose       *)
(* stable reads were lost, with a ClickHouse side.                         *)
Exceptional(f) ==
    /\ "contract_violation" \in StoredCodes(f) /\ f.stable_reads = "unknown"
    /\ ClickHouseSides # {}

(* What the settled attempt publishes.                                     *)
PublishOK ==
    /\ failure = None =>
          /\ artifact \in Artifacts
          /\ CompletedClosure(ClickHouseSides, store, Current, artifact.stable_reads)
    /\ failure # None =>
          /\ failure \in Failures
          /\ FailureAccepted(ClickHouseSides, store, Current, failure) \/ Exceptional(failure)
          /\ failure.retryable =>
                /\ artifact = None \/ artifact.verdict = "match"
                /\ CodesOf(AllReasons(failure)) \subseteq RetryableCodes \cup {"data_mismatch"}

(* What the attempt came to, from its first failure to its publication.    *)
FailureOK ==
    /\ pc \in Acquiring \cup {"start"} => artifact = None /\ failure = None
    /\ pc \in Releasing \cup {"settle"} =>
          /\ artifact # None => Comparison
          /\ failure # None => artifact = None /\ FailureBefore(failure)
          /\ ~broken => artifact # None \/ failure # None
    /\ pc = "publish" => PublishOK
    /\ artifact = None \/ artifact \in Artifacts
    /\ failure = None \/ failure \in Failures

(* What the call returned, or why the store refused it.                    *)
ReplyOK ==
    /\ pc # "stopped" => reply.kind = "none"
    /\ reply.kind = "result" =>
          /\ store.selected = Ordinal /\ Current.status = reply.status
          /\ \A k \in 1..Ordinal : store.attempts[k].status # "running"
          /\ reply.verdict = "match" =>
                /\ \A d \in Sides : Current.contexts[d] = "closed" /\ context[d] = "closed"
                /\ Current.closure_evidence = ClickHouseSides
                /\ Current.input_cut = store.bound_cut
    /\ reply.kind = "refused" => failure # None /\ Exceptional(failure)

ExecutionInv ==
    /\ StateType /\ RowsOK /\ ContextOK /\ ReceiptOK /\ CleanupOK /\ FailureOK /\ ReplyOK

-----------------------------------------------------------------------------
(* The codes of reasons.                                                   *)

(* The codes of two sets of reasons are the codes of both.                 *)
LEMMA CodesOfUnion ==
    ASSUME NEW A, NEW B
    PROVE  CodesOf(A \cup B) = CodesOf(A) \cup CodesOf(B)
BY DEF CodesOf

(* No reason has no code.                                                  *)
LEMMA CodesOfNone == CodesOf({}) = {}
BY DEF CodesOf

(* Data mismatches are taken out by their code alone.                      *)
LEMMA CodesWithout ==
    ASSUME NEW A
    PROVE  CodesOf(WithoutDataMismatch(A)) = CodesOf(A) \ {"data_mismatch"}
BY DEF CodesOf, WithoutDataMismatch

(* The codes a failure carries.                                            *)
Told(f) == CodesOf(AllReasons(f))

(* The codes of a failure are its primary code and the additional ones.    *)
LEMMA ToldCodes ==
    ASSUME NEW f
    PROVE  Told(f) = {f.reason.code} \cup CodesOf(f.additional)
BY DEF CodesOf, Told, AllReasons

(* What is stored of them.                                                 *)
LEMMA StoredCodesAre ==
    ASSUME NEW f, f.reason.code # "data_mismatch"
    PROVE  StoredCodes(f) =
               IF f.partial # None /\ UnknownRows(f.partial)
               THEN Told(f) \ {"data_mismatch"} ELSE Told(f)
<1>1. CASE f.partial # None /\ UnknownRows(f.partial)
  <2>1. StoredCodes(f) = CodesOf({f.reason} \cup WithoutDataMismatch(f.additional))
    BY <1>1 DEF StoredCodes
  <2>2. StoredCodes(f) = {f.reason.code} \cup (CodesOf(f.additional) \ {"data_mismatch"})
    BY <2>1 DEF CodesOf, WithoutDataMismatch
  <2> QED BY <1>1, <2>2, ToldCodes
<1>2. CASE ~(f.partial # None /\ UnknownRows(f.partial))
  BY <1>2 DEF StoredCodes, Told, AllReasons
<1> QED BY <1>1, <1>2

(* An error among the codes K of failure f is its primary reason.          *)
Leads(f, K) ==
    /\ K \subseteq Codes /\ f.reason.code \in K
    /\ f.status = IF K \cap ErrorCodes # {} THEN "error" ELSE "incomplete"
    /\ f.status = "error" => f.reason.code \in ErrorCodes

(* A failure with one reason has the status of its code.                   *)
LEMMA CodeLeads ==
    ASSUME NEW f, NEW code \in Codes, f.reason.code = code,
           f.status = ExecutionStatusForFailureReason(code)
    PROVE  Leads(f, {code})
BY DEF Leads, ExecutionStatusForFailureReason

(* What a failure of the release of contexts says, and its status          *)
(* (_execution_status_for_cleanup_failure).                                *)
LEMMA CleanCodes ==
    ASSUME NEW c, CleanOK(c)
    PROVE  /\ Told(c) \subseteq Codes /\ c.reason.code \in Told(c)
           /\ ExecutionStatusForCleanupFailure(c) =
                 IF Told(c) \cap ErrorCodes # {} THEN "error" ELSE "incomplete"
           /\ Told(c) \cap ErrorCodes # {} => c.reason.code \in ErrorCodes
BY ToldCodes DEF CleanOK, Told, ExecutionStatusForCleanupFailure

(* Counting the release of contexts keeps the primary reason an error when *)
(* any reason is one: an incomplete failure gives way                      *)
(* (_failure_with_secondary_context_loss).                                 *)
LEMMA SecondaryLeads ==
    ASSUME NEW f, NEW K, Leads(f, K), NEW c, CleanOK(c)
    PROVE  Leads(FailureWithSecondaryContextLoss(f, c), K \cup Told(c))
<1> DEFINE g == FailureWithSecondaryContextLoss(f, c)
<1> DEFINE escalates == /\ f.status = "incomplete"
                        /\ ExecutionStatusForFailureReason(c.reason.code) = "error"
<1>1. /\ g.reason = IF escalates THEN c.reason ELSE f.reason
      /\ g.status = IF "error" \in {f.status, ExecutionStatusForCleanupFailure(c)}
                    THEN "error" ELSE "incomplete"
  BY DEF FailureWithSecondaryContextLoss
<1>2. escalates <=> f.status = "incomplete" /\ c.reason.code \in ErrorCodes
  BY DEF ExecutionStatusForFailureReason
<1> HIDE DEF g, escalates
<1>3. g.reason.code \in K \cup Told(c)
  BY <1>1, CleanCodes DEF Leads
<1>4. g.status = IF (K \cup Told(c)) \cap ErrorCodes # {} THEN "error" ELSE "incomplete"
  BY <1>1, CleanCodes DEF Leads
<1>5. g.status = "error" => g.reason.code \in ErrorCodes
  BY <1>1, <1>2, CleanCodes DEF Leads
<1>6. K \cup Told(c) \subseteq Codes
  BY CleanCodes DEF Leads
<1> QED BY <1>3, <1>4, <1>5, <1>6 DEF Leads, g

(* So does the failure of a completed comparison whose contexts were lost. *)
LEMMA ArtifactLeads ==
    ASSUME NEW a, NEW c, CleanOK(c)
    PROVE  Leads(FailureFromArtifactContextLoss(a, c), Told(c))
<1> DEFINE g == FailureFromArtifactContextLoss(a, c)
<1>1. g.reason = c.reason /\ g.status = ExecutionStatusForCleanupFailure(c)
  BY DEF FailureFromArtifactContextLoss
<1> HIDE DEF g
<1> QED BY <1>1, CleanCodes DEF Leads, g

-----------------------------------------------------------------------------
(* What makes a failure acceptable.                                        *)

(* A code belongs to one status.                                           *)
LEMMA CodeSets ==
    /\ ErrorCodes \cap IncompleteCodes = {} /\ Codes \cap CompletedCodes = {}
    /\ Codes = ErrorCodes \cup IncompleteCodes
    /\ CompletedCodes = {"data_mismatch", "contract_violation"}
    /\ "lower_bound" \notin Codes \cup CompletedCodes
BY DEF Codes, ErrorCodes, IncompleteCodes, CompletedCodes

(* Reasons further down only add codes of an incomplete run, or proofs of  *)
(* a difference.                                                           *)
LEMMA LeadingStatus ==
    ASSUME NEW f, NEW K, Leads(f, K),
           NEW more \in SUBSET (K \cup IncompleteCodes \cup CompletedCodes)
    PROVE  /\ HighestReasonStatus(K \cup more) = f.status
           /\ f.reason.code \in CodesForStatus(f.status)
           /\ f.status \in {"incomplete", "error"}
<1>1. CASE K \cap ErrorCodes # {}
  <2>1. f.status = "error" /\ f.reason.code \in ErrorCodes
    BY <1>1 DEF Leads
  <2>2. (K \cup more) \cap ErrorCodes # {}
    BY <1>1
  <2> QED BY <2>1, <2>2 DEF HighestReasonStatus, CodesForStatus
<1>2. CASE K \cap ErrorCodes = {}
  <2>1. f.status = "incomplete" /\ f.reason.code \in K /\ K \subseteq IncompleteCodes
    BY <1>2, CodeSets DEF Leads
  <2>2. (K \cup more) \cap ErrorCodes = {}
    BY <1>2, CodeSets
  <2>3. (K \cup more) \cap IncompleteCodes # {}
    BY <2>1
  <2>4. HighestReasonStatus(K \cup more) = "incomplete"
    BY <2>2, <2>3 DEF HighestReasonStatus
  <2> QED BY <2>1, <2>4 DEF CodesForStatus
<1> QED BY <1>1, <1>2

(* Without a comparison, and with rows that prove nothing.                 *)
LEMMA FailureWithoutPartial ==
    ASSUME NEW f, NEW K, Leads(f, K), f.partial = None, f.verdict = "inconclusive", Told(f) = K,
           StoredAttemptClosure(store, Current)
    PROVE  FailureAccepted(ClickHouseSides, store, Current, f)
<1>1. f.reason.code \in K /\ K \subseteq Codes
  BY DEF Leads
<1>2. StoredCodes(f) = K
  BY <1>1, StoredCodesAre, CodeSets
<1>3. StoredTotals(f) = f.reason.code /\ StoredVerdict(f) = "inconclusive"
  BY DEF StoredTotals, StoredVerdict
<1>4. /\ HighestReasonStatus(K \cup {}) = f.status
      /\ f.reason.code \in CodesForStatus(f.status)
  BY LeadingStatus
<1> DEFINE codes == K \cup {} \cup {f.reason.code}
<1>5. codes = K /\ codes \cap CompletedCodes = {} /\ f.reason.code # "lower_bound"
      /\ "data_mismatch" \notin codes /\ "contract_violation" \notin codes /\ K \cup {} = K
  BY <1>1, CodeSets
<1>6. K \cap CodesForStatus(f.status) # {}
  BY <1>1, <1>4
<1> HIDE DEF codes
<1>7. ResultIsValid(f)
  BY <1>2, <1>3, <1>4, <1>5, <1>6 DEF ResultIsValid, codes
<1> QED BY <1>4, <1>7 DEF FailureAccepted

(* With rows read without stable reads, whose data mismatches are not      *)
(* stored: the store accepts the failure.                                  *)
LEMMA FailureWithUnknownRows ==
    ASSUME NEW f, NEW K, Leads(f, K), f.partial # None, UnknownRows(f.partial),
           Told(f) \ {"data_mismatch"} = K, f.partial.unresolved \subseteq K \cup IncompleteCodes,
           PartialClosure(ClickHouseSides, store, Current, f.partial.stable_reads)
    PROVE  FailureAccepted(ClickHouseSides, store, Current, f)
<1>1. f.reason.code \in K /\ K \subseteq Codes
  BY DEF Leads
<1>2. StoredCodes(f) = K
  BY <1>1, StoredCodesAre, CodeSets
<1>3. StoredTotals(f) = f.reason.code /\ StoredVerdict(f) = "inconclusive"
  BY DEF StoredTotals, StoredVerdict
<1>4. /\ HighestReasonStatus(K \cup f.partial.unresolved) = f.status
      /\ f.reason.code \in CodesForStatus(f.status)
  BY LeadingStatus
<1> DEFINE codes == K \cup f.partial.unresolved \cup {f.reason.code}
<1>5. codes = K \cup f.partial.unresolved /\ codes \cap CompletedCodes = {}
      /\ f.reason.code # "lower_bound"
      /\ "data_mismatch" \notin codes /\ "contract_violation" \notin codes
  BY <1>1, CodeSets
<1>6. K \cap CodesForStatus(f.status) # {} /\ "contract_violation" \notin K
  BY <1>1, <1>4, CodeSets
<1> HIDE DEF codes
<1>7. ResultIsValid(f)
  BY <1>2, <1>3, <1>4, <1>5, <1>6 DEF ResultIsValid, codes
<1>8. PartialFrontierClosure(f)
  BY <1>2, <1>6 DEF PartialFrontierClosure, UnknownRows
<1> QED BY <1>4, <1>7, <1>8 DEF FailureAccepted

(* With rows that prove what P says.                                       *)
Proves(partial, P) ==
    /\ P \in {{}, {"data_mismatch"}, {"contract_violation"}}
    /\ partial.verdict = IF P = {} THEN "inconclusive" ELSE "mismatch"
    /\ partial.proven = (P = {"data_mismatch"})
    /\ partial.structural => P = {"contract_violation"}

(* With rows whose stored evidence and reasons agree, the store accepts    *)
(* the failure.                                                            *)
LEMMA FailureWithRows ==
    ASSUME NEW f, NEW K, Leads(f, K), NEW P, f.partial # None, Proves(f.partial, P),
           Told(f) = K \cup P, f.partial.unresolved \subseteq K \cup IncompleteCodes,
           f.partial.stable_reads # "unknown",
           \/ f.partial.totals \in K \cup IncompleteCodes
           \/ f.partial.totals = "contract_violation" /\ P = {"contract_violation"}
           \/ f.partial.totals = "lower_bound" /\ P = {"data_mismatch"},
           PartialClosure(ClickHouseSides, store, Current, f.partial.stable_reads)
    PROVE  FailureAccepted(ClickHouseSides, store, Current, f)
<1> DEFINE T == IF f.partial.totals = "lower_bound" THEN {} ELSE {f.partial.totals}
<1> DEFINE more == P \cup f.partial.unresolved \cup T
<1>1. f.reason.code \in K /\ K \subseteq Codes /\ P \subseteq CompletedCodes
  BY CodeSets DEF Leads, Proves
<1>2. StoredCodes(f) = K \cup P
  BY <1>1, StoredCodesAre, CodeSets DEF UnknownRows
<1>3. StoredTotals(f) = f.partial.totals /\ StoredVerdict(f) = f.partial.verdict
  BY DEF StoredTotals, StoredVerdict, UnknownRows
<1>4. T \subseteq K \cup IncompleteCodes \cup P
  OBVIOUS
<1>5. more \in SUBSET (K \cup IncompleteCodes \cup CompletedCodes)
  BY <1>1, <1>4
<1>6. K \cup more = (K \cup P) \cup f.partial.unresolved \cup T
  OBVIOUS
<1>7. (K \cup more) \cap CompletedCodes = P
  BY <1>1, <1>4, CodeSets
<1>8. f.partial.totals = "lower_bound" => P = {"data_mismatch"}
  BY <1>1, CodeSets
<1> HIDE DEF more
<1>9. /\ HighestReasonStatus(K \cup more) = f.status
      /\ f.reason.code \in CodesForStatus(f.status)
  BY <1>5, LeadingStatus
<1> DEFINE codes == (K \cup P) \cup f.partial.unresolved \cup T
<1>10. /\ HighestReasonStatus(codes) = f.status /\ codes \cap CompletedCodes = P
  BY <1>6, <1>7, <1>9
<1>11. /\ codes = (K \cup P) \cup f.partial.unresolved
                    \cup (IF f.partial.totals = "lower_bound" THEN {} ELSE {f.partial.totals})
  OBVIOUS
<1> HIDE DEF codes, T
<1>12. (K \cup P) \cap CodesForStatus(f.status) # {}
  BY <1>1, <1>9
<1>13. f.partial.verdict = "mismatch" <=>
          f.partial.totals = "lower_bound" \/ codes \cap CompletedCodes # {}
  BY <1>8, <1>10 DEF Proves
<1>14. "contract_violation" \in codes => f.partial.totals # "lower_bound"
  BY <1>8, <1>10, CodeSets
<1>15. f.partial.verdict \in {"inconclusive", "mismatch"}
  BY DEF Proves
<1>16. ResultIsValid(f)
  BY <1>2, <1>3, <1>10, <1>11, <1>12, <1>13, <1>14, <1>15 DEF ResultIsValid
<1>17. /\ "contract_violation" \in K \cup P <=> P = {"contract_violation"}
       /\ "data_mismatch" \in K \cup P <=> P = {"data_mismatch"}
  BY <1>1, CodeSets DEF Proves
<1>18. PartialFrontierClosure(f)
  BY <1>2, <1>3, <1>17 DEF PartialFrontierClosure, UnknownRows, Proves
<1> QED BY <1>9, <1>16, <1>18 DEF FailureAccepted

-----------------------------------------------------------------------------
(* What the failures built by the application say.                         *)

(* A failure before comparison says its code and nothing else.             *)
LEMMA ErrorSays ==
    ASSUME NEW code \in Codes
    PROVE  LET f == FailureFromError(code) IN
           /\ f \in Failures /\ f # None /\ Leads(f, {code}) /\ Told(f) = {code}
           /\ f.partial = None /\ f.verdict = "inconclusive"
           /\ f.retryable <=> code \in RetryableCodes
<1> DEFINE f == FailureFromError(code)
<1>1. /\ f.reason = [code |-> code, operation |-> "read"] /\ f.additional = {}
      /\ f.partial = None /\ f.verdict = "inconclusive"
      /\ f.retryable = (code \in RetryableCodes)
      /\ f.status = ExecutionStatusForFailureReason(code)
  BY DEF FailureFromError, Reason
<1>2. f \in Failures
  <2>1. [code |-> code, operation |-> "read"] \in Reasons
    BY DEF Reasons, Operations, ReasonCodes, Codes
  <2>2. ExecutionStatusForFailureReason(code) \in {"incomplete", "error"}
    BY DEF ExecutionStatusForFailureReason
  <2> QED
    BY <2>1, <2>2 DEF FailureFromError, Failures, Verdicts, StableReads, Reason
<1>3. f # None
  BY <1>2, NoneAssumption
<1> HIDE DEF f
<1>4. Told(f) = {code}
  BY <1>1 DEF Told, AllReasons, CodesOf
<1>5. Leads(f, {code})
  BY <1>1, CodeLeads
<1> QED BY <1>1, <1>2, <1>3, <1>4, <1>5 DEF f

(* Counting the release of contexts makes a failure of a failure.          *)
LEMMA SecondaryType ==
    ASSUME NEW f \in Failures, NEW c \in CleanupFailures
    PROVE  FailureWithSecondaryContextLoss(f, c) \in Failures
<1> DEFINE escalates == /\ f.status = "incomplete"
                        /\ ExecutionStatusForFailureReason(c.reason.code) = "error"
<1> DEFINE partial == IF f.partial = None THEN None ELSE Degraded(f.partial)
<1> DEFINE additional == f.additional \cup c.additional
                           \cup {IF escalates THEN f.reason ELSE c.reason}
<1> DEFINE status == IF "error" \in {f.status, ExecutionStatusForCleanupFailure(c)}
                     THEN "error" ELSE "incomplete"
<1> DEFINE reason == IF escalates THEN c.reason ELSE f.reason
<1> DEFINE verdict == PublicationVerdict(partial, f.verdict)
<1> DEFINE publication == PublicationReasons(partial, additional)
<1> DEFINE retryable == f.retryable /\ CleanupFailureIsRetryable(c)
<1> DEFINE level == DegradedStableReads(f.stable_reads)
<1>1. /\ c.reason \in Reasons /\ c.additional \subseteq Reasons
      /\ f.reason \in Reasons /\ f.additional \subseteq Reasons
      /\ f.partial \in Partials \cup {None} /\ f.verdict \in Verdicts
      /\ f.retryable \in BOOLEAN /\ f.stable_reads \in StableReads
  BY DEF CleanupFailures, Failures
<1>2. level \in StableReads
  BY DEF DegradedStableReads, StableReads
<1>3. partial \in Partials \cup {None}
  <2> SUFFICES ASSUME f.partial \in Partials PROVE Degraded(f.partial) \in Partials
    BY <1>1
  <2>1. DegradedStableReads(f.partial.stable_reads) \in StableReads
    BY DEF DegradedStableReads, StableReads
  <2> QED BY <2>1 DEF Degraded, Partials
<1>4. reason \in Reasons /\ additional \subseteq Reasons
  BY <1>1
<1>5. publication \subseteq Reasons
  BY <1>4 DEF PublicationReasons, WithoutDataMismatch
<1>6. verdict \in Verdicts
  BY <1>1 DEF PublicationVerdict, Verdicts
<1>7. status \in {"incomplete", "error"}
  OBVIOUS
<1>8. retryable \in BOOLEAN
  BY DEF CleanupFailureIsRetryable
<1>9. FailureWithSecondaryContextLoss(f, c) =
         [status |-> status, verdict |-> verdict, reason |-> reason, additional |-> publication,
          retryable |-> retryable, stable_reads |-> level, partial |-> partial]
  BY DEF FailureWithSecondaryContextLoss
<1> HIDE DEF level, partial, reason, additional, publication, verdict, status, retryable
<1> QED BY <1>2, <1>3, <1>4, <1>5, <1>6, <1>7, <1>8, <1>9 DEF Failures

(* A later failure of the release adds its codes to those of the attempt.  *)
LEMMA SecondarySays ==
    ASSUME NEW f \in Failures, NEW K, Leads(f, K), NEW c, CleanOK(c)
    PROVE  LET g == FailureWithSecondaryContextLoss(f, c) IN
           /\ g \in Failures /\ g # None /\ Leads(g, K \cup Told(c))
           /\ g.partial = IF f.partial = None THEN None ELSE Degraded(f.partial)
           /\ g.stable_reads = DegradedStableReads(f.stable_reads)
           /\ g.verdict = PublicationVerdict(g.partial, f.verdict)
           /\ g.retryable <=> f.retryable /\ Told(c) \subseteq RetryableCodes
           /\ Told(g) = IF g.partial # None /\ UnknownRows(g.partial)
                        THEN (Told(f) \cup Told(c)) \ {"data_mismatch"}
                        ELSE Told(f) \cup Told(c)
<1> DEFINE g == FailureWithSecondaryContextLoss(f, c)
<1> DEFINE escalates == /\ f.status = "incomplete"
                        /\ ExecutionStatusForFailureReason(c.reason.code) = "error"
<1> DEFINE additional == f.additional \cup c.additional
                           \cup {IF escalates THEN f.reason ELSE c.reason}
<1>1. /\ g.partial = IF f.partial = None THEN None ELSE Degraded(f.partial)
      /\ g.stable_reads = DegradedStableReads(f.stable_reads)
      /\ g.verdict = PublicationVerdict(g.partial, f.verdict)
      /\ g.reason = IF escalates THEN c.reason ELSE f.reason
      /\ g.additional = PublicationReasons(g.partial, additional)
      /\ g.retryable = (f.retryable /\ CleanupFailureIsRetryable(c))
  BY DEF FailureWithSecondaryContextLoss
<1>2. g \in Failures /\ g # None
  BY SecondaryType, NoneAssumption DEF CleanOK
<1>3. Leads(g, K \cup Told(c))
  BY SecondaryLeads
<1> HIDE DEF g
<1>4. CleanupFailureIsRetryable(c) <=> Told(c) \subseteq RetryableCodes
  BY DEF CleanupFailureIsRetryable, Told
<1>5. /\ f.reason.code # "data_mismatch" /\ c.reason.code # "data_mismatch"
  BY CleanCodes, CodeSets DEF Leads
<1>6. {g.reason.code} \cup CodesOf(additional) = Told(f) \cup Told(c)
  <2>1. CodesOf(additional) = (CodesOf(f.additional) \cup CodesOf(c.additional))
                                \cup {IF escalates THEN f.reason.code ELSE c.reason.code}
    BY DEF CodesOf
  <2>2. g.reason.code = IF escalates THEN c.reason.code ELSE f.reason.code
    BY <1>1
  <2> HIDE DEF escalates, additional
  <2> QED BY <2>1, <2>2, ToldCodes
<1>7. g.reason.code # "data_mismatch"
  BY <1>1, <1>5
<1> HIDE DEF escalates, additional
<1>8. Told(g) = {g.reason.code} \cup CodesOf(PublicationReasons(g.partial, additional))
  BY <1>1, ToldCodes
<1>9. CASE g.partial # None /\ UnknownRows(g.partial)
  <2>1. CodesOf(PublicationReasons(g.partial, additional)) =
           CodesOf(additional) \ {"data_mismatch"}
    BY <1>9, CodesWithout DEF PublicationReasons
  <2>2. Told(g) = (Told(f) \cup Told(c)) \ {"data_mismatch"}
    BY <1>6, <1>7, <1>8, <2>1
  <2> QED BY <1>1, <1>2, <1>3, <1>4, <1>9, <2>2 DEF g
<1>10. CASE ~(g.partial # None /\ UnknownRows(g.partial))
  <2>1. PublicationReasons(g.partial, additional) = additional
    BY <1>10 DEF PublicationReasons
  <2>2. Told(g) = Told(f) \cup Told(c)
    BY <1>6, <1>8, <2>1
  <2> QED BY <1>1, <1>2, <1>3, <1>4, <1>10, <2>2 DEF g
<1> QED BY <1>9, <1>10

(* An interrupted comparison says its code, and the proof it has when its  *)
(* rows were read under stable contexts.                                   *)
InterruptedProof(partial, contract) ==
    IF contract THEN {"contract_violation"}
    ELSE IF partial.proven THEN {"data_mismatch"} ELSE {}

(* An interrupted comparison says its code, and the proof it has when its  *)
(* rows were read under stable reads.                                      *)
LEMMA InterruptionSays ==
    ASSUME NEW f, Interrupted(f)
    PROVE  \E code \in Codes, contract \in BOOLEAN :
              LET P == InterruptedProof(f.partial, contract) IN
              /\ Leads(f, {code}) /\ f.retryable = (code \in RetryableCodes)
              /\ f.partial # None /\ f.partial \in Partials /\ f \in Failures
              /\ f.stable_reads = f.partial.stable_reads /\ ~f.partial.structural
              /\ f.partial.unresolved \subseteq {code} \cup IncompleteCodes
              /\ Told(f) = IF UnknownRows(f.partial)
                           THEN ({code} \cup P) \ {"data_mismatch"} ELSE {code} \cup P
              /\ Proves(f.partial, P)
              /\ \/ f.partial.totals \in {code} \cup IncompleteCodes
                 \/ f.partial.totals = "lower_bound" /\ P = {"data_mismatch"}
              /\ contract => code = "lossy_transport" /\ f.partial.stable_reads # "unknown"
              /\ f.partial.stable_reads = "verified" => ClickHouseSides = {}
              /\ f.partial.stable_reads = "asserted" => ClickHouseSides # {}
<1>1. PICK code \in Codes, progress \in Progress, level \in StableReads, contract \in BOOLEAN :
         \E unresolved \in {code, "cancelled", "cancellation_unconfirmed"} :
            /\ f = FailureFromComparisonInterruption(code,
                      InterruptedPartial(progress, level, unresolved, contract), contract)
            /\ contract => code = "lossy_transport" /\ progress = "summarised" /\ level # "unknown"
            /\ level = "verified" => ClickHouseSides = {}
            /\ level = "asserted" => ClickHouseSides # {}
  BY DEF Interrupted
<1>2. PICK unresolved \in {code, "cancelled", "cancellation_unconfirmed"} :
         /\ f = FailureFromComparisonInterruption(code,
                   InterruptedPartial(progress, level, unresolved, contract), contract)
         /\ contract => code = "lossy_transport" /\ progress = "summarised" /\ level # "unknown"
         /\ level = "verified" => ClickHouseSides = {}
         /\ level = "asserted" => ClickHouseSides # {}
  BY <1>1
<1> DEFINE partial == InterruptedPartial(progress, level, unresolved, contract)
<1> DEFINE proofs ==
            (IF contract THEN {Reason("contract_violation", "compare")} ELSE {})
            \cup (IF partial.verdict = "mismatch" /\ ~contract
                  THEN {Reason("data_mismatch", "compare")} ELSE {})
<1> DEFINE proven == progress \in {"witnessed", "exact"}
<1> DEFINE P == InterruptedProof(partial, contract)
<1>3. /\ partial.verdict = IF proven \/ contract THEN "mismatch" ELSE "inconclusive"
      /\ partial.stable_reads = IF progress = "unread" THEN "unknown" ELSE level
      /\ partial.structural = FALSE /\ partial.proven = proven
      /\ partial.unresolved = {unresolved}
      /\ partial.totals = IF progress = "exact" THEN "lower_bound" ELSE unresolved
  BY DEF InterruptedPartial
<1>4. unresolved \in {code} \cup IncompleteCodes /\ unresolved \in Codes
  BY CodeSets DEF IncompleteCodes
<1>5. contract => ~proven /\ progress # "unread"
  BY <1>2
<1>6. partial \in Partials
  <2>1. unresolved \in ReasonCodes
    BY <1>4 DEF Codes, ReasonCodes
  <2> QED
    BY <2>1 DEF InterruptedPartial, Partials, Verdicts, StableReads
<1>7. /\ f.status = ExecutionStatusForFailureReason(code)
      /\ f.verdict = PublicationVerdict(partial, partial.verdict)
      /\ f.reason = Reason(code, "read")
      /\ f.additional = PublicationReasons(partial, proofs)
      /\ f.retryable = (code \in RetryableCodes)
      /\ f.stable_reads = partial.stable_reads /\ f.partial = partial
  BY <1>2 DEF FailureFromComparisonInterruption
<1>8. CodesOf(proofs) = P /\ proofs \subseteq Reasons
  <2>1. P = IF contract THEN {"contract_violation"} ELSE IF proven THEN {"data_mismatch"} ELSE {}
    BY <1>3 DEF InterruptedProof
  <2>2. proofs = IF contract THEN {Reason("contract_violation", "compare")}
                 ELSE IF proven THEN {Reason("data_mismatch", "compare")} ELSE {}
    BY <1>3
  <2>3. \A c \in CompletedCodes : Reason(c, "compare") \in Reasons
    BY DEF Reason, Reasons, ReasonCodes, Operations
  <2>4. /\ Reason("contract_violation", "compare").code = "contract_violation"
        /\ Reason("data_mismatch", "compare").code = "data_mismatch"
    BY DEF Reason
  <2> HIDE DEF proofs, P, proven
  <2>5. proofs \subseteq Reasons
    BY <2>2, <2>3, CodeSets
  <2>6. CodesOf(proofs) = P
    BY <2>1, <2>2, <2>4 DEF CodesOf
  <2> QED BY <2>5, <2>6
<1>9. Proves(partial, P)
  <2>1. P = IF contract THEN {"contract_violation"} ELSE IF proven THEN {"data_mismatch"} ELSE {}
    BY <1>3 DEF InterruptedProof
  <2> HIDE DEF P, proven
  <2>2. /\ P \in {{}, {"data_mismatch"}, {"contract_violation"}}
        /\ P = {} <=> ~contract /\ ~proven
    BY <2>1
  <2>3. proven = (P = {"data_mismatch"})
    <3>1. proven \in BOOLEAN
      BY DEF proven
    <3>2. proven => P = {"data_mismatch"}
      BY <1>5, <2>1
    <3>3. P = {"data_mismatch"} => proven
      BY <2>1
    <3> QED BY <3>1, <3>2, <3>3
  <2> HIDE DEF partial
  <2> QED BY <1>3, <2>2, <2>3 DEF Proves
<1>10. f.reason.code = code
  BY <1>7 DEF Reason
<1>11. Leads(f, {code})
  BY <1>7, <1>10, CodeLeads
<1> HIDE DEF partial, proofs, P, proven
<1>12. CodesOf(f.additional) = IF UnknownRows(partial) THEN P \ {"data_mismatch"} ELSE P
  <2>1. partial # None
    BY <1>6, NoneAssumption
  <2> QED BY <1>7, <1>8, <2>1, CodesWithout DEF PublicationReasons
<1>13. code # "data_mismatch"
  BY CodeSets
<1>14. Told(f) = IF UnknownRows(partial)
                 THEN ({code} \cup P) \ {"data_mismatch"} ELSE {code} \cup P
  BY <1>10, <1>12, <1>13, ToldCodes
<1>15. f \in Failures
  <2>1. f.additional \subseteq Reasons
    BY <1>7, <1>8 DEF PublicationReasons, WithoutDataMismatch
  <2>2. f.reason \in Reasons
    BY <1>7 DEF Reason, Reasons, ReasonCodes, Operations, Codes
  <2>3. f.status \in {"incomplete", "error"}
    BY <1>7 DEF ExecutionStatusForFailureReason
  <2>4. f.verdict \in Verdicts /\ f.stable_reads \in StableReads
    BY <1>3, <1>7 DEF PublicationVerdict, Verdicts, StableReads
  <2>5. f = [status |-> f.status, verdict |-> f.verdict, reason |-> f.reason,
             additional |-> f.additional, retryable |-> f.retryable,
             stable_reads |-> f.stable_reads, partial |-> f.partial]
    BY <1>2 DEF FailureFromComparisonInterruption
  <2>6. f.retryable \in BOOLEAN /\ f.partial \in Partials \cup {None}
    BY <1>6, <1>7
  <2> QED BY <2>1, <2>2, <2>3, <2>4, <2>5, <2>6 DEF Failures
<1>16. \/ partial.totals \in {code} \cup IncompleteCodes
       \/ partial.totals = "lower_bound" /\ P = {"data_mismatch"}
  <2>1. CASE progress = "exact"
    BY <2>1, <1>3, <1>5 DEF InterruptedProof, P, proven
  <2>2. CASE progress # "exact"
    BY <2>2, <1>3, <1>4
  <2> QED BY <2>1, <2>2
<1>17. partial.unresolved \subseteq {code} \cup IncompleteCodes
  BY <1>3, <1>4
<1>18. /\ contract => code = "lossy_transport" /\ partial.stable_reads # "unknown"
       /\ partial.stable_reads = "verified" => ClickHouseSides = {}
       /\ partial.stable_reads = "asserted" => ClickHouseSides # {}
  BY <1>2, <1>3, <1>5
<1>19. partial # None
  BY <1>6, NoneAssumption
<1>20. P = InterruptedProof(f.partial, contract)
  BY <1>7 DEF P
<1> QED
  BY <1>3, <1>6, <1>7, <1>9, <1>11, <1>14, <1>15, <1>16, <1>17, <1>18, <1>19, <1>20

(* A completed comparison whose contexts were lost says what it proved, if *)
(* its reads stay stable without the contexts.                             *)
ArtifactProof(a) ==
    IF a.structural THEN {"contract_violation"}
    ELSE IF a.verdict = "mismatch" THEN {"data_mismatch"} ELSE {}

(* A completed comparison whose contexts were lost says why, and the proof *)
(* it has if its reads stay stable without the contexts.                   *)
LEMMA ArtifactSays ==
    ASSUME NEW a \in Artifacts, a.structural => a.verdict = "mismatch", NEW c, CleanOK(c)
    PROVE  LET g == FailureFromArtifactContextLoss(a, c)
               P == ArtifactProof(a)
           IN
           /\ g \in Failures /\ g # None /\ Leads(g, Told(c))
           /\ g.partial # None /\ g.partial.structural = a.structural
           /\ g.partial.stable_reads = DegradedStableReads(a.stable_reads)
           /\ g.stable_reads = g.partial.stable_reads
           /\ g.partial.unresolved = {} /\ Proves(g.partial, P)
           /\ g.retryable <=> a.verdict # "mismatch" /\ Told(c) \subseteq RetryableCodes
           /\ \/ g.partial.totals \in Told(c)
              \/ g.partial.totals = "contract_violation" /\ P = {"contract_violation"}
              \/ g.partial.totals = "lower_bound" /\ P = {"data_mismatch"}
           /\ Told(g) = IF UnknownRows(g.partial)
                        THEN (Told(c) \cup P) \ {"data_mismatch"} ELSE Told(c) \cup P
<1> DEFINE g == FailureFromArtifactContextLoss(a, c)
<1> DEFINE P == ArtifactProof(a)
<1> DEFINE partial == Degraded(PartialFromCompleted(a, c.reason.code))
<1> DEFINE additional == ArtifactReasons(a) \cup c.additional
<1>1. /\ partial.verdict = IF a.verdict = "mismatch" THEN "mismatch" ELSE "inconclusive"
      /\ partial.stable_reads = DegradedStableReads(a.stable_reads)
      /\ partial.structural = a.structural
      /\ partial.proven = (a.verdict = "mismatch" /\ ~a.structural)
      /\ partial.unresolved = {}
      /\ partial.totals = IF a.structural THEN "contract_violation"
                          ELSE IF a.verdict = "mismatch" THEN "lower_bound" ELSE c.reason.code
      /\ partial = [verdict |-> partial.verdict, stable_reads |-> partial.stable_reads,
                    structural |-> partial.structural, proven |-> partial.proven,
                    unresolved |-> partial.unresolved, totals |-> partial.totals]
  BY DEF PartialFromCompleted, Degraded
<1>2. /\ g.status = ExecutionStatusForCleanupFailure(c)
      /\ g.verdict = PublicationVerdict(partial, partial.verdict)
      /\ g.reason = c.reason
      /\ g.additional = PublicationReasons(partial, additional)
      /\ g.retryable = (a.verdict # "mismatch" /\ CleanupFailureIsRetryable(c))
      /\ g.stable_reads = partial.stable_reads /\ g.partial = partial
      /\ g = [status |-> g.status, verdict |-> g.verdict, reason |-> g.reason,
              additional |-> g.additional, retryable |-> g.retryable,
              stable_reads |-> g.stable_reads, partial |-> g.partial]
  BY DEF FailureFromArtifactContextLoss
<1>3. a.structural \in BOOLEAN /\ a.stable_reads \in StableReads
  BY DEF Artifacts
<1>4. /\ c.reason \in Reasons /\ c.additional \subseteq Reasons
      /\ c.reason.code \in ReasonCodes
  BY DEF CleanOK, CleanupFailures, Reasons
<1>5. DegradedStableReads(a.stable_reads) \in StableReads
  BY DEF DegradedStableReads, StableReads
<1>6. ArtifactReasons(a) \subseteq Reasons /\ CodesOf(ArtifactReasons(a)) = P
  <2>1. \A x \in CompletedCodes : Reason(x, "compare") \in Reasons
    BY DEF Reason, Reasons, ReasonCodes, Operations
  <2>2. \A x \in CompletedCodes : CodesOf({Reason(x, "compare")}) = {x}
    BY DEF CodesOf, Reason
  <2>3. CASE a.structural
    BY <2>1, <2>2, <2>3, CodeSets DEF ArtifactReasons, ArtifactProof
  <2>4. CASE ~a.structural /\ a.verdict = "mismatch"
    BY <2>1, <2>2, <2>4, CodeSets DEF ArtifactReasons, ArtifactProof
  <2>5. CASE ~a.structural /\ a.verdict # "mismatch"
    BY <2>5, CodesOfNone DEF ArtifactReasons, ArtifactProof
  <2> QED BY <1>3, <2>3, <2>4, <2>5
<1> HIDE DEF g, partial
<1>7. partial \in Partials
  <2>1. partial.verdict \in Verdicts /\ partial.proven \in BOOLEAN
    BY <1>1 DEF Verdicts
  <2>2. partial.totals \in ReasonCodes \cup {"lower_bound"}
    BY <1>1, <1>4 DEF ReasonCodes, CompletedCodes
  <2> QED BY <1>1, <1>3, <1>5, <2>1, <2>2 DEF Partials
<1>8. partial # None
  BY <1>7, NoneAssumption
<1>9. CodesOf(additional) = P \cup CodesOf(c.additional) /\ additional \subseteq Reasons
  BY <1>4, <1>6, CodesOfUnion
<1> HIDE DEF additional, P
<1>10. g \in Failures
  <2>1. g.additional \subseteq Reasons
    BY <1>2, <1>9 DEF PublicationReasons, WithoutDataMismatch
  <2>2. g.status \in {"incomplete", "error"}
    BY <1>2 DEF ExecutionStatusForCleanupFailure
  <2>3. g.verdict \in Verdicts
    BY <1>1, <1>2 DEF PublicationVerdict, Verdicts
  <2>4. g.retryable \in BOOLEAN
    BY <1>2 DEF CleanupFailureIsRetryable
  <2> QED BY <1>1, <1>2, <1>4, <1>5, <1>7, <2>1, <2>2, <2>3, <2>4 DEF Failures
<1>11. g # None
  BY <1>10, NoneAssumption
<1>12. Leads(g, Told(c))
  BY ArtifactLeads DEF g
<1>13. Proves(partial, P)
  <2>1. P \in {{}, {"data_mismatch"}, {"contract_violation"}}
    BY DEF P, ArtifactProof
  <2>2. P = {} <=> a.verdict # "mismatch"
    BY DEF P, ArtifactProof
  <2>3. P = {"data_mismatch"} <=> a.verdict = "mismatch" /\ ~a.structural
    BY DEF P, ArtifactProof
  <2>4. a.structural => P = {"contract_violation"}
    BY DEF P, ArtifactProof
  <2>5. partial.proven = (P = {"data_mismatch"})
    BY <1>1, <2>3
  <2> QED BY <1>1, <2>1, <2>2, <2>4, <2>5 DEF Proves
<1>14. \/ partial.totals \in Told(c)
       \/ partial.totals = "contract_violation" /\ P = {"contract_violation"}
       \/ partial.totals = "lower_bound" /\ P = {"data_mismatch"}
  BY <1>1, CleanCodes DEF P, ArtifactProof
<1>15. Told(g) = IF UnknownRows(partial)
                 THEN (Told(c) \cup P) \ {"data_mismatch"} ELSE Told(c) \cup P
  <2>1. CodesOf(g.additional) = IF UnknownRows(partial)
                                THEN (P \cup CodesOf(c.additional)) \ {"data_mismatch"}
                                ELSE P \cup CodesOf(c.additional)
    BY <1>2, <1>8, <1>9, CodesWithout DEF PublicationReasons
  <2>2. g.reason.code = c.reason.code /\ c.reason.code # "data_mismatch"
    BY <1>2, CleanCodes, CodeSets
  <2>3. Told(g) = {c.reason.code} \cup CodesOf(g.additional)
    BY <2>2, ToldCodes
  <2>4. Told(c) = {c.reason.code} \cup CodesOf(c.additional)
    BY ToldCodes
  <2> QED BY <2>1, <2>2, <2>3, <2>4
<1>16. CleanupFailureIsRetryable(c) <=> Told(c) \subseteq RetryableCodes
  BY DEF CleanupFailureIsRetryable, Told
<1> QED
  BY <1>1, <1>2, <1>8, <1>10, <1>11, <1>12, <1>13, <1>14, <1>15, <1>16 DEF g, P

-----------------------------------------------------------------------------
(* The rows of an attempt whose contexts have been released.               *)

(* Once every context has been released and every end stored, the rows     *)
(* tell how each context ended, and an attempt with a cut has both         *)
(* observations.                                                           *)
LEMMA SettledRows ==
    ASSUME ExecutionInv, pc = "settle", ~broken
    PROVE  /\ StoredAttemptClosure(store, Current)
           /\ Current.input_cut # None =>
                 /\ BoundCutClosure(store, Current)
                 /\ \A d \in Sides : Current.contexts[d] \in {"closed", "lost"}
                 /\ cleanup = None => \A d \in Sides : Current.contexts[d] = "closed"
<1>1. Ordinal > 0
  BY DEF ExecutionInv, RowsOK, Running
<1>2. /\ \A d \in Sides : Current.contexts[d] = IF d \in receipt THEN context[d] ELSE "absent"
      /\ Current.input_cut # None => receipt = Sides
      /\ \A d \in receipt : context[d] # "absent"
  BY DEF ExecutionInv, ReceiptOK, StoredAs, Releasing
<1>3. /\ \A d \in Sides : context[d] # "active" /\ context[d] \in ContextStates
      /\ cleanup = None => \A d \in Sides : context[d] \in {"closed", "absent"}
  BY DEF ExecutionInv, ContextOK, CleanupOK, StateType
<1>4. IF Current.input_cut = None
      THEN Current.observations = {}
      ELSE Current.observations = Sides /\ store.bound_cut = Current.input_cut
  BY <1>1 DEF ExecutionInv, RowsOK
<1> QED
  BY <1>2, <1>3, <1>4 DEF StoredAttemptClosure, BoundCutClosure, ContextStates

(* They satisfy the closure of the stable-read level that is left:         *)
(* verified without a ClickHouse side, asserted only if every context      *)
(* closed cleanly.                                                         *)
LEMMA SettledClosure ==
    ASSUME ExecutionInv, pc = "settle", ~broken, Current.input_cut # None
    PROVE  /\ PartialClosure(ClickHouseSides, store, Current, "unknown")
           /\ ClickHouseSides = {} => PartialClosure(ClickHouseSides, store, Current, "verified")
           /\ cleanup = None /\ ClickHouseSides # {} =>
                 PartialClosure(ClickHouseSides, store, Current, "asserted")
           /\ cleanup = None =>
                 CompletedClosure(ClickHouseSides, store, Current,
                                  IF ClickHouseSides = {} THEN "verified" ELSE "asserted")
<1>1. /\ BoundCutClosure(store, Current)
      /\ \A d \in Sides : Current.contexts[d] \in {"closed", "lost"}
      /\ cleanup = None => \A d \in Sides : Current.contexts[d] = "closed"
  BY SettledRows
<1>2. Ordinal > 0
  BY DEF ExecutionInv, RowsOK, Running
<1>3. /\ Current.closure_evidence =
            {d \in ClickHouseSides : Current.contexts[d] = "closed"}
      /\ store.clickhouse \in Acquisitions
  BY <1>2 DEF ExecutionInv, RowsOK, StateType, Store, ClickHouseSides
<1>4. ClickHouseSides \subseteq Sides /\ ClickHouseSides # Sides
  BY <1>3, ExecutionAssumption DEF ClickHouseSides
<1>5. StableReadClosure(ClickHouseSides, Current, "unknown")
  BY DEF StableReadClosure
<1>6. ClickHouseSides = {} => StableReadClosure(ClickHouseSides, Current, "verified")
  BY DEF StableReadClosure
<1>7. ASSUME cleanup = None, ClickHouseSides # {}
      PROVE  StableReadClosure(ClickHouseSides, Current, "asserted")
  <2>1. PICK d \in Sides : ClickHouseSides = {d}
    BY <1>4, <1>7 DEF Sides
  <2>2. \A e \in Sides : Current.contexts[e] = "closed"
    BY <1>1, <1>7
  <2>3. d \in Current.closure_evidence
    BY <1>3, <2>1, <2>2
  <2> QED BY <2>1, <2>2, <2>3 DEF StableReadClosure
<1> HIDE DEF ClickHouseSides
<1> QED BY <1>1, <1>5, <1>6, <1>7 DEF PartialClosure, CompletedClosure

-----------------------------------------------------------------------------
(* What is settled is acceptable.                                          *)

Publishable(f) ==
    /\ f \in Failures /\ f # None
    /\ FailureAccepted(ClickHouseSides, store, Current, f) \/ Exceptional(f)
    /\ f.retryable =>
          /\ artifact = None \/ artifact.verdict = "match"
          /\ Told(f) \subseteq RetryableCodes \cup {"data_mismatch"}

(* A failure before comparison is accepted, whatever the release of        *)
(* contexts added to it.                                                   *)
LEMMA SettledError ==
    ASSUME ExecutionInv, pc = "settle", ~broken, NEW code \in Codes, artifact = None
    PROVE  /\ Publishable(FailureFromError(code))
           /\ cleanup # None =>
                 Publishable(FailureWithSecondaryContextLoss(FailureFromError(code), cleanup))
<1> DEFINE f == FailureFromError(code)
<1>1. /\ f \in Failures /\ f # None /\ Leads(f, {code}) /\ Told(f) = {code}
      /\ f.partial = None /\ f.verdict = "inconclusive"
      /\ f.retryable <=> code \in RetryableCodes
  BY ErrorSays
<1> HIDE DEF f
<1>2. StoredAttemptClosure(store, Current)
  BY SettledRows
<1>3. FailureAccepted(ClickHouseSides, store, Current, f)
  BY <1>1, <1>2, FailureWithoutPartial
<1>4. Publishable(f)
  BY <1>1, <1>3 DEF Publishable
<1>5. ASSUME cleanup # None
      PROVE  Publishable(FailureWithSecondaryContextLoss(f, cleanup))
  <2> DEFINE g == FailureWithSecondaryContextLoss(f, cleanup)
  <2>1. CleanOK(cleanup)
    BY <1>5 DEF ExecutionInv, CleanupOK
  <2>2. /\ g \in Failures /\ g # None /\ Leads(g, {code} \cup Told(cleanup))
        /\ g.partial = None
        /\ g.verdict = PublicationVerdict(g.partial, f.verdict)
        /\ g.retryable <=> f.retryable /\ Told(cleanup) \subseteq RetryableCodes
        /\ Told(g) = {code} \cup Told(cleanup)
    BY <1>1, <2>1, SecondarySays
  <2> HIDE DEF g
  <2>3. g.verdict = "inconclusive"
    BY <1>1, <2>2 DEF PublicationVerdict
  <2>4. FailureAccepted(ClickHouseSides, store, Current, g)
    BY <1>2, <2>2, <2>3, FailureWithoutPartial
  <2> QED BY <1>1, <2>2, <2>4 DEF Publishable, g
<1> QED BY <1>4, <1>5 DEF f

(* Rows read under contexts that were not verified to the end prove        *)
(* nothing; those that were, are accepted.                                 *)
LEMMA SettledPartial ==
    ASSUME ExecutionInv, pc = "settle", ~broken, Current.input_cut # None,
           NEW f \in Failures, NEW K, NEW P, Leads(f, K), f.partial # None,
           f.stable_reads = f.partial.stable_reads, f.partial.stable_reads \in StableReads,
           Proves(f.partial, P), f.partial.unresolved \subseteq K \cup IncompleteCodes,
           Told(f) = IF UnknownRows(f.partial) THEN (K \cup P) \ {"data_mismatch"} ELSE K \cup P,
           \/ f.partial.totals \in K \cup IncompleteCodes
           \/ f.partial.totals = "contract_violation" /\ P = {"contract_violation"}
           \/ f.partial.totals = "lower_bound" /\ P = {"data_mismatch"},
           f.partial.stable_reads = "verified" => ClickHouseSides = {},
           f.partial.stable_reads = "asserted" => ClickHouseSides # {} /\ cleanup = None,
           f.partial.stable_reads = "unknown" /\ P = {"contract_violation"} =>
              ClickHouseSides # {}
    PROVE  FailureAccepted(ClickHouseSides, store, Current, f) \/ Exceptional(f)
<1>1. K \subseteq Codes /\ f.reason.code # "data_mismatch"
  BY CodeSets DEF Leads
<1>2. PartialClosure(ClickHouseSides, store, Current, f.partial.stable_reads)
  BY SettledClosure DEF StableReads
<1>3. CASE f.partial.stable_reads # "unknown"
  <2>1. Told(f) = K \cup P
    BY <1>3 DEF UnknownRows
  <2> QED BY <1>2, <1>3, <2>1, FailureWithRows
<1>4. CASE f.partial.stable_reads = "unknown" /\ P = {"contract_violation"}
  <2>1. "contract_violation" \in Told(f)
    BY <1>4
  <2>2. "contract_violation" \in StoredCodes(f)
    BY <1>1, <2>1, StoredCodesAre
  <2> QED BY <1>4, <2>2 DEF Exceptional
<1>5. CASE f.partial.stable_reads = "unknown" /\ P # {"contract_violation"}
  <2>1. UnknownRows(f.partial)
    BY <1>5 DEF UnknownRows, Proves
  <2>2. Told(f) \ {"data_mismatch"} = K
    BY <1>1, <1>5, <2>1, CodeSets DEF Proves
  <2> QED BY <1>2, <2>1, <2>2, FailureWithUnknownRows
<1> QED BY <1>3, <1>4, <1>5

(* An interrupted comparison is accepted, or is the exception, whatever    *)
(* the release of contexts added to it.                                    *)
LEMMA SettledInterruption ==
    ASSUME ExecutionInv, pc = "settle", ~broken, Current.input_cut # None, artifact = None,
           NEW f, Interrupted(f)
    PROVE  /\ cleanup = None => Publishable(f)
           /\ cleanup # None => Publishable(FailureWithSecondaryContextLoss(f, cleanup))
<1>1. PICK code \in Codes, contract \in BOOLEAN :
         LET P == InterruptedProof(f.partial, contract) IN
         /\ Leads(f, {code}) /\ f.retryable = (code \in RetryableCodes)
         /\ f.partial # None /\ f.partial \in Partials /\ f \in Failures
         /\ f.stable_reads = f.partial.stable_reads /\ ~f.partial.structural
         /\ f.partial.unresolved \subseteq {code} \cup IncompleteCodes
         /\ Told(f) = IF UnknownRows(f.partial)
                      THEN ({code} \cup P) \ {"data_mismatch"} ELSE {code} \cup P
         /\ Proves(f.partial, P)
         /\ \/ f.partial.totals \in {code} \cup IncompleteCodes
            \/ f.partial.totals = "lower_bound" /\ P = {"data_mismatch"}
         /\ contract => code = "lossy_transport" /\ f.partial.stable_reads # "unknown"
         /\ f.partial.stable_reads = "verified" => ClickHouseSides = {}
         /\ f.partial.stable_reads = "asserted" => ClickHouseSides # {}
  BY InterruptionSays
<1> DEFINE P == InterruptedProof(f.partial, contract)
<1>2. /\ Leads(f, {code}) /\ f.retryable = (code \in RetryableCodes)
      /\ f.partial # None /\ f.partial \in Partials /\ f \in Failures
      /\ f.stable_reads = f.partial.stable_reads /\ ~f.partial.structural
      /\ f.partial.unresolved \subseteq {code} \cup IncompleteCodes
      /\ Told(f) = IF UnknownRows(f.partial)
                   THEN ({code} \cup P) \ {"data_mismatch"} ELSE {code} \cup P
      /\ Proves(f.partial, P)
      /\ \/ f.partial.totals \in {code} \cup IncompleteCodes
         \/ f.partial.totals = "lower_bound" /\ P = {"data_mismatch"}
      /\ contract => code = "lossy_transport" /\ f.partial.stable_reads # "unknown"
      /\ f.partial.stable_reads = "verified" => ClickHouseSides = {}
      /\ f.partial.stable_reads = "asserted" => ClickHouseSides # {}
  BY <1>1
<1>3. /\ P = {"contract_violation"} => contract
      /\ contract => "lossy_transport" = code
      /\ P \subseteq {"data_mismatch"} \/ contract
  BY <1>2 DEF InterruptedProof
<1>4. f.retryable => P \subseteq {"data_mismatch"} /\ {code} \subseteq RetryableCodes
  BY <1>2, <1>3 DEF RetryableCodes
<1>5. f.partial.stable_reads \in StableReads /\ f # None
  BY <1>2, NoneAssumption DEF Partials
<1> HIDE DEF P
<1>6. ASSUME cleanup = None
      PROVE  Publishable(f)
  <2>1. FailureAccepted(ClickHouseSides, store, Current, f) \/ Exceptional(f)
    BY <1>2, <1>3, <1>5, <1>6, SettledPartial
  <2> QED BY <1>2, <1>4, <1>5, <2>1 DEF Publishable
<1>7. ASSUME cleanup # None
      PROVE  Publishable(FailureWithSecondaryContextLoss(f, cleanup))
  <2> DEFINE g == FailureWithSecondaryContextLoss(f, cleanup)
  <2> DEFINE K == {code} \cup Told(cleanup)
  <2>1. CleanOK(cleanup)
    BY <1>7 DEF ExecutionInv, CleanupOK
  <2>2. /\ g \in Failures /\ g # None /\ Leads(g, K)
        /\ g.partial = Degraded(f.partial)
        /\ g.stable_reads = DegradedStableReads(f.stable_reads)
        /\ g.retryable <=> f.retryable /\ Told(cleanup) \subseteq RetryableCodes
        /\ Told(g) = IF g.partial # None /\ UnknownRows(g.partial)
                     THEN (Told(f) \cup Told(cleanup)) \ {"data_mismatch"}
                     ELSE Told(f) \cup Told(cleanup)
    BY <1>2, <2>1, SecondarySays
  <2> HIDE DEF g
  <2>3. /\ g.partial \in Partials
        /\ g.partial.stable_reads = DegradedStableReads(f.partial.stable_reads)
        /\ g.partial.structural = f.partial.structural
        /\ g.partial.unresolved = f.partial.unresolved
        /\ g.partial.totals = f.partial.totals
        /\ g.partial.verdict = f.partial.verdict /\ g.partial.proven = f.partial.proven
    <3>1. DegradedStableReads(f.partial.stable_reads) \in StableReads
      BY DEF DegradedStableReads, StableReads
    <3> QED BY <1>2, <2>2, <3>1 DEF Degraded, Partials
  <2>4. g.partial # None
    BY <2>3, NoneAssumption
  <2>5. /\ g.partial.stable_reads \in {"verified", "unknown"}
        /\ g.partial.stable_reads = "verified" => f.partial.stable_reads = "verified"
        /\ g.partial.stable_reads = "unknown" => f.partial.stable_reads # "verified"
    BY <2>3 DEF DegradedStableReads
  <2>6. Proves(g.partial, P)
    BY <1>2, <2>3 DEF Proves
  <2>7. Told(g) = IF UnknownRows(g.partial) THEN (K \cup P) \ {"data_mismatch"} ELSE K \cup P
    <3>1. CASE UnknownRows(g.partial)
      <4>1. Told(f) \ {"data_mismatch"} = ({code} \cup P) \ {"data_mismatch"}
        BY <1>2
      <4>2. Told(g) = (Told(f) \cup Told(cleanup)) \ {"data_mismatch"}
        BY <2>2, <2>4, <3>1
      <4> QED BY <3>1, <4>1, <4>2
    <3>2. CASE ~UnknownRows(g.partial)
      <4>1. ~UnknownRows(f.partial)
        BY <1>2, <2>3, <2>5, <3>2 DEF UnknownRows
      <4> QED BY <1>2, <2>2, <3>2, <4>1
    <3> QED BY <3>1, <3>2
  <2>8. /\ g.stable_reads = g.partial.stable_reads
        /\ g.partial.unresolved \subseteq K \cup IncompleteCodes
        /\ \/ g.partial.totals \in K \cup IncompleteCodes
           \/ g.partial.totals = "lower_bound" /\ P = {"data_mismatch"}
    BY <1>2, <2>2, <2>3
  <2>9. g.partial.stable_reads = "unknown" /\ P = {"contract_violation"} => ClickHouseSides # {}
    BY <1>2, <1>3, <1>5, <2>5 DEF StableReads
  <2>10. g.partial.stable_reads = "verified" => ClickHouseSides = {}
    BY <1>2, <2>5
  <2>11. g.partial.stable_reads \in StableReads /\ g.partial.stable_reads # "asserted"
    BY <2>5 DEF StableReads
  <2>12. FailureAccepted(ClickHouseSides, store, Current, g) \/ Exceptional(g)
    <3> HIDE DEF K
    <3> QED BY <2>2, <2>4, <2>6, <2>7, <2>8, <2>9, <2>10, <2>11, SettledPartial
  <2>13. g.retryable => Told(g) \subseteq RetryableCodes \cup {"data_mismatch"}
    BY <1>4, <2>2, <2>7
  <2> QED BY <2>2, <2>12, <2>13 DEF Publishable, g
<1> QED BY <1>6, <1>7

(* A completed comparison that lost its contexts is accepted, or is the    *)
(* exception.                                                              *)
LEMMA SettledComparison ==
    ASSUME ExecutionInv, pc = "settle", ~broken, Comparison, cleanup # None
    PROVE  Publishable(FailureFromArtifactContextLoss(artifact, cleanup))
<1> DEFINE g == FailureFromArtifactContextLoss(artifact, cleanup)
<1> DEFINE P == ArtifactProof(artifact)
<1> DEFINE K == Told(cleanup)
<1>1. CleanOK(cleanup)
  BY DEF ExecutionInv, CleanupOK
<1>2. /\ artifact \in Artifacts
      /\ artifact.structural => artifact.verdict = "mismatch"
      /\ artifact.stable_reads = IF ClickHouseSides = {} THEN "verified" ELSE "asserted"
      /\ Current.input_cut # None
  BY DEF Comparison
<1>3. /\ g \in Failures /\ g # None /\ Leads(g, K)
      /\ g.partial # None /\ g.partial.structural = artifact.structural
      /\ g.partial.stable_reads = DegradedStableReads(artifact.stable_reads)
      /\ g.stable_reads = g.partial.stable_reads
      /\ g.partial.unresolved = {} /\ Proves(g.partial, P)
      /\ g.retryable <=> artifact.verdict # "mismatch" /\ K \subseteq RetryableCodes
      /\ \/ g.partial.totals \in K
         \/ g.partial.totals = "contract_violation" /\ P = {"contract_violation"}
         \/ g.partial.totals = "lower_bound" /\ P = {"data_mismatch"}
      /\ Told(g) = IF UnknownRows(g.partial)
                   THEN (K \cup P) \ {"data_mismatch"} ELSE K \cup P
  BY <1>1, <1>2, ArtifactSays
<1>4. g.partial.stable_reads = IF ClickHouseSides = {} THEN "verified" ELSE "unknown"
  BY <1>2, <1>3 DEF DegradedStableReads
<1>5. g.partial.stable_reads \in StableReads
  BY <1>4 DEF StableReads
<1>6. g.retryable => P = {}
  BY <1>2, <1>3 DEF ArtifactProof
<1> HIDE DEF g, P, K
<1>7. FailureAccepted(ClickHouseSides, store, Current, g) \/ Exceptional(g)
  BY <1>2, <1>3, <1>4, <1>5, SettledPartial
<1>8. artifact.verdict # "mismatch" => artifact.verdict = "match"
  BY <1>2 DEF Artifacts
<1>9. g.retryable => Told(g) \subseteq RetryableCodes
  BY <1>3, <1>6
<1> QED BY <1>3, <1>7, <1>8, <1>9 DEF Publishable, g

-----------------------------------------------------------------------------
(* The invariant holds initially.                                          *)

(* The invariant holds before the first attempt.                           *)
LEMMA InitiallyHolds ==
    ASSUME Init
    PROVE  ExecutionInv
<1>1. PICK c \in Acquisitions :
         store = [clickhouse |-> c, bound_cut |-> None, selected |-> 0, attempts |-> <<>>]
  BY DEF Init
<1>2. store.clickhouse = c /\ store.bound_cut = None /\ store.selected = 0
      /\ store.attempts = <<>> /\ Ordinal = 0
  BY <1>1 DEF Ordinal
<1>3. store \in Store
  BY <1>1, ExecutionAssumption DEF Store
<1>4. StateType
  <2>1. context \in [Sides -> ContextStates] /\ side \in Sides
    BY DEF Init, Sides, ContextStates
  <2>2. Ordinal <= MaxAttempts
    BY <1>2, ExecutionAssumption
  <2>3. pc \in Steps /\ reply.kind \in Replies
    BY DEF Init, Steps, Pending, Replies
  <2>4. receipt \subseteq Sides /\ ending \in {"closed", "lost", None} /\ broken \in BOOLEAN
    BY DEF Init
  <2> QED BY <1>3, <2>1, <2>2, <2>3, <2>4 DEF StateType
<1>5. RowsOK
  BY <1>2 DEF Init, RowsOK, Running, Acquiring, Releasing
<1>6. ContextOK /\ CleanupOK
  BY DEF Init, ContextOK, CleanupOK, Releasing, Pending
<1>7. ReceiptOK
  BY DEF Init, ReceiptOK, Acquiring, Releasing
<1>8. FailureOK /\ ReplyOK
  BY DEF Init, FailureOK, ReplyOK, Releasing, Pending
<1> QED BY <1>4, <1>5, <1>6, <1>7, <1>8 DEF ExecutionInv

(* The newest attempt has a row.                                           *)
LEMMA CurrentType ==
    ASSUME StateType, Ordinal > 0
    PROVE  /\ Current \in Attempt /\ Ordinal \in Nat /\ Ordinal \in 1..Ordinal
           /\ Ordinal <= MaxAttempts /\ Ordinal \in 0..MaxAttempts
BY ExecutionAssumption DEF StateType, Store, Current, Ordinal

(* Writing the row of the newest attempt changes that row alone.           *)
LEMMA WithCurrentRows ==
    ASSUME StateType, Ordinal > 0, NEW a \in Attempt
    PROVE  LET rows == WithCurrent(a) IN
           /\ rows = [clickhouse |-> store.clickhouse, bound_cut |-> store.bound_cut,
                      selected |-> store.selected,
                      attempts |-> [store.attempts EXCEPT ![Ordinal] = a]]
           /\ rows \in Store /\ Len(rows.attempts) = Ordinal
           /\ rows.attempts[Ordinal] = a
           /\ \A k \in 1..Ordinal : k # Ordinal => rows.attempts[k] = store.attempts[k]
<1> DEFINE seq == [store.attempts EXCEPT ![Ordinal] = a]
<1>1. /\ store.attempts \in Seq(Attempt) /\ Ordinal = Len(store.attempts)
      /\ store.clickhouse \in Acquisitions /\ store.bound_cut \in Cuts \cup {None}
      /\ store.selected \in 0..MaxAttempts
      /\ store = [clickhouse |-> store.clickhouse, bound_cut |-> store.bound_cut,
                  selected |-> store.selected, attempts |-> store.attempts]
  BY DEF StateType, Store, Ordinal
<1>2. /\ seq \in Seq(Attempt) /\ Len(seq) = Ordinal /\ seq[Ordinal] = a
      /\ \A k \in 1..Ordinal : k # Ordinal => seq[k] = store.attempts[k]
  BY <1>1
<1>3. WithCurrent(a) = [clickhouse |-> store.clickhouse, bound_cut |-> store.bound_cut,
                        selected |-> store.selected, attempts |-> seq]
  <2>1. WithCurrent(a) = [store EXCEPT !.attempts = seq]
    BY DEF WithCurrent
  <2> HIDE DEF seq
  <2> QED BY <1>1, <2>1
<1> HIDE DEF seq
<1> QED BY <1>1, <1>2, <1>3 DEF Store, seq

(* A change of the row of the running attempt.                             *)
RowStep(a, cut, selected) ==
    /\ store' \in Store /\ Ordinal' = Ordinal /\ Current' = a
    /\ store'.clickhouse = store.clickhouse
    /\ store'.bound_cut = cut /\ store'.selected = selected
    /\ \A k \in 1..Ordinal : k # Ordinal => store'.attempts[k] = store.attempts[k]

(* Nothing is written,                                                     *)
LEMMA RowUnchanged ==
    ASSUME StateType, store' = store
    PROVE  RowStep(Current, store.bound_cut, store.selected)
BY DEF StateType, RowStep, Ordinal, Current

(* the row of the attempt is,                                              *)
LEMMA RowWritten ==
    ASSUME StateType, Ordinal > 0, NEW a \in Attempt, store' = WithCurrent(a)
    PROVE  RowStep(a, store.bound_cut, store.selected)
BY WithCurrentRows DEF RowStep, Ordinal, Current

(* with it the cut of the run,                                             *)
LEMMA RowBound ==
    ASSUME StateType, Ordinal > 0, NEW a \in Attempt, NEW cut \in Cuts,
           store' = [WithCurrent(a) EXCEPT !.bound_cut = cut]
    PROVE  RowStep(a, cut, store.selected)
<1> DEFINE rows == WithCurrent(a)
<1>1. /\ rows = [clickhouse |-> store.clickhouse, bound_cut |-> store.bound_cut,
                      selected |-> store.selected, attempts |-> rows.attempts]
      /\ rows \in Store /\ Len(rows.attempts) = Ordinal
      /\ rows.attempts[Ordinal] = a
      /\ \A k \in 1..Ordinal : k # Ordinal => rows.attempts[k] = store.attempts[k]
  BY WithCurrentRows
<1> HIDE DEF rows
<1>2. store' = [clickhouse |-> store.clickhouse, bound_cut |-> cut,
                selected |-> store.selected, attempts |-> rows.attempts]
  BY <1>1 DEF rows
<1>3. store' \in Store
  <2>1. /\ store.clickhouse \in Acquisitions /\ store.selected \in 0..MaxAttempts
        /\ rows.attempts \in Seq(Attempt) /\ cut \in Cuts \cup {None}
    BY <1>1 DEF StateType, Store
  <2> DEFINE seq == rows.attempts
  <2>2. /\ store' = [clickhouse |-> store.clickhouse, bound_cut |-> cut,
                     selected |-> store.selected, attempts |-> seq]
        /\ seq \in Seq(Attempt)
    BY <1>2, <2>1
  <2> HIDE DEF seq
  <2> QED BY ONLY <2>1, <2>2 DEF Store
<1> QED BY <1>1, <1>2, <1>3 DEF RowStep, Ordinal, Current

(* or the selected outcome.                                                *)
LEMMA RowSelected ==
    ASSUME StateType, Ordinal > 0, NEW a \in Attempt, store' = Selected(WithCurrent(a))
    PROVE  RowStep(a, store.bound_cut, Ordinal)
<1> DEFINE rows == WithCurrent(a)
<1>1. /\ rows = [clickhouse |-> store.clickhouse, bound_cut |-> store.bound_cut,
                      selected |-> store.selected, attempts |-> rows.attempts]
      /\ rows \in Store /\ Len(rows.attempts) = Ordinal
      /\ rows.attempts[Ordinal] = a
      /\ \A k \in 1..Ordinal : k # Ordinal => rows.attempts[k] = store.attempts[k]
  BY WithCurrentRows
<1> HIDE DEF rows
<1>2. store' = [clickhouse |-> store.clickhouse, bound_cut |-> store.bound_cut,
                selected |-> Ordinal, attempts |-> rows.attempts]
  BY <1>1 DEF rows, Selected
<1>3. store' \in Store
  BY <1>1, <1>2, CurrentType DEF Store
<1> QED BY <1>1, <1>2, <1>3 DEF RowStep, Ordinal, Current

-----------------------------------------------------------------------------
(* Acquisition.                                                            *)

(* Ending the call keeps the invariant: after the death of the process the *)
(* contexts may still be held, otherwise they are released.                *)
LEMMA StopKeeps ==
    ASSUME ExecutionInv, pc # "stopped", NEW kind \in {"raised", "crashed"},
           Stop(Ended(kind)), store' \in Store, Ordinal' <= MaxAttempts, RowsOK',
           kind = "raised" => \A d \in Sides : context[d] # "active"
    PROVE  ExecutionInv'
<1>1. /\ pc' = "stopped" /\ reply'.kind = kind /\ receipt' = {}
      /\ artifact' = None /\ failure' = None /\ cleanup' = None /\ ending' = None
      /\ broken' = FALSE /\ side' = side /\ context' = context
  BY DEF Stop, Ended, Forget
<1>2. StateType'
  BY <1>1 DEF ExecutionInv, StateType, Steps, Replies
<1>3. ContextOK'
  BY <1>1 DEF ContextOK, Releasing
<1>4. ReceiptOK' /\ CleanupOK'
  BY <1>1 DEF ReceiptOK, CleanupOK, Releasing, Acquiring
<1>5. FailureOK' /\ ReplyOK'
  BY <1>1 DEF FailureOK, ReplyOK, Releasing, Acquiring
<1> QED BY <1>2, <1>3, <1>4, <1>5 DEF ExecutionInv

(* A new attempt starts with no context, cut or observation.               *)
LEMMA StartAttemptKeeps ==
    ASSUME ExecutionInv, StartAttempt
    PROVE  ExecutionInv'
<1> DEFINE rows == [store EXCEPT !.attempts = Append(@, NewAttempt)]
<1>1. /\ store \in Store /\ Ordinal \in Nat /\ Ordinal <= MaxAttempts /\ pc = "start"
      /\ store.attempts \in Seq(Attempt) /\ Ordinal = Len(store.attempts)
      /\ store = [clickhouse |-> store.clickhouse, bound_cut |-> store.bound_cut,
                  selected |-> store.selected, attempts |-> store.attempts]
  BY DEF ExecutionInv, StateType, Store, Ordinal, StartAttempt
<1>2. NewAttempt \in Attempt
  BY DEF NewAttempt, Attempt, ContextStates
<1>3. \A d \in Sides : context[d] # "active"
  BY <1>1 DEF ExecutionInv, ContextOK
<1>4. /\ store.selected = 0 /\ \A k \in 1..Ordinal : store.attempts[k].status # "running"
      /\ ~broken /\ reply.kind = "none"
  BY <1>1 DEF ExecutionInv, RowsOK, ReceiptOK, ReplyOK
<1>5. ASSUME store' = rows, Ordinal < MaxAttempts,
             context' = [d \in Sides |-> "absent"] \/ pc' = "stopped", pc' \in {"open", "stopped"}
      PROVE  /\ store' \in Store /\ Ordinal' = Ordinal + 1 /\ Current' = NewAttempt
             /\ RowsOK' /\ ClickHouseSides' = ClickHouseSides
  <2>1. /\ store' = [clickhouse |-> store.clickhouse, bound_cut |-> store.bound_cut,
                     selected |-> 0, attempts |-> Append(store.attempts, NewAttempt)]
        /\ Append(store.attempts, NewAttempt) \in Seq(Attempt)
    BY <1>1, <1>2, <1>4, <1>5
  <2>2. store' \in Store
    BY <1>1, <2>1, ExecutionAssumption DEF Store
  <2>3. /\ Ordinal' = Ordinal + 1 /\ store'.attempts[Ordinal + 1] = NewAttempt
        /\ \A k \in 1..Ordinal : store'.attempts[k] = store.attempts[k]
        /\ Current' = NewAttempt
    BY <1>1, <1>2, <2>1 DEF Ordinal, Current
  <2>4. store'.selected = 0 /\ ClickHouseSides' = ClickHouseSides
    BY <2>1 DEF ClickHouseSides
  <2>5. \A k \in 1..Ordinal' : k = Ordinal + 1 \/ k \in 1..Ordinal
    BY <1>1, <2>3
  <2>6. \A k \in (1..Ordinal)' :
           store'.attempts[k].status = "running" => k = Ordinal' /\ pc' # "start"
    BY <1>4, <1>5, <2>3, <2>5
  <2>7. Current'.input_cut = None /\ Current'.observations = {} /\ Current'.closure_evidence = {}
        /\ Current'.status = "running" /\ \A d \in Sides : Current'.contexts[d] = "absent"
    BY <2>3 DEF NewAttempt
  <2>8. ClickHouseSides \subseteq Sides
    BY <1>1, ExecutionAssumption DEF Store, ClickHouseSides
  <2>9. Current'.closure_evidence = {d \in store'.clickhouse : Current'.contexts[d] = "closed"}
    BY <2>4, <2>7, <2>8 DEF ClickHouseSides
  <2>10. RowsOK'
    BY <1>1, <1>5, <2>3, <2>4, <2>6, <2>7, <2>9 DEF RowsOK
  <2> QED BY <2>2, <2>3, <2>4, <2>10
<1>6. CASE store' = rows /\ Ordinal < MaxAttempts /\ pc' = "open"
  <2>1. /\ side' = "reference" /\ context' = [d \in Sides |-> "absent"] /\ receipt' = {}
        /\ artifact' = None /\ failure' = None /\ cleanup' = None /\ ending' = None
        /\ broken' = broken /\ reply' = reply
    BY <1>6 DEF StartAttempt, Stop
  <2>2. /\ store' \in Store /\ Ordinal' = Ordinal + 1 /\ Current' = NewAttempt /\ RowsOK'
    BY <1>5, <1>6, <2>1
  <2>3. StateType'
    BY <1>1, <1>6, <2>1, <2>2, ExecutionAssumption
    DEF ExecutionInv, StateType, Steps, Sides, ContextStates
  <2>4. ContextOK'
    BY <1>6, <2>1 DEF ContextOK, Releasing, Sides
  <2>5. ReceiptOK'
    <3>1. \A d \in Sides : Current'.contexts[d] = "absent"
      BY <2>2 DEF NewAttempt
    <3> QED BY <1>4, <1>6, <2>1, <3>1 DEF ReceiptOK, Acquiring, Releasing, StoredAs
  <2>6. CleanupOK' /\ FailureOK' /\ ReplyOK'
    BY <1>4, <1>6, <2>1 DEF CleanupOK, FailureOK, ReplyOK, Acquiring, Releasing
  <2> QED BY <2>2, <2>3, <2>4, <2>5, <2>6 DEF ExecutionInv
<1>7. CASE Stop(Ended("raised")) /\ store' = store
  <2>1. RowsOK'
    BY <1>4, <1>7, <1>1 DEF ExecutionInv, RowsOK, Stop, Forget, Running, Acquiring, Releasing,
                      Ordinal, Current
  <2>2. Ordinal' <= MaxAttempts
    BY <1>1, <1>7 DEF Ordinal
  <2> QED BY <1>1, <1>3, <1>7, <2>1, <2>2, StopKeeps
<1>8. CASE Stop(Ended("raised")) /\ store' = rows /\ Ordinal < MaxAttempts
  <2>1. pc' = "stopped"
    BY <1>8 DEF Stop
  <2>2. store' \in Store /\ Ordinal' = Ordinal + 1 /\ RowsOK'
    BY <1>5, <1>8, <2>1
  <2> QED BY <1>1, <1>3, <1>8, <2>2, StopKeeps, ExecutionAssumption
<1> QED BY <1>6, <1>7, <1>8 DEF StartAttempt

(* The row of an attempt that opens its sides: contexts are stored as      *)
(* active once their receipt was returned, and only then.                  *)
LEMMA AcquiringRow ==
    ASSUME ExecutionInv, pc \in Acquiring
    PROVE  /\ StateType /\ Ordinal > 0 /\ Current \in Attempt /\ Current.status = "running"
           /\ \A d \in Sides : Current.contexts[d] = IF d \in receipt THEN "active" ELSE "absent"
           /\ Current.closure_evidence = {}
           /\ IF Current.input_cut = None THEN Current.observations = {}
              ELSE Current.observations = Sides /\ store.bound_cut = Current.input_cut
           /\ Current.input_cut # None => receipt = Sides
           /\ ~broken /\ cleanup = None /\ artifact = None /\ failure = None
<1>1. StateType /\ Ordinal > 0 /\ Current.status = "running"
  BY DEF ExecutionInv, RowsOK, Running
<1>2. Current \in Attempt
  BY <1>1, CurrentType
<1>3. /\ \A d \in Sides : Current.contexts[d] = IF d \in receipt THEN "active" ELSE "absent"
      /\ ~broken
      /\ pc \in {"align", "compare"} => receipt = Sides
  BY DEF ExecutionInv, ReceiptOK, StoredAs, Acquiring
<1>4. /\ IF Current.input_cut = None THEN Current.observations = {}
         ELSE Current.observations = Sides /\ store.bound_cut = Current.input_cut
      /\ Current.closure_evidence = {d \in store.clickhouse : Current.contexts[d] = "closed"}
      /\ pc \in {"open", "persist", "ready", "align"} => Current.input_cut = None
  BY <1>1 DEF ExecutionInv, RowsOK
<1>5. store.clickhouse \subseteq Sides
  BY <1>1, ExecutionAssumption DEF StateType, Store
<1>6. cleanup = None /\ artifact = None /\ failure = None
  BY DEF ExecutionInv, CleanupOK, FailureOK
<1> QED BY <1>1, <1>2, <1>3, <1>4, <1>5, <1>6 DEF Acquiring

(* However an attempt is left, the contexts it holds are to be released.   *)
LEMMA CleanupBegins ==
    ASSUME ExecutionInv, pc \in Acquiring, BeginCleanup,
           NEW a, NEW cut, RowStep(a, cut, store.selected), a.status = "running",
           a.closure_evidence = Current.closure_evidence,
           \A d \in Sides : a.contexts[d] \in {"absent", "active"},
           IF a.input_cut = None THEN a.observations = {}
           ELSE a.observations = Sides /\ cut = a.input_cut,
           broken' \in BOOLEAN,
           ~broken' => /\ a.contexts = Current.contexts
                       /\ a.input_cut # None => receipt = Sides,
           receipt' = receipt, ending' = ending, cleanup' = cleanup, reply' = reply,
           \/ context' = context
           \/ \E d \in Sides : context[d] = "active" /\ context' = [context EXCEPT ![d] = "lost"],
           FailureOK'
    PROVE  ExecutionInv'
<1>1. /\ pc' \in {"settle", "close"} /\ side' = "reference"
      /\ pc' = "settle" <=> context["reference"] = "absent"
  BY DEF BeginCleanup
<1>2. /\ context \in [Sides -> ContextStates] /\ context' \in [Sides -> ContextStates]
      /\ \A d \in Sides : context'[d] # context[d] => context[d] = "active" /\ context'[d] = "lost"
  BY DEF ExecutionInv, StateType, ContextStates
<1>3. /\ pc = "open" =>
          /\ context["reference"] = IF side = "reference" THEN "absent" ELSE "active"
          /\ context["target"] = "absent"
      /\ pc \in {"persist", "ready"} =>
          /\ context["reference"] = "active"
          /\ context["target"] = IF side = "reference" THEN "absent" ELSE "active"
      /\ pc \in {"align", "compare"} => \A d \in Sides : context[d] = "active"
  BY DEF ExecutionInv, ContextOK
<1>4. side \in Sides /\ receipt \subseteq Sides
  BY DEF ExecutionInv, StateType
<1>5. /\ context["reference"] \in {"absent", "active"}
      /\ context["target"] \in {"absent", "active"}
      /\ context["reference"] = "absent" =>
            pc = "open" /\ side = "reference" /\ context["target"] = "absent"
  BY <1>3, <1>4 DEF Acquiring, Sides
<1>6. /\ ~broken /\ cleanup = None
      /\ pc \in {"open", "persist"} => receipt = IF side = "reference" THEN {} ELSE {"reference"}
      /\ pc = "ready" => receipt = IF side = "reference" THEN {"reference"} ELSE Sides
      /\ pc \in {"align", "compare"} => receipt = Sides
      /\ \A d \in Sides : Current.contexts[d] = IF d \in receipt THEN "active" ELSE "absent"
  BY DEF ExecutionInv, ReceiptOK, CleanupOK, Acquiring, StoredAs
<1>7. \A d \in receipt : context[d] # "absent"
  BY <1>3, <1>4, <1>6 DEF Acquiring, Sides
<1>8. \A d \in receipt : context'[d] # "absent"
  BY <1>2, <1>4, <1>7
<1>9. /\ Ordinal > 0 /\ store.selected = 0
      /\ \A k \in 1..Ordinal : store.attempts[k].status = "running" => k = Ordinal
      /\ Current.closure_evidence = {}
  <2>1. Ordinal > 0 /\ Current.closure_evidence = {}
    BY AcquiringRow
  <2> QED BY <2>1 DEF ExecutionInv, RowsOK, Acquiring
<1>10. StateType'
  BY <1>1, <1>2, <1>4 DEF ExecutionInv, StateType, Steps, Sides, RowStep
<1>11. RowsOK'
  <2>1. /\ Ordinal' = Ordinal /\ Current' = a /\ store'.selected = 0 /\ store'.bound_cut = cut
        /\ Ordinal \in Nat
    BY <1>9 DEF RowStep, ExecutionInv, StateType, Store, Ordinal
  <2>2. \A k \in (1..Ordinal)' :
           store'.attempts[k].status = "running" => k = Ordinal' /\ pc' # "start"
    BY <1>1, <1>9, <2>1 DEF RowStep
  <2>3. Current'.closure_evidence = {d \in store'.clickhouse : Current'.contexts[d] = "closed"}
    <3>1. store'.clickhouse \subseteq Sides
      BY <1>10, ExecutionAssumption DEF StateType, Store
    <3> QED BY <1>9, <2>1, <3>1
  <2> QED BY <1>1, <1>9, <2>1, <2>2, <2>3 DEF RowsOK, Running
<1>12. ContextOK'
  BY <1>1, <1>2, <1>5 DEF ContextOK, Releasing, Sides
<1>13. ReceiptOK'
  <2>1. Current' = a
    BY DEF RowStep
  <2>2. ~broken' => \A d \in Sides : a.contexts[d] = IF d \in receipt THEN "active" ELSE "absent"
    BY <1>6
  <2>3. pc' = "settle" => receipt = {}
    BY <1>1, <1>5, <1>6
  <2> QED
    BY <1>1, <1>4, <1>8, <2>1, <2>2, <2>3 DEF ReceiptOK, Releasing, Acquiring, Sides, StoredAs
<1>14. CleanupOK'
  BY <1>1, <1>2, <1>5, <1>6 DEF CleanupOK, Releasing, Acquiring, Sides
<1>15. ReplyOK'
  BY <1>1 DEF ExecutionInv, ReplyOK, Acquiring
<1> QED BY <1>10, <1>11, <1>12, <1>13, <1>14, <1>15 DEF ExecutionInv

(* A failure of the attempt keeps the invariant.                           *)
LEMMA FailKeeps ==
    ASSUME ExecutionInv, pc \in Acquiring, NEW f, f # None, FailureBefore(f), Fail(f),
           \/ context' = context
           \/ \E d \in Sides : context[d] = "active" /\ context' = [context EXCEPT ![d] = "lost"]
    PROVE  ExecutionInv'
<1>1. /\ failure' = f /\ receipt' = receipt /\ artifact' = artifact /\ cleanup' = cleanup
      /\ ending' = ending /\ broken' = broken /\ store' = store /\ reply' = reply /\ BeginCleanup
  BY DEF Fail
<1>2. FailureOK'
  <2>1. /\ pc' \in {"settle", "close"} /\ artifact' = None /\ f \in Failures
    BY <1>1, AcquiringRow DEF BeginCleanup, FailureBefore
  <2>2. FailureBefore(failure)'
    BY <1>1 DEF FailureBefore, Interrupted, Current, Ordinal, ClickHouseSides
  <2> QED BY <1>1, <2>1, <2>2 DEF FailureOK, Acquiring, Releasing
<1>3. RowStep(Current, store.bound_cut, store.selected)
  BY <1>1, RowUnchanged, AcquiringRow
<1>4. broken' \in BOOLEAN /\ ~broken'
  <2>1. broken \in BOOLEAN /\ ~broken
    BY AcquiringRow DEF StateType
  <2> QED BY <1>1, <2>1
<1> QED BY <1>1, <1>2, <1>3, <1>4, AcquiringRow, CleanupBegins

(* So does a metadata call that raises, its row stored or not.             *)
LEMMA RaiseKeeps ==
    ASSUME ExecutionInv, pc \in Acquiring, RaiseAfterCleanup,
           NEW a, NEW cut, RowStep(a, cut, store.selected), a.status = "running",
           a.closure_evidence = Current.closure_evidence,
           \A d \in Sides : a.contexts[d] \in {"absent", "active"},
           IF a.input_cut = None THEN a.observations = {}
           ELSE a.observations = Sides /\ cut = a.input_cut
    PROVE  ExecutionInv'
<1>1. /\ broken' = TRUE /\ receipt' = receipt /\ artifact' = artifact /\ cleanup' = cleanup
      /\ ending' = ending /\ failure' = failure /\ reply' = reply /\ BeginCleanup
      /\ context' = context
  BY DEF RaiseAfterCleanup
<1>2. FailureOK'
  <2>1. /\ pc' \in {"settle", "close"} /\ artifact' = None /\ failure' = None
    BY <1>1, AcquiringRow DEF BeginCleanup
  <2> QED BY <1>1, <2>1 DEF FailureOK, Acquiring, Releasing
<1> QED BY <1>1, <1>2, CleanupBegins

(* The codes a source reports.                                             *)
LEMMA CodesAreSome ==
    /\ SourceErrorCodes \cup EarlyCodes \cup {"lossy_transport"} \subseteq Codes
    /\ {"cut_mismatch", "unsupported_capability"} \subseteq Codes
BY DEF SourceErrorCodes, EarlyCodes, Codes, IncompleteCodes, ErrorCodes

(* A failure before comparison keeps the invariant.                        *)
LEMMA ErrorKeeps ==
    ASSUME ExecutionInv, pc \in Acquiring, NEW code \in Codes, Fail(FailureFromError(code)),
           \/ context' = context
           \/ \E d \in Sides : context[d] = "active" /\ context' = [context EXCEPT ![d] = "lost"]
    PROVE  ExecutionInv'
<1> DEFINE f == FailureFromError(code)
<1>1. f \in Failures /\ f # None
  BY ErrorSays
<1>2. FailureBefore(f)
  BY <1>1 DEF FailureBefore
<1> HIDE DEF f
<1>3. Fail(f)
  BY DEF f
<1> QED BY <1>1, <1>2, <1>3, FailKeeps

(* So does a contract that is not executable,                              *)
LEMMA StaticOutcomeKeeps ==
    ASSUME ExecutionInv, StaticOutcome
    PROVE  ExecutionInv'
<1>1. pc = "open" /\ side = "reference" /\ context' = context
  BY DEF StaticOutcome
<1>2. context["reference"] = "absent"
  BY <1>1 DEF ExecutionInv, ContextOK
<1>3. Fail(FailureFromError("unsupported_capability"))
  BY <1>1, <1>2 DEF StaticOutcome, Fail, BeginCleanup
<1> QED BY <1>1, <1>3, CodesAreSome, ErrorKeeps DEF Acquiring

(* a side that cannot be opened,                                           *)
LEMMA OpenSideFailsKeeps ==
    ASSUME ExecutionInv, NEW code, OpenSideFails(code)
    PROVE  ExecutionInv'
<1>1. /\ pc = "open" /\ context' = context /\ Fail(FailureFromError(code))
      /\ code \in SourceErrorCodes \cup EarlyCodes
  BY DEF OpenSideFails
<1> QED BY <1>1, CodesAreSome, ErrorKeeps DEF Acquiring

(* a side that is not ready, or whose context is lost,                     *)
LEMMA ReadReadinessFailsKeeps ==
    ASSUME ExecutionInv, NEW code, NEW lost \in BOOLEAN, ReadReadinessFails(code, lost)
    PROVE  ExecutionInv'
<1>1. /\ pc = "ready" /\ Fail(FailureFromError(code))
      /\ code \in SourceErrorCodes \cup EarlyCodes
      /\ context' = [context EXCEPT ![side] = IF lost THEN "lost" ELSE @]
  BY DEF ReadReadinessFails
<1>2. context \in [Sides -> ContextStates] /\ side \in Sides
  BY DEF ExecutionInv, StateType
<1>3. context[side] = "active"
  BY <1>1, <1>2 DEF ExecutionInv, ContextOK, Sides
<1>4. \/ context' = context
      \/ \E d \in Sides : context[d] = "active" /\ context' = [context EXCEPT ![d] = "lost"]
  BY <1>1, <1>2, <1>3
<1> QED BY <1>1, <1>4, CodesAreSome, ErrorKeeps DEF Acquiring

(* cuts that are not aligned,                                              *)
LEMMA CutNotAlignedKeeps ==
    ASSUME ExecutionInv, CutNotAligned
    PROVE  ExecutionInv'
BY CodesAreSome, ErrorKeeps DEF CutNotAligned, Acquiring

(* and a comparison that cannot be lowered.                                *)
LEMMA CompareNotLoweredKeeps ==
    ASSUME ExecutionInv, CompareNotLowered
    PROVE  ExecutionInv'
BY CodesAreSome, ErrorKeeps DEF CompareNotLowered, Acquiring

(* The rows of the running attempt stay consistent while a side is opened. *)
LEMMA AcquisitionRows ==
    ASSUME ExecutionInv, pc \in Acquiring, NEW a, NEW cut, RowStep(a, cut, store.selected),
           a.status = "running", pc' \in Acquiring,
           a.closure_evidence = Current.closure_evidence,
           \A d \in Sides : a.contexts[d] \in {"absent", "active"},
           IF a.input_cut = None THEN a.observations = {}
           ELSE a.observations = Sides /\ cut = a.input_cut,
           pc' = "compare" <=> a.input_cut # None
    PROVE  RowsOK' /\ Ordinal' = Ordinal /\ Current' = a /\ store' \in Store
<1>1. /\ Ordinal' = Ordinal /\ Current' = a /\ store'.selected = store.selected
      /\ store'.bound_cut = cut /\ store' \in Store
      /\ Ordinal \in Nat
  BY DEF RowStep, ExecutionInv, StateType, Store, Ordinal
<1>2. Ordinal > 0 /\ Current.closure_evidence = {}
  BY AcquiringRow
<1>3. /\ store.selected = 0
      /\ \A k \in 1..Ordinal : store.attempts[k].status = "running" => k = Ordinal
  BY DEF ExecutionInv, RowsOK, Acquiring
<1>4. \A k \in (1..Ordinal)' :
         store'.attempts[k].status = "running" => k = Ordinal' /\ pc' # "start"
  BY <1>1, <1>3 DEF RowStep, Acquiring
<1>5. Current'.closure_evidence = {d \in store'.clickhouse : Current'.contexts[d] = "closed"}
  <2>1. store'.clickhouse \subseteq Sides
    BY <1>1, ExecutionAssumption DEF Store
  <2> QED BY <1>1, <1>2, <2>1
<1> QED BY <1>1, <1>2, <1>3, <1>4, <1>5 DEF RowsOK, Running, Acquiring

(* A side that is opened is active before it is stored.                    *)
LEMMA OpenSideKeeps ==
    ASSUME ExecutionInv, OpenSide
    PROVE  ExecutionInv'
<1>1. /\ pc = "open" /\ pc' = "persist" /\ context' = [context EXCEPT ![side] = "active"]
      /\ side' = side /\ receipt' = receipt /\ artifact' = artifact /\ failure' = failure
      /\ cleanup' = cleanup /\ ending' = ending /\ broken' = broken /\ store' = store
      /\ reply' = reply
  BY DEF OpenSide
<1>2. /\ StateType /\ Ordinal > 0 /\ Current \in Attempt /\ Current.status = "running"
      /\ \A d \in Sides : Current.contexts[d] = IF d \in receipt THEN "active" ELSE "absent"
      /\ IF Current.input_cut = None THEN Current.observations = {}
         ELSE Current.observations = Sides /\ store.bound_cut = Current.input_cut
      /\ ~broken /\ cleanup = None /\ artifact = None /\ failure = None
  BY <1>1, AcquiringRow DEF Acquiring
<1>3. RowStep(Current, store.bound_cut, store.selected)
  BY <1>1, <1>2, RowUnchanged
<1>4. Current.input_cut = None
  BY <1>1 DEF ExecutionInv, RowsOK
<1>5. RowsOK' /\ Ordinal' = Ordinal /\ Current' = Current /\ store' \in Store
  BY <1>1, <1>2, <1>3, <1>4, AcquisitionRows DEF Acquiring
<1>6. StateType'
  BY <1>1, <1>2, <1>5 DEF StateType, ContextStates, Steps
<1>7. ContextOK'
  BY <1>1, <1>2 DEF ExecutionInv, StateType, ContextOK, Releasing, Sides
<1>8. ReceiptOK'
  BY <1>1, <1>2, <1>5 DEF ExecutionInv, ReceiptOK, Releasing, Acquiring, StoredAs
<1>9. CleanupOK' /\ FailureOK' /\ ReplyOK'
  BY <1>1, <1>2 DEF ExecutionInv, CleanupOK, FailureOK, ReplyOK, Releasing, Acquiring
<1> QED BY <1>5, <1>6, <1>7, <1>8, <1>9 DEF ExecutionInv

(* Reading the readiness changes only what comes next.                     *)
LEMMA ReadReadinessKeeps ==
    ASSUME ExecutionInv, ReadReadiness
    PROVE  ExecutionInv'
<1>1. /\ pc = "ready" /\ pc' = IF side = "reference" THEN "open" ELSE "align"
      /\ side' = "target" /\ context' = context
      /\ receipt' = receipt /\ artifact' = artifact /\ failure' = failure
      /\ cleanup' = cleanup /\ ending' = ending /\ broken' = broken /\ store' = store
      /\ reply' = reply
  BY DEF ReadReadiness
<1>2. /\ StateType /\ Ordinal > 0 /\ Current \in Attempt /\ Current.status = "running"
      /\ \A d \in Sides : Current.contexts[d] = IF d \in receipt THEN "active" ELSE "absent"
      /\ IF Current.input_cut = None THEN Current.observations = {}
         ELSE Current.observations = Sides /\ store.bound_cut = Current.input_cut
      /\ ~broken /\ cleanup = None /\ artifact = None /\ failure = None
  BY <1>1, AcquiringRow DEF Acquiring
<1>3. RowStep(Current, store.bound_cut, store.selected)
  BY <1>1, <1>2, RowUnchanged
<1>4. Current.input_cut = None
  BY <1>1 DEF ExecutionInv, RowsOK
<1>5. RowsOK' /\ Ordinal' = Ordinal /\ Current' = Current /\ store' \in Store
  BY <1>1, <1>2, <1>3, <1>4, AcquisitionRows DEF Acquiring
<1>6. StateType'
  BY <1>1, <1>2, <1>5 DEF StateType, Sides, Steps
<1>7. ContextOK'
  BY <1>1, <1>2 DEF ExecutionInv, StateType, ContextOK, Releasing, Sides
<1>8. ReceiptOK'
  BY <1>1, <1>2, <1>5 DEF ExecutionInv, StateType, ReceiptOK, Releasing, Acquiring, StoredAs, Sides
<1>9. CleanupOK' /\ FailureOK' /\ ReplyOK'
  BY <1>1, <1>2 DEF ExecutionInv, CleanupOK, FailureOK, ReplyOK, Releasing, Acquiring
<1> QED BY <1>5, <1>6, <1>7, <1>8, <1>9 DEF ExecutionInv

(* Storing a context, or raising with it stored or not.                    *)
LEMMA PersistContextKeeps ==
    ASSUME ExecutionInv, PersistContext
    PROVE  ExecutionInv'
<1> DEFINE a == [Current EXCEPT !.contexts[side] = "active"]
<1> DEFINE rows == WithCurrent(a)
<1>1. /\ pc = "persist"
      /\ \/ /\ store' = rows /\ pc' = "ready" /\ receipt' = receipt \cup {side}
            /\ side' = side /\ context' = context /\ artifact' = artifact /\ failure' = failure
            /\ cleanup' = cleanup /\ ending' = ending /\ broken' = broken /\ reply' = reply
         \/ store' \in {store, rows} /\ RaiseAfterCleanup
  BY DEF PersistContext
<1>2. /\ StateType /\ Ordinal > 0 /\ Current \in Attempt /\ Current.status = "running"
      /\ \A d \in Sides : Current.contexts[d] = IF d \in receipt THEN "active" ELSE "absent"
      /\ IF Current.input_cut = None THEN Current.observations = {}
         ELSE Current.observations = Sides /\ store.bound_cut = Current.input_cut
      /\ Current.input_cut # None => receipt = Sides
      /\ ~broken /\ cleanup = None /\ artifact = None /\ failure = None
  BY <1>1, AcquiringRow DEF Acquiring
<1>3. side \in Sides /\ receipt \subseteq Sides
  BY <1>2 DEF StateType
<1>4. /\ a \in Attempt /\ a.status = "running" /\ a.closure_evidence = Current.closure_evidence
      /\ a.input_cut = Current.input_cut /\ a.observations = Current.observations
      /\ a.contexts = [Current.contexts EXCEPT ![side] = "active"]
  BY <1>2, <1>3 DEF Attempt, ContextStates
<1>5. /\ \A d \in Sides : a.contexts[d] = IF d \in receipt \cup {side} THEN "active" ELSE "absent"
      /\ \A d \in Sides : a.contexts[d] \in {"absent", "active"}
      /\ \A d \in Sides : Current.contexts[d] \in {"absent", "active"}
  <2>1. Current.contexts \in [Sides -> ContextStates]
    BY <1>2 DEF Attempt
  <2> HIDE DEF a
  <2> QED BY <1>2, <1>3, <1>4, <2>1
<1> HIDE DEF a
<1>6. store' = rows => RowStep(a, store.bound_cut, store.selected)
  BY <1>2, <1>4, RowWritten
<1>7. store' = store => RowStep(Current, store.bound_cut, store.selected)
  BY <1>2, RowUnchanged
<1> HIDE DEF rows
<1>8. CASE RaiseAfterCleanup /\ store' = store
  BY <1>1, <1>2, <1>5, <1>7, <1>8, RaiseKeeps DEF Acquiring
<1>9. CASE RaiseAfterCleanup /\ store' = rows
  <2>1. RowStep(a, store.bound_cut, store.selected) /\ pc \in Acquiring
    BY <1>1, <1>6, <1>9 DEF Acquiring
  <2>2. IF a.input_cut = None THEN a.observations = {}
        ELSE a.observations = Sides /\ store.bound_cut = a.input_cut
    BY <1>2, <1>4
  <2>3. /\ a.status = "running" /\ a.closure_evidence = Current.closure_evidence
        /\ \A d \in Sides : a.contexts[d] \in {"absent", "active"}
    BY <1>4, <1>5
  <2> QED BY <1>9, <2>1, <2>2, <2>3, RaiseKeeps
<1>10. CASE /\ store' = rows /\ pc' = "ready" /\ receipt' = receipt \cup {side}
            /\ side' = side /\ context' = context /\ artifact' = artifact /\ failure' = failure
            /\ cleanup' = cleanup /\ ending' = ending /\ broken' = broken /\ reply' = reply
  <2>1. Current.input_cut = None
    BY <1>1 DEF ExecutionInv, RowsOK
  <2>2. RowsOK' /\ Ordinal' = Ordinal /\ Current' = a /\ store' \in Store
    BY <1>1, <1>2, <1>4, <1>5, <1>6, <1>10, <2>1, AcquisitionRows DEF Acquiring
  <2>3. StateType'
    BY <1>2, <1>3, <1>10, <2>2 DEF StateType, Steps
  <2>4. ContextOK'
    BY <1>1, <1>10 DEF ExecutionInv, ContextOK, Releasing
  <2>5. ReceiptOK'
    <3>1. receipt = IF side = "reference" THEN {} ELSE {"reference"}
      BY <1>1 DEF ExecutionInv, ReceiptOK
    <3>2. receipt' = IF side = "reference" THEN {"reference"} ELSE Sides
      BY <1>3, <1>10, <3>1 DEF Sides
    <3>3. \A d \in Sides : Current'.contexts[d] = IF d \in receipt' THEN "active" ELSE "absent"
      BY <1>5, <1>10, <2>2
    <3> QED BY <1>2, <1>10, <3>2, <3>3 DEF ReceiptOK, Releasing, Acquiring, StoredAs
  <2>6. CleanupOK' /\ FailureOK' /\ ReplyOK'
    BY <1>1, <1>2, <1>10 DEF ExecutionInv, CleanupOK, FailureOK, ReplyOK, Releasing, Acquiring
  <2> QED BY <2>2, <2>3, <2>4, <2>5, <2>6 DEF ExecutionInv
<1> QED BY <1>1, <1>8, <1>9, <1>10

(* Binding the cut with both observations, or raising with them stored or  *)
(* not.                                                                    *)
LEMMA PersistCutKeeps ==
    ASSUME ExecutionInv, NEW cut \in Cuts, PersistCut(cut)
    PROVE  ExecutionInv'
<1> DEFINE a == [Current EXCEPT !.input_cut = cut, !.observations = Sides]
<1> DEFINE rows == [WithCurrent(a) EXCEPT !.bound_cut = cut]
<1>1. /\ pc = "align"
      /\ \/ /\ store' = rows /\ pc' = "compare"
            /\ side' = side /\ context' = context /\ receipt' = receipt
            /\ artifact' = artifact /\ failure' = failure
            /\ cleanup' = cleanup /\ ending' = ending /\ broken' = broken /\ reply' = reply
         \/ store' \in {store, rows} /\ RaiseAfterCleanup
  BY DEF PersistCut, attemptVars
<1>2. /\ StateType /\ Ordinal > 0 /\ Current \in Attempt /\ Current.status = "running"
      /\ \A d \in Sides : Current.contexts[d] = IF d \in receipt THEN "active" ELSE "absent"
      /\ IF Current.input_cut = None THEN Current.observations = {}
         ELSE Current.observations = Sides /\ store.bound_cut = Current.input_cut
      /\ ~broken /\ cleanup = None /\ artifact = None /\ failure = None
  BY <1>1, AcquiringRow DEF Acquiring
<1>3. cut # None
  BY ExecutionAssumption
<1>4. /\ a \in Attempt /\ a.status = "running" /\ a.closure_evidence = Current.closure_evidence
      /\ a.input_cut = cut /\ a.observations = Sides /\ a.contexts = Current.contexts
  BY <1>2 DEF Attempt
<1>5. \A d \in Sides : Current.contexts[d] \in {"absent", "active"}
  BY <1>2
<1> HIDE DEF a
<1>6. store' = rows => RowStep(a, cut, store.selected)
  BY <1>2, <1>4, RowBound
<1>7. store' = store => RowStep(Current, store.bound_cut, store.selected)
  BY <1>2, RowUnchanged
<1> HIDE DEF rows
<1>8. CASE RaiseAfterCleanup /\ store' = store
  BY <1>1, <1>2, <1>5, <1>7, <1>8, RaiseKeeps DEF Acquiring
<1>9. CASE RaiseAfterCleanup /\ store' = rows
  BY <1>1, <1>2, <1>3, <1>4, <1>5, <1>6, <1>9, RaiseKeeps DEF Acquiring
<1>10. CASE /\ store' = rows /\ pc' = "compare"
            /\ side' = side /\ context' = context /\ receipt' = receipt
            /\ artifact' = artifact /\ failure' = failure
            /\ cleanup' = cleanup /\ ending' = ending /\ broken' = broken /\ reply' = reply
  <2>1. RowsOK' /\ Ordinal' = Ordinal /\ Current' = a /\ store' \in Store
    BY <1>1, <1>2, <1>3, <1>4, <1>5, <1>6, <1>10, AcquisitionRows DEF Acquiring
  <2>2. StateType'
    BY <1>2, <1>10, <2>1 DEF StateType, Steps
  <2>3. ContextOK'
    BY <1>1, <1>10 DEF ExecutionInv, ContextOK, Releasing
  <2>4. ReceiptOK'
    <3>1. receipt = Sides
      BY <1>1 DEF ExecutionInv, ReceiptOK
    <3> QED BY <1>2, <1>4, <1>10, <2>1, <3>1 DEF ReceiptOK, Releasing, Acquiring, StoredAs
  <2>5. CleanupOK' /\ FailureOK' /\ ReplyOK'
    BY <1>1, <1>2, <1>10 DEF ExecutionInv, CleanupOK, FailureOK, ReplyOK, Releasing, Acquiring
  <2> QED BY <2>1, <2>2, <2>3, <2>4, <2>5 DEF ExecutionInv
<1> QED BY <1>1, <1>8, <1>9, <1>10

-----------------------------------------------------------------------------
(* Comparison.                                                             *)

(* While both contexts are active the reads are stable: asserted with a    *)
(* ClickHouse side, verified without (_comparison_stable_read_level).      *)
LEMMA StableWhileActive ==
    ASSUME \A d \in Sides : context[d] = "active"
    PROVE  StableReadLevel(context) = IF ClickHouseSides = {} THEN "verified" ELSE "asserted"
BY DEF StableReadLevel

(* A completed comparison was read under stable contexts.                  *)
LEMMA CompareCompletesKeeps ==
    ASSUME ExecutionInv, NEW verdict \in {"match", "mismatch"}, NEW structural \in BOOLEAN,
           CompareCompletes(verdict, structural)
    PROVE  ExecutionInv'
<1>1. /\ pc = "compare" /\ structural => verdict = "mismatch"
  BY DEF CompareCompletes
<1>2. /\ pc = "compare" /\ BeginCleanup
      /\ artifact' = [verdict |-> verdict, structural |-> structural,
                      stable_reads |-> StableReadLevel(context)]
      /\ context' = context /\ receipt' = receipt /\ failure' = failure /\ cleanup' = cleanup
      /\ ending' = ending /\ broken' = broken /\ store' = store /\ reply' = reply
  BY DEF CompareCompletes
<1>3. /\ StateType /\ Ordinal > 0 /\ Current.status = "running"
      /\ \A d \in Sides : Current.contexts[d] = IF d \in receipt THEN "active" ELSE "absent"
      /\ IF Current.input_cut = None THEN Current.observations = {}
         ELSE Current.observations = Sides /\ store.bound_cut = Current.input_cut
      /\ Current.input_cut # None => receipt = Sides
      /\ ~broken /\ failure = None
  BY <1>2, AcquiringRow DEF Acquiring
<1>4. Current.input_cut # None /\ \A d \in Sides : context[d] = "active"
  BY <1>2 DEF ExecutionInv, RowsOK, ContextOK
<1>5. StableReadLevel(context) = IF ClickHouseSides = {} THEN "verified" ELSE "asserted"
  BY <1>4, StableWhileActive
<1>6. artifact' \in Artifacts
  BY <1>2, <1>5 DEF Artifacts, StableReads
<1>7. Comparison'
  <2>1. artifact'.structural => artifact'.verdict = "mismatch"
    BY <1>2 DEF CompareCompletes
  <2>2. ClickHouseSides' = ClickHouseSides /\ Current' = Current
    BY <1>2 DEF ClickHouseSides, Current, Ordinal
  <2>3. artifact'.stable_reads = IF ClickHouseSides' = {} THEN "verified" ELSE "asserted"
    BY <1>2, <1>5, <2>2
  <2> QED BY <1>2, <1>3, <1>4, <1>6, <2>1, <2>2, <2>3 DEF Comparison
<1>8. FailureOK'
  <2>1. pc' \in {"settle", "close"}
    BY <1>2 DEF BeginCleanup
  <2>2. artifact' # None
    BY <1>6, NoneAssumption
  <2> QED BY <1>2, <1>3, <1>6, <1>7, <2>1, <2>2 DEF FailureOK, Acquiring, Releasing
<1>9. RowStep(Current, store.bound_cut, store.selected)
  BY <1>2, <1>3, RowUnchanged
<1>10. broken' \in BOOLEAN /\ \A d \in Sides : Current.contexts[d] \in {"absent", "active"}
  BY <1>2, <1>3 DEF StateType
<1> QED BY <1>2, <1>3, <1>8, <1>9, <1>10, CleanupBegins DEF Acquiring

(* An interrupted one keeps what it established; a contract violation is   *)
(* only met while both contexts are active.                                *)
LEMMA CompareInterruptedKeeps ==
    ASSUME ExecutionInv, NEW code \in SourceErrorCodes \cup {"lossy_transport"},
           NEW progress \in Progress, NEW lost \in Sides \cup {None}, NEW contract \in BOOLEAN,
           NEW unresolved \in UnresolvedCodes(code, lost),
           CompareInterrupted(code, progress, lost, unresolved, contract)
    PROVE  ExecutionInv'
<1> DEFINE level == StableReadLevel(context')
<1> DEFINE f == FailureFromComparisonInterruption(code,
                   InterruptedPartial(progress, level, unresolved, contract), contract)
<1>1. /\ pc = "compare"
      /\ contract => code = "lossy_transport" /\ progress = "summarised" /\ lost = None
      /\ context' = IF lost = None THEN context ELSE [context EXCEPT ![lost] = "lost"]
      /\ Fail(f)
  BY DEF CompareInterrupted
<1>2. /\ Current.input_cut # None /\ \A d \in Sides : context[d] = "active"
      /\ context \in [Sides -> ContextStates]
  BY <1>1 DEF ExecutionInv, RowsOK, ContextOK, StateType
<1>3. \/ context' = context
      \/ \E d \in Sides : context[d] = "active" /\ context' = [context EXCEPT ![d] = "lost"]
  BY <1>1, <1>2
<1>5. /\ level \in StableReads
      /\ level = "verified" => ClickHouseSides = {}
      /\ level = "asserted" => ClickHouseSides # {}
      /\ contract => level # "unknown"
  <2>1. CASE \A d \in Sides : context'[d] = "active"
    BY <2>1 DEF StableReadLevel, StableReads
  <2>2. CASE \E d \in Sides : context'[d] # "active"
    <3>1. ~contract
      BY <1>1, <1>2, <2>2
    <3> QED BY <2>2, <3>1 DEF StableReadLevel, StableReads
  <2> QED BY <2>1, <2>2
<1>6. /\ code \in Codes /\ unresolved \in {code, "cancelled", "cancellation_unconfirmed"}
  BY CodesAreSome DEF UnresolvedCodes
<1> HIDE DEF level
<1>7. Interrupted(f)
  BY <1>1, <1>5, <1>6 DEF Interrupted
<1> HIDE DEF f
<1>8. f \in Failures
  BY <1>7, InterruptionSays
<1>9. f # None /\ FailureBefore(f)
  BY <1>2, <1>7, <1>8, NoneAssumption DEF FailureBefore
<1> QED BY <1>1, <1>3, <1>9, FailKeeps DEF Acquiring

-----------------------------------------------------------------------------
(* Release of contexts.                                                    *)

(* A context lost for one reason,                                          *)
LEMMA OneCodeIsClean ==
    ASSUME NEW code \in Codes, NEW operation \in Operations
    PROVE  /\ CleanOK([reason |-> Reason(code, operation), additional |-> {}])
           /\ Reason(code, operation) # None
<1> DEFINE r == Reason(code, operation)
<1> DEFINE c == [reason |-> r, additional |-> {}]
<1>1. r \in Reasons /\ r.code = code
  BY DEF Reason, Reasons, ReasonCodes, Codes
<1>2. r # None
  BY <1>1, NoneAssumption
<1> HIDE DEF r
<1>3. c \in CleanupFailures
  BY <1>1 DEF CleanupFailures
<1>4. c.reason = r /\ CodesOf(AllReasons(c)) = {code}
  BY <1>1 DEF AllReasons, CodesOf
<1> HIDE DEF c
<1>5. CleanOK(c)
  BY <1>1, <1>3, <1>4 DEF CleanOK
<1> QED BY <1>2, <1>5 DEF r, c

(* or for the two of a ClickHouse confirmation, is a failure of the        *)
(* release.                                                                *)
LEMMA TwoCodesAreClean ==
    ASSUME NEW code \in {"not_ready", "cut_mismatch"}
    PROVE  /\ CleanOK([reason |-> Reason("snapshot_lost", "confirm"),
                       additional |-> {Reason(code, "confirm")}])
           /\ Reason("snapshot_lost", "confirm") # None
<1> DEFINE r == Reason("snapshot_lost", "confirm")
<1> DEFINE x == Reason(code, "confirm")
<1> DEFINE c == [reason |-> r, additional |-> {x}]
<1>1. r \in Reasons /\ x \in Reasons /\ r.code = "snapshot_lost" /\ x.code = code
  BY DEF Reason, Reasons, ReasonCodes, IncompleteCodes, Operations
<1>2. r # None
  BY <1>1, NoneAssumption
<1> HIDE DEF r, x
<1>3. c \in CleanupFailures
  BY <1>1 DEF CleanupFailures
<1>4. c.reason = r /\ CodesOf(AllReasons(c)) = {"snapshot_lost", code}
  BY <1>1 DEF AllReasons, CodesOf
<1>5. {"snapshot_lost", code} \subseteq IncompleteCodes
  BY DEF IncompleteCodes
<1> HIDE DEF c
<1>6. CleanOK(c)
  BY <1>1, <1>3, <1>4, <1>5, CodeSets DEF CleanOK
<1> QED BY <1>2, <1>6 DEF r, x, c

(* A context closes cleanly, or is lost for a reason.                      *)
LEMMA CloseOutcomesAre ==
    ASSUME NEW d \in Sides, NEW state \in {"active", "lost"}, NEW o \in CloseOutcomes(d, state)
    PROVE  \/ o.end = "closed" /\ o.reason = None
           \/ /\ o.end = "lost" /\ o.reason # None
              /\ CleanOK([reason |-> o.reason, additional |-> o.additional])
<1> DEFINE Lost(r, a) == Outcome("lost", r, a)
<1>1. \/ o = CleanClose
      \/ \E code \in Codes, operation \in Operations : o = Lost(Reason(code, operation), {})
      \/ \E code \in {"not_ready", "cut_mismatch"} :
            o = Lost(Reason("snapshot_lost", "confirm"), {Reason(code, "confirm")})
  <2>1. /\ {"snapshot_lost", "cancellation_unconfirmed", "budget_exhausted",
            "unsupported_capability", "protocol_violation", "query_error"} \subseteq Codes
        /\ {"close_read_context", "confirm", "cancel_query"} \subseteq Operations
    BY DEF Codes, IncompleteCodes, ErrorCodes, Operations
  <2>2. CASE d \in ClickHouseSides /\ state = "active"
    BY <2>1, <2>2 DEF CloseOutcomes, CleanupUncertain
  <2>3. CASE d \in ClickHouseSides /\ state = "lost"
    BY <2>1, <2>3 DEF CloseOutcomes, CleanupUncertain, ContextLoss
  <2>4. CASE d \notin ClickHouseSides /\ state = "active"
    BY <2>1, <2>4 DEF CloseOutcomes, ContextLoss
  <2>5. CASE d \notin ClickHouseSides /\ state = "lost"
    BY <2>1, <2>5 DEF CloseOutcomes, ContextLoss
  <2> QED BY <2>2, <2>3, <2>4, <2>5
<1>2. CASE o = CleanClose
  BY <1>2 DEF CleanClose, Outcome
<1>3. ASSUME NEW code \in Codes, NEW operation \in Operations,
             o = Lost(Reason(code, operation), {})
      PROVE  /\ o.end = "lost" /\ o.reason # None
             /\ CleanOK([reason |-> o.reason, additional |-> o.additional])
  <2>1. o.end = "lost" /\ o.reason = Reason(code, operation) /\ o.additional = {}
    BY <1>3 DEF Outcome
  <2> QED BY <2>1, OneCodeIsClean
<1>4. ASSUME NEW code \in {"not_ready", "cut_mismatch"},
             o = Lost(Reason("snapshot_lost", "confirm"), {Reason(code, "confirm")})
      PROVE  /\ o.end = "lost" /\ o.reason # None
             /\ CleanOK([reason |-> o.reason, additional |-> o.additional])
  <2>1. /\ o.end = "lost" /\ o.reason = Reason("snapshot_lost", "confirm")
        /\ o.additional = {Reason(code, "confirm")}
    BY <1>4 DEF Outcome
  <2> QED BY <2>1, TwoCodesAreClean
<1> QED BY <1>1, <1>2, <1>3, <1>4

(* Combining two failures of the release keeps an error in front           *)
(* (_combine_cleanup_failures): when the second takes the lead or when it  *)
(* does not, no error is left behind a reason that is not one.             *)
LEMMA CombinationIsClean ==
    ASSUME NEW current, current = None \/ CleanOK(current), NEW candidate, CleanOK(candidate)
    PROVE  CleanOK(CombineCleanupFailures(current, candidate))
<1> DEFINE Led(first, second) ==
      [reason |-> first.reason, additional |-> first.additional \cup AllReasons(second)]
<1>1. ASSUME NEW x, NEW y, CleanOK(x), CleanOK(y),
             Told(y) \cap ErrorCodes # {} => x.reason.code \in ErrorCodes
      PROVE  CleanOK(Led(x, y))
  <2>1. /\ x.reason \in Reasons /\ x.additional \subseteq Reasons
        /\ y.reason \in Reasons /\ y.additional \subseteq Reasons
        /\ Told(x) \subseteq Codes /\ Told(y) \subseteq Codes
    BY <1>1, CleanCodes DEF CleanOK, CleanupFailures
  <2>2. Led(x, y) \in CleanupFailures /\ Led(x, y).reason = x.reason
    BY <2>1 DEF CleanupFailures, AllReasons
  <2>3. CodesOf(AllReasons(Led(x, y))) = Told(x) \cup Told(y)
    <3>1. AllReasons(Led(x, y)) = AllReasons(x) \cup AllReasons(y)
      BY DEF AllReasons
    <3> HIDE DEF Led
    <3> QED BY <3>1, CodesOfUnion DEF Told
  <2>4. Told(x) \cap ErrorCodes # {} => x.reason.code \in ErrorCodes
    BY <1>1, CleanCodes
  <2> HIDE DEF Led
  <2> QED BY <1>1, <2>1, <2>2, <2>3, <2>4 DEF CleanOK
<1>2. CASE current = None
  BY <1>2 DEF CombineCleanupFailures
<1>3. CASE current # None /\ CleanupFailureDominates(candidate, current)
  <2>1. CombineCleanupFailures(current, candidate) = Led(candidate, current)
    BY <1>3 DEF CombineCleanupFailures
  <2>2. {"snapshot_lost", "cancellation_unconfirmed"} \cap ErrorCodes = {}
    BY DEF ErrorCodes
  <2>3. Told(current) \cap ErrorCodes # {} => candidate.reason.code \in ErrorCodes
    <3>1. CleanOK(current)
      BY <1>3
    <3>2. CASE current.reason.code = "snapshot_lost"
      BY <2>2, <3>1, <3>2, CleanCodes
    <3>3. CASE current.reason = Reason("snapshot_lost", "close_read_context")
      BY <3>2, <3>3 DEF Reason
    <3>4. CASE ExecutionStatusForCleanupFailure(candidate) = "error"
      BY <3>4, CleanCodes
    <3> QED BY <1>3, <3>2, <3>3, <3>4 DEF CleanupFailureDominates
  <2> HIDE DEF Led
  <2> QED BY <1>1, <1>3, <2>1, <2>3
<1>4. CASE current # None /\ ~CleanupFailureDominates(candidate, current)
  <2>1. CombineCleanupFailures(current, candidate) = Led(current, candidate)
    BY <1>4 DEF CombineCleanupFailures
  <2>2. Told(candidate) \cap ErrorCodes # {} => current.reason.code \in ErrorCodes
    BY <1>4, CleanCodes DEF CleanupFailureDominates
  <2> HIDE DEF Led
  <2> QED BY <1>1, <1>4, <2>1, <2>2
<1> QED BY <1>2, <1>3, <1>4

(* The rows of an attempt whose contexts are being released.               *)
LEMMA ReleasingRow ==
    ASSUME ExecutionInv, pc \in Releasing
    PROVE  /\ StateType /\ Ordinal > 0 /\ Current \in Attempt /\ Current.status = "running"
           /\ side \in Sides /\ receipt \subseteq Sides /\ context \in [Sides -> ContextStates]
           /\ \A d \in {side, "target"} : Current.contexts[d] \in {"absent", "active"}
           /\ ~broken => \A d \in {side, "target"} : StoredAs(d, "active")
           /\ side = "target" /\ ~broken => StoredAs("reference", context["reference"])
           /\ \A d \in receipt : context[d] # "absent"
           /\ ~broken /\ Current.input_cut # None => receipt = Sides
           /\ IF side = "reference" THEN context["target"] \in {"absent", "active", "lost"}
              ELSE context["reference"] \in {"closed", "lost"}
           /\ cleanup = None \/ CleanOK(cleanup)
           /\ cleanup = None /\ side = "target" => context["reference"] = "closed"
<1>1. StateType /\ Ordinal > 0 /\ Current.status = "running"
  BY DEF ExecutionInv, RowsOK, Running
<1>2. Current \in Attempt
  BY <1>1, CurrentType
<1>3. /\ \A d \in {side, "target"} : Current.contexts[d] \in {"absent", "active"}
      /\ ~broken => \A d \in {side, "target"} : StoredAs(d, "active")
      /\ side = "target" /\ ~broken => StoredAs("reference", context["reference"])
      /\ \A d \in receipt : context[d] # "absent"
      /\ ~broken /\ Current.input_cut # None => receipt = Sides
  BY DEF ExecutionInv, ReceiptOK
<1>4. /\ IF side = "reference" THEN context["target"] \in {"absent", "active", "lost"}
         ELSE context["reference"] \in {"closed", "lost"}
      /\ cleanup = None \/ CleanOK(cleanup)
      /\ cleanup = None /\ side = "target" => context["reference"] = "closed"
  BY DEF ExecutionInv, ContextOK, CleanupOK
<1> QED BY <1>1, <1>2, <1>3, <1>4 DEF StateType

(* What the attempt came to waits for the release of its contexts.         *)
LEMMA FailureWaits ==
    ASSUME ExecutionInv, pc \in Releasing, pc' \in Releasing \cup {"settle"},
           artifact' = artifact, failure' = failure, ClickHouseSides' = ClickHouseSides,
           Current'.input_cut = Current.input_cut, ~broken' => ~broken
    PROVE  FailureOK'
<1>1. /\ artifact # None => Comparison
      /\ failure # None => artifact = None /\ FailureBefore(failure)
      /\ ~broken => artifact # None \/ failure # None
      /\ artifact = None \/ artifact \in Artifacts
      /\ failure = None \/ failure \in Failures
  BY DEF ExecutionInv, FailureOK
<1>2. Comparison => Comparison'
  BY DEF Comparison
<1>3. FailureBefore(failure) => FailureBefore(failure)'
  BY DEF FailureBefore, Interrupted
<1> QED BY <1>1, <1>2, <1>3 DEF FailureOK, Acquiring, Releasing

(* Closing a context, cleanly or not.                                      *)
LEMMA CloseResourceKeeps ==
    ASSUME ExecutionInv, NEW o, CloseResource(o)
    PROVE  ExecutionInv'
<1>1. /\ pc = "close" /\ o \in CloseOutcomes(side, context[side])
      /\ context' = [context EXCEPT ![side] = o.end] /\ ending' = o.end
      /\ cleanup' = IF o.reason = None THEN cleanup
                    ELSE CombineCleanupFailures(cleanup, [reason |-> o.reason,
                                                          additional |-> o.additional])
      /\ IF side \in receipt THEN pc' = "record_end" /\ side' = side ELSE AfterResource
      /\ receipt' = receipt /\ artifact' = artifact /\ failure' = failure /\ broken' = broken
      /\ store' = store /\ reply' = reply
  BY DEF CloseResource
<1>2. /\ StateType /\ Ordinal > 0 /\ Current \in Attempt /\ Current.status = "running"
      /\ side \in Sides /\ receipt \subseteq Sides /\ context \in [Sides -> ContextStates]
      /\ \A d \in {side, "target"} : Current.contexts[d] \in {"absent", "active"}
      /\ ~broken => \A d \in {side, "target"} : StoredAs(d, "active")
      /\ side = "target" /\ ~broken => StoredAs("reference", context["reference"])
      /\ \A d \in receipt : context[d] # "absent"
      /\ ~broken /\ Current.input_cut # None => receipt = Sides
      /\ IF side = "reference" THEN context["target"] \in {"absent", "active", "lost"}
         ELSE context["reference"] \in {"closed", "lost"}
      /\ cleanup = None \/ CleanOK(cleanup)
      /\ cleanup = None /\ side = "target" => context["reference"] = "closed"
  BY <1>1, ReleasingRow DEF Releasing
<1>3. context[side] \in {"active", "lost"}
  BY <1>1 DEF ExecutionInv, ContextOK
<1>4. \/ o.end = "closed" /\ o.reason = None
      \/ /\ o.end = "lost" /\ o.reason # None
         /\ CleanOK([reason |-> o.reason, additional |-> o.additional])
  BY <1>1, <1>2, <1>3, CloseOutcomesAre
<1>5. /\ cleanup' = None \/ CleanOK(cleanup')
      /\ cleanup' = None => cleanup = None /\ o.end = "closed"
  <2>1. CASE o.reason = None
    BY <1>1, <1>2, <1>4, <2>1
  <2>2. CASE o.reason # None
    <3>1. CleanOK(cleanup')
      BY <1>1, <1>2, <1>4, <2>2, CombinationIsClean
    <3>2. cleanup' # None
      BY <3>1, NoneAssumption DEF CleanOK
    <3> QED BY <3>1, <3>2
  <2> QED BY <2>1, <2>2
<1>6. /\ context'[side] = o.end /\ o.end \in {"closed", "lost"}
      /\ context' \in [Sides -> ContextStates]
      /\ \A d \in Sides : d # side => context'[d] = context[d]
  BY <1>1, <1>2, <1>4 DEF ContextStates
<1>7. \/ pc' = "record_end" /\ side' = side /\ side \in receipt
      \/ /\ side \notin receipt /\ pc' = "close" /\ side = "reference" /\ side' = "target"
         /\ context["target"] # "absent"
      \/ /\ side \notin receipt /\ pc' = "settle" /\ side' = side
         /\ side = "reference" => context["target"] = "absent"
  BY <1>1 DEF AfterResource
<1>8. Ordinal' = Ordinal /\ Current' = Current /\ ClickHouseSides' = ClickHouseSides
  BY <1>1 DEF Ordinal, Current, ClickHouseSides
<1>9. pc' \in Releasing \cup {"settle"}
  BY <1>7 DEF Releasing
<1>10. StateType'
  BY <1>1, <1>2, <1>4, <1>6, <1>7, <1>8 DEF StateType, Sides, Steps
<1>11. RowsOK'
  <2>1. pc' \in {"record_end", "close", "settle"}
    BY <1>7
  <2>2. \A d \in Sides : Current.contexts[d] = "closed" => context'[d] = "closed"
    <3>1. \A d \in Sides : Current.contexts[d] = "closed" => context[d] = "closed"
      BY <1>2 DEF ExecutionInv, RowsOK
    <3> QED BY <1>2, <1>6, <3>1
  <2> QED BY <1>1, <1>2, <1>8, <2>1, <2>2 DEF ExecutionInv, RowsOK, Running, Acquiring, Releasing
<1>12. ContextOK'
  <2>1. CASE pc' = "record_end" /\ side' = side /\ side \in receipt
    BY <1>1, <1>2, <1>6, <2>1 DEF ContextOK, Releasing, Sides
  <2>2. CASE /\ side \notin receipt /\ pc' = "close" /\ side = "reference" /\ side' = "target"
             /\ context["target"] # "absent"
    BY <1>1, <1>2, <1>6, <2>2 DEF ContextOK, Releasing, Sides
  <2>3. CASE /\ side \notin receipt /\ pc' = "settle" /\ side' = side
             /\ side = "reference" => context["target"] = "absent"
    BY <1>1, <1>2, <1>6, <2>3 DEF ContextOK, Releasing, Sides
  <2> QED BY <1>7, <2>1, <2>2, <2>3
<1>13. ReceiptOK'
  <2>1. \A d \in receipt : context'[d] # "absent"
    BY <1>2, <1>6
  <2>2. CASE pc' = "record_end" /\ side' = side /\ side \in receipt
    BY <1>1, <1>2, <1>6, <1>8, <2>1, <2>2 DEF ReceiptOK, Acquiring, Releasing, Sides, StoredAs
  <2>3. CASE /\ side \notin receipt /\ pc' = "close" /\ side = "reference" /\ side' = "target"
             /\ context["target"] # "absent"
    BY <1>1, <1>2, <1>6, <1>8, <2>1, <2>3 DEF ReceiptOK, Acquiring, Releasing, Sides, StoredAs
  <2>4. CASE /\ side \notin receipt /\ pc' = "settle" /\ side' = side
             /\ side = "reference" => context["target"] = "absent"
    <3>1. ~broken => \A d \in Sides : Current.contexts[d] =
                        IF d \in receipt THEN context'[d] ELSE "absent"
      <4>1. CASE side = "reference"
        BY <1>2, <2>4, <4>1 DEF Sides, StoredAs
      <4>2. CASE side = "target"
        BY <1>2, <1>6, <2>4, <4>2 DEF Sides, StoredAs
      <4> QED BY <1>2, <4>1, <4>2 DEF Sides
    <3> QED BY <1>1, <1>2, <1>8, <2>1, <2>4, <3>1 DEF ReceiptOK, Acquiring, Releasing, StoredAs
  <2> QED BY <1>7, <2>2, <2>3, <2>4
<1>14. CleanupOK'
  <2>1. CASE pc' = "record_end" /\ side' = side /\ side \in receipt
    BY <1>2, <1>5, <1>6, <2>1 DEF CleanupOK, Acquiring, Releasing, Sides
  <2>2. CASE /\ side \notin receipt /\ pc' = "close" /\ side = "reference" /\ side' = "target"
             /\ context["target"] # "absent"
    BY <1>2, <1>5, <1>6, <2>2 DEF CleanupOK, Acquiring, Releasing, Sides
  <2>3. CASE /\ side \notin receipt /\ pc' = "settle" /\ side' = side
             /\ side = "reference" => context["target"] = "absent"
    BY <1>2, <1>5, <1>6, <2>3 DEF CleanupOK, Acquiring, Releasing, Sides
  <2> QED BY <1>7, <2>1, <2>2, <2>3
<1>15. FailureOK'
  BY <1>1, <1>8, <1>9, FailureWaits DEF Releasing
<1>16. ReplyOK'
  BY <1>1, <1>7 DEF ExecutionInv, ReplyOK
<1> QED BY <1>10, <1>11, <1>12, <1>13, <1>14, <1>15, <1>16 DEF ExecutionInv

(* Storing the end of a context, or failing to: the other side is still    *)
(* released.                                                               *)
LEMMA RecordContextEndKeeps ==
    ASSUME ExecutionInv, RecordContextEnd
    PROVE  ExecutionInv'
<1> DEFINE confirmed == IF ending = "closed" /\ side \in ClickHouseSides THEN {side} ELSE {}
<1> DEFINE a == [Current EXCEPT !.contexts[side] = ending,
                                !.closure_evidence = @ \cup confirmed]
<1> DEFINE rows == WithCurrent(a)
<1>1. /\ pc = "record_end"
      /\ \/ store' = rows /\ broken' = broken
         \/ store' \in {store, rows} /\ broken' = TRUE
      /\ AfterResource
      /\ context' = context /\ receipt' = receipt /\ artifact' = artifact /\ failure' = failure
      /\ cleanup' = cleanup /\ ending' = ending /\ reply' = reply
  BY DEF RecordContextEnd
<1>2. /\ StateType /\ Ordinal > 0 /\ Current \in Attempt /\ Current.status = "running"
      /\ side \in Sides /\ receipt \subseteq Sides /\ context \in [Sides -> ContextStates]
      /\ \A d \in {side, "target"} : Current.contexts[d] \in {"absent", "active"}
      /\ ~broken => \A d \in {side, "target"} : StoredAs(d, "active")
      /\ side = "target" /\ ~broken => StoredAs("reference", context["reference"])
      /\ \A d \in receipt : context[d] # "absent"
      /\ ~broken /\ Current.input_cut # None => receipt = Sides
      /\ IF side = "reference" THEN context["target"] \in {"absent", "active", "lost"}
         ELSE context["reference"] \in {"closed", "lost"}
      /\ cleanup = None \/ CleanOK(cleanup)
      /\ cleanup = None /\ side = "target" => context["reference"] = "closed"
  BY <1>1, ReleasingRow DEF Releasing
<1>3. /\ ending = context[side] /\ context[side] \in {"closed", "lost"} /\ side \in receipt
      /\ cleanup = None => context[side] = "closed"
  BY <1>1 DEF ExecutionInv, ContextOK, ReceiptOK, CleanupOK, Releasing
<1>4. /\ store.clickhouse \subseteq Sides /\ store.selected = 0
      /\ \A k \in 1..Ordinal : store.attempts[k].status = "running" => k = Ordinal
      /\ IF Current.input_cut = None
         THEN Current.observations = {}
         ELSE Current.observations = Sides /\ store.bound_cut = Current.input_cut
      /\ Current.closure_evidence = {d \in store.clickhouse : Current.contexts[d] = "closed"}
      /\ \A d \in Sides : Current.contexts[d] = "closed" => context[d] = "closed"
      /\ Ordinal \in Nat
  BY <1>1, <1>2, ExecutionAssumption, CurrentType DEF ExecutionInv, RowsOK, StateType, Store
<1>5. /\ a \in Attempt /\ a.status = "running" /\ a.input_cut = Current.input_cut
      /\ a.observations = Current.observations
      /\ a.contexts = [Current.contexts EXCEPT ![side] = ending]
      /\ a.closure_evidence = Current.closure_evidence \cup confirmed
  BY <1>2, <1>3 DEF Attempt, ContextStates
<1>6. Current.contexts \in [Sides -> ContextStates]
  BY <1>2 DEF Attempt
<1> HIDE DEF a
<1>7. /\ a.contexts[side] = context[side]
      /\ \A d \in Sides : d # side => a.contexts[d] = Current.contexts[d]
  BY <1>2, <1>3, <1>5, <1>6
<1>8. a.closure_evidence = {d \in store.clickhouse : a.contexts[d] = "closed"}
  BY <1>2, <1>3, <1>4, <1>5, <1>7 DEF ClickHouseSides
<1>9. \A d \in Sides : a.contexts[d] = "closed" => context[d] = "closed"
  BY <1>4, <1>7
<1>11. PICK b \in {a, Current} :
          RowStep(b, store.bound_cut, store.selected) /\ (~broken' => b = a /\ ~broken)
  <2>1. CASE store' = rows
    <3>1. RowStep(a, store.bound_cut, store.selected)
      BY <1>2, <1>5, <2>1, RowWritten
    <3> HIDE DEF rows
    <3> QED BY <1>1, <3>1
  <2>2. CASE store' # rows
    <3>1. store' = store /\ broken'
      BY <1>1, <2>2
    <3> HIDE DEF rows
    <3> QED BY <1>2, <3>1, RowUnchanged
  <2> QED BY <2>1, <2>2
<1> HIDE DEF rows
<1>12. /\ store' \in Store /\ Ordinal' = Ordinal /\ Current' = b
       /\ store'.clickhouse = store.clickhouse
       /\ store'.bound_cut = store.bound_cut /\ store'.selected = store.selected
       /\ \A k \in 1..Ordinal : k # Ordinal => store'.attempts[k] = store.attempts[k]
       /\ ClickHouseSides' = ClickHouseSides
  BY <1>11 DEF RowStep, ClickHouseSides
<1>13. \/ pc' = "close" /\ side = "reference" /\ side' = "target" /\ context["target"] # "absent"
       \/ pc' = "settle" /\ side' = side /\ (side = "reference" => context["target"] = "absent")
  BY <1>1 DEF AfterResource
<1>14. StateType'
  BY <1>1, <1>2, <1>12, <1>13 DEF StateType, Sides, Steps
<1>15. RowsOK'
  <2>1. \A k \in (1..Ordinal)' :
           store'.attempts[k].status = "running" => k = Ordinal' /\ pc' # "start"
    BY <1>4, <1>12, <1>13
  <2>2. /\ b.status = "running" /\ b.input_cut = Current.input_cut
        /\ b.observations = Current.observations
        /\ b.closure_evidence = {d \in store.clickhouse : b.contexts[d] = "closed"}
        /\ \A d \in Sides : b.contexts[d] = "closed" => context[d] = "closed"
    <3>1. CASE b = a
      BY <1>5, <1>8, <1>9, <3>1
    <3>2. CASE b = Current
      BY <1>2, <1>4, <3>2
    <3> QED BY <3>1, <3>2
  <2>3. pc' \in {"close", "settle"}
    BY <1>13
  <2> QED BY <1>1, <1>2, <1>4, <1>12, <2>1, <2>2, <2>3 DEF RowsOK
<1>16. ContextOK'
  BY <1>1, <1>2, <1>3, <1>13 DEF ContextOK, Releasing, Sides, ContextStates
<1>17. ReceiptOK'
  <2>1. CASE /\ pc' = "close" /\ side = "reference" /\ side' = "target"
             /\ context["target"] # "absent"
    <3>1. /\ b.contexts["target"] = Current.contexts["target"]
          /\ ~broken' => b.contexts["reference"] = context["reference"]
      BY <1>7, <1>11, <2>1 DEF Sides
    <3> QED
      BY <1>1, <1>2, <1>3, <1>5, <1>11, <1>12, <2>1, <3>1
      DEF ReceiptOK, Acquiring, Releasing, StoredAs
  <2>2. CASE pc' = "settle" /\ side' = side /\ (side = "reference" => context["target"] = "absent")
    <3>1. ~broken' => \A d \in Sides :
             b.contexts[d] = IF d \in receipt THEN context[d] ELSE "absent"
      <4>1. CASE side = "reference"
        BY <1>2, <1>3, <1>7, <1>11, <2>2, <4>1 DEF Sides, StoredAs
      <4>2. CASE side = "target"
        BY <1>2, <1>3, <1>7, <1>11, <2>2, <4>2 DEF Sides, StoredAs
      <4> QED BY <1>2, <4>1, <4>2 DEF Sides
    <3> QED
      BY <1>1, <1>2, <1>5, <1>11, <1>12, <2>2, <3>1 DEF ReceiptOK, Acquiring, Releasing, StoredAs
  <2> QED BY <1>13, <2>1, <2>2
<1>18. CleanupOK'
  BY <1>1, <1>2, <1>3, <1>13 DEF CleanupOK, Acquiring, Releasing, Sides
<1>19. FailureOK'
  BY <1>1, <1>5, <1>11, <1>12, <1>13, FailureWaits DEF Releasing
<1>20. ReplyOK'
  BY <1>1, <1>13 DEF ExecutionInv, ReplyOK
<1> QED BY <1>14, <1>15, <1>16, <1>17, <1>18, <1>19, <1>20 DEF ExecutionInv

-----------------------------------------------------------------------------
(* Publication.                                                            *)

(* The rows when the call or the attempt is over.                          *)
LEMMA EndedRows ==
    ASSUME ExecutionInv, pc # "stopped", NEW a, NEW selected,
           RowStep(a, store.bound_cut, selected), context' = context,
           pc' \in {"start", "stopped"}, pc' = "start" => selected = 0 /\ a.status # "running",
           a = Current \/ \E status : a = [Current EXCEPT !.status = status]
    PROVE  RowsOK'
<1>1. /\ Ordinal' = Ordinal /\ Current' = a /\ store'.clickhouse = store.clickhouse
      /\ store'.bound_cut = store.bound_cut /\ store'.selected = selected
      /\ \A k \in 1..Ordinal : k # Ordinal => store'.attempts[k] = store.attempts[k]
      /\ Current' = store'.attempts[Ordinal]
  BY DEF RowStep, Current
<1>2. /\ StateType
      /\ \A k \in 1..Ordinal : store.attempts[k].status = "running" => k = Ordinal
      /\ Ordinal > 0 =>
            /\ IF Current.input_cut = None
               THEN Current.observations = {}
               ELSE Current.observations = Sides /\ store.bound_cut = Current.input_cut
            /\ Current.closure_evidence =
                  {d \in store.clickhouse : Current.contexts[d] = "closed"}
            /\ \A d \in Sides : Current.contexts[d] = "closed" => context[d] = "closed"
  BY DEF ExecutionInv, RowsOK
<1>3. Ordinal > 0 =>
         /\ a.input_cut = Current.input_cut /\ a.observations = Current.observations
         /\ a.closure_evidence = Current.closure_evidence /\ a.contexts = Current.contexts
  <2>1. SUFFICES ASSUME Ordinal > 0
                 PROVE  /\ a.input_cut = Current.input_cut
                        /\ a.observations = Current.observations
                        /\ a.closure_evidence = Current.closure_evidence
                        /\ a.contexts = Current.contexts
    OBVIOUS
  <2>2. Current \in Attempt
    BY <1>2, <2>1, CurrentType
  <2> QED BY <2>2 DEF Attempt
<1>4. \A k \in (1..Ordinal)' :
         store'.attempts[k].status = "running" => k = Ordinal' /\ pc' # "start"
  <2>1. SUFFICES ASSUME NEW k \in (1..Ordinal)', store'.attempts[k].status = "running"
                 PROVE  k = Ordinal' /\ pc' # "start"
    OBVIOUS
  <2>2. k \in 1..Ordinal
    BY <1>1
  <2>3. k = Ordinal
    BY <1>1, <1>2, <2>1, <2>2
  <2> QED BY <1>1, <2>1, <2>3
<1> QED BY <1>1, <1>2, <1>3, <1>4 DEF RowsOK, Running, Acquiring, Releasing

(* The process may die at any step.                                        *)
LEMMA CrashKeeps ==
    ASSUME ExecutionInv, Crash
    PROVE  ExecutionInv'
<1>1. pc # "stopped" /\ pc' = "stopped" /\ context' = context /\ store' = store
  BY DEF Crash, Stop, Forget
<1>2. RowStep(Current, store.bound_cut, store.selected)
  BY <1>1, RowUnchanged DEF ExecutionInv
<1>3. RowsOK'
  BY <1>1, <1>2, EndedRows
<1>4. store' \in Store /\ Ordinal' <= MaxAttempts
  BY <1>1 DEF ExecutionInv, StateType, Ordinal
<1> QED BY <1>1, <1>3, <1>4, StopKeeps DEF Crash

(* A metadata error is raised only after every context was released.       *)
LEMMA RaisePersistenceErrorKeeps ==
    ASSUME ExecutionInv, RaisePersistenceError
    PROVE  ExecutionInv'
<1>1. pc = "settle" /\ pc' = "stopped" /\ context' = context /\ store' = store
  BY DEF RaisePersistenceError, Stop, Forget
<1>2. RowStep(Current, store.bound_cut, store.selected)
  BY <1>1, RowUnchanged DEF ExecutionInv
<1>3. RowsOK'
  BY <1>1, <1>2, EndedRows
<1>4. /\ store' \in Store /\ Ordinal' <= MaxAttempts
      /\ \A d \in Sides : context[d] # "active"
  BY <1>1 DEF ExecutionInv, StateType, Ordinal, ContextOK
<1> QED BY <1>1, <1>3, <1>4, StopKeeps DEF RaisePersistenceError

(* Whatever the attempt came to is complete, or a failure fit to publish.  *)
LEMMA SettledOutcome ==
    ASSUME ExecutionInv, pc = "settle", ~broken
    PROVE  /\ SettledFailure = None =>
                 /\ artifact \in Artifacts
                 /\ CompletedClosure(ClickHouseSides, store, Current, artifact.stable_reads)
           /\ SettledFailure # None => Publishable(SettledFailure)
<1>1. /\ artifact # None => Comparison
      /\ failure # None => artifact = None /\ FailureBefore(failure)
      /\ artifact # None \/ failure # None
  BY DEF ExecutionInv, FailureOK
<1>2. CASE failure = None /\ cleanup = None
  <2>1. SettledFailure = None
    BY <1>2 DEF SettledFailure
  <2>2. CompletedClosure(ClickHouseSides, store, Current, artifact.stable_reads)
    BY <1>1, <1>2, SettledClosure DEF Comparison
  <2> QED BY <1>1, <1>2, <2>1, <2>2 DEF Comparison
<1>3. CASE failure = None /\ cleanup # None
  <2>1. SettledFailure = FailureFromArtifactContextLoss(artifact, cleanup)
    BY <1>3 DEF SettledFailure
  <2>2. Publishable(SettledFailure)
    BY <1>1, <1>3, <2>1, SettledComparison
  <2> QED BY <2>2 DEF Publishable
<1>4. CASE failure # None
  <2>1. SettledFailure = IF cleanup = None THEN failure
                         ELSE FailureWithSecondaryContextLoss(failure, cleanup)
    BY <1>4 DEF SettledFailure
  <2>2. artifact = None /\ FailureBefore(failure)
    BY <1>1, <1>4
  <2>3. ASSUME NEW code \in Codes, failure = FailureFromError(code)
        PROVE  Publishable(SettledFailure)
    BY <2>1, <2>2, <2>3, SettledError
  <2>4. ASSUME Current.input_cut # None, Interrupted(failure)
        PROVE  Publishable(SettledFailure)
    BY <2>1, <2>2, <2>4, SettledInterruption
  <2>5. Publishable(SettledFailure)
    BY <2>2, <2>3, <2>4 DEF FailureBefore
  <2> QED BY <2>5 DEF Publishable
<1> QED BY <1>2, <1>3, <1>4

(* Counting the release of contexts.                                       *)
LEMMA SettleFailureKeeps ==
    ASSUME ExecutionInv, SettleFailure
    PROVE  ExecutionInv'
<1>1. /\ pc = "settle" /\ ~broken /\ pc' = "publish" /\ failure' = SettledFailure
      /\ receipt' = {} /\ cleanup' = None /\ ending' = None /\ side' = side
      /\ context' = context /\ artifact' = artifact /\ broken' = broken /\ store' = store
      /\ reply' = reply
  BY DEF SettleFailure
<1>2. Ordinal' = Ordinal /\ Current' = Current /\ ClickHouseSides' = ClickHouseSides
  BY <1>1 DEF Ordinal, Current, ClickHouseSides
<1>3. PublishOK'
  <2>1. failure' # None => Publishable(failure')
    BY <1>1, SettledOutcome
  <2>2. failure' # None => Exceptional(failure') = Exceptional(failure)'
    BY <1>2 DEF Exceptional
  <2>3. Publishable(failure') => PublishOK'
    BY <1>1, <1>2, <2>2, NoneAssumption DEF Publishable, PublishOK, Exceptional, Told
  <2>4. failure' = None => PublishOK'
    BY <1>1, <1>2, SettledOutcome DEF PublishOK
  <2> QED BY <2>1, <2>3, <2>4
<1>4. FailureOK'
  BY <1>1, <1>3 DEF ExecutionInv, FailureOK, PublishOK, Acquiring, Releasing
<1>5. StateType'
  BY <1>1, <1>2 DEF ExecutionInv, StateType, Steps
<1>6. RowsOK'
  BY <1>1, <1>2 DEF ExecutionInv, RowsOK, Running, Acquiring, Releasing
<1>7. ContextOK'
  BY <1>1 DEF ExecutionInv, ContextOK, Releasing
<1>8. ReceiptOK' /\ CleanupOK' /\ ReplyOK'
  BY <1>1 DEF ExecutionInv, ReceiptOK, CleanupOK, ReplyOK, Acquiring, Releasing
<1> QED BY <1>4, <1>5, <1>6, <1>7, <1>8 DEF ExecutionInv

(* The row of an attempt that gets its status.                             *)
LEMMA StatusRow ==
    ASSUME ExecutionInv, pc = "publish",
           NEW status \in {"completed", "incomplete", "error"}
    PROVE  LET a == [Current EXCEPT !.status = status] IN
           /\ StateType /\ Ordinal > 0 /\ a \in Attempt /\ a.status = status
           /\ a.contexts = Current.contexts /\ a.closure_evidence = Current.closure_evidence
           /\ a.input_cut = Current.input_cut
           /\ WithStatus(status) = WithCurrent(a)
           /\ store.selected = 0 /\ \A d \in Sides : context[d] # "active"
<1>1. StateType /\ Ordinal > 0 /\ store.selected = 0 /\ \A d \in Sides : context[d] # "active"
  BY DEF ExecutionInv, RowsOK, ContextOK, Running
<1>2. Current \in Attempt
  BY <1>1, CurrentType
<1>3. WithStatus(status) = WithCurrent([Current EXCEPT !.status = status])
  BY DEF WithStatus
<1> QED BY <1>1, <1>2, <1>3 DEF Attempt

(* A metadata call of the publication that raises, its rows stored or not. *)
LEMMA PublicationRaises ==
    ASSUME ExecutionInv, pc = "publish", Stop(Ended("raised")),
           NEW status \in {"completed", "incomplete", "error"},
           store' \in {store, WithStatus(status), Selected(WithStatus(status))}
    PROVE  ExecutionInv'
<1> DEFINE a == [Current EXCEPT !.status = status]
<1>1. /\ StateType /\ Ordinal > 0 /\ a \in Attempt /\ a.status = status
      /\ WithStatus(status) = WithCurrent(a)
      /\ \A d \in Sides : context[d] # "active"
  BY StatusRow
<1>2. pc' = "stopped" /\ context' = context
  BY DEF Stop, Forget
<1>3. PICK b, selected :
         /\ RowStep(b, store.bound_cut, selected)
         /\ b = Current \/ \E s : b = [Current EXCEPT !.status = s]
  <2>1. CASE store' = store
    BY <1>1, <2>1, RowUnchanged
  <2>2. CASE store' = WithStatus(status)
    <3>1. RowStep(a, store.bound_cut, store.selected)
      BY <1>1, <2>2, RowWritten
    <3> QED BY <3>1
  <2>3. CASE store' = Selected(WithStatus(status))
    <3>1. RowStep(a, store.bound_cut, Ordinal)
      BY <1>1, <2>3, RowSelected
    <3> QED BY <3>1
  <2> QED BY <2>1, <2>2, <2>3
<1>4. RowsOK'
  BY <1>2, <1>3, EndedRows
<1>5. store' \in Store /\ Ordinal' <= MaxAttempts
  BY <1>1, <1>3 DEF RowStep, StateType
<1> QED BY <1>1, <1>4, <1>5, StopKeeps

(* What is returned is selected, and it was the outcome of this attempt.   *)
LEMMA ResultKeeps ==
    ASSUME ExecutionInv, pc = "publish",
           NEW status \in {"completed", "incomplete", "error"}, NEW verdict,
           store' = Selected(WithStatus(status)),
           Stop([kind |-> "result", status |-> status, verdict |-> verdict]),
           verdict = "match" =>
              /\ \A d \in Sides : Current.contexts[d] = "closed"
              /\ Current.input_cut = store.bound_cut
    PROVE  ExecutionInv'
<1> DEFINE a == [Current EXCEPT !.status = status]
<1>1. /\ StateType /\ Ordinal > 0 /\ a \in Attempt /\ a.status = status
      /\ a.contexts = Current.contexts /\ a.closure_evidence = Current.closure_evidence
      /\ a.input_cut = Current.input_cut
      /\ WithStatus(status) = WithCurrent(a)
      /\ \A d \in Sides : context[d] # "active"
  BY StatusRow
<1>2. /\ pc' = "stopped" /\ reply'.kind = "result" /\ reply'.status = status
      /\ reply'.verdict = verdict /\ receipt' = {}
      /\ artifact' = None /\ failure' = None /\ cleanup' = None /\ ending' = None
      /\ broken' = FALSE /\ side' = side /\ context' = context
  BY DEF Stop, Forget
<1>3. RowStep(a, store.bound_cut, Ordinal)
  BY <1>1, RowSelected
<1>4. RowsOK'
  BY <1>2, <1>3, EndedRows
<1> HIDE DEF a
<1>5. /\ store' \in Store /\ Ordinal' = Ordinal /\ Current' = a
      /\ store'.clickhouse = store.clickhouse
      /\ store'.bound_cut = store.bound_cut /\ store'.selected = Ordinal
      /\ \A k \in 1..Ordinal : k # Ordinal => store'.attempts[k] = store.attempts[k]
  BY <1>3 DEF RowStep
<1>6. StateType'
  BY <1>1, <1>2, <1>5 DEF StateType, Steps, Replies
<1>7. ContextOK'
  BY <1>1, <1>2 DEF ContextOK, Releasing
<1>8. ReceiptOK' /\ CleanupOK' /\ FailureOK'
  BY <1>2 DEF ReceiptOK, CleanupOK, FailureOK, Releasing, Acquiring
<1>9. ReplyOK'
  <2>1. \A k \in (1..Ordinal)' : store'.attempts[k].status # "running"
    <3>1. SUFFICES ASSUME NEW k \in 1..Ordinal PROVE store'.attempts[k].status # "running"
      BY <1>5
    <3>2. CASE k = Ordinal
      <4>1. store'.attempts[k] = a
        BY <1>5, <3>2 DEF Current
      <4> QED BY <1>1, <4>1
    <3>3. CASE k # Ordinal
      BY <1>5, <3>3 DEF ExecutionInv, RowsOK
    <3> QED BY <3>2, <3>3
  <2>2. ASSUME verdict = "match"
        PROVE  /\ \A d \in Sides : Current'.contexts[d] = "closed" /\ context'[d] = "closed"
               /\ Current'.closure_evidence = ClickHouseSides'
               /\ Current'.input_cut = store'.bound_cut
    <3>1. /\ \A d \in Sides : Current.contexts[d] = "closed" => context[d] = "closed"
          /\ Current.closure_evidence =
                {d \in store.clickhouse : Current.contexts[d] = "closed"}
      BY <1>1 DEF ExecutionInv, RowsOK
    <3>2. store.clickhouse \subseteq Sides
      BY <1>1, ExecutionAssumption DEF StateType, Store
    <3>3. Current.closure_evidence = store.clickhouse
      BY <2>2, <3>1, <3>2
    <3> QED BY <1>1, <1>2, <1>5, <2>2, <3>1, <3>3 DEF ClickHouseSides
  <2>3. store'.selected = Ordinal' /\ Current'.status = reply'.status
    BY <1>1, <1>2, <1>5
  <2> QED BY <1>2, <2>1, <2>2, <2>3 DEF ReplyOK
<1> QED BY <1>4, <1>6, <1>7, <1>8, <1>9 DEF ExecutionInv

(* A completed comparison is published with its contexts closed, at the    *)
(* cut of the run.                                                         *)
LEMMA PublishCompletedComparisonKeeps ==
    ASSUME ExecutionInv, PublishCompletedComparison
    PROVE  ExecutionInv'
<1>1. /\ pc = "publish" /\ failure = None
      /\ CompletedClosure(ClickHouseSides, store, Current, artifact.stable_reads)
  BY DEF PublishCompletedComparison, Accepted
<1>2. /\ \A d \in Sides : Current.contexts[d] = "closed"
      /\ Current.input_cut = store.bound_cut
  BY <1>1 DEF CompletedClosure, BoundCutClosure
<1>3. CASE /\ store' = Selected(WithStatus("completed"))
           /\ Stop([kind |-> "result", status |-> "completed", verdict |-> artifact.verdict])
  BY <1>1, <1>2, <1>3, ResultKeeps
<1>4. CASE store' \in {store, Selected(WithStatus("completed"))} /\ Stop(Ended("raised"))
  BY <1>1, <1>4, PublicationRaises
<1> QED BY <1>3, <1>4 DEF PublishCompletedComparison

(* A failure to be retried ends its attempt and selects nothing.           *)
LEMMA RecordRetryableFailureKeeps ==
    ASSUME ExecutionInv, RecordRetryableFailure
    PROVE  ExecutionInv'
<1>1. pc = "publish" /\ failure # None
  BY DEF RecordRetryableFailure
<1>2. failure.status \in {"incomplete", "error"}
  BY <1>1 DEF ExecutionInv, FailureOK, Failures
<1>3. CASE store' \in {store, WithStatus(failure.status)} /\ Stop(Ended("raised"))
  BY <1>1, <1>2, <1>3, PublicationRaises
<1>4. CASE store' = WithStatus(failure.status) /\ pc' = "start" /\ Forget /\ reply' = reply
  <2> DEFINE a == [Current EXCEPT !.status = failure.status]
  <2>1. /\ StateType /\ Ordinal > 0 /\ a \in Attempt /\ a.status = failure.status
        /\ WithStatus(failure.status) = WithCurrent(a)
        /\ store.selected = 0 /\ \A d \in Sides : context[d] # "active"
    BY <1>1, <1>2, StatusRow
  <2>2. /\ receipt' = {} /\ artifact' = None /\ failure' = None /\ cleanup' = None
        /\ ending' = None /\ broken' = FALSE /\ side' = side /\ context' = context
    BY <1>4 DEF Forget
  <2>3. RowStep(a, store.bound_cut, store.selected)
    BY <1>4, <2>1, RowWritten
  <2>4. RowsOK'
    BY <1>1, <1>2, <1>4, <2>1, <2>2, <2>3, EndedRows
  <2>5. store' \in Store /\ Ordinal' <= MaxAttempts
    BY <2>1, <2>3 DEF RowStep, StateType
  <2>6. StateType'
    BY <1>4, <2>1, <2>2, <2>5 DEF StateType, Steps
  <2>7. ContextOK'
    BY <1>4, <2>1, <2>2 DEF ContextOK, Releasing
  <2>8. ReceiptOK' /\ CleanupOK' /\ FailureOK' /\ ReplyOK'
    BY <1>1, <1>4, <2>2
    DEF ExecutionInv, ReceiptOK, CleanupOK, FailureOK, ReplyOK, Releasing, Acquiring
  <2> QED BY <2>4, <2>6, <2>7, <2>8 DEF ExecutionInv
<1> QED BY <1>3, <1>4 DEF RecordRetryableFailure

(* A failure that is published is never a match.                           *)
LEMMA PublishTerminalFailureKeeps ==
    ASSUME ExecutionInv, PublishTerminalFailure
    PROVE  ExecutionInv'
<1>1. /\ pc = "publish" /\ failure # None
      /\ FailureAccepted(ClickHouseSides, store, Current, failure)
  BY DEF PublishTerminalFailure, Accepted
<1>2. failure.status \in {"incomplete", "error"}
  BY <1>1 DEF ExecutionInv, FailureOK, Failures
<1>3. StoredVerdict(failure) # "match"
  BY <1>1 DEF FailureAccepted, ResultIsValid
<1>4. CASE /\ store' = Selected(WithStatus(failure.status))
           /\ Stop([kind |-> "result", status |-> failure.status,
                    verdict |-> StoredVerdict(failure)])
  BY <1>1, <1>2, <1>3, <1>4, ResultKeeps
<1>5. CASE store' \in {store, Selected(WithStatus(failure.status))} /\ Stop(Ended("raised"))
  BY <1>1, <1>2, <1>5, PublicationRaises
<1> QED BY <1>4, <1>5 DEF PublishTerminalFailure

(* What is refused is the exception.                                       *)
LEMMA PublicationRefusedKeeps ==
    ASSUME ExecutionInv, PublicationRefused
    PROVE  ExecutionInv'
<1>1. /\ pc = "publish" /\ ~Accepted /\ pc' = "stopped" /\ reply'.kind = "refused"
      /\ receipt' = receipt /\ artifact' = artifact /\ failure' = failure /\ cleanup' = cleanup
      /\ ending' = ending /\ broken' = broken /\ side' = side /\ context' = context
      /\ store' = store
  BY DEF PublicationRefused, Ended, attemptVars
<1>2. failure # None /\ Exceptional(failure)
  BY <1>1 DEF ExecutionInv, FailureOK, PublishOK, Accepted
<1>3. RowStep(Current, store.bound_cut, store.selected)
  BY <1>1, RowUnchanged DEF ExecutionInv
<1>4. RowsOK'
  BY <1>1, <1>3, EndedRows
<1>5. StateType'
  BY <1>1 DEF ExecutionInv, StateType, Steps, Replies, Ordinal
<1>6. ContextOK' /\ ReceiptOK'
  BY <1>1 DEF ExecutionInv, ContextOK, ReceiptOK, Releasing, Acquiring
<1>7. CleanupOK' /\ FailureOK'
  BY <1>1 DEF ExecutionInv, CleanupOK, FailureOK, Releasing, Acquiring
<1>8. ReplyOK'
  BY <1>1, <1>2 DEF ReplyOK, Exceptional, ClickHouseSides
<1> QED BY <1>4, <1>5, <1>6, <1>7, <1>8 DEF ExecutionInv

(* Steps that change nothing.                                              *)
LEMMA StutterKeeps ==
    ASSUME ExecutionInv, UNCHANGED vars
    PROVE  ExecutionInv'
<1>1. /\ pc' = pc /\ side' = side /\ context' = context /\ receipt' = receipt
      /\ artifact' = artifact /\ failure' = failure /\ cleanup' = cleanup
      /\ ending' = ending /\ broken' = broken /\ store' = store /\ reply' = reply
  BY DEF vars, attemptVars
<1>2. Ordinal' = Ordinal /\ Current' = Current /\ ClickHouseSides' = ClickHouseSides
  BY <1>1 DEF Ordinal, Current, ClickHouseSides
<1>3. StateType' /\ RowsOK' /\ ContextOK'
  BY <1>1, <1>2 DEF ExecutionInv, StateType, RowsOK, ContextOK
<1>4. ReceiptOK' /\ CleanupOK'
  BY <1>1, <1>2 DEF ExecutionInv, ReceiptOK, CleanupOK, StoredAs
<1>5. FailureOK'
  <2>1. (Comparison => Comparison') /\ (FailureBefore(failure) => FailureBefore(failure)')
    BY <1>1, <1>2 DEF Comparison, FailureBefore, Interrupted
  <2>2. PublishOK => PublishOK'
    BY <1>1, <1>2 DEF PublishOK, Exceptional
  <2> QED BY <1>1, <2>1, <2>2 DEF ExecutionInv, FailureOK
<1>6. ReplyOK'
  BY <1>1, <1>2 DEF ExecutionInv, ReplyOK, Exceptional
<1> QED BY <1>3, <1>4, <1>5, <1>6 DEF ExecutionInv

(* Every step keeps the invariant.                                         *)
LEMMA StepKeeps ==
    ASSUME ExecutionInv, [Next]_vars
    PROVE  ExecutionInv'
<1>1. CASE UNCHANGED vars
  BY <1>1, StutterKeeps
<1>2. CASE Crash
  BY <1>2, CrashKeeps
<1>3. CASE AcquisitionStep
  BY <1>3, StartAttemptKeeps, StaticOutcomeKeeps, OpenSideKeeps, OpenSideFailsKeeps,
     ReadReadinessFailsKeeps, PersistContextKeeps, ReadReadinessKeeps, CutNotAlignedKeeps,
     PersistCutKeeps
  DEF AcquisitionStep
<1>4. CASE CompareStep
  BY <1>4, CompareCompletesKeeps, CompareInterruptedKeeps, CompareNotLoweredKeeps
  DEF CompareStep
<1>5. CASE ReleaseStep
  BY <1>5, CloseResourceKeeps, RecordContextEndKeeps DEF ReleaseStep
<1>6. CASE PublicationStep
  BY <1>6, RaisePersistenceErrorKeeps, SettleFailureKeeps, PublishCompletedComparisonKeeps,
     RecordRetryableFailureKeeps, PublishTerminalFailureKeeps, PublicationRefusedKeeps
  DEF PublicationStep
<1> QED BY <1>1, <1>2, <1>3, <1>4, <1>5, <1>6 DEF Next, ProcessStep

-----------------------------------------------------------------------------
(* The theorems.                                                           *)

(* The inductive invariant holds in every state of execute_check, for      *)
(* every number of attempts, every set of cuts and every choice of         *)
(* ClickHouse sides a contract may declare.                                *)
THEOREM ExecutionInvariance == Spec => []ExecutionInv
<1>1. Init => ExecutionInv
  BY InitiallyHolds
<1>2. ExecutionInv /\ [Next]_vars => ExecutionInv'
  BY StepKeeps
<1> QED BY <1>1, <1>2, PTL DEF Spec

(* The locals of the call and the rows of the run keep their types.        *)
THEOREM TypeCorrectness == Spec => []TypeOK
<1>1. ExecutionInv => TypeOK
  <2>1. SUFFICES ASSUME ExecutionInv PROVE TypeOK
    OBVIOUS
  <2>2. /\ pc \in Steps /\ side \in Sides /\ context \in [Sides -> ContextStates]
        /\ receipt \subseteq Sides /\ ending \in {"closed", "lost", None} /\ broken \in BOOLEAN
        /\ store \in Store /\ Len(store.attempts) <= MaxAttempts /\ reply.kind \in Replies
    BY <2>1 DEF ExecutionInv, StateType, Ordinal
  <2>3. /\ artifact \in Artifacts \cup {None}
        /\ failure = None \/ failure \in Failures
        /\ cleanup = None \/ cleanup \in CleanupFailures
    BY <2>1 DEF ExecutionInv, FailureOK, CleanupOK, CleanOK
  <2>4. /\ store.clickhouse \in Acquisitions /\ store.bound_cut \in Cuts \cup {None}
        /\ store.selected \in 0..MaxAttempts
        /\ \A k \in 1..Len(store.attempts) : store.attempts[k] \in Attempt
    BY <2>2 DEF Store
  <2> QED BY <2>2, <2>3, <2>4 DEF TypeOK, Replies
<1> QED BY <1>1, ExecutionInvariance, PTL

(* Both contexts end, whichever release or metadata write fails, and their *)
(* stored ends tell what happened to them (_close_attempt_resources,       *)
(* application.py:2252).                                                   *)
THEOREM ContextsAreReleased == Spec => []ContextsEndTruthfully
<1>1. ExecutionInv => ContextsEndTruthfully
  <2>1. ExecutionInv => ContextsReleased
    BY DEF ExecutionInv, ContextOK, ContextsReleased
  <2>2. ExecutionInv => StoredEndIsReal
    BY DEF ExecutionInv, RowsOK, StoredEndIsReal
  <2> QED BY <2>1, <2>2 DEF ContextsEndTruthfully
<1> QED BY <1>1, ExecutionInvariance, PTL

(* Whatever comparison and whatever failures of the release there were,    *)
(* the store accepts what the application built from them, except a        *)
(* contract violation whose stable reads were lost.                        *)
THEOREM OutcomesAreAccepted == Spec => []OutcomeAccepted
<1>1. ExecutionInv => OutcomeAccepted
  BY DEF ExecutionInv, ReplyOK, OutcomeAccepted, Exceptional
<1> QED BY <1>1, ExecutionInvariance, PTL

(* Without a ClickHouse side there is no exception: stable reads are lost  *)
(* only by a final confirmation that fails.                                *)
THEOREM OutcomesAreNeverRefused == Spec => []NoOutcomeRefused
<1>1. ExecutionInv => NoOutcomeRefused
  BY DEF ExecutionInv, ReplyOK, NoOutcomeRefused, Exceptional
<1> QED BY <1>1, ExecutionInvariance, PTL

(* A returned result is the selected outcome of the newest attempt, none   *)
(* is left running, and a match was read at the run's cut under contexts   *)
(* that closed.                                                            *)
THEOREM ResultsAreSelected == Spec => []ReturnedResultIsSelected
<1>1. ExecutionInv => ReturnedResultIsSelected
  BY DEF ExecutionInv, ReplyOK, ReturnedResultIsSelected
<1> QED BY <1>1, ExecutionInvariance, PTL

(* A retry never follows a comparison that found a difference, nor any     *)
(* reason that is not retryable, not even one met while contexts were      *)
(* released.                                                               *)
THEOREM RetriesThrowNothingAway == Spec => RetriesAreSafe
<1>1. ExecutionInv /\ [Next]_vars =>
         [pc = "publish" /\ pc' = "start" =>
             /\ artifact = None \/ artifact.verdict = "match"
             /\ CodesOf(AllReasons(failure)) \subseteq RetryableCodes \cup {"data_mismatch"}]_vars
  <2>1. SUFFICES ASSUME ExecutionInv, [Next]_vars, pc = "publish", pc' = "start"
                 PROVE  /\ artifact = None \/ artifact.verdict = "match"
                        /\ CodesOf(AllReasons(failure))
                              \subseteq RetryableCodes \cup {"data_mismatch"}
    OBVIOUS
  <2>2. RecordRetryableFailure
    <3>1. Next
      BY <2>1 DEF vars
    <3>2. PublicationStep \/ StaticOutcome \/ StartAttempt
      BY <2>1, <3>1
      DEF Next, ProcessStep, AcquisitionStep, CompareStep, ReleaseStep, Crash, StartAttempt,
          StaticOutcome, OpenSide, PersistContext, ReadReadiness, CutNotAligned, PersistCut,
          CompareCompletes, CompareNotLowered, RecordContextEnd, Stop
    <3> QED
      BY <2>1, <3>2
      DEF PublicationStep, StaticOutcome, StartAttempt, RaisePersistenceError, SettleFailure,
          PublishCompletedComparison, PublishTerminalFailure, PublicationRefused, Stop
  <2>3. failure # None /\ failure.retryable
    BY <2>2 DEF RecordRetryableFailure, MayRetry
  <2> QED BY <2>1, <2>3 DEF ExecutionInv, FailureOK, PublishOK
<1> QED BY <1>1, ExecutionInvariance, PTL DEF Spec, RetriesAreSafe
=============================================================================
