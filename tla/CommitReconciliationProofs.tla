--------------------- MODULE CommitReconciliationProofs ---------------------
(***************************************************************************)
(* Proofs about CommitReconciliation, for any number of calls, sessions,   *)
(* requests, identities and attempts.                                      *)
(*                                                                         *)
(* An answer is given by a call and broken by a session it may have lost   *)
(* long before, so the invariant ties the two: a COMMIT in flight without  *)
(* a client belongs to a call that still counts it as unresolved, crashed, *)
(* or answered that it does not know; and the locks say that while such a  *)
(* COMMIT exists nobody else reads or writes the request's row.            *)
(***************************************************************************)
EXTENDS CommitReconciliation, FiniteSetTheorems, WellFoundedInduction, TLAPS

(* No identity is locked twice.                                            *)
LocksExclusive ==
    \A s, o \in Sessions : s # o /\ Open(s) /\ Open(o) =>
        session[s].held \cap session[o].held = {}

(* Identities are locked in ascending order.                               *)
LocksAscend ==
    \A s \in Sessions : Open(s) =>
        \A i \in session[s].held, j \in Identities[session[s].client] \ session[s].held : i < j

OneAttached ==
    \A s, o \in Sessions, c \in Clients : Attached(s, c) /\ Attached(o, c) => s = o

(* A transaction that has written holds its locks, so what it read is what *)
(* it will replace.                                                        *)
RowFits(row, c) ==
    IF Stored(c) = None THEN row = c ELSE row = Stored(c) /\ Compatible(row, c)

SessionOK(s) ==
    LET c == session[s].client IN
    /\ session[s].phase # "locking" => session[s].kind = "write"
    /\ session[s].phase \in {"staged", "commit"} =>
          session[s].held = Identities[c] /\ RowFits(session[s].row, c)
    /\ session[s].phase = "acked" => Stored(c) # None /\ RowFits(session[s].row, c)
    /\ session[s].attached =>
          /\ call[c].at \notin Stopped
          /\ session[s].kind = "write" <=> call[c].at = "write"
    /\ session[s].phase = "commit" /\ ~session[s].attached =>
          \/ call[c].at \in Reconciling \cup {"crashed"}
          \/ call[c].reply.kind = "commit_unknown"

CallOK(c) ==
    /\ call[c].at = "write" => ~call[c].unresolved
    /\ call[c].at \in Reconciling => call[c].unresolved
    /\ call[c].at = "done" <=> call[c].reply.kind # "none"
    /\ call[c].at = "write" /\ Stored(c) = c =>
          \E s \in Sessions : Attached(s, c) /\ session[s].phase = "acked"
    /\ call[c].reply.kind \in {"transaction_error", "refused"} => Stored(c) # c

SessionsOK == \A s \in Sessions : Open(s) => SessionOK(s)
CallsOK == \A c \in Clients : CallOK(c)
FiniteOpen == IsFiniteSet({s \in Sessions : Open(s)})

IInv ==
    /\ TypeOK
    /\ LocksExclusive /\ LocksAscend /\ OneAttached
    /\ SessionsOK /\ CallsOK
    /\ FiniteOpen
-----------------------------------------------------------------------------
(* A call that is finished has its answer, and the others are untouched.   *)
LEMMA FinishEffect ==
    ASSUME TypeOK, NEW c \in Clients,
           NEW answer \in [kind : Replies, row : Clients \cup {None}], Finish(c, answer)
    PROVE  /\ call' \in [Clients -> Call]
           /\ \A d \in Clients \ {c} : call'[d] = call[d]
           /\ call'[c].at = "done" /\ call'[c].reply = answer
<1>1. call[c] \in Call
  BY DEF TypeOK
<1>2. [call[c] EXCEPT !.at = "done", !.reply = answer] \in Call
  BY <1>1 DEF Call, Stopped, Replies
<1>3. call' = [call EXCEPT ![c] = [call[c] EXCEPT !.at = "done", !.reply = answer]]
  BY DEF Finish
<1> QED
  BY <1>1, <1>2, <1>3 DEF TypeOK, Call

(* What it raises is an answer.                                            *)
LEMMA RaiseEffect ==
    ASSUME TypeOK, NEW c \in Clients, NEW kind \in Replies, Raise(c, kind)
    PROVE  /\ call' \in [Clients -> Call]
           /\ \A d \in Clients \ {c} : call'[d] = call[d]
           /\ call'[c].at = "done" /\ call'[c].reply = [kind |-> kind, row |-> None]
BY FinishEffect, [kind |-> kind, row |-> None] \in [kind : Replies, row : Clients \cup {None}]
   DEF Raise

(* The end of an iteration moves the call on, or makes it raise.           *)
LEMMA NextIterationEffect ==
    ASSUME TypeOK, NEW c \in Clients, NEW unresolved \in BOOLEAN, NextIteration(c, unresolved)
    PROVE  /\ call' \in [Clients -> Call]
           /\ \A d \in Clients \ {c} : call'[d] = call[d]
           /\ \/ /\ call'[c].unresolved = unresolved
                 /\ call'[c].at = IF unresolved THEN "before" ELSE "write"
                 /\ call'[c].reply = call[c].reply
              \/ /\ call'[c].at = "done"
                 /\ call'[c].reply = [kind |-> Exhausted(unresolved), row |-> None]
<1> DEFINE next == [call[c] EXCEPT !.attempt_number = call[c].attempt_number + 1,
                                   !.unresolved = unresolved,
                                   !.at = IF unresolved THEN "before" ELSE "write"]
<1>1. call[c] \in Call
  BY DEF TypeOK
<1>2. CASE call[c].attempt_number < MaxAttempts
  <2>0. /\ call[c].attempt_number + 1 \in 1..MaxAttempts
        /\ (IF unresolved THEN "before" ELSE "write") \in {"write"} \cup Reconciling \cup Stopped
    BY <1>1, <1>2, ConstantsAssumption DEF Call, Reconciling
  <2>1. next \in Call
    BY <1>1, <2>0 DEF Call
  <2>2. call' = [call EXCEPT ![c] = next]
    BY <1>2 DEF NextIteration
  <2>3. next.unresolved = unresolved /\ next.reply = call[c].reply
        /\ next.at = IF unresolved THEN "before" ELSE "write"
    BY <1>1 DEF Call
  <2> HIDE DEF next
  <2> QED
    BY <2>1, <2>2, <2>3 DEF TypeOK
<1>3. CASE ~(call[c].attempt_number < MaxAttempts)
  <2>1. Exhausted(unresolved) \in Replies
    BY DEF Exhausted, Replies
  <2> QED
    BY <1>3, <2>1, RaiseEffect DEF NextIteration
<1> QED
  BY <1>2, <1>3


(* An open session belongs to a call.                                      *)
LEMMA SessionType ==
    ASSUME TypeOK, NEW s \in Sessions, Open(s)
    PROVE  /\ session[s] \in Session
           /\ session[s].client \in Clients
           /\ session[s].row \in Clients \cup {None}
           /\ session[s].attached \in BOOLEAN
           /\ call[session[s].client] \in Call
           /\ call[session[s].client].unresolved \in BOOLEAN
           /\ Stored(session[s].client) \in Clients \cup {None}
           /\ session[s].held \subseteq Identities[session[s].client]
BY ConstantsAssumption DEF TypeOK, Open, Session, Call, Stored

(* A step of one call that leaves the store alone matters to no other.     *)
LEMMA OtherCalls ==
    ASSUME IInv, NEW c \in Clients, UNCHANGED <<store, payload>>,
           \A d \in Clients \ {c} : call'[d] = call[d],
           \A o \in Sessions : Open(o) /\ session[o].client # c => session'[o] = session[o]
    PROVE  /\ \A d \in Clients \ {c} : CallOK(d)'
           /\ \A o \in Sessions : Open(o) /\ session[o].client # c => SessionOK(o)'
<1>1. ASSUME NEW d \in Clients \ {c}
      PROVE  CallOK(d)'
  <2>1. \A o \in Sessions : Attached(o, d) => session'[o] = session[o]
    BY DEF Attached
  <2> QED
    BY <2>1 DEF IInv, CallsOK, CallOK, Attached, Open, Stored
<1>2. ASSUME NEW o \in Sessions, Open(o), session[o].client # c
      PROVE  SessionOK(o)'
  <2>1. session'[o] = session[o] /\ session[o].client \in Clients \ {c}
    BY <1>2, SessionType DEF IInv
  <2> QED
    BY <1>2, <2>1 DEF IInv, SessionsOK, SessionOK, RowFits, Compatible, Stored
<1> QED
  BY <1>1, <1>2

(* While a session holds its client's locks, no other session of the       *)
(* client has written.                                                     *)
LEMMA LockedAlone ==
    ASSUME IInv, NEW s \in Sessions, Locked(s),
           NEW o \in Sessions \ {s}, Open(o), session[o].client = session[s].client
    PROVE  session[o].phase \notin {"staged", "commit"}
<1>1. session[s].client \in Clients /\ session[s].held = Identities[session[s].client]
  BY SessionType DEF Locked, IInv
<1>2. session[o].held \cap session[s].held = {}
  BY DEF Locked, IInv, LocksExclusive
<1> QED
  BY <1>1, <1>2, ConstantsAssumption DEF IInv, SessionsOK, SessionOK

(* A new session holds nothing and has its call's purpose.                 *)
LEMMA ConnectKeeps ==
    ASSUME IInv, NEW c \in Clients, NEW s \in Sessions, Connect(c, s)
    PROVE  IInv'
<1> USE ConstantsAssumption DEF Open, Attached, Stored
<1>1. TypeOK'
  BY DEF Connect, IInv, TypeOK, Call, Session, Free, NoReply, Replies, Phases, Stopped, Reconciling
<1>2. LocksExclusive'
  BY DEF Connect, IInv, LocksExclusive, TypeOK, Session, Free
<1>3. LocksAscend'
  BY DEF Connect, IInv, LocksAscend, TypeOK, Session, Free
<1>4. OneAttached'
  BY DEF Connect, IInv, OneAttached, SessionsOK, SessionOK, TypeOK, Session, Free, Stopped
<1>5. SessionsOK'
  BY DEF Connect, IInv, TypeOK, LocksExclusive, OneAttached, SessionsOK, SessionOK, CallsOK,
         CallOK, RowFits, Compatible, Call, Session, Free, NoReply, Stopped, Reconciling
<1>6. CallsOK'
  BY DEF Connect, IInv, TypeOK, LocksExclusive, OneAttached, SessionsOK, SessionOK, CallsOK,
         CallOK, RowFits, Compatible, Call, Session, Free, NoReply, Stopped, Reconciling
<1>7. FiniteOpen'
  <2>1. {o \in Sessions : Open(o)}' \subseteq {o \in Sessions : Open(o)} \cup {s}
    BY DEF Connect, IInv, TypeOK, Session, Free
  <2> QED
    BY <2>1, FS_Subset, FS_AddElement DEF FiniteOpen, IInv
<1> QED
  BY <1>1, <1>2, <1>3, <1>4, <1>5, <1>6, <1>7 DEF IInv

(* A failed connect ends the iteration; the call has no session that could *)
(* have answered it.                                                       *)
LEMMA ConnectFailsKeeps ==
    ASSUME IInv, NEW c \in Clients, ConnectFails(c)
    PROVE  IInv'
<1> USE ConstantsAssumption DEF Open, Attached, Stored
<1>0. /\ call' \in [Clients -> Call]
      /\ \A d \in Clients \ {c} : call'[d] = call[d]
      /\ \/ /\ call'[c].unresolved = call[c].unresolved
            /\ call'[c].at = IF call[c].unresolved THEN "before" ELSE "write"
            /\ call'[c].reply = call[c].reply
         \/ /\ call'[c].at = "done"
            /\ call'[c].reply = [kind |-> Exhausted(call[c].unresolved), row |-> None]
  <2>1. call[c].unresolved \in BOOLEAN
    BY DEF IInv, TypeOK, Call
  <2> QED
    BY <2>1, NextIterationEffect DEF ConnectFails, IInv
<1>f. /\ \A d \in Clients \ {c} : CallOK(d)'
      /\ \A o \in Sessions : Open(o) /\ session[o].client # c => SessionOK(o)'
  <2>1. \A o \in Sessions : Open(o) /\ session[o].client # c => session'[o] = session[o]
    BY DEF ConnectFails, Exhausted, IInv, TypeOK
  <2> QED
    BY <1>0, <2>1, OtherCalls DEF ConnectFails, Exhausted
<1>1. TypeOK'
  BY <1>0
     DEF ConnectFails, Exhausted, IInv, TypeOK, Call, Session, Free, NoReply, Replies, Phases,
         Stopped, Reconciling
<1>2. LocksExclusive'
  BY <1>0 DEF ConnectFails, Exhausted, IInv, LocksExclusive, TypeOK, Session, Free
<1>3. LocksAscend'
  BY <1>0 DEF ConnectFails, Exhausted, IInv, LocksAscend, TypeOK, Session, Free
<1>4. OneAttached'
  BY <1>0 DEF ConnectFails, Exhausted, IInv, OneAttached, TypeOK, Session, Free
<1>5. SessionsOK'
  <2>1. ASSUME NEW o \in Sessions, Open(o)', session[o].client = c
        PROVE  SessionOK(o)'
    BY <1>0, <2>1
       DEF ConnectFails, Exhausted, IInv, TypeOK, LocksExclusive, OneAttached, SessionsOK,
           SessionOK, CallsOK, CallOK, RowFits, Compatible, Call, Session, Free, NoReply,
           Stopped, Reconciling
  <2>2. \A o \in Sessions : Open(o)' => Open(o)
    BY DEF ConnectFails, Exhausted, IInv, TypeOK
  <2> QED
    BY <1>f, <2>1, <2>2 DEF SessionsOK
<1>6. CallsOK'
  <2>1. CallOK(c)'
    BY <1>0
       DEF ConnectFails, Exhausted, IInv, TypeOK, LocksExclusive, OneAttached, SessionsOK,
           SessionOK, CallsOK, CallOK, RowFits, Compatible, Call, Session, Free, NoReply,
           Stopped, Reconciling
  <2> QED
    BY <1>f, <2>1 DEF CallsOK
<1>7. FiniteOpen'
  <2>1. {o \in Sessions : Open(o)}' \subseteq {o \in Sessions : Open(o)}
    BY <1>0 DEF ConnectFails, Exhausted, IInv, TypeOK, Session, Free
  <2> QED
    BY <2>1, FS_Subset, FS_AddElement DEF FiniteOpen, IInv
<1> QED
  BY <1>1, <1>2, <1>3, <1>4, <1>5, <1>6, <1>7 DEF IInv

(* A crash leaves the sessions of the call behind; its COMMIT may still    *)
(* land.                                                                   *)
LEMMA CrashKeeps ==
    ASSUME IInv, NEW c \in Clients, Crash(c)
    PROVE  IInv'
<1> USE ConstantsAssumption DEF Open, Attached, Stored
<1>1. TypeOK'
  <2>1. call' \in [Clients -> Call]
    BY DEF Crash, IInv, TypeOK, Call, Stopped
  <2>2. ASSUME NEW o \in Sessions
        PROVE  /\ session'[o] \in Session \cup {Free}
               /\ session'[o] # Free => session'[o].held \subseteq Identities[session'[o].client]
    BY <2>2 DEF Crash, IInv, TypeOK, Session
  <2> QED
    BY <2>1, <2>2 DEF Crash, IInv, TypeOK
<1>2. LocksExclusive'
  BY DEF Crash, IInv, LocksExclusive, TypeOK, Session, Free
<1>3. LocksAscend'
  BY DEF Crash, IInv, LocksAscend, TypeOK, Session, Free
<1>4. OneAttached'
  BY DEF Crash, IInv, OneAttached, TypeOK, Session, Free
<1>5. SessionsOK'
  BY DEF Crash, IInv, TypeOK, LocksExclusive, OneAttached, SessionsOK, SessionOK, CallsOK,
         CallOK, RowFits, Compatible, Call, Session, Free, NoReply, Stopped, Reconciling
<1>6. CallsOK'
  BY DEF Crash, IInv, TypeOK, LocksExclusive, OneAttached, SessionsOK, SessionOK, CallsOK,
         CallOK, RowFits, Compatible, Call, Session, Free, NoReply, Stopped, Reconciling
<1>7. FiniteOpen'
  <2>1. {o \in Sessions : Open(o)}' \subseteq {o \in Sessions : Open(o)}
    BY DEF Crash, IInv, TypeOK, Session, Free
  <2> QED
    BY <2>1, FS_Subset, FS_AddElement DEF FiniteOpen, IInv
<1> QED
  BY <1>1, <1>2, <1>3, <1>4, <1>5, <1>6, <1>7 DEF IInv

(* The server ends a lost session, and with it what it might have done.    *)
LEMMA AbortKeeps ==
    ASSUME IInv, NEW s \in Sessions, Abort(s)
    PROVE  IInv'
<1> USE ConstantsAssumption DEF Open, Attached, Stored
<1>1. TypeOK'
  BY DEF Abort, IInv, TypeOK, Call, Session, Free, NoReply, Replies, Phases, Stopped, Reconciling
<1>2. LocksExclusive'
  BY DEF Abort, IInv, LocksExclusive, TypeOK, Session, Free
<1>3. LocksAscend'
  BY DEF Abort, IInv, LocksAscend, TypeOK, Session, Free
<1>4. OneAttached'
  BY DEF Abort, IInv, OneAttached, TypeOK, Session, Free
<1>5. SessionsOK'
  BY DEF Abort, IInv, TypeOK, LocksExclusive, OneAttached, SessionsOK, SessionOK, CallsOK,
         CallOK, RowFits, Compatible, Call, Session, Free, NoReply, Stopped, Reconciling
<1>6. CallsOK'
  BY DEF Abort, IInv, TypeOK, LocksExclusive, OneAttached, SessionsOK, SessionOK, CallsOK,
         CallOK, RowFits, Compatible, Call, Session, Free, NoReply, Stopped, Reconciling
<1>7. FiniteOpen'
  <2>1. {o \in Sessions : Open(o)}' \subseteq {o \in Sessions : Open(o)}
    BY DEF Abort, IInv, TypeOK, Session, Free
  <2> QED
    BY <2>1, FS_Subset, FS_AddElement DEF FiniteOpen, IInv
<1> QED
  BY <1>1, <1>2, <1>3, <1>4, <1>5, <1>6, <1>7 DEF IInv

(* A session takes the smallest identity it misses, if nobody holds it.    *)
LEMMA AcquireLockKeeps ==
    ASSUME IInv, NEW s \in Sessions, AcquireLock(s)
    PROVE  IInv'
<1> USE ConstantsAssumption DEF Open, Attached, Stored
<1>1. TypeOK'
  BY DEF AcquireLock, IInv, TypeOK, Session, Free
<1>2. LocksExclusive'
  BY DEF AcquireLock, Takes, Unheld, IInv, LocksExclusive, TypeOK, Session, Free
<1>3. LocksAscend'
  <2>1. PICK identity \in Identities[session[s].client] :
          /\ Takes(s, identity)
          /\ session' = [session EXCEPT ![s].held = @ \cup {identity}]
    BY DEF AcquireLock
  <2>2. session[s] \in Session /\ Identities[session[s].client] \subseteq Nat
    BY SessionType DEF AcquireLock, IInv
  <2>3. /\ session'[s].client = session[s].client
        /\ session'[s].held = session[s].held \cup {identity}
    BY <2>1, <2>2 DEF Session, IInv, TypeOK
  <2>4. ASSUME NEW i \in session'[s].held,
               NEW j \in Identities[session'[s].client] \ session'[s].held
        PROVE  i < j
    <3>1. j \in Identities[session[s].client] \ session[s].held /\ j # identity
      BY <2>3, <2>4
    <3>2. CASE i = identity
      BY <2>1, <2>2, <3>1, <3>2 DEF Takes
    <3>3. CASE i \in session[s].held
      BY <3>1, <3>3 DEF IInv, LocksAscend, AcquireLock
    <3> QED
      BY <2>3, <2>4, <3>2, <3>3
  <2> QED
    BY <2>1, <2>4 DEF IInv, LocksAscend, TypeOK
<1>4. OneAttached'
  BY DEF AcquireLock, Takes, Unheld, IInv, OneAttached, TypeOK, Session, Free
<1>5. SessionsOK'
  BY DEF AcquireLock, Takes, Unheld, IInv, TypeOK, LocksExclusive, OneAttached, SessionsOK,
         SessionOK, CallsOK, CallOK, RowFits, Compatible, Call, Session, Free, NoReply,
         Stopped, Reconciling
<1>6. CallsOK'
  BY DEF AcquireLock, Takes, Unheld, IInv, TypeOK, LocksExclusive, OneAttached, SessionsOK,
         SessionOK, CallsOK, CallOK, RowFits, Compatible, Call, Session, Free, NoReply,
         Stopped, Reconciling
<1>7. FiniteOpen'
  <2>1. {o \in Sessions : Open(o)}' \subseteq {o \in Sessions : Open(o)}
    BY DEF AcquireLock, Takes, Unheld, IInv, TypeOK, Session, Free
  <2> QED
    BY <2>1, FS_Subset, FS_AddElement DEF FiniteOpen, IInv
<1> QED
  BY <1>1, <1>2, <1>3, <1>4, <1>5, <1>6, <1>7 DEF IInv

(* A write reads the request's row under its locks.                        *)
LEMMA WriteKeeps ==
    ASSUME IInv, NEW s \in Sessions, Write(s)
    PROVE  IInv'
<1> USE ConstantsAssumption DEF Open, Attached, Stored
<1>s. session[s] \in Session /\ session[s].client \in Clients
      /\ Stored(session[s].client) \in Clients \cup {None}
  BY SessionType DEF Write, Locked, IInv
<1>w. /\ session'[s] \in Session
      /\ session'[s].client = session[s].client /\ session'[s].kind = session[s].kind
      /\ session'[s].held = session[s].held /\ session'[s].attached = session[s].attached
      /\ session'[s].phase = "staged" /\ RowFits(session'[s].row, session[s].client)
      /\ session' \in [Sessions -> Session \cup {Free}]
      /\ \A o \in Sessions \ {s} : session'[o] = session[o]
      /\ UNCHANGED <<store, call, payload>>
  BY <1>s DEF Write, Locked, IInv, TypeOK, Session, Phases, RowFits
<1>1. TypeOK'
  BY <1>s, <1>w DEF IInv, TypeOK, Write, Locked
<1>2. LocksExclusive'
  BY <1>w DEF Write, Locked, IInv, LocksExclusive
<1>3. LocksAscend'
  BY <1>w DEF Write, Locked, IInv, LocksAscend
<1>4. OneAttached'
  BY <1>w DEF Write, Locked, IInv, OneAttached
<1>5. SessionsOK'
  <2>1. SessionOK(s)'
    BY <1>s, <1>w DEF Write, Locked, IInv, SessionsOK, SessionOK, RowFits, Compatible
  <2>2. ASSUME NEW o \in Sessions \ {s}, Open(o)'
        PROVE  SessionOK(o)'
    BY <1>w, <2>2 DEF IInv, SessionsOK, SessionOK, RowFits, Compatible
  <2> QED
    BY <2>1, <2>2 DEF SessionsOK
<1>6. CallsOK'
  BY <1>w DEF Write, Locked, IInv, CallsOK, CallOK
<1>7. FiniteOpen'
  <2>1. {o \in Sessions : Open(o)}' \subseteq {o \in Sessions : Open(o)}
    BY <1>s DEF Write, Locked, IInv, TypeOK, Session, Free
  <2> QED
    BY <2>1, FS_Subset, FS_AddElement DEF FiniteOpen, IInv
<1> QED
  BY <1>1, <1>2, <1>3, <1>4, <1>5, <1>6, <1>7 DEF IInv

(* COMMIT is sent by a session that holds its locks.                       *)
LEMMA SendCommitKeeps ==
    ASSUME IInv, NEW s \in Sessions, SendCommit(s)
    PROVE  IInv'
<1> USE ConstantsAssumption DEF Open, Attached, Stored
<1>1. TypeOK'
  BY DEF SendCommit, IInv, TypeOK, Call, Session, Free, NoReply, Replies, Phases, Stopped,
         Reconciling
<1>2. LocksExclusive'
  BY DEF SendCommit, IInv, LocksExclusive, TypeOK, Session, Free
<1>3. LocksAscend'
  BY DEF SendCommit, IInv, LocksAscend, TypeOK, Session, Free
<1>4. OneAttached'
  BY DEF SendCommit, IInv, OneAttached, TypeOK, Session, Free
<1>5. SessionsOK'
  BY DEF SendCommit, IInv, TypeOK, LocksExclusive, OneAttached, SessionsOK, SessionOK, CallsOK,
         CallOK, RowFits, Compatible, Call, Session, Free, NoReply, Stopped, Reconciling
<1>6. CallsOK'
  BY DEF SendCommit, IInv, TypeOK, LocksExclusive, OneAttached, SessionsOK, SessionOK, CallsOK,
         CallOK, RowFits, Compatible, Call, Session, Free, NoReply, Stopped, Reconciling
<1>7. FiniteOpen'
  <2>1. {o \in Sessions : Open(o)}' \subseteq {o \in Sessions : Open(o)}
    BY DEF SendCommit, IInv, TypeOK, Session, Free
  <2> QED
    BY <2>1, FS_Subset, FS_AddElement DEF FiniteOpen, IInv
<1> QED
  BY <1>1, <1>2, <1>3, <1>4, <1>5, <1>6, <1>7 DEF IInv

(* A landing COMMIT stores what was staged; nobody else has staged a row   *)
(* of the request.                                                         *)
LEMMA LandKeeps ==
    ASSUME IInv, NEW s \in Sessions, Land(s)
    PROVE  IInv'
<1> USE ConstantsAssumption DEF Open, Attached, Stored
<1>s. PICK c \in Clients :
        /\ session[s] \in Session /\ c = session[s].client
        /\ session[s].row \in Clients \cup {None} /\ RequestOf[c] \in Requests
  BY SessionType DEF Land, IInv
<1>r. /\ RowFits(session[s].row, c) /\ session[s].held = Identities[c] /\ session[s].kind = "write"
      /\ session[s].row # None
  BY <1>s DEF Land, IInv, SessionsOK, SessionOK, RowFits
<1>c. \A o \in Sessions : o # s /\ Open(o) /\ RequestOf[session[o].client] = RequestOf[c] =>
        session[o].phase \notin {"staged", "commit"}
  <2>1. ASSUME NEW o \in Sessions, o # s, Open(o), RequestOf[session[o].client] = RequestOf[c],
               session[o].phase \in {"staged", "commit"}
        PROVE  FALSE
    <3>1. session[o].held = Identities[session[o].client] /\ session[o].client \in Clients
      BY <2>1, SessionType DEF IInv, SessionsOK, SessionOK
    <3>2. session[o].held \cap session[s].held = {}
      BY <2>1 DEF Land, IInv, LocksExclusive
    <3> QED
      BY <1>s, <1>r, <2>1, <3>1, <3>2
  <2> QED
    BY <2>1
<1>d. /\ \A d \in Clients : RequestOf[d] # RequestOf[c] => Stored(d)' = Stored(d)
      /\ Stored(c) # None => \A d \in Clients : Stored(d)' = Stored(d)
      /\ Stored(c) = None => \A d \in Clients : RequestOf[d] = RequestOf[c] =>
            Stored(d) = None /\ Stored(d)' = c
  BY <1>s, <1>r DEF Land, IInv, TypeOK, RowFits
<1>1. TypeOK'
  BY <1>s
     DEF Land, IInv, TypeOK, Call, Session, Free, NoReply, Replies, Phases, Stopped,
         Reconciling
<1>2. LocksExclusive'
  BY <1>s DEF Land, IInv, LocksExclusive, TypeOK, Session, Free
<1>3. LocksAscend'
  BY <1>s DEF Land, IInv, LocksAscend, TypeOK, Session, Free
<1>4. OneAttached'
  BY <1>s DEF Land, IInv, OneAttached, TypeOK, Session, Free
<1>5. SessionsOK'
  <2> SUFFICES ASSUME NEW o \in Sessions, Open(o)'
               PROVE  SessionOK(o)'
    BY DEF SessionsOK
  <2>1. CASE o # s
    <3>1. session'[o] = session[o] /\ Open(o) /\ session[o].client \in Clients /\ SessionOK(o)
      BY <2>1, SessionType DEF Land, IInv, TypeOK, SessionsOK
    <3>2. CASE RequestOf[session[o].client] # RequestOf[c] \/ Stored(c) # None
      <4>1. PICK d \in Clients : d = session[o].client
        BY <3>1
      <4>2. Stored(d)' = Stored(d) /\ call' = call /\ payload' = payload
        BY <1>d, <3>2, <4>1 DEF Land
      <4> QED
        BY <3>1, <4>1, <4>2 DEF SessionOK, RowFits, Compatible
    <3>3. CASE RequestOf[session[o].client] = RequestOf[c] /\ Stored(c) = None
      <4>1. session[o].phase \notin {"staged", "commit", "acked"}
        BY <1>c, <1>d, <2>1, <3>1, <3>3 DEF SessionOK
      <4> QED
        BY <3>1, <4>1 DEF Land, SessionOK
    <3> QED
      BY <3>2, <3>3
  <2>2. CASE o = s
    <3>1. session[s].attached /\ session'[s] = [session[s] EXCEPT !.phase = "acked", !.held = {}]
      BY <2>2 DEF Land, IInv, TypeOK
    <3>2. Stored(c)' # None /\ RowFits(session[s].row, c)' /\ SessionOK(s) /\ c \in Clients
      <4>1. payload' = payload /\ session'[s].row = session[s].row
        BY <1>s, <3>1 DEF Land, Session
      <4>2. CASE Stored(c) = None
        BY <1>r, <1>d, <4>1, <4>2 DEF RowFits, Compatible, IInv, SessionsOK, Land
      <4>3. CASE Stored(c) # None
        BY <1>r, <1>d, <4>1, <4>3 DEF RowFits, Compatible, IInv, SessionsOK, Land
      <4> QED
        BY <4>2, <4>3
    <3>3. /\ session'[s].client = c /\ session'[s].phase = "acked" /\ session'[s].attached
          /\ session'[s].row = session[s].row /\ session'[s].kind = "write"
      BY <1>s, <1>r, <3>1 DEF Session
    <3>4. call' = call /\ call[c].at = "write"
      BY <1>s, <1>r, <3>1, <3>2 DEF Land, SessionOK
    <3> QED
      BY <2>2, <3>2, <3>3, <3>4 DEF SessionOK, RowFits, Compatible, Stopped
  <2> QED
    BY <2>1, <2>2
<1>6. CallsOK'
  <2> SUFFICES ASSUME NEW d \in Clients
               PROVE  CallOK(d)'
    BY DEF CallsOK
  <2>1. call' = call /\ CallOK(d)
    BY DEF Land, IInv, CallsOK
  <2>2. \A o \in Sessions : Attached(o, d) /\ session[o].phase = "acked" =>
          Attached(o, d)' /\ session'[o].phase = "acked"
    BY DEF Land, IInv, TypeOK
  <2>3. CASE Stored(d)' = Stored(d)
    BY <2>1, <2>2, <2>3 DEF CallOK
  <2>4. CASE Stored(d)' # Stored(d)
    <3>1. Stored(d)' = c
      BY <1>d, <2>4
    <3>2. CASE d # c
      BY <2>1, <3>1, <3>2 DEF CallOK
    <3>3. CASE d = c /\ session[s].attached
      <4>1. Attached(s, c)' /\ session'[s].phase = "acked"
        BY <1>s, <3>3 DEF Land, IInv, TypeOK, Session, Free
      <4>2. call[c].at \notin Stopped
        BY <1>s, <3>3 DEF Land, IInv, SessionsOK, SessionOK
      <4> QED
        BY <2>1, <3>3, <4>1, <4>2 DEF CallOK, Stopped
    <3>4. CASE d = c /\ ~session[s].attached
      <4>1. call[c].at \in Reconciling \cup {"crashed"} \/ call[c].reply.kind = "commit_unknown"
        BY <1>s, <3>4 DEF Land, IInv, SessionsOK, SessionOK
      <4> QED
        BY <2>1, <3>4, <4>1 DEF CallOK, Reconciling
    <3> QED
      BY <1>s, <3>2, <3>3, <3>4, SessionType DEF Land, IInv
  <2> QED
    BY <2>3, <2>4
<1>7. FiniteOpen'
  <2>1. {o \in Sessions : Open(o)}' \subseteq {o \in Sessions : Open(o)}
    BY <1>s DEF Land, IInv, TypeOK, Session, Free
  <2> QED
    BY <2>1, FS_Subset, FS_AddElement DEF FiniteOpen, IInv
<1> QED
  BY <1>1, <1>2, <1>3, <1>4, <1>5, <1>6, <1>7 DEF IInv

(* A call that is answered returns the row its own COMMIT made or found.   *)
LEMMA ReturnKeeps ==
    ASSUME IInv, NEW s \in Sessions, Return(s)
    PROVE  IInv'
<1> USE ConstantsAssumption DEF Open, Attached, Stored
<1>s. PICK c \in Clients : session[s] \in Session /\ c = session[s].client
  BY SessionType DEF Return, IInv
<1>0. /\ call' \in [Clients -> Call]
      /\ \A d \in Clients \ {c} : call'[d] = call[d]
      /\ call'[c].at = "done" /\ call'[c].reply = [kind |-> "ok", row |-> session[s].row]
  <2>1. [kind |-> "ok", row |-> session[s].row] \in [kind : Replies, row : Clients \cup {None}]
    BY <1>s, SessionType DEF Return, IInv, Replies
  <2> QED
    BY <1>s, <2>1, FinishEffect DEF Return, IInv
<1>f. /\ \A d \in Clients \ {c} : CallOK(d)'
      /\ \A o \in Sessions : Open(o) /\ session[o].client # c => SessionOK(o)'
  <2>1. \A o \in Sessions : Open(o) /\ session[o].client # c => session'[o] = session[o]
    BY <1>s DEF Return, IInv, TypeOK
  <2> QED
    BY <1>0, <2>1, OtherCalls DEF Return
<1>1. TypeOK'
  BY <1>s, <1>0
     DEF Return, IInv, TypeOK, Call, Session, Free, NoReply, Replies, Phases, Stopped,
         Reconciling
<1>2. LocksExclusive'
  BY <1>s, <1>0 DEF Return, IInv, LocksExclusive, TypeOK, Session, Free
<1>3. LocksAscend'
  BY <1>s, <1>0 DEF Return, IInv, LocksAscend, TypeOK, Session, Free
<1>4. OneAttached'
  BY DEF Return, IInv, OneAttached, TypeOK, Session, Free
<1>5. SessionsOK'
  <2>1. ASSUME NEW o \in Sessions, Open(o)', session[o].client = c
        PROVE  SessionOK(o)'
    <3>1. o # s /\ session'[o] = session[o] /\ Open(o) /\ SessionOK(o) /\ Stored(c)' = Stored(c)
          /\ payload' = payload
      BY <2>1 DEF Return, IInv, TypeOK, SessionsOK
    <3>2. ~session[o].attached
      BY <1>s, <2>1, <3>1 DEF Return, IInv, OneAttached
    <3>3. session[o].phase # "commit"
      <4>1. call[c].at = "write" /\ call[c].reply.kind # "commit_unknown"
        BY <1>s DEF Return, IInv, SessionsOK, SessionOK, CallsOK, CallOK
      <4> QED
        BY <2>1, <3>1, <3>2, <4>1 DEF SessionOK, Reconciling
    <3> QED
      BY <2>1, <3>1, <3>2, <3>3 DEF SessionOK, RowFits, Compatible
  <2>2. \A o \in Sessions : Open(o)' => Open(o)
    BY <1>s DEF Return, IInv, TypeOK
  <2> QED
    BY <1>f, <2>1, <2>2 DEF SessionsOK
<1>6. CallsOK'
  <2>1. CallOK(c)'
    BY <1>s, <1>0
       DEF Return, IInv, TypeOK, LocksExclusive, OneAttached, SessionsOK, SessionOK, CallsOK,
           CallOK, RowFits, Compatible, Call, Session, Free, NoReply, Stopped, Reconciling
  <2> QED
    BY <1>f, <2>1 DEF CallsOK
<1>7. FiniteOpen'
  <2>1. {o \in Sessions : Open(o)}' \subseteq {o \in Sessions : Open(o)}
    BY <1>s, <1>0 DEF Return, IInv, TypeOK, Session, Free
  <2> QED
    BY <2>1, FS_Subset, FS_AddElement DEF FiniteOpen, IInv
<1> QED
  BY <1>1, <1>2, <1>3, <1>4, <1>5, <1>6, <1>7 DEF IInv

(* A reconciliation that finds the row answers with it; its locks exclude  *)
(* a COMMIT in flight.                                                     *)
LEMMA ReconcileFoundKeeps ==
    ASSUME IInv, NEW s \in Sessions, ReconcileFound(s)
    PROVE  IInv'
<1> USE ConstantsAssumption DEF Open, Attached, Stored
<1>s. PICK c \in Clients : session[s] \in Session /\ c = session[s].client
  BY SessionType DEF ReconcileFound, Locked, IInv
<1>0. /\ call' \in [Clients -> Call]
      /\ \A d \in Clients \ {c} : call'[d] = call[d]
      /\ call'[c].at = "done" /\ call'[c].reply = [kind |-> "ok", row |-> Stored(c)]
  <2>1. [kind |-> "ok", row |-> Stored(c)] \in [kind : Replies, row : Clients \cup {None}]
    BY <1>s, SessionType DEF ReconcileFound, Locked, IInv, Replies
  <2> QED
    BY <1>s, <2>1, FinishEffect DEF ReconcileFound, IInv
<1>f. /\ \A d \in Clients \ {c} : CallOK(d)'
      /\ \A o \in Sessions : Open(o) /\ session[o].client # c => SessionOK(o)'
  <2>1. \A o \in Sessions : Open(o) /\ session[o].client # c => session'[o] = session[o]
    BY <1>s DEF ReconcileFound, Locked, Found, IInv, TypeOK
  <2> QED
    BY <1>0, <2>1, OtherCalls DEF ReconcileFound, Locked, Found
<1>1. TypeOK'
  BY <1>s, <1>0
     DEF ReconcileFound, Locked, Found, IInv, TypeOK, Call, Session, Free, NoReply, Replies,
         Phases, Stopped, Reconciling
<1>2. LocksExclusive'
  BY <1>s, <1>0 DEF ReconcileFound, Locked, Found, IInv, LocksExclusive, TypeOK, Session, Free
<1>3. LocksAscend'
  BY <1>s, <1>0 DEF ReconcileFound, Locked, Found, IInv, LocksAscend, TypeOK, Session, Free
<1>4. OneAttached'
  BY DEF ReconcileFound, Locked, Found, IInv, OneAttached, TypeOK, Session, Free
<1>5. SessionsOK'
  <2>1. ASSUME NEW o \in Sessions, Open(o)', session[o].client = c
        PROVE  SessionOK(o)'
    <3>1. o # s /\ session'[o] = session[o] /\ Open(o) /\ SessionOK(o) /\ Stored(c)' = Stored(c)
          /\ payload' = payload
      BY <2>1 DEF ReconcileFound, Locked, IInv, TypeOK, SessionsOK
    <3>2. ~session[o].attached
      BY <1>s, <2>1, <3>1 DEF ReconcileFound, Locked, IInv, OneAttached
    <3>3. session[o].phase # "commit"
      BY <1>s, <2>1, <3>1, LockedAlone DEF ReconcileFound
    <3> QED
      BY <2>1, <3>1, <3>2, <3>3 DEF SessionOK, RowFits, Compatible
  <2>2. \A o \in Sessions : Open(o)' => Open(o)
    BY <1>s DEF ReconcileFound, Locked, Found, IInv, TypeOK
  <2> QED
    BY <1>f, <2>1, <2>2 DEF SessionsOK
<1>6. CallsOK'
  <2>1. CallOK(c)'
    BY <1>s, <1>0
       DEF ReconcileFound, Locked, Found, IInv, TypeOK, LocksExclusive, OneAttached,
           SessionsOK, SessionOK, CallsOK, CallOK, RowFits, Compatible, Call, Session, Free,
           NoReply, Stopped, Reconciling
  <2> QED
    BY <1>f, <2>1 DEF CallsOK
<1>7. FiniteOpen'
  <2>1. {o \in Sessions : Open(o)}' \subseteq {o \in Sessions : Open(o)}
    BY <1>s, <1>0 DEF ReconcileFound, Locked, Found, IInv, TypeOK, Session, Free
  <2> QED
    BY <2>1, FS_Subset, FS_AddElement DEF FiniteOpen, IInv
<1> QED
  BY <1>1, <1>2, <1>3, <1>4, <1>5, <1>6, <1>7 DEF IInv

(* A reconciliation that finds no row resolves the ambiguity: its locks    *)
(* exclude a COMMIT in flight.                                             *)
LEMMA ReconcileAbsentKeeps ==
    ASSUME IInv, NEW s \in Sessions, ReconcileAbsent(s)
    PROVE  IInv'
<1> USE ConstantsAssumption DEF Open, Attached, Stored
<1>s. PICK c \in Clients : session[s] \in Session /\ c = session[s].client
  BY SessionType DEF ReconcileAbsent, Locked, IInv
<1>0. /\ call' \in [Clients -> Call]
      /\ \A d \in Clients \ {c} : call'[d] = call[d]
      /\ \/ /\ ~call'[c].unresolved /\ call'[c].at = "write"
            /\ call'[c].reply = call[c].reply
         \/ /\ call'[c].at = "done"
            /\ call'[c].reply = [kind |-> "transaction_error", row |-> None]
  <2>2. CASE call[c].at = "before"
    BY <1>s, <2>2 DEF ReconcileAbsent, IInv, TypeOK, Call
  <2>3. CASE call[c].at # "before"
    BY <1>s, <2>3, NextIterationEffect DEF ReconcileAbsent, IInv, Exhausted
  <2> QED
    BY <2>2, <2>3
<1>f. /\ \A d \in Clients \ {c} : CallOK(d)'
      /\ \A o \in Sessions : Open(o) /\ session[o].client # c => SessionOK(o)'
  <2>1. \A o \in Sessions : Open(o) /\ session[o].client # c => session'[o] = session[o]
    BY <1>s DEF ReconcileAbsent, Locked, Found, IInv, TypeOK
  <2> QED
    BY <1>0, <2>1, OtherCalls DEF ReconcileAbsent, Locked, Found
<1>1. TypeOK'
  BY <1>s, <1>0
     DEF ReconcileAbsent, Locked, Found, IInv, TypeOK, Call, Session, Free, NoReply, Replies,
         Phases, Stopped, Reconciling
<1>2. LocksExclusive'
  BY <1>s, <1>0 DEF ReconcileAbsent, Locked, Found, IInv, LocksExclusive, TypeOK, Session, Free
<1>3. LocksAscend'
  BY <1>s, <1>0 DEF ReconcileAbsent, Locked, Found, IInv, LocksAscend, TypeOK, Session, Free
<1>4. OneAttached'
  BY DEF ReconcileAbsent, Locked, Found, IInv, OneAttached, TypeOK, Session, Free
<1>5. SessionsOK'
  <2>1. ASSUME NEW o \in Sessions, Open(o)', session[o].client = c
        PROVE  SessionOK(o)'
    <3>1. o # s /\ session'[o] = session[o] /\ Open(o) /\ SessionOK(o) /\ Stored(c)' = Stored(c)
          /\ payload' = payload
      BY <2>1 DEF ReconcileAbsent, Locked, IInv, TypeOK, SessionsOK
    <3>2. ~session[o].attached
      BY <1>s, <2>1, <3>1 DEF ReconcileAbsent, Locked, IInv, OneAttached
    <3>3. session[o].phase # "commit"
      BY <1>s, <2>1, <3>1, LockedAlone DEF ReconcileAbsent
    <3> QED
      BY <2>1, <3>1, <3>2, <3>3 DEF SessionOK, RowFits, Compatible
  <2>2. \A o \in Sessions : Open(o)' => Open(o)
    BY <1>s DEF ReconcileAbsent, Locked, Found, IInv, TypeOK
  <2> QED
    BY <1>f, <2>1, <2>2 DEF SessionsOK
<1>6. CallsOK'
  <2>1. CallOK(c)'
    BY <1>s, <1>0
       DEF ReconcileAbsent, Locked, Found, IInv, TypeOK, LocksExclusive, OneAttached,
           SessionsOK, SessionOK, CallsOK, CallOK, RowFits, Compatible, Call, Session, Free,
           NoReply, Stopped, Reconciling
  <2> QED
    BY <1>f, <2>1 DEF CallsOK
<1>7. FiniteOpen'
  <2>1. {o \in Sessions : Open(o)}' \subseteq {o \in Sessions : Open(o)}
    BY <1>s, <1>0 DEF ReconcileAbsent, Locked, Found, IInv, TypeOK, Session, Free
  <2> QED
    BY <2>1, FS_Subset, FS_AddElement DEF FiniteOpen, IInv
<1> QED
  BY <1>1, <1>2, <1>3, <1>4, <1>5, <1>6, <1>7 DEF IInv

(* A refused call has written nothing that could still be committed.       *)
LEMMA RefuseKeeps ==
    ASSUME IInv, NEW s \in Sessions, Refuse(s)
    PROVE  IInv'
<1> USE ConstantsAssumption DEF Open, Attached, Stored
<1>s. PICK c \in Clients : session[s] \in Session /\ c = session[s].client
  BY SessionType DEF Refuse, IInv
<1>0. /\ call' \in [Clients -> Call]
      /\ \A d \in Clients \ {c} : call'[d] = call[d]
      /\ call'[c].at = "done" /\ call'[c].reply = [kind |-> "refused", row |-> None]
  BY <1>s, RaiseEffect, "refused" \in Replies DEF Refuse, IInv, Replies
<1>f. /\ \A d \in Clients \ {c} : CallOK(d)'
      /\ \A o \in Sessions : Open(o) /\ session[o].client # c => SessionOK(o)'
  <2>1. \A o \in Sessions : Open(o) /\ session[o].client # c => session'[o] = session[o]
    BY <1>s DEF Refuse, Locked, Found, IInv, TypeOK
  <2> QED
    BY <1>0, <2>1, OtherCalls DEF Refuse, Locked, Found
<1>1. TypeOK'
  BY <1>s, <1>0
     DEF Refuse, Locked, Found, IInv, TypeOK, Call, Session, Free, NoReply, Replies, Phases,
         Stopped, Reconciling
<1>2. LocksExclusive'
  BY <1>s, <1>0 DEF Refuse, Locked, Found, IInv, LocksExclusive, TypeOK, Session, Free
<1>3. LocksAscend'
  BY <1>s, <1>0 DEF Refuse, Locked, Found, IInv, LocksAscend, TypeOK, Session, Free
<1>4. OneAttached'
  BY DEF Refuse, Locked, Found, IInv, OneAttached, TypeOK, Session, Free
<1>5. SessionsOK'
  <2>1. ASSUME NEW o \in Sessions, Open(o)', session[o].client = c
        PROVE  SessionOK(o)'
    BY <1>s, <1>0, <2>1
       DEF Refuse, Locked, Found, IInv, TypeOK, LocksExclusive, OneAttached, SessionsOK,
           SessionOK, CallsOK, CallOK, RowFits, Compatible, Call, Session, Free, NoReply,
           Stopped, Reconciling
  <2>2. \A o \in Sessions : Open(o)' => Open(o)
    BY <1>s DEF Refuse, Locked, Found, IInv, TypeOK
  <2> QED
    BY <1>f, <2>1, <2>2 DEF SessionsOK
<1>6. CallsOK'
  <2>1. Stored(c) # c
    <3>1. CASE session[s].kind = "write"
      <4>1. call[c].at = "write" /\ Attached(s, c) /\ session[s].phase # "acked"
        BY <1>s, <3>1 DEF Refuse, IInv, SessionsOK, SessionOK
      <4> QED
        BY <4>1 DEF IInv, OneAttached, CallsOK, CallOK
    <3>2. CASE session[s].kind # "write"
      BY <1>s, <3>2 DEF Refuse, Compatible
    <3> QED
      BY <3>1, <3>2
  <2>2. CallOK(c)'
    BY <1>0, <2>1 DEF CallOK, Refuse, Reconciling
  <2> QED
    BY <1>f, <2>2 DEF CallsOK
<1>7. FiniteOpen'
  <2>1. {o \in Sessions : Open(o)}' \subseteq {o \in Sessions : Open(o)}
    BY <1>s, <1>0 DEF Refuse, Locked, Found, IInv, TypeOK, Session, Free
  <2> QED
    BY <2>1, FS_Subset, FS_AddElement DEF FiniteOpen, IInv
<1> QED
  BY <1>1, <1>2, <1>3, <1>4, <1>5, <1>6, <1>7 DEF IInv

(* A failed statement was rolled back; it resolves nothing, and what was   *)
(* unresolved stays so.                                                    *)
LEMMA StatementFailsKeeps ==
    ASSUME IInv, NEW s \in Sessions, StatementFails(s)
    PROVE  IInv'
<1> USE ConstantsAssumption DEF Open, Attached, Stored
<1>s. PICK c \in Clients : session[s] \in Session /\ c = session[s].client
  BY SessionType DEF StatementFails, IInv
<1>0. /\ call' \in [Clients -> Call]
      /\ \A d \in Clients \ {c} : call'[d] = call[d]
      /\ \/ /\ call'[c].unresolved = call[c].unresolved
            /\ call'[c].at = IF call[c].unresolved THEN "before" ELSE "write"
            /\ call'[c].reply = call[c].reply
         \/ /\ call'[c].at = "done"
            /\ \/ call'[c].reply = [kind |-> Exhausted(call[c].unresolved), row |-> None]
               \/ /\ session[s].kind = "write"
                  /\ call'[c].reply = [kind |-> "transaction_error", row |-> None]
  <2>1. call[c].unresolved \in BOOLEAN /\ "transaction_error" \in Replies
    BY <1>s DEF IInv, TypeOK, Call, Replies
  <2> QED
    BY <1>s, <2>1, NextIterationEffect, RaiseEffect DEF StatementFails, IInv
<1>f. /\ \A d \in Clients \ {c} : CallOK(d)'
      /\ \A o \in Sessions : Open(o) /\ session[o].client # c => SessionOK(o)'
  <2>1. \A o \in Sessions : Open(o) /\ session[o].client # c => session'[o] = session[o]
    BY <1>s DEF StatementFails, Exhausted, IInv, TypeOK
  <2> QED
    BY <1>0, <2>1, OtherCalls DEF StatementFails, Exhausted
<1>1. TypeOK'
  BY <1>s, <1>0
     DEF StatementFails, Exhausted, IInv, TypeOK, Call, Session, Free, NoReply, Replies,
         Phases, Stopped, Reconciling
<1>2. LocksExclusive'
  BY <1>s, <1>0 DEF StatementFails, Exhausted, IInv, LocksExclusive, TypeOK, Session, Free
<1>3. LocksAscend'
  BY <1>s, <1>0 DEF StatementFails, Exhausted, IInv, LocksAscend, TypeOK, Session, Free
<1>4. OneAttached'
  BY DEF StatementFails, Exhausted, IInv, OneAttached, TypeOK, Session, Free
<1>5. SessionsOK'
  <2>1. ASSUME NEW o \in Sessions, Open(o)', session[o].client = c
        PROVE  SessionOK(o)'
    <3>1. o # s /\ session'[o] = session[o] /\ Open(o) /\ SessionOK(o) /\ Stored(c)' = Stored(c)
          /\ payload' = payload
      BY <2>1 DEF StatementFails, IInv, TypeOK, SessionsOK
    <3>2. ~session[o].attached /\ call[c].at \notin Stopped /\ call[c] \in Call
          /\ (session[s].kind = "write" <=> call[c].at = "write")
      <4>1. ~session[o].attached
        BY <1>s, <2>1, <3>1 DEF StatementFails, IInv, OneAttached
      <4> QED
        BY <1>s, <4>1 DEF StatementFails, IInv, SessionsOK, SessionOK, TypeOK
    <3>3. call[c].at = "write" => session[o].phase # "commit"
      BY <2>1, <3>1, <3>2 DEF SessionOK, IInv, CallsOK, CallOK, Reconciling
    <3>4. session[o].phase = "commit" =>
            \/ call'[c].at \in Reconciling \cup {"crashed"}
            \/ call'[c].reply.kind = "commit_unknown"
      BY <1>0, <3>2, <3>3 DEF Call, Stopped, Reconciling, Exhausted, IInv, CallsOK, CallOK
    <3> QED
      BY <2>1, <3>1, <3>2, <3>4 DEF SessionOK, RowFits, Compatible
  <2>2. \A o \in Sessions : Open(o)' => Open(o)
    BY <1>s DEF StatementFails, Exhausted, IInv, TypeOK
  <2> QED
    BY <1>f, <2>1, <2>2 DEF SessionsOK
<1>6. CallsOK'
  <2>1. CallOK(c)'
    <3>1. Attached(s, c) /\ session[s].phase # "acked" /\ call[c].at \notin Stopped
          /\ (session[s].kind = "write" <=> call[c].at = "write")
      BY <1>s DEF StatementFails, IInv, SessionsOK, SessionOK
    <3>2. call[c].at = "write" => Stored(c) # c
      BY <3>1 DEF IInv, OneAttached, CallsOK, CallOK
    <3>3. call[c] \in Call /\ CallOK(c) /\ store' = store
      BY DEF StatementFails, IInv, TypeOK, CallsOK
    <3> QED
      BY <1>0, <3>1, <3>2, <3>3 DEF CallOK, Call, Exhausted, Stopped, Reconciling
  <2> QED
    BY <1>f, <2>1 DEF CallsOK
<1>7. FiniteOpen'
  <2>1. {o \in Sessions : Open(o)}' \subseteq {o \in Sessions : Open(o)}
    BY <1>s, <1>0 DEF StatementFails, Exhausted, IInv, TypeOK, Session, Free
  <2> QED
    BY <2>1, FS_Subset, FS_AddElement DEF FiniteOpen, IInv
<1> QED
  BY <1>1, <1>2, <1>3, <1>4, <1>5, <1>6, <1>7 DEF IInv

(* A write whose connection is lost becomes unresolved; a lost             *)
(* reconciliation resolves nothing.                                        *)
LEMMA LoseConnectionKeeps ==
    ASSUME IInv, NEW s \in Sessions, LoseConnection(s)
    PROVE  IInv'
<1> USE ConstantsAssumption DEF Open, Attached, Stored
<1>s. PICK c \in Clients : session[s] \in Session /\ c = session[s].client
  BY SessionType DEF LoseConnection, IInv
<1>0. /\ call' \in [Clients -> Call]
      /\ \A d \in Clients \ {c} : call'[d] = call[d]
      /\ \/ /\ Ambiguous(s)
            /\ call'[c].unresolved /\ call'[c].at = "after"
            /\ call'[c].reply = call[c].reply
         \/ /\ ~Ambiguous(s)
            /\ call'[c].unresolved = call[c].unresolved
            /\ call'[c].at = IF call[c].unresolved THEN "before" ELSE "write"
            /\ call'[c].reply = call[c].reply
         \/ /\ ~Ambiguous(s)
            /\ call'[c].at = "done"
            /\ call'[c].reply = [kind |-> Exhausted(call[c].unresolved), row |-> None]
  <2>1. call[c].unresolved \in BOOLEAN
    BY <1>s DEF IInv, TypeOK, Call
  <2>2. CASE Ambiguous(s)
    <3>1. call[c] \in Call
      BY DEF IInv, TypeOK
    <3>2. [call[c] EXCEPT !.unresolved = TRUE, !.at = "after"] \in Call
      BY <3>1 DEF Call, Reconciling
    <3>3. call' = [call EXCEPT ![c] = [call[c] EXCEPT !.unresolved = TRUE, !.at = "after"]]
      BY <1>s, <2>2 DEF LoseConnection
    <3> QED
      BY <2>2, <3>1, <3>2, <3>3 DEF IInv, TypeOK, Call
  <2>3. CASE ~Ambiguous(s)
    BY <1>s, <2>1, <2>3, NextIterationEffect DEF LoseConnection, IInv
  <2> QED
    BY <2>2, <2>3
<1>f. /\ \A d \in Clients \ {c} : CallOK(d)'
      /\ \A o \in Sessions : Open(o) /\ session[o].client # c => SessionOK(o)'
  <2>1. \A o \in Sessions : Open(o) /\ session[o].client # c => session'[o] = session[o]
    BY <1>s DEF LoseConnection, Ambiguous, Exhausted, IInv, TypeOK
  <2> QED
    BY <1>0, <2>1, OtherCalls DEF LoseConnection, Ambiguous, Exhausted
<1>1. TypeOK'
  BY <1>s, <1>0
     DEF LoseConnection, Ambiguous, Exhausted, IInv, TypeOK, Call, Session, Free, NoReply,
         Replies, Phases, Stopped, Reconciling
<1>2. LocksExclusive'
  BY <1>s, <1>0
     DEF LoseConnection, Ambiguous, Exhausted, IInv, LocksExclusive, TypeOK, Session, Free
<1>3. LocksAscend'
  BY <1>s, <1>0 DEF LoseConnection, Ambiguous, Exhausted, IInv, LocksAscend, TypeOK, Session, Free
<1>4. OneAttached'
  BY DEF LoseConnection, Ambiguous, Exhausted, IInv, OneAttached, TypeOK, Session, Free
<1>5. SessionsOK'
  <2>1. ASSUME NEW o \in Sessions, Open(o)', session[o].client = c
        PROVE  SessionOK(o)'
    <3>1. /\ Open(o) /\ SessionOK(o) /\ session[o] \in Session /\ Stored(c)' = Stored(c)
          /\ payload' = payload /\ ~session'[o].attached
          /\ session'[o] \in {session[o], [session[o] EXCEPT !.attached = FALSE]}
      <4>1. CASE o = s
        BY <1>s, <2>1, <4>1 DEF LoseConnection, IInv, TypeOK, SessionsOK, Session
      <4>2. CASE o # s
        <5>1. session'[o] = session[o] /\ Open(o) /\ session[o] \in Session
          BY <2>1, <4>2 DEF LoseConnection, IInv, TypeOK
        <5>2. Attached(s, c) /\ ~Attached(o, c)
          BY <1>s, <4>2 DEF LoseConnection, IInv, OneAttached
        <5> QED
          BY <2>1, <5>1, <5>2 DEF LoseConnection, IInv, SessionsOK, Session
      <4> QED
        BY <4>1, <4>2
    <3>2. call[c].at \notin Stopped /\ (session[s].kind = "write" <=> call[c].at = "write")
      BY <1>s DEF LoseConnection, IInv, SessionsOK, SessionOK
    <3>3. \/ call'[c].at \in Reconciling \cup {"crashed"}
          \/ call'[c].reply.kind = "commit_unknown"
      BY <1>0, <3>2
         DEF IInv, CallsOK, CallOK, TypeOK, Call, Ambiguous, Exhausted, Reconciling, Stopped
    <3> QED
      BY <2>1, <3>1, <3>3 DEF SessionOK, Session, RowFits, Compatible
  <2>2. \A o \in Sessions : Open(o)' => Open(o)
    BY <1>s DEF LoseConnection, Ambiguous, Exhausted, IInv, TypeOK
  <2> QED
    BY <1>f, <2>1, <2>2 DEF SessionsOK
<1>6. CallsOK'
  <2>1. CallOK(c)'
    BY <1>s, <1>0
       DEF LoseConnection, Ambiguous, Exhausted, IInv, TypeOK, LocksExclusive, OneAttached,
           SessionsOK, SessionOK, CallsOK, CallOK, RowFits, Compatible, Call, Session, Free,
           NoReply, Stopped, Reconciling
  <2> QED
    BY <1>f, <2>1 DEF CallsOK
<1>7. FiniteOpen'
  <2>1. {o \in Sessions : Open(o)}' \subseteq {o \in Sessions : Open(o)}
    BY <1>s, <1>0 DEF LoseConnection, Ambiguous, Exhausted, IInv, TypeOK, Session, Free
  <2> QED
    BY <2>1, FS_Subset, FS_AddElement DEF FiniteOpen, IInv
<1> QED
  BY <1>1, <1>2, <1>3, <1>4, <1>5, <1>6, <1>7 DEF IInv

-----------------------------------------------------------------------------
(* The invariant                                                           *)

(* Nothing is open and nothing is stored.                                  *)
LEMMA InitIInv == Init => IInv
<1> SUFFICES ASSUME Init PROVE IInv
  OBVIOUS
<1> USE ConstantsAssumption DEF Init, Open, Attached, Stored
<1>1. TypeOK
  BY DEF TypeOK, Call, NoReply, Replies
<1>2. {s \in Sessions : Open(s)} = {}
  OBVIOUS
<1>3. FiniteOpen
  BY <1>2, FS_EmptySet DEF FiniteOpen
<1> QED
  BY <1>1, <1>3 DEF IInv, LocksExclusive, LocksAscend, OneAttached, SessionsOK, CallsOK, CallOK,
                    NoReply, Reconciling

(* Every step keeps the invariant.                                         *)
LEMMA NextIInv == IInv /\ [Next]_vars => IInv'
<1> SUFFICES ASSUME IInv, [Next]_vars PROVE IInv'
  OBVIOUS
<1>1. ASSUME NEW c \in Clients, CallStep(c) PROVE IInv'
  BY <1>1, ConnectFailsKeeps, ConnectKeeps, AcquireLockKeeps, WriteKeeps, SendCommitKeeps,
     LandKeeps, ReturnKeeps, ReconcileFoundKeeps, ReconcileAbsentKeeps, RefuseKeeps,
     StatementFailsKeeps, LoseConnectionKeeps DEF CallStep, SessionStep
<1>2. ASSUME NEW c \in Clients, Crash(c) PROVE IInv'
  BY <1>2, CrashKeeps
<1>3. ASSUME NEW s \in Sessions, LostSessionStep(s) PROVE IInv'
  BY <1>3, AcquireLockKeeps, LandKeeps, AbortKeeps DEF LostSessionStep
<1>4. CASE UNCHANGED vars
  BY <1>4 DEF vars, IInv, TypeOK, LocksExclusive, LocksAscend, OneAttached, SessionsOK, SessionOK,
              CallsOK, CallOK, FiniteOpen, Open, Attached, Stored, RowFits, Compatible
<1> QED
  BY <1>1, <1>2, <1>3, <1>4 DEF Next

(* The inductive invariant holds of every reachable state.                 *)
THEOREM Invariance == Spec => []IInv
BY InitIInv, NextIInv, PTL DEF Spec

(* Calls, sessions and the store of _run_with_reconciliation stay in their *)
(* value sets.                                                             *)
THEOREM TypeCorrect == Spec => []TypeOK
BY Invariance, PTL DEF IInv

(* However many callers, retries and lost sessions there are: a call that  *)
(* raised "definitively failed" or a refusal has no row in the store, and  *)
(* never will.                                                             *)
THEOREM FailuresAreDefinitive == Spec => []FailureIsDefinitive
<1>1. IInv => FailureIsDefinitive
  BY DEF IInv, CallsOK, CallOK, FailureIsDefinitive
<1> QED
  BY <1>1, Invariance, PTL

-----------------------------------------------------------------------------
(* Deadlock freedom                                                        *)

(* A finite set of naturals that is not empty has a largest element: a     *)
(* smallest set without one would lose it with any of its elements.        *)
LEMMA LargestElement ==
    ASSUME NEW S \in SUBSET Nat, IsFiniteSet(S), S # {}
    PROVE  \E m \in S : \A n \in S : n <= m
<1> DEFINE HasLargest(T) == \E m \in T : \A n \in T : n <= m
           Bad == {T \in FiniteSubsetsOf(Nat) : T # {} /\ ~HasLargest(T)}
<1>1. SUFFICES ASSUME Bad # {} PROVE FALSE
  BY DEF FiniteSubsetsOf
<1>2. PICK T \in Bad : \A U \in Bad : <<U, T>> \notin StrictSubsetOrdering(Nat)
  BY <1>1, WFMin, FS_StrictSubsetOrderingWellFounded, Bad \subseteq FiniteSubsetsOf(Nat)
<1>3. PICK x \in T : TRUE
  OBVIOUS
<1>4. T \ {x} \in FiniteSubsetsOf(Nat) /\ T \in SUBSET Nat /\ T \ {x} # T
  BY FS_RemoveElement DEF FiniteSubsetsOf
<1>5. <<T \ {x}, T>> \in StrictSubsetOrdering(Nat)
  BY <1>4 DEF StrictSubsetOrdering
<1>6. T \ {x} \notin Bad
  BY <1>2, <1>5
<1>7. CASE T \ {x} = {}
  <2>1. T = {x}
    BY <1>7
  <2> QED
    BY <1>4, <2>1
<1>8. CASE HasLargest(T \ {x})
  <2>1. PICK m \in T \ {x} : \A n \in T \ {x} : n <= m
    BY <1>8
  <2>2. m \in Nat /\ x \in Nat
    BY <1>4
  <2> QED
    BY <1>4, <2>1, <2>2
<1> QED
  BY <1>4, <1>6, <1>7, <1>8

(* A set of naturals that is not empty has a smallest element.             *)
LEMMA SmallestElement ==
    ASSUME NEW S \in SUBSET Nat, S # {}
    PROVE  \E low \in S : \A n \in S : low <= n
<1> DEFINE Less == {pair \in Nat \X Nat : pair[1] < pair[2]}
<1>1. IsWellFoundedOn(Less, Nat)
  BY NatLessThanWellFounded, Zenon DEF OpToRel
<1> HIDE DEF Less
<1>2. PICK low \in S : \A n \in S : <<n, low>> \notin Less
  BY <1>1, WFMin
<1>3. ASSUME NEW n \in S
      PROVE  low <= n
  <2>1. n \in Nat /\ low \in Nat /\ <<n, low>> \in Nat \X Nat
    OBVIOUS
  <2>2. ~(<<n, low>>[1] < <<n, low>>[2])
    BY <1>2, <2>1 DEF Less
  <2> QED
    BY <2>1, <2>2
<1> QED
  BY <1>3

(* A waiting session wants one identity, above all it holds.               *)
LEMMA WaitingWants ==
    ASSUME IInv, NEW s \in Waiting
    PROVE  \E identity \in Identities[session[s].client] :
              /\ Takes(s, identity)
              /\ \A held \in session[s].held : held < identity
<1> DEFINE missing == Identities[session[s].client] \ session[s].held
<1>1. s \in Sessions /\ Open(s) /\ missing # {} /\ missing \subseteq Nat
  BY SessionType, ConstantsAssumption DEF Waiting, IInv
<1>2. PICK low \in missing : \A other \in missing : low <= other
  BY <1>1, SmallestElement
<1> QED
  BY <1>1, <1>2 DEF Takes, IInv, LocksAscend

(* Sessions never wait for each other in a circle: of the sessions of a    *)
(* circle the one that wants the largest identity would wait for a holder  *)
(* that wants a larger one.                                                *)
THEOREM LocksNeverCycle == Spec => []NoLockCycle
<1>1. IInv => NoLockCycle
  <2> SUFFICES ASSUME IInv, NEW cycle \in SUBSET Waiting, cycle # {}
               PROVE  \E s \in cycle : \A o \in cycle : ~WaitsFor(s, o)
    BY DEF NoLockCycle
  <2> DEFINE Wanted(s) == CHOOSE identity \in Identities[session[s].client] :
                             /\ Takes(s, identity)
                             /\ \A held \in session[s].held : held < identity
             wants == [s \in cycle |-> Wanted(s)]
  <2>1. \A s \in cycle : /\ Wanted(s) \in Identities[session[s].client]
                         /\ Takes(s, Wanted(s))
                         /\ \A held \in session[s].held : held < Wanted(s)
    BY WaitingWants
  <2>2. \A s \in cycle : Wanted(s) \in Nat
    <3>1. \A s \in cycle : s \in Sessions /\ Open(s)
      BY DEF Waiting
    <3> QED
      BY <2>1, <3>1, SessionType, ConstantsAssumption DEF IInv
  <2> HIDE DEF Wanted
  <2>3. IsFiniteSet(cycle)
    BY FS_Subset DEF IInv, FiniteOpen, Waiting
  <2>4. IsFiniteSet({wants[s] : s \in cycle})
    <3>1. wants \in [cycle -> Nat]
      BY <2>2
    <3> HIDE DEF wants
    <3> QED
      BY <2>3, <3>1, FS_Surjection, wants \in Surjection(cycle, {wants[s] : s \in cycle})
         DEF Surjection
  <2>5. {wants[s] : s \in cycle} = {Wanted(s) : s \in cycle}
    OBVIOUS
  <2>6. PICK s \in cycle : \A o \in cycle : Wanted(o) <= Wanted(s)
    BY <2>2, <2>4, <2>5, LargestElement
  <2>7. ASSUME NEW o \in cycle, WaitsFor(s, o)
        PROVE  FALSE
    <3>1. Wanted(s) \in session[o].held
      BY <2>1, <2>7 DEF WaitsFor
    <3>2. Wanted(s) < Wanted(o)
      BY <2>1, <3>1
    <3> QED
      BY <2>2, <2>6, <3>2
  <2> QED
    BY <2>7
<1> QED
  BY <1>1, Invariance, PTL

-----------------------------------------------------------------------------
(* The refinement of ExactlyOnceOperation                                  *)

(* A step without an answer and without a row is invisible.                *)
LEMMA HiddenStep ==
    ASSUME UNCHANGED <<store, payload>>, \A d \in Clients : call'[d].reply = call[d].reply
    PROVE  UNCHANGED Promise!vars
BY DEF Promise!vars

(* A true answer of one call is a step of the promise.                     *)
LEMMA AnswerStep ==
    ASSUME IInv, NEW c \in Clients, NEW answer \in Promise!Answers,
           UNCHANGED <<store, payload>>,
           call[c].at # "done", call'[c].reply = answer,
           \A d \in Clients \ {c} : call'[d] = call[d],
           answer.kind = "ok" => /\ answer.row = Stored(c)
                                 /\ Compatible(answer.row, c),
           answer.kind \in {"transaction_error", "refused"} => Stored(c) # c
    PROVE  Promise!Next
<1> DEFINE reply == [d \in Clients |-> call[d].reply]
<1>1. reply[c].kind = "none"
  BY DEF IInv, CallsOK, CallOK
<1>2. reply' = [reply EXCEPT ![c] = answer]
  OBVIOUS
<1>3. answer.kind = "ok" => answer.row \in Clients
  BY DEF Promise!Answers, Promise!Definitive
<1>4. Promise!Reply(c, answer)
  BY <1>1, <1>2, <1>3 DEF Promise!Reply, Promise!Definitive, Stored, Compatible
<1> QED
  BY <1>4 DEF Promise!Next

(* The iteration that ends without exhausting the attempts is invisible,   *)
(* the last one answers.                                                   *)
LEMMA IterationStep ==
    ASSUME IInv, NEW c \in Clients, NEW unresolved \in BOOLEAN, NextIteration(c, unresolved),
           UNCHANGED <<store, payload>>, call[c].at # "done",
           ~unresolved => Stored(c) # c
    PROVE  [Promise!Next]_(Promise!vars)
<1>1. CASE call'[c].reply = call[c].reply
  <2>1. \A d \in Clients : call'[d].reply = call[d].reply
    BY <1>1, NextIterationEffect DEF IInv
  <2> QED
    BY <2>1, HiddenStep
<1>2. CASE call'[c].reply = [kind |-> Exhausted(unresolved), row |-> None]
  <2>1. [kind |-> Exhausted(unresolved), row |-> None] \in Promise!Answers
    BY DEF Promise!Answers, Promise!Definitive, Exhausted
  <2>2. /\ Exhausted(unresolved) # "ok"
        /\ Exhausted(unresolved) \in {"transaction_error", "refused"} => Stored(c) # c
    BY DEF Exhausted
  <2> QED
    BY <1>2, <2>1, <2>2, NextIterationEffect, AnswerStep DEF IInv
<1> QED
  BY <1>1, <1>2, NextIterationEffect DEF IInv

(* A landing COMMIT applies the operation, or finds it applied.            *)
LEMMA LandStep ==
    ASSUME IInv, NEW s \in Sessions, Land(s)
    PROVE  [Promise!Next]_(Promise!vars)
<1>1. PICK c \in Clients : session[s] \in Session /\ c = session[s].client
  BY SessionType DEF Land, IInv
<1>2. RowFits(session[s].row, c)
  BY <1>1 DEF Land, IInv, SessionsOK, SessionOK
<1>3. /\ call' = call /\ payload' = payload
      /\ store' = [store EXCEPT ![RequestOf[c]] = session[s].row]
  BY <1>1 DEF Land
<1>4. CASE Stored(c) # None
  <2>1. store' = store
    BY <1>2, <1>3, <1>4, ConstantsAssumption DEF RowFits, Stored, IInv, TypeOK
  <2> QED
    BY <1>3, <2>1, HiddenStep
<1>5. CASE Stored(c) = None
  <2>1. call[c].reply.kind \in {"none", "commit_unknown"}
    <3>1. call[c].at # "done" \/ call[c].reply.kind = "commit_unknown"
      BY <1>1 DEF Land, IInv, SessionsOK, SessionOK, Stopped, Reconciling
    <3> QED
      BY <3>1 DEF IInv, CallsOK, CallOK
  <2>2. Promise!Apply(c)
    BY <1>2, <1>3, <1>5, <2>1 DEF Promise!Apply, RowFits, Stored
  <2> QED
    BY <2>2 DEF Promise!Next
<1> QED
  BY <1>4, <1>5

(* A call that writes has no row in the store that it was not told of.     *)
LEMMA NotYetStored ==
    ASSUME IInv, NEW c \in Clients, call[c].at = "write",
           \A s \in Sessions : Attached(s, c) => session[s].phase # "acked"
    PROVE  Stored(c) # c
BY DEF IInv, CallsOK, CallOK

(* A step of a live call, or of its session, answers truly or is           *)
(* invisible.                                                              *)
LEMMA CallStepRefines ==
    ASSUME IInv, NEW c \in Clients, CallStep(c)
    PROVE  [Promise!Next]_(Promise!vars)
<1>t. call[c] \in Call /\ call[c].unresolved \in BOOLEAN
  BY DEF IInv, TypeOK, Call
<1>u. call[c].at \notin Stopped /\ ~call[c].unresolved => call[c].at = "write"
  BY <1>t DEF IInv, CallsOK, CallOK, Call, Stopped, Reconciling
<1>1. CASE ConnectFails(c)
  <2>1. ~call[c].unresolved => Stored(c) # c
    BY <1>1, <1>u, NotYetStored DEF ConnectFails
  <2> QED
    BY <1>1, <1>t, <2>1, IterationStep DEF ConnectFails, Stopped
<1>2. ASSUME NEW s \in Sessions, Connect(c, s)
      PROVE  [Promise!Next]_(Promise!vars)
  BY <1>2, HiddenStep DEF Connect
<1>3. ASSUME NEW s \in Sessions, Attached(s, c), SessionStep(s)
      PROVE  [Promise!Next]_(Promise!vars)
  <2>s. session[s] \in Session /\ session[s].client = c /\ Open(s) /\ session[s].attached
    BY <1>3, SessionType DEF Attached, IInv
  <2>a. /\ call[c].at \notin Stopped
        /\ session[s].kind = "write" <=> call[c].at = "write"
    BY <2>s DEF IInv, SessionsOK, SessionOK
  <2>d. call[c].at # "done"
    BY <2>a DEF Stopped
  <2>n. call[c].at = "write" /\ session[s].phase # "acked" => Stored(c) # c
    BY <1>3, NotYetStored DEF IInv, OneAttached
  <2>1. CASE AcquireLock(s) \/ Write(s) \/ SendCommit(s)
    BY <2>1, HiddenStep DEF AcquireLock, Write, SendCommit
  <2>2. CASE Land(s)
    BY <2>2, LandStep
  <2>3. CASE Return(s)
    <3>1. /\ RowFits(session[s].row, c) /\ Stored(c) # None
          /\ session[s].row \in Clients /\ Stored(c) = session[s].row
      BY <2>s, <2>3, SessionType DEF Return, IInv, SessionsOK, SessionOK, RowFits
    <3>2. [kind |-> "ok", row |-> session[s].row] \in Promise!Answers
      BY <3>1 DEF Promise!Answers
    <3>3. [kind |-> "ok", row |-> session[s].row] \in [kind : Replies, row : Clients \cup {None}]
      BY <3>1 DEF Replies
    <3>4. /\ call'[c].reply = [kind |-> "ok", row |-> session[s].row]
          /\ \A d \in Clients \ {c} : call'[d] = call[d]
      BY <2>s, <2>3, <3>3, FinishEffect DEF Return, IInv
    <3> QED
      BY <2>3, <2>d, <3>1, <3>2, <3>4, AnswerStep DEF Return, RowFits
  <2>4. CASE ReconcileFound(s)
    <3>1. Stored(c) \in Clients /\ Compatible(Stored(c), c)
      BY <2>s, <2>4, SessionType DEF ReconcileFound, Found, IInv
    <3>2. [kind |-> "ok", row |-> Stored(c)] \in Promise!Answers
      BY <3>1 DEF Promise!Answers
    <3>3. [kind |-> "ok", row |-> Stored(c)] \in [kind : Replies, row : Clients \cup {None}]
      BY <3>1 DEF Replies
    <3>4. /\ call'[c].reply = [kind |-> "ok", row |-> Stored(c)]
          /\ \A d \in Clients \ {c} : call'[d] = call[d]
      BY <2>s, <2>4, <3>3, FinishEffect DEF ReconcileFound, IInv
    <3> QED
      BY <2>4, <2>d, <3>1, <3>2, <3>4, AnswerStep DEF ReconcileFound
  <2>5. CASE ReconcileAbsent(s)
    <3>1. Stored(c) # c
      BY <2>s, <2>5, ConstantsAssumption DEF ReconcileAbsent, Found
    <3>2. CASE call[c].at = "before"
      <4>1. \A d \in Clients : call'[d].reply = call[d].reply
        BY <1>t, <2>s, <2>5, <3>2 DEF ReconcileAbsent, IInv, TypeOK, Call
      <4> QED
        BY <2>5, <4>1, HiddenStep DEF ReconcileAbsent
    <3>3. CASE call[c].at # "before"
      BY <2>s, <2>5, <2>d, <3>1, <3>3, IterationStep DEF ReconcileAbsent
    <3> QED
      BY <3>2, <3>3
  <2>6. CASE Refuse(s)
    <3>1. Stored(c) # c
      BY <2>s, <2>6, <2>a, <2>n DEF Refuse, Compatible
    <3>2. [kind |-> "refused", row |-> None] \in Promise!Answers
      BY DEF Promise!Answers, Promise!Definitive
    <3>3. /\ call'[c].reply = [kind |-> "refused", row |-> None]
          /\ \A d \in Clients \ {c} : call'[d] = call[d]
      BY <2>s, <2>6, RaiseEffect, "refused" \in Replies DEF Refuse, IInv, Replies
    <3> QED
      BY <2>6, <2>d, <3>1, <3>2, <3>3, AnswerStep DEF Refuse
  <2>7. CASE StatementFails(s)
    <3>1. ~call[c].unresolved \/ session[s].kind = "write" => Stored(c) # c
      BY <1>u, <2>a, <2>n, <2>7 DEF StatementFails
    <3>2. CASE NextIteration(c, call[c].unresolved)
      BY <1>t, <2>7, <2>d, <3>1, <3>2, IterationStep DEF StatementFails
    <3>3. CASE session[s].kind = "write" /\ Raise(c, "transaction_error")
      <4>1. [kind |-> "transaction_error", row |-> None] \in Promise!Answers
        BY DEF Promise!Answers, Promise!Definitive
      <4>2. /\ call'[c].reply = [kind |-> "transaction_error", row |-> None]
            /\ \A d \in Clients \ {c} : call'[d] = call[d]
        BY <3>3, RaiseEffect, "transaction_error" \in Replies DEF IInv, Replies
      <4> QED
        BY <2>7, <2>d, <3>1, <3>3, <4>1, <4>2, AnswerStep DEF StatementFails
    <3> QED
      BY <2>s, <2>7, <3>2, <3>3 DEF StatementFails
  <2>8. CASE LoseConnection(s)
    <3>1. CASE Ambiguous(s)
      <4>1. \A d \in Clients : call'[d].reply = call[d].reply
        BY <1>t, <2>s, <2>8, <3>1 DEF LoseConnection, IInv, TypeOK, Call
      <4> QED
        BY <2>8, <4>1, HiddenStep DEF LoseConnection
    <3>2. CASE ~Ambiguous(s)
      <4>1. call[c].unresolved
        BY <1>t, <1>u, <2>a, <3>2 DEF Ambiguous
      <4> QED
        BY <1>t, <2>s, <2>8, <2>d, <3>2, <4>1, IterationStep DEF LoseConnection
    <3> QED
      BY <3>1, <3>2
  <2> QED
    BY <1>3, <2>1, <2>2, <2>3, <2>4, <2>5, <2>6, <2>7, <2>8 DEF SessionStep
<1> QED
  BY <1>1, <1>2, <1>3 DEF CallStep

(* Connections, locks, lost answers and retries of any number of callers   *)
(* amount to an operation that is applied at most once and whose answers   *)
(* are true.                                                               *)
THEOREM ReconciliationIsExactlyOnce == Spec => ImplementsExactlyOnce
<1>1. Init => Promise!Init
  BY DEF Init, Promise!Init, NoReply
<1>2. IInv /\ [Next]_vars => [Promise!Next]_(Promise!vars)
  <2> SUFFICES ASSUME IInv, [Next]_vars PROVE [Promise!Next]_(Promise!vars)
    OBVIOUS
  <2>1. ASSUME NEW c \in Clients, CallStep(c) PROVE [Promise!Next]_(Promise!vars)
    BY <2>1, CallStepRefines
  <2>2. ASSUME NEW c \in Clients, Crash(c) PROVE [Promise!Next]_(Promise!vars)
    <3>1. \A d \in Clients : call'[d].reply = call[d].reply
      BY <2>2 DEF Crash, IInv, TypeOK, Call
    <3> QED
      BY <2>2, <3>1, HiddenStep DEF Crash
  <2>3. ASSUME NEW s \in Sessions, LostSessionStep(s) PROVE [Promise!Next]_(Promise!vars)
    BY <2>3, HiddenStep, LandStep DEF LostSessionStep, AcquireLock, Abort
  <2>4. CASE UNCHANGED vars
    BY <2>4, HiddenStep DEF vars
  <2> QED
    BY <2>1, <2>2, <2>3, <2>4 DEF Next
<1> QED
  BY <1>1, <1>2, Invariance, PTL DEF Spec, ImplementsExactlyOnce, Promise!Spec
=============================================================================
