------------------------------ MODULE MigrateGate -----------------------------
(***************************************************************************)
(* The migration gate: replicas that run RunStartupGate or Down against    *)
(* one database, coordinated by a session-level advisory lock.  A step is  *)
(* one statement sent to the database.                                     *)
(*                                                                         *)
(* Postgres and pgx are external: a statement is atomic, a transaction     *)
(* commits as a whole, a lock is freed when its session ends, a statement  *)
(* whose context has already ended is not sent and leaves the session as   *)
(* it is.  Which versions exist is data; what their SQL does is not        *)
(* modelled beyond "it and its tracking row are committed, or neither".    *)
(***************************************************************************)
EXTENDS Naturals

CONSTANTS
    Replicas,
    MaxVersion,     \* migrations are 1..MaxVersion
    GateBuilds,     \* a build that runs the gate ships migrations 1..b
    DownBuilds,     \* the same, of a build that runs Down
    MaxStarts,      \* bound: process starts, of all replicas together
    NoOne,          \* the lock is free
    Ghost           \* the lock of a session whose process is gone

ASSUME Bounds ==
    /\ MaxVersion \in Nat /\ MaxStarts \in Nat
    /\ GateBuilds \subseteq 0..MaxVersion /\ DownBuilds \subseteq 0..MaxVersion
ASSUME Holders == NoOne \notin Replicas /\ Ghost \notin Replicas /\ NoOne # Ghost

Version == 1..MaxVersion

VARIABLES
    status, applied, lock,  \* migration_state, schema_migrations, the lock
    pc, mode, build, ended, \* the call of each replica and its context
    open,                   \* its session is alive
    pending,                \* versions still to apply, or to roll back
    result,                 \* what the call will return
    starts

dbVars   == <<status, applied>>
callVars == <<mode, build, ended, starts>>
vars     == <<dbVars, lock, pc, callVars, open, pending, result>>

Returned == {"done", "failed"}
Critical == {"meta", "read", "running", "apply", "markFailed", "markIdle",
             "down", "unlock"}
Pcs == {"off", "status", "lock", "poll"} \cup Critical \cup Returned

Known(r) == 1..build[r]

Init ==
    /\ status = "idle" /\ applied = {} /\ lock = NoOne
    /\ pc = [r \in Replicas |-> "off"]
    /\ mode = [r \in Replicas |-> "gate"]
    /\ build = [r \in Replicas |-> 0]
    /\ ended = [r \in Replicas |-> FALSE]
    /\ open = [r \in Replicas |-> FALSE]
    /\ pending = [r \in Replicas |-> {}]
    /\ result = [r \in Replicas |-> "none"]
    /\ starts = 0

-------------------------------------------------------------------------------
(* Sessions *)

Alive(r) == open[r] /\ ~ended[r]    \* a statement of r reaches the database

\* The session ends; the server may take a while to notice.
LoseSession(r) ==
    /\ open' = [open EXCEPT ![r] = FALSE]
    /\ IF lock = r THEN lock' \in {NoOne, Ghost} ELSE lock' = lock

Goto(r, at) == pc' = [pc EXCEPT ![r] = at]

\* The call is to return an error, after the deferred unlock if at says so.
Fails(r, at) ==
    /\ Goto(r, at)
    /\ result' = [result EXCEPT ![r] = "err"]

\* A statement took effect: its answer arrives, or is lost with the session
\* and the caller sees an error.
Answered(r, at, onLoss) ==
    \/ Goto(r, at) /\ UNCHANGED <<lock, open, result>>
    \/ Fails(r, onLoss) /\ LoseSession(r)

SessionDies(r) ==
    /\ open[r]
    /\ LoseSession(r)
    /\ UNCHANGED <<dbVars, pc, callVars, pending, result>>

GhostReaped ==
    /\ lock = Ghost
    /\ lock' = NoOne
    /\ UNCHANGED <<dbVars, pc, callVars, open, pending, result>>

-------------------------------------------------------------------------------
(* RunStartupGate, Down *)

Start(r, m, b) ==
    /\ pc[r] = "off"
    /\ starts < MaxStarts
    /\ b \in IF m = "gate" THEN GateBuilds ELSE DownBuilds
    /\ starts' = starts + 1
    /\ mode' = [mode EXCEPT ![r] = m]
    /\ build' = [build EXCEPT ![r] = b]
    /\ ended' = [ended EXCEPT ![r] = FALSE]
    /\ open' = [open EXCEPT ![r] = TRUE]
    /\ pending' = [pending EXCEPT ![r] = {}]
    /\ result' = [result EXCEPT ![r] = "none"]
    /\ Goto(r, IF m = "gate" THEN "status" ELSE "lock")
    /\ UNCHANGED <<dbVars, lock>>

\* Fault: a follower waits for migration_state to leave "running".
FaultReadStatus(r) ==
    /\ pc[r] = "status" /\ Alive(r)
    /\ IF status = "failed"
       THEN Fails(r, "failed")
       ELSE /\ Goto(r, IF status = "running" THEN "poll" ELSE "lock")
            /\ UNCHANGED result
    /\ UNCHANGED <<dbVars, lock, callVars, open, pending>>

ReadStatus(r) ==
    /\ pc[r] = "status" /\ Alive(r)
    /\ IF status = "failed"
       THEN Fails(r, "failed")
       ELSE Goto(r, "lock") /\ UNCHANGED result
    /\ UNCHANGED <<dbVars, lock, callVars, open, pending>>

\* Fault: the answer of pg_try_advisory_lock is not looked at.
FaultTryLock(r) ==
    /\ pc[r] = "lock" /\ Alive(r)
    /\ lock' = IF lock = NoOne THEN r ELSE lock
    /\ Goto(r, "meta")
    /\ UNCHANGED <<dbVars, callVars, open, pending, result>>

TryLock(r) ==
    /\ pc[r] = "lock" /\ Alive(r)
    /\ \/ /\ lock = NoOne
          /\ lock' = r
          /\ Goto(r, "meta")
          /\ UNCHANGED result
       \/ /\ lock # NoOne
          /\ IF mode[r] = "gate"
             THEN Goto(r, "poll") /\ UNCHANGED result
             ELSE Fails(r, "failed")
          /\ UNCHANGED lock
    /\ UNCHANGED <<dbVars, callVars, open, pending>>

\* The attempt is over: wait for PollInterval or the context.
Poll(r) ==
    /\ pc[r] = "poll"
    /\ \/ /\ Goto(r, "status")
          /\ open' = [open EXCEPT ![r] = TRUE]
          /\ UNCHANGED result
       \/ ended[r] /\ Fails(r, "failed") /\ UNCHANGED open
    /\ UNCHANGED <<dbVars, lock, callVars, pending>>

EnsureMeta(r) ==
    /\ pc[r] = "meta" /\ Alive(r)
    /\ Answered(r, "read", "unlock")
    /\ UNCHANGED <<dbVars, callVars, pending>>

\* Fault: nothing pending is not a case of its own.
FaultReadPending(r) ==
    /\ pc[r] = "read" /\ mode[r] = "gate" /\ Alive(r)
    /\ pending' = [pending EXCEPT ![r] = Known(r) \ applied]
    /\ Goto(r, "running")
    /\ UNCHANGED <<dbVars, lock, callVars, open, result>>

ReadPending(r) ==
    /\ pc[r] = "read" /\ mode[r] = "gate" /\ Alive(r)
    /\ pending' = [pending EXCEPT ![r] = Known(r) \ applied]
    /\ Goto(r, IF pending'[r] = {} THEN "markIdle" ELSE "running")
    /\ UNCHANGED <<dbVars, lock, callVars, open, result>>

SetStateRunning(r) ==
    /\ pc[r] = "running" /\ Alive(r)
    /\ status' = "running"
    /\ Answered(r, "apply", "unlock")
    /\ UNCHANGED <<applied, callVars, pending>>

\* Fault: pending migrations are taken in any order.
FaultApplyUp(r) ==
    /\ pc[r] = "apply" /\ Alive(r)
    /\ \E v \in pending[r] \ applied :
          /\ applied' = applied \cup {v}
          /\ pending' = [pending EXCEPT ![r] = @ \ {v}]
    /\ Answered(r, IF pending'[r] = {} THEN "markIdle" ELSE "apply", "markFailed")
    /\ UNCHANGED <<status, callVars>>

\* Fault: the loop ends one migration early.
FaultApplyUpLast(r) ==
    /\ pc[r] = "apply" /\ Alive(r)
    /\ \E v \in pending[r] \ applied :
          /\ \A u \in pending[r] : v <= u
          /\ applied' = applied \cup {v}
          /\ pending' = [pending EXCEPT ![r] = @ \ {v, MaxVersion}]
    /\ Answered(r, IF pending'[r] = {} THEN "markIdle" ELSE "apply", "markFailed")
    /\ UNCHANGED <<status, callVars>>

\* One transaction, or for an empty file one insert; version is a primary key.
ApplyUp(r) ==
    /\ pc[r] = "apply" /\ Alive(r)
    /\ \E v \in pending[r] \ applied :
          /\ \A u \in pending[r] : v <= u
          /\ applied' = applied \cup {v}
          /\ pending' = [pending EXCEPT ![r] = @ \ {v}]
    /\ Answered(r, IF pending'[r] = {} THEN "markIdle" ELSE "apply", "markFailed")
    /\ UNCHANGED <<status, callVars>>

SetStateFailed(r) ==
    /\ pc[r] = "markFailed" /\ Alive(r)
    /\ status' = "failed"
    /\ Answered(r, "unlock", "unlock")
    /\ UNCHANGED <<applied, callVars, pending>>

SetStateIdle(r) ==
    /\ pc[r] = "markIdle" /\ Alive(r)
    /\ status' = "idle"
    /\ \/ /\ Goto(r, "unlock")
          /\ result' = [result EXCEPT ![r] = "ok"]
          /\ UNCHANGED <<lock, open>>
       \/ Fails(r, "unlock") /\ LoseSession(r)
    /\ UNCHANGED <<applied, callVars, pending>>

\* Down's own list: the highest applied migrations that this build ships, as
\* many as the steps asked for.
ReadApplied(r) ==
    /\ pc[r] = "read" /\ mode[r] = "down" /\ Alive(r)
    /\ \E todo \in SUBSET (Known(r) \cap applied) :
          /\ todo = {} => Known(r) \cap applied = {}
          /\ \A v \in todo : \A u \in Known(r) \cap applied : u > v => u \in todo
          /\ pending' = [pending EXCEPT ![r] = todo]
    /\ IF pending'[r] = {}
       THEN /\ Goto(r, "unlock")
            /\ result' = [result EXCEPT ![r] = "ok"]
       ELSE Goto(r, "down") /\ UNCHANGED result
    /\ UNCHANGED <<dbVars, lock, callVars, open>>

ApplyDown(r) ==
    /\ pc[r] = "down" /\ Alive(r)
    /\ \E v \in pending[r] :
          /\ \A u \in pending[r] : u <= v
          /\ applied' = applied \ {v}
          /\ pending' = [pending EXCEPT ![r] = @ \ {v}]
    /\ \/ /\ Goto(r, IF pending'[r] = {} THEN "unlock" ELSE "down")
          /\ result' = [result EXCEPT ![r] = IF pending'[r] = {} THEN "ok" ELSE @]
          /\ UNCHANGED <<lock, open>>
       \/ Fails(r, "unlock") /\ LoseSession(r)
    /\ UNCHANGED <<status, callVars>>

\* A statement, the migration source or the acquisition of a connection fails
\* with nothing changed: the context or the session has ended, or any error.
StatementFails(r) ==
    /\ \/ pc[r] \in {"status", "lock"} /\ Fails(r, "failed")
       \/ pc[r] = "apply" /\ Fails(r, "markFailed")
       \/ /\ pc[r] \in Critical \ {"apply", "unlock"}
          /\ Fails(r, "unlock")
    /\ UNCHANGED <<dbVars, lock, callVars, open, pending>>

Finish(r) == Goto(r, IF result[r] = "ok" THEN "done" ELSE "failed")

\* Fault: the lock is released on success only.
FaultAdvisoryUnlock(r) ==
    /\ pc[r] = "unlock"
    /\ lock' = IF Alive(r) /\ lock = r /\ result[r] = "ok" THEN NoOne ELSE lock
    /\ Finish(r)
    /\ UNCHANGED <<dbVars, callVars, open, pending, result>>

\* The deferred unlock uses the caller's context, and its error is ignored.
AdvisoryUnlock(r) ==
    /\ pc[r] = "unlock"
    /\ lock' = IF Alive(r) /\ lock = r THEN NoOne ELSE lock
    /\ Finish(r)
    /\ UNCHANGED <<dbVars, callVars, open, pending, result>>

Step(r) ==
    \/ ReadStatus(r) \/ TryLock(r) \/ Poll(r) \/ EnsureMeta(r)
    \/ ReadPending(r) \/ SetStateRunning(r) \/ ApplyUp(r)
    \/ SetStateFailed(r) \/ SetStateIdle(r) \/ ReadApplied(r) \/ ApplyDown(r)
    \/ StatementFails(r) \/ AdvisoryUnlock(r)

CtxEnds(r) ==
    /\ pc[r] \notin {"off"} \cup Returned
    /\ ~ended[r]
    /\ ended' = [ended EXCEPT ![r] = TRUE]
    /\ UNCHANGED <<dbVars, lock, pc, mode, build, starts, open, pending, result>>

\* The process exits or crashes, at any point.
ProcessEnds(r) ==
    /\ pc[r] # "off"
    /\ Goto(r, "off")
    /\ LoseSession(r)
    /\ UNCHANGED <<dbVars, callVars, pending, result>>

Next ==
    \/ \E r \in Replicas :
          \/ \E m \in {"gate", "down"}, b \in 0..MaxVersion : Start(r, m, b)
          \/ Step(r) \/ SessionDies(r) \/ CtxEnds(r) \/ ProcessEnds(r)
    \/ GhostReaped

Spec == Init /\ [][Next]_vars

\* Calls in progress run, and the server notices that a client is gone.
FairSpec ==
    /\ Spec
    /\ \A r \in Replicas : WF_vars(Step(r))
    /\ WF_vars(GhostReaped)

-------------------------------------------------------------------------------
(* Properties *)

\* Every variable has its type; "running" and the apply loop are reached only
\* with something pending (the target version is the last pending one).
TypeOK ==
    /\ status \in {"idle", "running", "failed"}
    /\ applied \subseteq Version
    /\ lock \in Replicas \cup {NoOne, Ghost}
    /\ pc \in [Replicas -> Pcs]
    /\ mode \in [Replicas -> {"gate", "down"}]
    /\ build \in [Replicas -> 0..MaxVersion]
    /\ ended \in [Replicas -> BOOLEAN]
    /\ open \in [Replicas -> BOOLEAN]
    /\ pending \in [Replicas -> SUBSET Version]
    /\ result \in [Replicas -> {"none", "ok", "err"}]
    /\ starts \in 0..MaxStarts
    /\ \A r \in Replicas :
          pc[r] \in {"running", "apply", "down"} => pending[r] # {}

\* "Only the leader mutates": a replica in the section the lock protects holds
\* it for as long as its statements can still reach the database.
LeaderHoldsLock ==
    \A r \in Replicas : pc[r] \in Critical /\ open[r] => lock = r

\* Migrations are applied in order and rolled back from the top, across
\* failures, crashes and takeovers: no applied version has an unapplied one
\* below it.  (Of builds that run Down: each ships every migration.)
NoGaps ==
    \A v \in applied : \A u \in Version : u < v => u \in applied

\* The gate confirms the database at head: when a call is about to return
\* success and still has its session, every migration of its build is applied.
ConfirmedAtHead ==
    \A r \in Replicas :
        pc[r] = "unlock" /\ mode[r] = "gate" /\ result[r] = "ok" /\ open[r]
            => Known(r) \subseteq applied

\* A call that returns leaves the lock behind only if its context had ended:
\* the deferred unlock is then not even sent.
LockReleased ==
    \A r \in Replicas : pc[r] \in Returned /\ lock = r => ended[r]

\* "If a prior run left migration_state in the failed state, the gate refuses
\* to start": no gate takes the database out of the failed state.
FailedLatches == [][status = "failed" => status' = "failed"]_vars

\* "Down rolls back the highest applied versions".
DownTakesHighest ==
    [][\A v \in applied \ applied' : \A u \in applied : u <= v]_vars

InGate(r) == mode[r] = "gate" /\ pc[r] \notin {"off"} \cup Returned

LeakedLock == \E r \in Replicas : pc[r] \in Returned /\ lock = r

\* A leader that dies or fails does not wedge the gate: every gate returns,
\* unless a call that returned holds the lock.
GateReturns == \A r \in Replicas : InGate(r) ~> ~InGate(r) \/ LeakedLock
===============================================================================
