--------------------------- MODULE MigrateGateProofs --------------------------
(* Theorems about MigrateGate, for any replicas, versions and builds.        *)
EXTENDS MigrateGate, TLAPS

\* Every action keeps the types.
LEMMA TypeInductive == TypeOK /\ [Next]_vars => TypeOK'
<1> SUFFICES ASSUME TypeOK, [Next]_vars PROVE TypeOK'
  OBVIOUS
<1> USE Bounds, Holders
<1> USE DEF TypeOK, Pcs, Critical, Returned, Version, Known
<1>1. ASSUME NEW r \in Replicas, NEW m \in {"gate", "down"},
             NEW b \in 0..MaxVersion, Start(r, m, b)
      PROVE  TypeOK'
  BY <1>1 DEF Start, Goto, dbVars
<1>2. ASSUME NEW r \in Replicas, ReadStatus(r) PROVE TypeOK'
  BY <1>2 DEF ReadStatus, Goto, Fails, dbVars, callVars
<1>3. ASSUME NEW r \in Replicas, TryLock(r) PROVE TypeOK'
  BY <1>3 DEF TryLock, Goto, Fails, dbVars, callVars
<1>4. ASSUME NEW r \in Replicas, Poll(r) PROVE TypeOK'
  BY <1>4 DEF Poll, Goto, Fails, dbVars, callVars
<1>5. ASSUME NEW r \in Replicas, EnsureMeta(r) PROVE TypeOK'
  BY <1>5 DEF EnsureMeta, Answered, LoseSession, Goto, Fails, dbVars, callVars
<1>6. ASSUME NEW r \in Replicas, ReadPending(r) PROVE TypeOK'
  BY <1>6 DEF ReadPending, Goto, dbVars, callVars
<1>7. ASSUME NEW r \in Replicas, SetStateRunning(r) PROVE TypeOK'
  BY <1>7 DEF SetStateRunning, Answered, LoseSession, Goto, Fails, callVars
<1>8. ASSUME NEW r \in Replicas, ApplyUp(r) PROVE TypeOK'
  <2>1. PICK v \in pending[r] \ applied :
           /\ applied' = applied \cup {v}
           /\ pending' = [pending EXCEPT ![r] = @ \ {v}]
    BY <1>8 DEF ApplyUp
  <2>2. pending' \in [Replicas -> SUBSET Version] /\ applied' \subseteq Version
    BY <2>1
  <2> DEFINE at == IF pending'[r] = {} THEN "markIdle" ELSE "apply"
  <2>3. Answered(r, at, "markFailed") /\ UNCHANGED <<status, callVars>>
    BY <1>8 DEF ApplyUp
  <2>4. at \in {"markIdle", "apply"} /\ (at = "apply" => pending'[r] # {})
    OBVIOUS
  <2>5. \A q \in Replicas : q # r => pending'[q] = pending[q]
    BY <2>1
  <2> HIDE DEF at
  <2>6. CASE Goto(r, at) /\ UNCHANGED <<lock, open, result>>
    BY <2>2, <2>3, <2>4, <2>5, <2>6 DEF Goto, callVars
  <2>7. CASE Fails(r, "markFailed") /\ LoseSession(r)
    BY <2>2, <2>3, <2>5, <2>7 DEF Fails, LoseSession, Goto, callVars
  <2> QED
    BY <2>3, <2>6, <2>7 DEF Answered
<1>9. ASSUME NEW r \in Replicas, SetStateFailed(r) PROVE TypeOK'
  BY <1>9 DEF SetStateFailed, Answered, LoseSession, Goto, Fails, callVars
<1>10. ASSUME NEW r \in Replicas, SetStateIdle(r) PROVE TypeOK'
  BY <1>10 DEF SetStateIdle, LoseSession, Goto, Fails, callVars
<1>11. ASSUME NEW r \in Replicas, ReadApplied(r) PROVE TypeOK'
  BY <1>11 DEF ReadApplied, Goto, dbVars, callVars
<1>12. ASSUME NEW r \in Replicas, ApplyDown(r) PROVE TypeOK'
  <2>1. PICK v \in pending[r] :
           /\ applied' = applied \ {v}
           /\ pending' = [pending EXCEPT ![r] = @ \ {v}]
    BY <1>12 DEF ApplyDown
  <2>2. /\ pending' \in [Replicas -> SUBSET Version] /\ applied' \subseteq Version
        /\ \A q \in Replicas : q # r => pending'[q] = pending[q]
    BY <2>1
  <2>3. CASE /\ Goto(r, IF pending'[r] = {} THEN "unlock" ELSE "down")
             /\ result' = [result EXCEPT ![r] = IF pending'[r] = {} THEN "ok" ELSE @]
             /\ UNCHANGED <<lock, open>>
    BY <1>12, <2>2, <2>3 DEF ApplyDown, Goto, callVars
  <2>4. CASE Fails(r, "unlock") /\ LoseSession(r)
    BY <1>12, <2>2, <2>4 DEF ApplyDown, Fails, LoseSession, Goto, callVars
  <2> QED
    BY <1>12, <2>3, <2>4 DEF ApplyDown
<1>13. ASSUME NEW r \in Replicas, StatementFails(r) PROVE TypeOK'
  BY <1>13 DEF StatementFails, Goto, Fails, dbVars, callVars
<1>14. ASSUME NEW r \in Replicas, AdvisoryUnlock(r) PROVE TypeOK'
  BY <1>14 DEF AdvisoryUnlock, Finish, Goto, dbVars, callVars
<1>15. ASSUME NEW r \in Replicas, SessionDies(r) PROVE TypeOK'
  BY <1>15 DEF SessionDies, LoseSession, dbVars, callVars
<1>16. ASSUME NEW r \in Replicas, CtxEnds(r) PROVE TypeOK'
  BY <1>16 DEF CtxEnds, dbVars
<1>17. ASSUME NEW r \in Replicas, ProcessEnds(r) PROVE TypeOK'
  BY <1>17 DEF ProcessEnds, LoseSession, Goto, dbVars, callVars
<1>18. CASE GhostReaped
  BY <1>18 DEF GhostReaped, dbVars, callVars
<1>19. CASE UNCHANGED vars
  BY <1>19 DEF vars, dbVars, callVars
<1> QED
  BY <1>1, <1>2, <1>3, <1>4, <1>5, <1>6, <1>7, <1>8, <1>9, <1>10, <1>11, <1>12,
     <1>13, <1>14, <1>15, <1>16, <1>17, <1>18, <1>19 DEF Next, Step

\* Every variable keeps its type; nothing is applied with nothing pending.
THEOREM TypeCorrect == Spec => []TypeOK
<1>1. Init => TypeOK
  BY Bounds, Holders DEF Init, TypeOK, Pcs
<1> QED
  BY <1>1, TypeInductive, PTL DEF Spec

-------------------------------------------------------------------------------
(* Who holds the lock *)

\* LeaderHoldsLock with what it needs to be inductive: the holder's session is
\* alive, and a call holds the lock only once it is past TryLock.
LockInv ==
    /\ LeaderHoldsLock
    /\ \A r \in Replicas : lock = r => open[r] /\ pc[r] \in Critical \cup Returned

\* Every action keeps the lock with the leader that took it.
LEMMA LockInductive == TypeOK /\ LockInv /\ [Next]_vars => LockInv'
<1> SUFFICES ASSUME TypeOK, LockInv, [Next]_vars PROVE LockInv'
  OBVIOUS
<1> USE Holders
<1> USE DEF TypeOK, LockInv, LeaderHoldsLock, Pcs, Critical, Returned
<1>1. ASSUME NEW r \in Replicas, NEW m \in {"gate", "down"},
             NEW b \in 0..MaxVersion, Start(r, m, b)
      PROVE  LockInv'
  BY <1>1 DEF Start, Goto
<1>2. ASSUME NEW r \in Replicas, ReadStatus(r) PROVE LockInv'
  BY <1>2 DEF ReadStatus, Goto, Fails
<1>3. ASSUME NEW r \in Replicas, TryLock(r) PROVE LockInv'
  BY <1>3 DEF TryLock, Goto, Fails, Alive
<1>4. ASSUME NEW r \in Replicas, Poll(r) PROVE LockInv'
  BY <1>4 DEF Poll, Goto, Fails
<1>5. ASSUME NEW r \in Replicas, EnsureMeta(r) PROVE LockInv'
  BY <1>5 DEF EnsureMeta, Answered, LoseSession, Goto, Fails
<1>6. ASSUME NEW r \in Replicas, ReadPending(r) PROVE LockInv'
  BY <1>6 DEF ReadPending, Goto
<1>7. ASSUME NEW r \in Replicas, SetStateRunning(r) PROVE LockInv'
  BY <1>7 DEF SetStateRunning, Answered, LoseSession, Goto, Fails
<1>8. ASSUME NEW r \in Replicas, ApplyUp(r) PROVE LockInv'
  BY <1>8 DEF ApplyUp, Answered, LoseSession, Goto, Fails
<1>9. ASSUME NEW r \in Replicas, SetStateFailed(r) PROVE LockInv'
  BY <1>9 DEF SetStateFailed, Answered, LoseSession, Goto, Fails
<1>10. ASSUME NEW r \in Replicas, SetStateIdle(r) PROVE LockInv'
  BY <1>10 DEF SetStateIdle, LoseSession, Goto, Fails
<1>11. ASSUME NEW r \in Replicas, ReadApplied(r) PROVE LockInv'
  BY <1>11 DEF ReadApplied, Goto
<1>12. ASSUME NEW r \in Replicas, ApplyDown(r) PROVE LockInv'
  BY <1>12 DEF ApplyDown, LoseSession, Goto, Fails
<1>13. ASSUME NEW r \in Replicas, StatementFails(r) PROVE LockInv'
  BY <1>13 DEF StatementFails, Goto, Fails
<1>14. ASSUME NEW r \in Replicas, AdvisoryUnlock(r) PROVE LockInv'
  BY <1>14 DEF AdvisoryUnlock, Finish, Goto
<1>15. ASSUME NEW r \in Replicas, SessionDies(r) PROVE LockInv'
  BY <1>15 DEF SessionDies, LoseSession
<1>16. ASSUME NEW r \in Replicas, CtxEnds(r) PROVE LockInv'
  BY <1>16 DEF CtxEnds
<1>17. ASSUME NEW r \in Replicas, ProcessEnds(r) PROVE LockInv'
  BY <1>17 DEF ProcessEnds, LoseSession, Goto
<1>18. CASE GhostReaped
  BY <1>18 DEF GhostReaped
<1>19. CASE UNCHANGED vars
  BY <1>19 DEF vars, dbVars, callVars
<1> QED
  BY <1>1, <1>2, <1>3, <1>4, <1>5, <1>6, <1>7, <1>8, <1>9, <1>10, <1>11, <1>12,
     <1>13, <1>14, <1>15, <1>16, <1>17, <1>18, <1>19 DEF Next, Step

\* At most one replica whose statements reach the database is in the section
\* the advisory lock protects, and it is the one that holds the lock.
THEOREM LeaderCorrect == Spec => []LeaderHoldsLock
<1>1. Init => LockInv
  BY Holders DEF Init, LockInv, LeaderHoldsLock, Critical
<1>2. LockInv => LeaderHoldsLock
  BY DEF LockInv
<1> QED
  BY <1>1, <1>2, TypeCorrect, LockInductive, PTL DEF Spec

\* Every action keeps the lock with calls that have not returned, or whose
\* context had ended.
LEMMA ReleaseInductive ==
    TypeOK /\ LockInv /\ LockReleased /\ [Next]_vars => LockReleased'
<1> SUFFICES ASSUME TypeOK, LockInv, LockReleased, [Next]_vars,
                    NEW q \in Replicas, pc'[q] \in Returned, lock' = q
             PROVE  ended'[q]
  BY DEF LockReleased
<1> USE Holders
<1> USE DEF TypeOK, LockInv, LockReleased, Pcs, Critical, Returned
<1>1. ASSUME NEW r \in Replicas, NEW m \in {"gate", "down"},
             NEW b \in 0..MaxVersion, Start(r, m, b)
      PROVE  ended'[q]
  BY <1>1 DEF Start, Goto
<1>2. ASSUME NEW r \in Replicas, ReadStatus(r) PROVE ended'[q]
  BY <1>2 DEF ReadStatus, Goto, Fails, callVars
<1>3. ASSUME NEW r \in Replicas, TryLock(r) PROVE ended'[q]
  BY <1>3 DEF TryLock, Goto, Fails, callVars
<1>4. ASSUME NEW r \in Replicas, Poll(r) PROVE ended'[q]
  BY <1>4 DEF Poll, Goto, Fails, callVars
<1>5. ASSUME NEW r \in Replicas, EnsureMeta(r) PROVE ended'[q]
  BY <1>5 DEF EnsureMeta, Answered, LoseSession, Goto, Fails, callVars
<1>6. ASSUME NEW r \in Replicas, ReadPending(r) PROVE ended'[q]
  BY <1>6 DEF ReadPending, Goto, callVars
<1>7. ASSUME NEW r \in Replicas, SetStateRunning(r) PROVE ended'[q]
  BY <1>7 DEF SetStateRunning, Answered, LoseSession, Goto, Fails, callVars
<1>8. ASSUME NEW r \in Replicas, ApplyUp(r) PROVE ended'[q]
  BY <1>8 DEF ApplyUp, Answered, LoseSession, Goto, Fails, callVars
<1>9. ASSUME NEW r \in Replicas, SetStateFailed(r) PROVE ended'[q]
  BY <1>9 DEF SetStateFailed, Answered, LoseSession, Goto, Fails, callVars
<1>10. ASSUME NEW r \in Replicas, SetStateIdle(r) PROVE ended'[q]
  BY <1>10 DEF SetStateIdle, LoseSession, Goto, Fails, callVars
<1>11. ASSUME NEW r \in Replicas, ReadApplied(r) PROVE ended'[q]
  BY <1>11 DEF ReadApplied, Goto, callVars
<1>12. ASSUME NEW r \in Replicas, ApplyDown(r) PROVE ended'[q]
  BY <1>12 DEF ApplyDown, LoseSession, Goto, Fails, callVars
<1>13. ASSUME NEW r \in Replicas, StatementFails(r) PROVE ended'[q]
  BY <1>13 DEF StatementFails, Goto, Fails, callVars
<1>14. ASSUME NEW r \in Replicas, AdvisoryUnlock(r) PROVE ended'[q]
  BY <1>14 DEF AdvisoryUnlock, Finish, Goto, Alive, callVars
<1>15. ASSUME NEW r \in Replicas, SessionDies(r) PROVE ended'[q]
  BY <1>15 DEF SessionDies, LoseSession, callVars
<1>16. ASSUME NEW r \in Replicas, CtxEnds(r) PROVE ended'[q]
  BY <1>16 DEF CtxEnds
<1>17. ASSUME NEW r \in Replicas, ProcessEnds(r) PROVE ended'[q]
  BY <1>17 DEF ProcessEnds, LoseSession, Goto, callVars
<1>18. CASE GhostReaped
  BY <1>18 DEF GhostReaped, callVars
<1>19. CASE UNCHANGED vars
  BY <1>19 DEF vars, callVars
<1> QED
  BY <1>1, <1>2, <1>3, <1>4, <1>5, <1>6, <1>7, <1>8, <1>9, <1>10, <1>11, <1>12,
     <1>13, <1>14, <1>15, <1>16, <1>17, <1>18, <1>19 DEF Next, Step

\* A call that returned holds the lock only if its context had ended.
THEOREM ReleaseCorrect == Spec => []LockReleased
<1>1. Init => LockInv /\ LockReleased
  BY Holders DEF Init, LockInv, LeaderHoldsLock, Critical, LockReleased, Returned
<1> QED
  BY <1>1, TypeCorrect, LockInductive, ReleaseInductive, PTL DEF Spec

-------------------------------------------------------------------------------
(* What is applied *)

\* Which calls are at which step, and what they return.
CallInv ==
    \A r \in Replicas :
        /\ pc[r] \in {"running", "apply", "markFailed", "markIdle"} => mode[r] = "gate"
        /\ pc[r] = "down" => mode[r] = "down"
        /\ result[r] = "ok" => pc[r] \in {"unlock", "done", "off"}

\* What a leader with a live session knows of the database is still so: nobody
\* else has written since it read.
LeaderInv ==
    \A r \in Replicas : open[r] =>
        /\ pc[r] \in {"running", "apply"} => pending[r] = Known(r) \ applied
        /\ pc[r] = "markIdle" => Known(r) \subseteq applied
        /\ pc[r] = "unlock" /\ mode[r] = "gate" /\ result[r] = "ok"
              => Known(r) \subseteq applied

\* Every action keeps the calls on their own path.
LEMMA CallInductive == TypeOK /\ CallInv /\ [Next]_vars => CallInv'
<1> SUFFICES ASSUME TypeOK, CallInv, [Next]_vars PROVE CallInv'
  OBVIOUS
<1> USE DEF TypeOK, CallInv, Critical, Returned
<1>1. ASSUME NEW r \in Replicas, NEW m \in {"gate", "down"},
             NEW b \in 0..MaxVersion, Start(r, m, b)
      PROVE  CallInv'
  BY <1>1 DEF Start, Goto, dbVars
<1>2. ASSUME NEW r \in Replicas, ReadStatus(r) PROVE CallInv'
  BY <1>2 DEF ReadStatus, Goto, Fails, dbVars, callVars
<1>3. ASSUME NEW r \in Replicas, TryLock(r) PROVE CallInv'
  BY <1>3 DEF TryLock, Goto, Fails, dbVars, callVars
<1>4. ASSUME NEW r \in Replicas, Poll(r) PROVE CallInv'
  BY <1>4 DEF Poll, Goto, Fails, dbVars, callVars
<1>5. ASSUME NEW r \in Replicas, EnsureMeta(r) PROVE CallInv'
  BY <1>5 DEF EnsureMeta, Answered, LoseSession, Goto, Fails, dbVars, callVars
<1>6. ASSUME NEW r \in Replicas, ReadPending(r) PROVE CallInv'
  BY <1>6 DEF ReadPending, Goto, Alive, dbVars, callVars
<1>7. ASSUME NEW r \in Replicas, SetStateRunning(r) PROVE CallInv'
  BY <1>7 DEF SetStateRunning, Answered, LoseSession, Goto, Fails, callVars
<1>8. ASSUME NEW r \in Replicas, ApplyUp(r) PROVE CallInv'
  BY <1>8 DEF ApplyUp, Answered, LoseSession, Goto, Fails, callVars
<1>9. ASSUME NEW r \in Replicas, SetStateFailed(r) PROVE CallInv'
  BY <1>9 DEF SetStateFailed, Answered, LoseSession, Goto, Fails, callVars
<1>10. ASSUME NEW r \in Replicas, SetStateIdle(r) PROVE CallInv'
  BY <1>10 DEF SetStateIdle, LoseSession, Goto, Fails, callVars, Alive
<1>11. ASSUME NEW r \in Replicas, ReadApplied(r) PROVE CallInv'
  BY <1>11 DEF ReadApplied, Goto, dbVars, callVars, Alive
<1>12. ASSUME NEW r \in Replicas, ApplyDown(r) PROVE CallInv'
  BY <1>12 DEF ApplyDown, LoseSession, Goto, Fails, callVars
<1>13. ASSUME NEW r \in Replicas, StatementFails(r) PROVE CallInv'
  BY <1>13 DEF StatementFails, Goto, Fails, dbVars, callVars
<1>14. ASSUME NEW r \in Replicas, AdvisoryUnlock(r) PROVE CallInv'
  BY <1>14 DEF AdvisoryUnlock, Finish, Goto, dbVars, callVars
<1>15. ASSUME NEW r \in Replicas, SessionDies(r) PROVE CallInv'
  BY <1>15 DEF SessionDies, LoseSession, dbVars, callVars
<1>16. ASSUME NEW r \in Replicas, CtxEnds(r) PROVE CallInv'
  BY <1>16 DEF CtxEnds, dbVars
<1>17. ASSUME NEW r \in Replicas, ProcessEnds(r) PROVE CallInv'
  BY <1>17 DEF ProcessEnds, LoseSession, Goto, dbVars, callVars
<1>18. CASE GhostReaped
  BY <1>18 DEF GhostReaped, dbVars, callVars
<1>19. CASE UNCHANGED vars
  BY <1>19 DEF vars, dbVars, callVars
<1> QED
  BY <1>1, <1>2, <1>3, <1>4, <1>5, <1>6, <1>7, <1>8, <1>9, <1>10, <1>11, <1>12,
     <1>13, <1>14, <1>15, <1>16, <1>17, <1>18, <1>19 DEF Next, Step

\* Nobody but the leader of a live session is in its section.
LEMMA OneLeader ==
    ASSUME LockInv, NEW r \in Replicas, NEW q \in Replicas,
           open[r], pc[r] \in Critical, open[q], pc[q] \in Critical
    PROVE  q = r
  BY DEF LockInv, LeaderHoldsLock

\* Every action keeps what the leader knows true.
LEMMA LeaderInductive ==
    TypeOK /\ LockInv /\ CallInv /\ LeaderInv /\ [Next]_vars => LeaderInv'
<1> SUFFICES ASSUME TypeOK, LockInv, CallInv, LeaderInv, [Next]_vars
             PROVE  LeaderInv'
  OBVIOUS
<1> USE DEF TypeOK, CallInv, LeaderInv, Known, Critical, Returned
<1>1. ASSUME NEW r \in Replicas, NEW m \in {"gate", "down"},
             NEW b \in 0..MaxVersion, Start(r, m, b)
      PROVE  LeaderInv'
  BY <1>1 DEF Start, Goto, dbVars
<1>2. ASSUME NEW r \in Replicas, ReadStatus(r) PROVE LeaderInv'
  BY <1>2 DEF ReadStatus, Goto, Fails, dbVars, callVars
<1>3. ASSUME NEW r \in Replicas, TryLock(r) PROVE LeaderInv'
  BY <1>3 DEF TryLock, Goto, Fails, dbVars, callVars
<1>4. ASSUME NEW r \in Replicas, Poll(r) PROVE LeaderInv'
  BY <1>4 DEF Poll, Goto, Fails, dbVars, callVars
<1>5. ASSUME NEW r \in Replicas, EnsureMeta(r) PROVE LeaderInv'
  BY <1>5 DEF EnsureMeta, Answered, LoseSession, Goto, Fails, dbVars, callVars
<1>6. ASSUME NEW r \in Replicas, ReadPending(r) PROVE LeaderInv'
  BY <1>6 DEF ReadPending, Goto, Alive, dbVars, callVars
<1>7. ASSUME NEW r \in Replicas, SetStateRunning(r) PROVE LeaderInv'
  BY <1>7 DEF SetStateRunning, Answered, LoseSession, Goto, Fails, callVars
<1>8. ASSUME NEW r \in Replicas, ApplyUp(r) PROVE LeaderInv'
  <2>1. PICK v \in pending[r] \ applied :
           /\ applied' = applied \cup {v}
           /\ pending' = [pending EXCEPT ![r] = @ \ {v}]
    BY <1>8 DEF ApplyUp
  <2>2. open[r] /\ pc[r] = "apply" /\ pending[r] = Known(r) \ applied
    BY <1>8 DEF ApplyUp, Alive
  <2>3. \A q \in Replicas : q # r /\ open[q] => pc[q] \notin Critical
    BY <2>2, OneLeader
  <2>4. pending'[r] = Known(r) \ applied' /\ UNCHANGED <<mode, build>>
    BY <1>8, <2>1, <2>2 DEF ApplyUp, callVars
  <2>5. CASE /\ Goto(r, IF pending'[r] = {} THEN "markIdle" ELSE "apply")
             /\ UNCHANGED <<lock, open, result>>
    BY <2>1, <2>2, <2>3, <2>4, <2>5 DEF Goto
  <2>6. CASE Fails(r, "markFailed") /\ LoseSession(r)
    BY <2>1, <2>2, <2>3, <2>4, <2>6 DEF Fails, Goto, LoseSession
  <2> QED
    BY <1>8, <2>5, <2>6 DEF ApplyUp, Answered
<1>9. ASSUME NEW r \in Replicas, SetStateFailed(r) PROVE LeaderInv'
  BY <1>9 DEF SetStateFailed, Answered, LoseSession, Goto, Fails, callVars
<1>10. ASSUME NEW r \in Replicas, SetStateIdle(r) PROVE LeaderInv'
  BY <1>10 DEF SetStateIdle, LoseSession, Goto, Fails, callVars, Alive
<1>11. ASSUME NEW r \in Replicas, ReadApplied(r) PROVE LeaderInv'
  BY <1>11 DEF ReadApplied, Goto, dbVars, callVars, Alive
<1>12. ASSUME NEW r \in Replicas, ApplyDown(r) PROVE LeaderInv'
  <2>1. open[r] /\ pc[r] = "down" /\ mode[r] = "down" /\ UNCHANGED <<mode, build>>
    BY <1>12 DEF ApplyDown, Alive, callVars
  <2>2. \A q \in Replicas : q # r /\ open[q] => pc[q] \notin Critical
    BY <2>1, OneLeader
  <2>3. /\ \A q \in Replicas : q # r => /\ pc'[q] = pc[q]
                                        /\ open'[q] = open[q]
        /\ pc'[r] \in {"unlock", "down"}
    BY <1>12 DEF ApplyDown, Goto, Fails, LoseSession
  <2> QED
    BY <2>1, <2>2, <2>3
<1>13. ASSUME NEW r \in Replicas, StatementFails(r) PROVE LeaderInv'
  BY <1>13 DEF StatementFails, Goto, Fails, dbVars, callVars
<1>14. ASSUME NEW r \in Replicas, AdvisoryUnlock(r) PROVE LeaderInv'
  BY <1>14 DEF AdvisoryUnlock, Finish, Goto, dbVars, callVars
<1>15. ASSUME NEW r \in Replicas, SessionDies(r) PROVE LeaderInv'
  BY <1>15 DEF SessionDies, LoseSession, dbVars, callVars
<1>16. ASSUME NEW r \in Replicas, CtxEnds(r) PROVE LeaderInv'
  BY <1>16 DEF CtxEnds, dbVars
<1>17. ASSUME NEW r \in Replicas, ProcessEnds(r) PROVE LeaderInv'
  BY <1>17 DEF ProcessEnds, LoseSession, Goto, dbVars, callVars
<1>18. CASE GhostReaped
  BY <1>18 DEF GhostReaped, dbVars, callVars
<1>19. CASE UNCHANGED vars
  BY <1>19 DEF vars, dbVars, callVars
<1> QED
  BY <1>1, <1>2, <1>3, <1>4, <1>5, <1>6, <1>7, <1>8, <1>9, <1>10, <1>11, <1>12,
     <1>13, <1>14, <1>15, <1>16, <1>17, <1>18, <1>19 DEF Next, Step

\* A gate that is about to return success, its session alive, has every
\* migration of its build in the database.
THEOREM HeadCorrect == Spec => []ConfirmedAtHead
<1>1. Init => LockInv /\ CallInv /\ LeaderInv
  BY Holders DEF Init, LockInv, LeaderHoldsLock, Critical, CallInv, LeaderInv
<1>2. LeaderInv => ConfirmedAtHead
  BY DEF LeaderInv, ConfirmedAtHead
<1> QED
  BY <1>1, <1>2, TypeCorrect, LockInductive, CallInductive, LeaderInductive, PTL
     DEF Spec

\* NoGaps with what it needs of Down: a build that knows every version has the
\* top of what is applied on its list.
GapInv ==
    /\ NoGaps
    /\ \A r \in Replicas : mode[r] = "down" => build[r] = MaxVersion
    /\ \A r \in Replicas : open[r] /\ pc[r] = "down" =>
          /\ pending[r] \subseteq applied
          /\ \A v \in pending[r] : \A u \in applied : u > v => u \in pending[r]

\* Every action keeps the applied versions without a gap.
LEMMA GapInductive ==
    ASSUME DownBuilds \subseteq {MaxVersion}
    PROVE  TypeOK /\ LockInv /\ CallInv /\ LeaderInv /\ GapInv /\ [Next]_vars
              => GapInv'
<1> SUFFICES ASSUME TypeOK, LockInv, CallInv, LeaderInv, GapInv, [Next]_vars
             PROVE  GapInv'
  OBVIOUS
<1> USE Bounds
<1> USE DEF TypeOK, GapInv, NoGaps, Critical, Returned
<1>1. ASSUME NEW r \in Replicas, NEW m \in {"gate", "down"},
             NEW b \in 0..MaxVersion, Start(r, m, b)
      PROVE  GapInv'
  BY <1>1 DEF Start, Goto, dbVars
<1>2. ASSUME NEW r \in Replicas, ReadStatus(r) PROVE GapInv'
  BY <1>2 DEF ReadStatus, Goto, Fails, dbVars, callVars
<1>3. ASSUME NEW r \in Replicas, TryLock(r) PROVE GapInv'
  BY <1>3 DEF TryLock, Goto, Fails, dbVars, callVars
<1>4. ASSUME NEW r \in Replicas, Poll(r) PROVE GapInv'
  BY <1>4 DEF Poll, Goto, Fails, dbVars, callVars
<1>5. ASSUME NEW r \in Replicas, EnsureMeta(r) PROVE GapInv'
  BY <1>5 DEF EnsureMeta, Answered, LoseSession, Goto, Fails, dbVars, callVars
<1>6. ASSUME NEW r \in Replicas, ReadPending(r) PROVE GapInv'
  BY <1>6 DEF ReadPending, Goto, Alive, dbVars, callVars
<1>7. ASSUME NEW r \in Replicas, SetStateRunning(r) PROVE GapInv'
  BY <1>7 DEF SetStateRunning, Answered, LoseSession, Goto, Fails, callVars
<1>8. ASSUME NEW r \in Replicas, ApplyUp(r) PROVE GapInv'
  <2>1. PICK v \in pending[r] \ applied :
           /\ \A u \in pending[r] : v <= u
           /\ applied' = applied \cup {v}
           /\ pending' = [pending EXCEPT ![r] = @ \ {v}]
    BY <1>8 DEF ApplyUp
  <2>2. /\ open[r] /\ pc[r] = "apply" /\ pending[r] = Known(r) \ applied
        /\ UNCHANGED <<mode, build>>
    BY <1>8 DEF ApplyUp, Alive, LeaderInv, callVars
  <2>3. \A q \in Replicas : q # r /\ open[q] => pc[q] \notin Critical
    BY <2>2, OneLeader
  <2>4. ASSUME NEW u \in Version, u < v PROVE u \in applied
    <3>1. v \in 1..build[r] /\ build[r] \in 0..MaxVersion
      BY <2>2 DEF Known
    <3>2. u \in Known(r)
      BY <3>1, <2>4 DEF Known, Version
    <3>3. u \notin pending[r]
      BY <2>1, <2>4, <3>1 DEF Version
    <3> QED
      BY <2>2, <3>2, <3>3
  <2>5. NoGaps'
    BY <2>1, <2>4
  <2>6. /\ \A q \in Replicas : q # r => /\ pc'[q] = pc[q]
                                        /\ open'[q] = open[q]
        /\ pc'[r] # "down"
    BY <1>8 DEF ApplyUp, Answered, Goto, Fails, LoseSession
  <2> QED
    BY <2>2, <2>3, <2>5, <2>6
<1>9. ASSUME NEW r \in Replicas, SetStateFailed(r) PROVE GapInv'
  BY <1>9 DEF SetStateFailed, Answered, LoseSession, Goto, Fails, callVars
<1>10. ASSUME NEW r \in Replicas, SetStateIdle(r) PROVE GapInv'
  BY <1>10 DEF SetStateIdle, LoseSession, Goto, Fails, callVars, Alive
<1>11. ASSUME NEW r \in Replicas, ReadApplied(r) PROVE GapInv'
  <2>1. PICK todo \in SUBSET (Known(r) \cap applied) :
           /\ \A v \in todo : \A u \in Known(r) \cap applied : u > v => u \in todo
           /\ pending' = [pending EXCEPT ![r] = todo]
    BY <1>11 DEF ReadApplied
  <2>2. mode[r] = "down" /\ build[r] = MaxVersion
    BY <1>11 DEF ReadApplied
  <2>3. Known(r) \cap applied = applied
    BY <2>2 DEF Known, Version
  <2>4. /\ pending'[r] \subseteq applied
        /\ \A v \in pending'[r] : \A u \in applied : u > v => u \in pending'[r]
    BY <2>1, <2>3
  <2>5. UNCHANGED <<applied, mode, build, open>>
    BY <1>11 DEF ReadApplied, dbVars, callVars
  <2>6. \A q \in Replicas : q # r => pc'[q] = pc[q] /\ pending'[q] = pending[q]
    BY <1>11, <2>1 DEF ReadApplied, Goto
  <2> QED
    BY <2>4, <2>5, <2>6
<1>12. ASSUME NEW r \in Replicas, ApplyDown(r) PROVE GapInv'
  <2>1. PICK v \in pending[r] :
           /\ \A u \in pending[r] : u <= v
           /\ applied' = applied \ {v}
           /\ pending' = [pending EXCEPT ![r] = @ \ {v}]
    BY <1>12 DEF ApplyDown
  <2>2. open[r] /\ pc[r] = "down" /\ UNCHANGED <<mode, build>>
    BY <1>12 DEF ApplyDown, Alive, callVars
  <2>3. \A q \in Replicas : q # r /\ open[q] => pc[q] \notin Critical
    BY <2>2, OneLeader
  <2>4. \A u \in applied : u <= v
    BY <2>1, <2>2 DEF Version
  <2>5. NoGaps'
    BY <2>1, <2>4 DEF Version
  <2>6. /\ pending'[r] \subseteq applied'
        /\ \A w \in pending'[r] : \A u \in applied' : u > w => u \in pending'[r]
    BY <2>1, <2>2
  <2>7. \A q \in Replicas : q # r => pc'[q] = pc[q] /\ open'[q] = open[q]
    BY <1>12 DEF ApplyDown, Goto, Fails, LoseSession
  <2> QED
    BY <2>2, <2>3, <2>5, <2>6, <2>7
<1>13. ASSUME NEW r \in Replicas, StatementFails(r) PROVE GapInv'
  BY <1>13 DEF StatementFails, Goto, Fails, dbVars, callVars
<1>14. ASSUME NEW r \in Replicas, AdvisoryUnlock(r) PROVE GapInv'
  BY <1>14 DEF AdvisoryUnlock, Finish, Goto, dbVars, callVars
<1>15. ASSUME NEW r \in Replicas, SessionDies(r) PROVE GapInv'
  BY <1>15 DEF SessionDies, LoseSession, dbVars, callVars
<1>16. ASSUME NEW r \in Replicas, CtxEnds(r) PROVE GapInv'
  BY <1>16 DEF CtxEnds, dbVars
<1>17. ASSUME NEW r \in Replicas, ProcessEnds(r) PROVE GapInv'
  BY <1>17 DEF ProcessEnds, LoseSession, Goto, dbVars, callVars
<1>18. CASE GhostReaped
  BY <1>18 DEF GhostReaped, dbVars, callVars
<1>19. CASE UNCHANGED vars
  BY <1>19 DEF vars, dbVars, callVars
<1> QED
  BY <1>1, <1>2, <1>3, <1>4, <1>5, <1>6, <1>7, <1>8, <1>9, <1>10, <1>11, <1>12,
     <1>13, <1>14, <1>15, <1>16, <1>17, <1>18, <1>19 DEF Next, Step

\* When every build that runs Down ships every migration, the applied versions
\* never have a gap.
THEOREM NoGapsCorrect ==
    ASSUME DownBuilds \subseteq {MaxVersion}
    PROVE  Spec => []NoGaps
<1>1. Init => LockInv /\ CallInv /\ LeaderInv /\ GapInv
  BY Holders DEF Init, LockInv, LeaderHoldsLock, Critical, CallInv, LeaderInv,
                 GapInv, NoGaps
<1>2. GapInv => NoGaps
  BY DEF GapInv
<1>3. TypeOK /\ LockInv /\ CallInv /\ LeaderInv /\ GapInv /\ [Next]_vars => GapInv'
  BY GapInductive
<1> QED
  BY <1>1, <1>2, <1>3, TypeCorrect, LockInductive, CallInductive, LeaderInductive,
     PTL DEF Spec

===============================================================================
