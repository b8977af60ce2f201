---------------------------- MODULE LocalBusProofs ----------------------------
(* Theorems about LocalBus, for every number of structs, goroutines,         *)
(* generations and messages and every mailbox capacity: ownership, routing   *)
(* and order first, then how the bus stops: what the WaitGroup counts, and   *)
(* so what Close and Drain have waited for; what a live subscription keeps;  *)
(* and that what they wait for is told to stop.                              *)
EXTENDS LocalBus, FiniteSetTheorems, TLAPS

\* A step of a goroutine starts at its label.
USE DEF At

LEMMA TypeInit == Init => TypeOK
<1> SUFFICES ASSUME Init PROVE TypeOK
  OBVIOUS
<1> USE BoundsAssumption, NoRefAssumption DEF Init
<1>1. TypeBus /\ TypeList
  BY DEF TypeBus, TypeList
<1>2. TypeSub
  BY DEF TypeSub
<1>3. TypeMailbox
  BY DEF TypeMailbox
<1>4. TypeCaller
  BY DEF TypeCaller, CallerPcs
<1>5. TypePub
  BY DEF TypePub, PubPcs
<1>6. TypeWork
  BY DEF TypeWork, WorkerPcs
<1>7. TypeStop
  BY DEF TypeStop, StopPcs
<1> QED
  BY <1>1, <1>2, <1>3, <1>4, <1>5, <1>6, <1>7 DEF TypeOK


LEMMA TypePublish ==
    ASSUME TypeOK, NEW p \in Publishers,
           PublishStart(p) \/ EnqueueCancelled(p) \/ PublishStep(p)
    PROVE  TypeOK'
<1> USE BoundsAssumption, NoRefAssumption DEF TypeOK
<1>1. CASE PublishStart(p)
  BY <1>1 DEF PublishStart, TypeBus, TypeSub, TypeList, TypeMailbox,
         TypeCaller, TypePub, TypeWork, TypeStop, busVars, subVars, listVars,
         callVars, workVars, stopVars, PubPcs, PubGoto, PubReturn
<1>2. CASE EnqueueCancelled(p)
  BY <1>2 DEF EnqueueCancelled, TypeBus, TypeSub, TypeList, TypeMailbox,
         TypeCaller, TypePub, TypeWork, TypeStop, busVars, subVars, listVars,
         callVars, workVars, stopVars, PubPcs, PubGoto, PubReturn
<1>3. CASE PublishLoad(p)
  BY <1>3 DEF PublishLoad, TypeBus, TypeSub, TypeList, TypeMailbox,
         TypeCaller, TypePub, TypeWork, TypeStop, busVars, subVars, listVars,
         callVars, workVars, stopVars, PubPcs, PubGoto, PubReturn
<1>4. CASE EnqueueTry(p)
  <2>1. TypeBus' /\ TypeSub' /\ TypeList' /\ TypeCaller' /\ TypeWork' /\ TypeStop'
    BY <1>4 DEF EnqueueTry, TypeBus, TypeSub, TypeList, TypeCaller, TypeWork,
           TypeStop, busVars, subVars, listVars, callVars, workVars, stopVars
  <2>2. pubRef[p] \in Ref /\ pubRef[p].sub \in Subs
    BY <1>4 DEF EnqueueTry, TypePub, Ref
  <2>3. [msg |-> CurrentMsg(p), gen |-> pubRef[p].gen] \in Delivery
    BY <1>4, <2>2 DEF EnqueueTry, TypePub, PubPcs, CurrentMsg, Msg, Delivery, Ref
  <2>4. TypeMailbox'
    <3>1. CASE HasSpace(pubRef[p].sub)
      <4>1. Send(p, pubRef[p])
        BY <1>4, <3>1 DEF EnqueueTry
      <4> QED
        BY <2>2, <2>3, <3>1, <4>1 DEF TypeMailbox, HasSpace, Send
    <3>2. CASE ~HasSpace(pubRef[p].sub)
      BY <1>4, <3>2 DEF EnqueueTry, TypeMailbox
    <3> QED
      BY <3>1, <3>2
  <2>5. TypePub'
    BY <1>4, <2>2, <2>3 DEF EnqueueTry, TypePub, PubPcs, PubGoto
  <2> QED
    BY <2>1, <2>2, <2>3, <2>4, <2>5
<1>5. CASE EnqueueSend(p)
  <2>1. TypeBus' /\ TypeSub' /\ TypeList' /\ TypeCaller' /\ TypeWork' /\ TypeStop'
    BY <1>5 DEF EnqueueSend, TypeBus, TypeSub, TypeList, TypeCaller, TypeWork,
           TypeStop, busVars, subVars, listVars, callVars, workVars, stopVars
  <2>2. pubRef[p] \in Ref /\ pubRef[p].sub \in Subs
    BY <1>5 DEF EnqueueSend, TypePub, Ref
  <2>3. [msg |-> CurrentMsg(p), gen |-> pubRef[p].gen] \in Delivery
    BY <1>5, <2>2 DEF EnqueueSend, TypePub, PubPcs, CurrentMsg, Msg, Delivery, Ref
  <2>4. TypeMailbox'
    BY <1>5, <2>2, <2>3 DEF EnqueueSend, TypeMailbox, HasSpace, Send
  <2>5. TypePub'
    BY <1>5, <2>2, <2>3 DEF EnqueueSend, TypePub, PubPcs, PubGoto
  <2> QED
    BY <2>1, <2>2, <2>3, <2>4, <2>5
<1>6. CASE EnqueueSkip(p)
  BY <1>6 DEF EnqueueSkip, TypeBus, TypeSub, TypeList, TypeMailbox,
         TypeCaller, TypePub, TypeWork, TypeStop, busVars, subVars, listVars,
         callVars, workVars, stopVars, PubPcs, PubGoto, PubReturn
<1>7. CASE EnqueueBusClosed(p)
  BY <1>7 DEF EnqueueBusClosed, TypeBus, TypeSub, TypeList, TypeMailbox,
         TypeCaller, TypePub, TypeWork, TypeStop, busVars, subVars, listVars,
         callVars, workVars, stopVars, PubPcs, PubGoto, PubReturn
<1>8. CASE PublishEnd(p)
  BY <1>8 DEF PublishEnd, TypeBus, TypeSub, TypeList, TypeMailbox, TypeCaller,
         TypePub, TypeWork, TypeStop, busVars, subVars, listVars, callVars,
         workVars, stopVars, PubPcs, PubGoto, PubReturn
<1>9. ASSUME NEW r \in Ref, EnqueueCheck(p, r) PROVE TypeOK'
  <2>1. TypeBus' /\ TypeSub' /\ TypeList' /\ TypeMailbox' /\ TypeCaller' /\ TypeWork' /\ TypeStop'
    BY <1>9 DEF EnqueueCheck, TypeBus, TypeSub, TypeList, TypeMailbox,
           TypeCaller, TypeWork, TypeStop, busVars, subVars, listVars,
           callVars, workVars, stopVars
  <2>2. TypePub'
    BY <1>9 DEF EnqueueCheck, TypePub, PubPcs, PubGoto
  <2> QED
    BY <2>1, <2>2
<1> QED
  BY <1>1, <1>2, <1>3, <1>4, <1>5, <1>6, <1>7, <1>8, <1>9 DEF PublishStep

LEMMA TypeCallers ==
    ASSUME TypeOK, NEW c \in Callers,
           SubscribeStart(c) \/ (\E r \in Ref : UnsubStart(c, r)) \/ CallerStep(c)
    PROVE  TypeOK'
<1> USE BoundsAssumption, NoRefAssumption DEF TypeOK
<1>1. CASE SubscribeStart(c)
  BY <1>1 DEF SubscribeStart, TypeBus, TypeSub, TypeList, TypeMailbox,
         TypeCaller, TypePub, TypeWork, TypeStop, busVars, subVars, listVars,
         pubVars, workVars, stopVars, CallerPcs, Goto, Return, UnsubReturn,
         Ref
<1>2. CASE SubscribeRegister(c)
  <2>1. TypeBus' /\ TypeSub' /\ TypeMailbox' /\ TypePub' /\ TypeWork' /\ TypeStop'
    BY <1>2 DEF SubscribeRegister, TypeBus, TypeSub, TypeMailbox, TypePub,
           TypeWork, TypeStop, busVars, subVars, pubVars, workVars, stopVars
  <2>2. TypeList'
    BY <1>2 DEF SubscribeRegister, TypeList, TypeCaller
  <2>3. TypeCaller'
    BY <1>2 DEF SubscribeRegister, TypeCaller, CallerPcs, Goto, Return,
           UnsubReturn
  <2> QED
    BY <2>1, <2>2, <2>3
<1>3. CASE SubscribeTrack(c)
  <2>1. TypeBus' /\ TypeSub' /\ TypeMailbox' /\ TypePub' /\ TypeWork' /\ TypeStop'
    BY <1>3 DEF SubscribeTrack, TypeBus, TypeSub, TypeMailbox, TypePub,
           TypeWork, TypeStop, busVars, subVars, pubVars, workVars, stopVars
  <2>2. TypeList'
    BY <1>3 DEF SubscribeTrack, TypeList, TypeCaller, Ref
  <2>3. TypeCaller'
    BY <1>3 DEF SubscribeTrack, TypeCaller, CallerPcs, Goto, Return,
           UnsubReturn
  <2> QED
    BY <2>1, <2>2, <2>3
<1>4. CASE SubscribeRecheck(c)
  BY <1>4 DEF SubscribeRecheck, TypeBus, TypeSub, TypeList, TypeMailbox,
         TypeCaller, TypePub, TypeWork, TypeStop, busVars, subVars, listVars,
         pubVars, workVars, stopVars, CallerPcs, Goto, Return, UnsubReturn,
         Ref
<1>5. CASE SubscribeSpawn(c)
  <2>1. TypeBus' /\ TypeSub' /\ TypeList' /\ TypeMailbox' /\ TypePub' /\ TypeStop'
    BY <1>5 DEF SubscribeSpawn, TypeBus, TypeSub, TypeList, TypeMailbox,
           TypePub, TypeStop, busVars, subVars, listVars, pubVars, stopVars
  <2>2. TypeCaller'
    BY <1>5 DEF SubscribeSpawn, TypeCaller, CallerPcs, Goto, Return,
           UnsubReturn
  <2>3. TypeWork'
    BY <1>5 DEF SubscribeSpawn, TypeWork, TypeCaller, WorkerPcs
  <2> QED
    BY <2>1, <2>2, <2>3
<1>6. CASE UndoTrack(c)
  BY <1>6 DEF UndoTrack, Untrack, TypeBus, TypeSub, TypeList, TypeMailbox,
         TypeCaller, TypePub, TypeWork, TypeStop, busVars, subVars, listVars,
         pubVars, workVars, stopVars, CallerPcs, Goto, Return, UnsubReturn,
         Ref
<1>7. CASE UndoRegister(c)
  BY <1>7 DEF UndoRegister, TypeBus, TypeSub, TypeList, TypeMailbox,
         TypeCaller, TypePub, TypeWork, TypeStop, busVars, subVars, listVars,
         pubVars, workVars, stopVars, CallerPcs, Goto, Return, UnsubReturn,
         Ref
<1>8. CASE UndoRecycle(c)
  <2>1. TypeBus' /\ TypeList' /\ TypeMailbox' /\ TypePub' /\ TypeWork' /\ TypeStop'
    BY <1>8 DEF UndoRecycle, TypeBus, TypeList, TypeMailbox, TypePub,
           TypeWork, TypeStop, busVars, listVars, pubVars, workVars, stopVars
  <2>2. TypeSub'
    BY <1>8 DEF UndoRecycle, TypeSub, TypeCaller, Ref
  <2>3. TypeCaller'
    BY <1>8 DEF UndoRecycle, TypeCaller, CallerPcs, Goto, Return, UnsubReturn
  <2> QED
    BY <2>1, <2>2, <2>3
<1>9. CASE UnsubGenCheck(c)
  <2>1. TypeBus' /\ TypeSub' /\ TypeList' /\ TypeMailbox' /\ TypePub' /\ TypeWork' /\ TypeStop'
    BY <1>9 DEF UnsubGenCheck, TypeBus, TypeSub, TypeList, TypeMailbox,
           TypePub, TypeWork, TypeStop, busVars, subVars, listVars, pubVars,
           workVars, stopVars
  <2>2. TypeCaller'
    BY <1>9 DEF UnsubGenCheck, TypeCaller, CallerPcs, Goto, Return,
           UnsubReturn
  <2> QED
    BY <2>1, <2>2
<1>10. CASE UnsubClaim(c)
  <2>1. TypeBus' /\ TypeList' /\ TypeMailbox' /\ TypePub' /\ TypeWork' /\ TypeStop'
    BY <1>10 DEF UnsubClaim, TypeBus, TypeList, TypeMailbox, TypePub,
           TypeWork, TypeStop, busVars, listVars, pubVars, workVars, stopVars
  <2>2. TypeSub'
    BY <1>10 DEF UnsubClaim, TypeSub, TypeCaller, Ref
  <2>3. TypeCaller'
    BY <1>10 DEF UnsubClaim, TypeCaller, CallerPcs, Goto, Return, UnsubReturn
  <2> QED
    BY <2>1, <2>2, <2>3
<1>11. CASE UnsubDereg(c)
  BY <1>11 DEF UnsubDereg, TypeBus, TypeSub, TypeList, TypeMailbox,
         TypeCaller, TypePub, TypeWork, TypeStop, busVars, subVars, listVars,
         pubVars, workVars, stopVars, CallerPcs, Goto, Return, UnsubReturn,
         Ref
<1>12. CASE UnsubUntrack(c)
  BY <1>12 DEF UnsubUntrack, Untrack, TypeBus, TypeSub, TypeList, TypeMailbox,
         TypeCaller, TypePub, TypeWork, TypeStop, busVars, subVars, listVars,
         pubVars, workVars, stopVars, CallerPcs, Goto, Return, UnsubReturn,
         Ref
<1>13. CASE UnsubStopClaim(c)
  <2>1. TypeBus' /\ TypeList' /\ TypeMailbox' /\ TypePub' /\ TypeWork' /\ TypeStop'
    BY <1>13 DEF UnsubStopClaim, TypeBus, TypeList, TypeMailbox, TypePub,
           TypeWork, TypeStop, busVars, listVars, pubVars, workVars, stopVars
  <2>2. TypeSub'
    BY <1>13 DEF UnsubStopClaim, TypeSub, TypeCaller, Ref
  <2>3. TypeCaller'
    BY <1>13 DEF UnsubStopClaim, TypeCaller, CallerPcs, Goto, Return,
           UnsubReturn
  <2> QED
    BY <2>1, <2>2, <2>3
<1>14. CASE UnsubStopClose(c)
  <2>1. TypeBus' /\ TypeList' /\ TypeMailbox' /\ TypePub' /\ TypeWork' /\ TypeStop'
    BY <1>14 DEF UnsubStopClose, TypeBus, TypeList, TypeMailbox, TypePub,
           TypeWork, TypeStop, busVars, listVars, pubVars, workVars, stopVars
  <2>2. TypeSub'
    BY <1>14 DEF UnsubStopClose, TypeSub, CloseChannel, CurrentRef,
           TypeCaller, Ref
  <2>3. TypeCaller'
    BY <1>14 DEF UnsubStopClose, TypeCaller, CallerPcs, Goto, Return,
           UnsubReturn
  <2> QED
    BY <2>1, <2>2, <2>3
<1>15. ASSUME NEW r \in Ref, UnsubStart(c, r) PROVE TypeOK'
  BY <1>15 DEF UnsubStart, TypeBus, TypeSub, TypeList, TypeMailbox,
         TypeCaller, TypePub, TypeWork, TypeStop, busVars, subVars, listVars,
         pubVars, workVars, stopVars, CallerPcs, Goto, Return, UnsubReturn,
         Ref
<1>16. ASSUME NEW s \in Subs, SubscribeGet(c, s) PROVE TypeOK'
  <2>1. TypeSub'
    BY <1>16 DEF SubscribeGet, TypeSub
  <2>2. [sub |-> s, gen |-> gen[s] + 1] \in Ref
    BY <1>16 DEF SubscribeGet, TypeSub, Ref
  <2>3. TypeCaller'
    BY <1>16, <2>2 DEF SubscribeGet, TypeCaller, CallerPcs, Goto
  <2>4. TypeBus' /\ TypeList' /\ TypeMailbox' /\ TypePub' /\ TypeWork' /\ TypeStop'
    BY <1>16 DEF SubscribeGet, TypeBus, TypeList, TypeMailbox, TypePub, TypeWork,
         TypeStop, busVars, listVars, pubVars, workVars, stopVars
  <2> QED
    BY <2>1, <2>3, <2>4
<1> QED
  BY <1>1, <1>2, <1>3, <1>4, <1>5, <1>6, <1>7, <1>8, <1>9, <1>10,
     <1>11, <1>12, <1>13, <1>14, <1>15, <1>16 DEF CallerStep

LEMMA TypeWorker ==
    ASSUME TypeOK, NEW r \in Ref,
           WorkerStep(r)
    PROVE  TypeOK'
<1> USE BoundsAssumption, NoRefAssumption DEF TypeOK
<1>1. CASE WorkerRecv(r)
  <2>1. TypeBus' /\ TypeSub' /\ TypeList' /\ TypeCaller' /\ TypePub' /\ TypeStop'
    BY <1>1 DEF WorkerRecv, TypeBus, TypeSub, TypeList, TypeCaller, TypePub,
           TypeStop, busVars, subVars, listVars, callVars, pubVars, stopVars
  <2>2. r.sub \in Subs /\ mailbox[r.sub] \in Seq(Delivery)
    BY DEF Ref, TypeMailbox
  <2>3. mailbox[r.sub] # <<>> => Head(mailbox[r.sub]) \in Delivery
    BY <2>2
  <2>4. mailbox[r.sub] # <<>> => Head(mailbox[r.sub]).msg \in Msg
    BY <2>2, <2>3 DEF Delivery
  <2>5. \/ UNCHANGED <<wpc, log>>
       \/ /\ wpc' = [wpc EXCEPT ![r] = "handle"]
          /\ log' = [log EXCEPT ![r] = Append(@, Head(mailbox[r.sub]).msg)]
    BY <1>1 DEF WorkerRecv, Take, WorkerGoto
  <2>6. mailbox[r.sub] # <<>> /\ wg' = wg
    BY <1>1 DEF WorkerRecv, Take
  <2>7. TypeMailbox'
    BY <1>1, <2>2, <2>3, <2>4, <2>5, <2>6 DEF WorkerRecv, TypeMailbox, Take,
           Ref
  <2>8. TypeWork'
    <3>1. log \in [Ref -> Seq(Msg)] /\ wpc \in [Ref -> WorkerPcs] /\ wg' \in Int
      BY <2>6 DEF TypeWork
    <3>2. CASE UNCHANGED <<wpc, log>>
      BY <3>1, <3>2 DEF TypeWork
    <3>3. CASE /\ wpc' = [wpc EXCEPT ![r] = "handle"]
               /\ log' = [log EXCEPT ![r] = Append(@, Head(mailbox[r.sub]).msg)]
      <4>1. Append(log[r], Head(mailbox[r.sub]).msg) \in Seq(Msg)
        BY <2>4, <2>6, <3>1
      <4> QED
        BY <3>1, <3>3, <4>1 DEF TypeWork, WorkerPcs
    <3> QED
      BY <2>5, <3>2, <3>3
  <2> QED
    BY <2>1, <2>2, <2>3, <2>4, <2>5, <2>6, <2>7, <2>8
<1>2. CASE WorkerHandled(r)
  BY <1>2 DEF WorkerHandled, TypeBus, TypeSub, TypeList, TypeMailbox,
         TypeCaller, TypePub, TypeWork, TypeStop, busVars, subVars, listVars,
         callVars, pubVars, stopVars, WorkerPcs, WorkerGoto, Ref
<1>3. CASE WorkerStop(r)
  BY <1>3 DEF WorkerStop, TypeBus, TypeSub, TypeList, TypeMailbox, TypeCaller,
         TypePub, TypeWork, TypeStop, busVars, subVars, listVars, callVars,
         pubVars, stopVars, WorkerPcs, WorkerGoto, Ref
<1>4. CASE DrainRecv(r)
  <2>1. TypeBus' /\ TypeSub' /\ TypeList' /\ TypeCaller' /\ TypePub' /\ TypeStop'
    BY <1>4 DEF DrainRecv, TypeBus, TypeSub, TypeList, TypeCaller, TypePub,
           TypeStop, busVars, subVars, listVars, callVars, pubVars, stopVars
  <2>2. r.sub \in Subs /\ mailbox[r.sub] \in Seq(Delivery)
    BY DEF Ref, TypeMailbox
  <2>3. mailbox[r.sub] # <<>> => Head(mailbox[r.sub]) \in Delivery
    BY <2>2
  <2>4. mailbox[r.sub] # <<>> => Head(mailbox[r.sub]).msg \in Msg
    BY <2>2, <2>3 DEF Delivery
  <2>5. \/ UNCHANGED <<wpc, log>>
       \/ /\ wpc' = [wpc EXCEPT ![r] = "drainHandle"]
          /\ log' = [log EXCEPT ![r] = Append(@, Head(mailbox[r.sub]).msg)]
    BY <1>4 DEF DrainRecv, Take, WorkerGoto
  <2>6. mailbox[r.sub] # <<>> /\ wg' = wg
    BY <1>4 DEF DrainRecv, Take
  <2>7. TypeMailbox'
    BY <1>4, <2>2, <2>3, <2>4, <2>5, <2>6 DEF DrainRecv, TypeMailbox, Take,
           Ref
  <2>8. TypeWork'
    <3>1. log \in [Ref -> Seq(Msg)] /\ wpc \in [Ref -> WorkerPcs] /\ wg' \in Int
      BY <2>6 DEF TypeWork
    <3>2. CASE UNCHANGED <<wpc, log>>
      BY <3>1, <3>2 DEF TypeWork
    <3>3. CASE /\ wpc' = [wpc EXCEPT ![r] = "drainHandle"]
               /\ log' = [log EXCEPT ![r] = Append(@, Head(mailbox[r.sub]).msg)]
      <4>1. Append(log[r], Head(mailbox[r.sub]).msg) \in Seq(Msg)
        BY <2>4, <2>6, <3>1
      <4> QED
        BY <3>1, <3>3, <4>1 DEF TypeWork, WorkerPcs
    <3> QED
      BY <2>5, <3>2, <3>3
  <2> QED
    BY <2>1, <2>2, <2>3, <2>4, <2>5, <2>6, <2>7, <2>8
<1>5. CASE DiscardOne(r)
  <2>1. TypeBus' /\ TypeSub' /\ TypeList' /\ TypeCaller' /\ TypePub' /\ TypeWork' /\ TypeStop'
    BY <1>5 DEF DiscardOne, TypeBus, TypeSub, TypeList, TypeCaller, TypePub,
           TypeWork, TypeStop, busVars, subVars, listVars, callVars, pubVars,
           workVars, stopVars
  <2>2. TypeMailbox'
    BY <1>5 DEF DiscardOne, TypeMailbox, Ref
  <2> QED
    BY <2>1, <2>2
<1>6. CASE MailboxEmpty(r)
  BY <1>6 DEF MailboxEmpty, TypeBus, TypeSub, TypeList, TypeMailbox,
         TypeCaller, TypePub, TypeWork, TypeStop, busVars, subVars, listVars,
         callVars, pubVars, stopVars, WorkerPcs, WorkerGoto, Ref
<1>7. CASE WorkerExit(r)
  BY <1>7 DEF WorkerExit, TypeBus, TypeSub, TypeList, TypeMailbox, TypeCaller,
         TypePub, TypeWork, TypeStop, busVars, subVars, listVars, callVars,
         pubVars, stopVars, WorkerPcs, WorkerGoto, Ref
<1>8. CASE WorkerRecycle(r)
  BY <1>8 DEF WorkerRecycle, TypeBus, TypeSub, TypeList, TypeMailbox,
         TypeCaller, TypePub, TypeWork, TypeStop, busVars, subVars, listVars,
         callVars, pubVars, stopVars, WorkerPcs, WorkerGoto, Ref
<1>9. CASE WorkerDone(r)
  <2>1. TypeBus' /\ TypeSub' /\ TypeList' /\ TypeMailbox' /\ TypeCaller' /\ TypePub' /\ TypeStop'
    BY <1>9 DEF WorkerDone, TypeBus, TypeSub, TypeList, TypeMailbox,
           TypeCaller, TypePub, TypeStop, busVars, subVars, listVars,
           callVars, pubVars, stopVars
  <2>2. TypeWork'
    BY <1>9 DEF WorkerDone, TypeWork, WorkerPcs, WorkerGoto
  <2> QED
    BY <2>1, <2>2
<1> QED
  BY <1>1, <1>2, <1>3, <1>4, <1>5, <1>6, <1>7, <1>8, <1>9 DEF WorkerStep

LEMMA TypeStopper ==
    ASSUME TypeOK, NEW x \in Stoppers,
           StopStart(x) \/ DrainTimeout(x) \/ StopStep(x)
    PROVE  TypeOK'
<1> USE BoundsAssumption, NoRefAssumption DEF TypeOK
<1>1. CASE StopStart(x)
  <2>1. TypeStop'
    BY <1>1 DEF StopStart, TypeStop, StopPcs, StopGoto
  <2>2. TypeBus' /\ TypeSub' /\ TypeList' /\ TypeMailbox'
    BY <1>1 DEF StopStart, TypeBus, TypeSub, TypeList, TypeMailbox, busVars, subVars,
         listVars, StopUnchanged
  <2>3. TypeCaller' /\ TypePub' /\ TypeWork'
    BY <1>1 DEF StopStart, TypeCaller, TypePub, TypeWork, callVars, pubVars, workVars,
         StopUnchanged
  <2> QED
    BY <2>1, <2>2, <2>3
<1>2. CASE DrainTimeout(x)
  <2>1. TypeStop'
    BY <1>2 DEF DrainTimeout, TypeStop, StopPcs, StopGoto
  <2>2. TypeBus' /\ TypeSub' /\ TypeList' /\ TypeMailbox'
    BY <1>2 DEF DrainTimeout, TypeBus, TypeSub, TypeList, TypeMailbox, busVars, subVars,
         listVars, StopUnchanged
  <2>3. TypeCaller' /\ TypePub' /\ TypeWork'
    BY <1>2 DEF DrainTimeout, TypeCaller, TypePub, TypeWork, callVars, pubVars, workVars,
         StopUnchanged
  <2> QED
    BY <2>1, <2>2, <2>3
<1>3. CASE DrainFlag(x)
  <2>1. TypeStop'
    BY <1>3 DEF DrainFlag, RangeBegin, TypeStop, TypeList, StopPcs, StopGoto
  <2>2. TypeBus' /\ TypeSub' /\ TypeList' /\ TypeMailbox'
    BY <1>3 DEF DrainFlag, TypeBus, TypeSub, TypeList, TypeMailbox, busVars, subVars,
         listVars, StopUnchanged
  <2>3. TypeCaller' /\ TypePub' /\ TypeWork'
    BY <1>3 DEF DrainFlag, TypeCaller, TypePub, TypeWork, callVars, pubVars, workVars,
         StopUnchanged
  <2> QED
    BY <2>1, <2>2, <2>3
<1>4. CASE RangeClaim(x)
  <2>1. TypeBus' /\ TypeList' /\ TypeMailbox' /\ TypeCaller' /\ TypePub' /\ TypeWork'
    BY <1>4 DEF RangeClaim, TypeBus, TypeList, TypeMailbox, TypeCaller,
           TypePub, TypeWork, busVars, listVars, callVars, pubVars, workVars
  <2>2. TypeSub'
    BY <1>4 DEF RangeClaim, TypeSub, TypeStop
  <2>3. TypeStop'
    BY <1>4 DEF RangeClaim, TypeStop, BackToRange, StopGoto, StopPcs
  <2> QED
    BY <2>1, <2>2, <2>3
<1>5. CASE RangeClose(x)
  <2>1. TypeBus' /\ TypeList' /\ TypeMailbox' /\ TypeCaller' /\ TypePub' /\ TypeWork'
    BY <1>5 DEF RangeClose, TypeBus, TypeList, TypeMailbox, TypeCaller,
           TypePub, TypeWork, busVars, listVars, callVars, pubVars, workVars
  <2>2. TypeSub'
    BY <1>5 DEF RangeClose, TypeSub, CloseChannel, CurrentRef, TypeStop, Ref
  <2>3. TypeStop'
    BY <1>5 DEF RangeClose, TypeStop, BackToRange, StopGoto, StopPcs
  <2> QED
    BY <2>1, <2>2, <2>3
<1>6. CASE RangeEnd(x)
  <2>1. TypeStop'
    BY <1>6 DEF RangeEnd, TypeStop, StopPcs, StopGoto
  <2>2. TypeBus' /\ TypeSub' /\ TypeList' /\ TypeMailbox'
    BY <1>6 DEF RangeEnd, TypeBus, TypeSub, TypeList, TypeMailbox, busVars, subVars,
         listVars, StopUnchanged
  <2>3. TypeCaller' /\ TypePub' /\ TypeWork'
    BY <1>6 DEF RangeEnd, TypeCaller, TypePub, TypeWork, callVars, pubVars, workVars,
         StopUnchanged
  <2> QED
    BY <2>1, <2>2, <2>3
<1>7. CASE DrainDone(x)
  <2>1. TypeStop'
    BY <1>7 DEF DrainDone, TypeStop, StopPcs, StopGoto
  <2>2. TypeBus' /\ TypeSub' /\ TypeList' /\ TypeMailbox'
    BY <1>7 DEF DrainDone, TypeBus, TypeSub, TypeList, TypeMailbox, busVars, subVars,
         listVars, StopUnchanged
  <2>3. TypeCaller' /\ TypePub' /\ TypeWork'
    BY <1>7 DEF DrainDone, TypeCaller, TypePub, TypeWork, callVars, pubVars, workVars,
         StopUnchanged
  <2> QED
    BY <2>1, <2>2, <2>3
<1>8. CASE CloseSwap(x)
  <2>1. TypeStop'
    BY <1>8 DEF CloseSwap, TypeStop, StopPcs, StopGoto
  <2>2. TypeBus' /\ TypeSub' /\ TypeList' /\ TypeMailbox'
    BY <1>8 DEF CloseSwap, TypeBus, TypeSub, TypeList, TypeMailbox, busVars, subVars,
         listVars, StopUnchanged
  <2>3. TypeCaller' /\ TypePub' /\ TypeWork'
    BY <1>8 DEF CloseSwap, TypeCaller, TypePub, TypeWork, callVars, pubVars, workVars,
         StopUnchanged
  <2> QED
    BY <2>1, <2>2, <2>3
<1>9. CASE CloseCh(x)
  <2>1. TypeStop'
    BY <1>9 DEF CloseCh, RangeBegin, TypeStop, TypeList, StopPcs, StopGoto
  <2>2. TypeBus' /\ TypeSub' /\ TypeList' /\ TypeMailbox'
    BY <1>9 DEF CloseCh, TypeBus, TypeSub, TypeList, TypeMailbox, busVars, subVars,
         listVars, StopUnchanged
  <2>3. TypeCaller' /\ TypePub' /\ TypeWork'
    BY <1>9 DEF CloseCh, TypeCaller, TypePub, TypeWork, callVars, pubVars, workVars,
         StopUnchanged
  <2> QED
    BY <2>1, <2>2, <2>3
<1>10. CASE CloseWait(x)
  <2>1. TypeStop'
    BY <1>10 DEF CloseWait, TypeStop, StopPcs, StopGoto
  <2>2. TypeBus' /\ TypeSub' /\ TypeList' /\ TypeMailbox'
    BY <1>10 DEF CloseWait, TypeBus, TypeSub, TypeList, TypeMailbox, busVars, subVars,
         listVars, StopUnchanged
  <2>3. TypeCaller' /\ TypePub' /\ TypeWork'
    BY <1>10 DEF CloseWait, TypeCaller, TypePub, TypeWork, callVars, pubVars, workVars,
         StopUnchanged
  <2> QED
    BY <2>1, <2>2, <2>3
<1>11. ASSUME NEW s \in Subs, RangePick(x, s) PROVE TypeOK'
  <2>1. TypeStop'
    BY <1>11 DEF RangePick, TypeStop, StopPcs, StopGoto
  <2>2. TypeBus' /\ TypeSub' /\ TypeList' /\ TypeMailbox'
    BY <1>11 DEF RangePick, TypeBus, TypeSub, TypeList, TypeMailbox, busVars, subVars,
         listVars, StopUnchanged
  <2>3. TypeCaller' /\ TypePub' /\ TypeWork'
    BY <1>11 DEF RangePick, TypeCaller, TypePub, TypeWork, callVars, pubVars, workVars,
         StopUnchanged
  <2> QED
    BY <2>1, <2>2, <2>3
<1> QED
  BY <1>1, <1>2, <1>3, <1>4, <1>5, <1>6, <1>7, <1>8, <1>9, <1>10,
     <1>11 DEF StopStep

\* Every reachable state is well typed, mailboxes stay within their capacity, and
\* every goroutine inside an operation holds the reference it works on.
THEOREM TypeCorrect == Spec => []TypeOK
<1>1. Init => TypeOK
  BY TypeInit
<1>2. TypeOK /\ [Next]_vars => TypeOK'
  <2> SUFFICES ASSUME TypeOK, [Next]_vars PROVE TypeOK'
    OBVIOUS
  <2>1. CASE PublishNext
    BY <2>1, TypePublish DEF PublishNext
  <2>2. CASE CallerNext
    BY <2>2, TypeCallers DEF CallerNext
  <2>3. CASE WorkerNext
    BY <2>3, TypeWorker DEF WorkerNext
  <2>4. CASE StopNext
    BY <2>4, TypeStopper DEF StopNext
  <2>5. CASE UNCHANGED vars
    BY <2>5 DEF vars, busVars, subVars, listVars, callVars, pubVars, workVars,
                stopVars, TypeOK, TypeBus, TypeSub, TypeList, TypeMailbox,
                TypeCaller, TypePub, TypeWork, TypeStop
  <2> QED
    BY <2>1, <2>2, <2>3, <2>4, <2>5 DEF Next
<1> QED
  BY <1>1, <1>2, PTL DEF Spec

-------------------------------------------------------------------------------
(* Ownership of the pooled structs *)

\* Steps that move no struct between the pool, a caller and a worker.
LEMMA OwnerUnchanged ==
    ASSUME SoleOwner, UNCHANGED <<pool, gen>>,
           \A c \in Callers : Building(c)' => Building(c),
           \A c \in Callers : Building(c)' => callerRef'[c] = callerRef[c],
           \A r \in Ref : Serving(r)' => Serving(r)
    PROVE  SoleOwner'
BY DEF SoleOwner

LEMMA OwnerCallers ==
    ASSUME TypeOK, SoleOwner, NEW c \in Callers,
           SubscribeStart(c) \/ (\E r \in Ref : UnsubStart(c, r)) \/ CallerStep(c)
    PROVE  SoleOwner'
<1>1. ASSUME NEW s \in Subs, SubscribeGet(c, s) PROVE SoleOwner'
  <2>1. /\ callerPc' = [callerPc EXCEPT ![c] = "register"]
        /\ callerRef' = [callerRef EXCEPT ![c] = [sub |-> s, gen |-> gen[s] + 1]]
        /\ gen' = [gen EXCEPT ![s] = gen[s] + 1]
        /\ pool' = pool \ {s} /\ wpc' = wpc
        /\ s \in pool \/ gen[s] = 0
    BY <1>1 DEF SubscribeGet, Goto, workVars
  <2>2. \A d \in Callers : Building(d) => callerRef[d] \in Ref
    BY DEF TypeOK, TypeCaller, Building
  <2>3. \A d \in Callers : Building(d) => callerRef[d].sub # s
    BY <2>1, <2>2 DEF SoleOwner, Ref
  <2>4. \A r \in Ref : Serving(r) => r.sub # s
    BY <2>1 DEF SoleOwner, Ref
  <2>5. \A d \in Callers \ {c} :
          (Building(d)' <=> Building(d)) /\ callerRef'[d] = callerRef[d]
    BY <2>1 DEF TypeOK, TypeCaller, Building
  <2>6. callerRef'[c].sub = s /\ callerRef'[c].gen = gen'[s]
    BY <2>1 DEF TypeOK, TypeCaller, TypeSub
  <2>7. \A t \in Subs : t # s => gen'[t] = gen[t]
    BY <2>1 DEF TypeOK, TypeSub
  <2>8. \A r \in Ref : (Serving(r)' <=> Serving(r)) /\ r.sub \in Subs
    BY <2>1 DEF Serving, Ref
  <2>9. \A d \in Callers : Building(d) => callerRef[d].sub \in Subs
    BY <2>2 DEF Ref
  <2> QED
    BY <2>1, <2>3, <2>4, <2>5, <2>6, <2>7, <2>8, <2>9 DEF SoleOwner
<1>2. CASE SubscribeSpawn(c)
  <2>1. /\ Building(c) /\ callerRef[c] \in Ref
        /\ ~Building(c)'
        /\ \A d \in Callers : Building(d)' => Building(d) /\ d # c
        /\ \A d \in Callers : Building(d)' => callerRef'[d] = callerRef[d]
        /\ \A r \in Ref : Serving(r)' => Serving(r) \/ r = callerRef[c]
        /\ UNCHANGED <<pool, gen>>
    BY <1>2 DEF SubscribeSpawn, Return, Goto, Building, Serving, TypeOK,
           TypeCaller, TypeWork, subVars
  <2> QED
    BY <2>1 DEF SoleOwner
<1>3. CASE UndoRecycle(c)
  <2>1. /\ Building(c)
        /\ \A d \in Callers : Building(d)' => Building(d) /\ d # c
        /\ \A d \in Callers : Building(d)' => callerRef'[d] = callerRef[d]
        /\ \A r \in Ref : Serving(r)' => Serving(r)
        /\ pool' = pool \cup {callerRef[c].sub} /\ gen' = gen
    BY <1>3 DEF UndoRecycle, Return, Goto, Building, Serving, TypeOK,
           TypeCaller, workVars
  <2> QED
    BY <2>1 DEF SoleOwner
<1>4. ASSUME NEW r \in Ref, UnsubStart(c, r) PROVE SoleOwner'
  BY <1>4, OwnerUnchanged DEF UnsubStart, Goto, Building, Serving, TypeOK,
     TypeCaller, subVars, workVars
<1>5. CASE SubscribeStart(c) \/ SubscribeRegister(c) \/ SubscribeTrack(c)
             \/ SubscribeRecheck(c) \/ UndoTrack(c) \/ UndoRegister(c)
  BY <1>5, OwnerUnchanged DEF SubscribeStart, SubscribeRegister, SubscribeTrack,
     SubscribeRecheck, UndoTrack, UndoRegister, Goto, Building, Serving, TypeOK,
     TypeCaller, subVars, workVars
<1>6. CASE UnsubGenCheck(c) \/ UnsubClaim(c) \/ UnsubDereg(c) \/ UnsubUntrack(c)
             \/ UnsubStopClaim(c) \/ UnsubStopClose(c)
  BY <1>6, OwnerUnchanged DEF UnsubGenCheck, UnsubClaim, UnsubDereg,
     UnsubUntrack, UnsubStopClaim, UnsubStopClose, UnsubReturn, Return, Goto,
     Building, Serving, TypeOK, TypeCaller, subVars, workVars
<1> QED
  BY <1>1, <1>2, <1>3, <1>4, <1>5, <1>6 DEF CallerStep

LEMMA OwnerWorker ==
    ASSUME TypeOK, SoleOwner, NEW r \in Ref, WorkerStep(r)
    PROVE  SoleOwner'
<1>1. CASE WorkerRecycle(r)
  <2>1. /\ Serving(r) /\ ~Serving(r)' /\ gen' = gen
        /\ pool' = pool \cup {r.sub} /\ UNCHANGED <<callerPc, callerRef>>
        /\ \A q \in Ref : Serving(q)' => Serving(q) /\ q # r
    BY <1>1 DEF WorkerRecycle, WorkerGoto, Serving, TypeOK, TypeWork, callVars
  <2>2. \A q \in Ref : Serving(q) /\ q.sub = r.sub => q = r
    BY <2>1 DEF SoleOwner, Ref
  <2> QED
    BY <2>1, <2>2 DEF SoleOwner, Building
<1>2. CASE WorkerRecv(r) \/ DrainRecv(r)
  BY <1>2, OwnerUnchanged DEF WorkerRecv, DrainRecv, Take, WorkerGoto, Building,
     Serving, TypeOK, TypeWork, callVars, subVars
<1>3. CASE WorkerHandled(r) \/ WorkerStop(r) \/ DiscardOne(r) \/ MailboxEmpty(r)
             \/ WorkerExit(r) \/ WorkerDone(r)
  BY <1>3, OwnerUnchanged DEF WorkerHandled, WorkerStop, DiscardOne,
     MailboxEmpty, WorkerExit, WorkerDone, WorkerGoto, Building, Serving,
     TypeOK, TypeWork, callVars, subVars, workVars
<1> QED
  BY <1>1, <1>2, <1>3 DEF WorkerStep

LEMMA OwnerOthers ==
    ASSUME TypeOK, SoleOwner, PublishNext \/ StopNext \/ UNCHANGED vars
    PROVE  SoleOwner'
<1>1. UNCHANGED <<pool, gen, callVars, workVars>>
  <2>1. CASE PublishNext
    BY <2>1 DEF PublishNext, PublishStep, PublishStart, PublishLoad, EnqueueCheck,
       EnqueueTry, EnqueueSend, EnqueueSkip, EnqueueCancelled, EnqueueBusClosed,
       PublishEnd, subVars
  <2>2. CASE StopNext
    BY <2>2 DEF StopNext, StopStep, StopStart, DrainTimeout, DrainFlag,
       RangePick, RangeClaim, RangeClose, RangeEnd, DrainDone, CloseSwap,
       CloseCh, CloseWait, StopUnchanged, subVars
  <2>3. CASE UNCHANGED vars
    BY <2>3 DEF vars, subVars
  <2> QED
    BY <2>1, <2>2, <2>3
<1> QED
  BY <1>1, OwnerUnchanged DEF Building, Serving, callVars, workVars

\* A pooled struct has one user at a time, at the generation stamped on it, so
\* the handler a worker calls is the one its deliveries were addressed to.
THEOREM OwnershipCorrect == Spec => []SoleOwner
<1>1. Init => SoleOwner
  BY DEF Init, SoleOwner, Building, Serving
<1>2. TypeOK /\ SoleOwner /\ [Next]_vars => SoleOwner'
  BY OwnerCallers, OwnerWorker, OwnerOthers DEF Next, CallerNext, WorkerNext
<1> QED
  BY <1>1, <1>2, TypeCorrect, PTL DEF Spec

-------------------------------------------------------------------------------
(* Routing and order *)

\* The fan-out of m has been taken from a snapshot, so targets[m] is final.
FannedOut(m) == /\ m.n <= pubN[m.from]
                /\ pubPc[m.from] = "load" => m.n # pubN[m.from]

\* Publisher p has yet to deal with r for its current message.
Pending(p, r) == \/ pubPc[p] \in {"next", "send", "blocked"} /\ r \in pubTodo[p]
                 \/ pubPc[p] \in {"send", "blocked"} /\ r = pubRef[p]

\* Where a message is headed, waits or has been handled, its snapshot listed
\* the activation.
Routing ==
    /\ \A p \in Publishers, r \in Ref :
          Pending(p, r) => r \in targets[CurrentMsg(p)]
    /\ \A s \in Subs : \A i \in DOMAIN mailbox[s] :
          /\ FannedOut(mailbox[s][i].msg)
          /\ [sub |-> s, gen |-> mailbox[s][i].gen] \in targets[mailbox[s][i].msg]
    /\ \A r \in Ref : \A i \in DOMAIN log[r] :
          FannedOut(log[r][i]) /\ r \in targets[log[r][i]]

Earlier(m, k) == m.from = k.from => m.n < k.n

\* For one activation, the messages of one publisher come in the order handled,
\* queued, pending.
Order ==
    /\ \A r \in Ref : \A i, j \in DOMAIN log[r] :
          i < j => Earlier(log[r][i], log[r][j])
    /\ \A r \in Ref : \A i \in DOMAIN log[r], j \in DOMAIN mailbox[r.sub] :
          mailbox[r.sub][j].gen = r.gen =>
             Earlier(log[r][i], mailbox[r.sub][j].msg)
    /\ \A s \in Subs : \A i, j \in DOMAIN mailbox[s] :
          i < j /\ mailbox[s][i].gen = mailbox[s][j].gen =>
             Earlier(mailbox[s][i].msg, mailbox[s][j].msg)
    /\ \A p \in Publishers, r \in Ref : Pending(p, r) =>
          /\ \A i \in DOMAIN log[r] : Earlier(log[r][i], CurrentMsg(p))
          /\ \A i \in DOMAIN mailbox[r.sub] :
                mailbox[r.sub][i].gen = r.gen =>
                   Earlier(mailbox[r.sub][i].msg, CurrentMsg(p))
    /\ \A p \in Publishers :
          pubPc[p] \in {"send", "blocked"} => pubRef[p] \notin pubTodo[p]

\* A step that touches no publisher, mailbox or log keeps both.
LEMMA DeliveryUnchanged ==
    ASSUME Routing, Order, UNCHANGED <<pubVars, mailbox, log>>
    PROVE  Routing' /\ Order'
<1> USE DEF pubVars
<1>1. \A p, r : Pending(p, r)' <=> Pending(p, r)
  BY DEF Pending
<1>2. \A p : CurrentMsg(p)' = CurrentMsg(p)
  BY DEF CurrentMsg
<1>3. \A m : FannedOut(m)' <=> FannedOut(m)
  BY DEF FannedOut
<1>4. Routing'
  BY <1>1, <1>2, <1>3 DEF Routing
<1>5. Order'
  BY <1>1, <1>2 DEF Order, Earlier
<1> QED
  BY <1>4, <1>5

\* Facts about the message sequences that every step lemma uses.
LEMMA SequenceFacts ==
    ASSUME TypeOK
    PROVE  /\ \A s \in Subs : /\ mailbox[s] \in Seq(Delivery)
                             /\ DOMAIN mailbox[s] = 1..Len(mailbox[s])
                             /\ Len(mailbox[s]) \in Nat
                             /\ \A i \in DOMAIN mailbox[s] :
                                   /\ mailbox[s][i].msg \in Msg
                                   /\ mailbox[s][i].gen \in 1..MaxGen
           /\ \A r \in Ref : /\ log[r] \in Seq(Msg)
                            /\ DOMAIN log[r] = 1..Len(log[r])
                            /\ Len(log[r]) \in Nat
                            /\ \A i \in DOMAIN log[r] : log[r][i] \in Msg
<1>1. \A s \in Subs : mailbox[s] \in Seq(Delivery)
  BY DEF TypeOK, TypeMailbox
<1>2. \A r \in Ref : log[r] \in Seq(Msg)
  BY DEF TypeOK, TypeWork
<1>3. \A s \in Subs : \A i \in DOMAIN mailbox[s] : mailbox[s][i] \in Delivery
  BY <1>1
<1>4. \A s \in Subs : \A i \in DOMAIN mailbox[s] :
        mailbox[s][i].msg \in Msg /\ mailbox[s][i].gen \in 1..MaxGen
  BY <1>3 DEF Delivery
<1> QED
  BY <1>1, <1>2, <1>4

\* A publisher that gives up a target, or its whole publish.
LEMMA DeliveryFewerPending ==
    ASSUME TypeOK, Routing, Order, UNCHANGED <<pubN, targets, mailbox, log>>,
           \A p \in Publishers, r \in Ref : Pending(p, r)' => Pending(p, r),
           \A m \in Msg : FannedOut(m) => FannedOut(m)',
           \A p \in Publishers :
              pubPc'[p] \in {"send", "blocked"} => pubRef'[p] \notin pubTodo'[p]
    PROVE  Routing' /\ Order'
<1>1. \A p \in Publishers : CurrentMsg(p)' = CurrentMsg(p)
  BY DEF CurrentMsg
<1>2. Routing'
  BY <1>1, SequenceFacts DEF Routing
<1>3. Order'
  BY <1>1 DEF Order
<1> QED
  BY <1>2, <1>3

LEMMA DeliveryPublish ==
    ASSUME TypeOK, Routing, Order, NEW p \in Publishers,
           PublishStart(p) \/ EnqueueCancelled(p) \/ PublishStep(p)
    PROVE  Routing' /\ Order'
<1>1. CASE PublishStart(p)
  <2>1. /\ pubPc[p] = "idle" /\ pubPc' = [pubPc EXCEPT ![p] = "load"]
        /\ pubN' = [pubN EXCEPT ![p] = @ + 1]
        /\ UNCHANGED <<pubTodo, pubRef, targets, mailbox, log>>
    BY <1>1 DEF PublishStart, PubGoto, workVars
  <2>2. \A m \in Msg : FannedOut(m) => FannedOut(m)'
    BY <2>1 DEF FannedOut, TypeOK, TypePub, Msg
  <2>3. \A q \in Publishers, r \in Ref :
          Pending(q, r)' => Pending(q, r) /\ q # p
    BY <2>1 DEF Pending, TypeOK, TypePub
  <2>4. \A q \in Publishers : q # p => CurrentMsg(q)' = CurrentMsg(q)
    BY <2>1 DEF CurrentMsg, TypeOK, TypePub
  <2>5. Routing'
    BY <2>1, <2>2, <2>3, <2>4, SequenceFacts DEF Routing
  <2>6. Order'
    BY <2>1, <2>3, <2>4 DEF Order, TypeOK, TypePub
  <2> QED
    BY <2>5, <2>6
<1>2. CASE PublishLoad(p)
  <2>1. /\ pubPc[p] = "load" /\ pubPc' = [pubPc EXCEPT ![p] = "next"]
        /\ pubTodo' = [pubTodo EXCEPT ![p] = reg]
        /\ targets' = [targets EXCEPT ![CurrentMsg(p)] = reg]
        /\ UNCHANGED <<pubN, pubRef, mailbox, log>>
    BY <1>2 DEF PublishLoad, PubGoto, workVars
  <2>2. CurrentMsg(p) \in Msg /\ CurrentMsg(p).n = pubN[p] /\ CurrentMsg(p).from = p
    BY <2>1 DEF CurrentMsg, Msg, TypeOK, TypePub
  <2>3. \A m \in Msg : FannedOut(m) => FannedOut(m)' /\ m # CurrentMsg(p)
    BY <2>1, <2>2 DEF FannedOut, TypeOK, TypePub, Msg
  <2>4. \A m \in Msg : FannedOut(m) => targets'[m] = targets[m]
    BY <2>1, <2>3 DEF TypeOK, TypePub
  <2>5. \A q \in Publishers : CurrentMsg(q)' = CurrentMsg(q)
    BY <2>1 DEF CurrentMsg
  <2>6. \A q \in Publishers, r \in Ref :
          q # p /\ Pending(q, r)' => /\ Pending(q, r)
                                   /\ targets'[CurrentMsg(q)] = targets[CurrentMsg(q)]
    <3>1. \A q \in Publishers, r \in Ref : q # p /\ Pending(q, r)' => Pending(q, r)
      BY <2>1 DEF Pending, TypeOK, TypePub
    <3>2. \A q \in Publishers : q # p => CurrentMsg(q) # CurrentMsg(p)
      BY DEF CurrentMsg
    <3> QED
      BY <2>1, <3>1, <3>2 DEF TypeOK, TypePub, CurrentMsg, Msg, Pending, PubPcs
  <2>7. \A r \in Ref : Pending(p, r)' => r \in targets'[CurrentMsg(p)]
    BY <2>1, <2>2 DEF Pending, TypeOK, TypePub
  <2>8. \A m \in Msg : FannedOut(m) => Earlier(m, CurrentMsg(p))
    BY <2>1, <2>2 DEF FannedOut, Earlier, Msg, TypeOK, TypePub
  <2>9. Routing'
    BY <2>1, <2>3, <2>4, <2>5, <2>6, <2>7, SequenceFacts DEF Routing
  <2>10. Order'
    <3>1. \A q \in Publishers, r \in Ref : Pending(q, r)' =>
            /\ \A i \in DOMAIN log[r] : Earlier(log[r][i], CurrentMsg(q))
            /\ \A i \in DOMAIN mailbox[r.sub] :
                  mailbox[r.sub][i].gen = r.gen =>
                     Earlier(mailbox[r.sub][i].msg, CurrentMsg(q))
      BY <2>6, <2>8, SequenceFacts DEF Routing, Order, Ref
    <3>2. \A q \in Publishers :
            pubPc'[q] \in {"send", "blocked"} => pubRef'[q] \notin pubTodo'[q]
      BY <2>1 DEF Order, TypeOK, TypePub
    <3> QED
      BY <2>1, <2>5, <3>1, <3>2 DEF Order
  <2> QED
    BY <2>9, <2>10
<1>3. ASSUME NEW r \in Ref, EnqueueCheck(p, r) PROVE Routing' /\ Order'
  <2>1. /\ pubPc[p] = "next" /\ r \in pubTodo[p]
        /\ pubTodo' = [pubTodo EXCEPT ![p] = @ \ {r}]
        /\ \/ UNCHANGED <<pubPc, pubRef>>
           \/ /\ pubPc' = [pubPc EXCEPT ![p] = "send"]
              /\ pubRef' = [pubRef EXCEPT ![p] = r]
        /\ UNCHANGED <<pubN, targets, mailbox, log>>
    BY <1>3 DEF EnqueueCheck, PubGoto, workVars
  <2>2. \A q \in Publishers, t \in Ref : Pending(q, t)' => Pending(q, t)
    BY <2>1 DEF Pending, TypeOK, TypePub
  <2>3. \A m \in Msg : FannedOut(m) => FannedOut(m)'
    BY <2>1 DEF FannedOut, TypeOK, TypePub, Msg
  <2>4. \A q \in Publishers :
          pubPc'[q] \in {"send", "blocked"} => pubRef'[q] \notin pubTodo'[q]
    BY <2>1 DEF Order, TypeOK, TypePub
  <2> QED
    BY <2>1, <2>2, <2>3, <2>4, DeliveryFewerPending
<1>4. CASE \/ EnqueueSkip(p) \/ EnqueueCancelled(p) \/ EnqueueBusClosed(p)
           \/ PublishEnd(p) \/ (EnqueueTry(p) /\ UNCHANGED mailbox)
  <2>1. /\ pubPc[p] \in {"next", "send", "blocked"}
        /\ \/ pubPc' = [pubPc EXCEPT ![p] = "next"] /\ UNCHANGED <<pubTodo, pubRef>>
           \/ PubReturn(p)
           \/ /\ pubPc[p] = "send" /\ pubPc' = [pubPc EXCEPT ![p] = "blocked"]
              /\ UNCHANGED <<pubTodo, pubRef>>
        /\ UNCHANGED <<pubN, targets, mailbox, log>>
    BY <1>4 DEF EnqueueSkip, EnqueueCancelled, EnqueueBusClosed, PublishEnd,
       EnqueueTry, PubGoto, workVars
  <2>2. \A q \in Publishers, t \in Ref : Pending(q, t)' => Pending(q, t)
    BY <2>1 DEF Pending, PubReturn, PubGoto, TypeOK, TypePub
  <2>3. \A m \in Msg : FannedOut(m) => FannedOut(m)'
    BY <2>1 DEF FannedOut, PubReturn, PubGoto, TypeOK, TypePub, Msg
  <2>4. \A q \in Publishers :
          pubPc'[q] \in {"send", "blocked"} => pubRef'[q] \notin pubTodo'[q]
    BY <2>1 DEF Order, PubReturn, PubGoto, TypeOK, TypePub
  <2> QED
    BY <2>1, <2>2, <2>3, <2>4, DeliveryFewerPending
<1>5. CASE EnqueueSend(p) \/ (EnqueueTry(p) /\ HasSpace(pubRef[p].sub))
  <2> DEFINE r == pubRef[p]
             s == pubRef[p].sub
             d == [msg |-> CurrentMsg(p), gen |-> pubRef[p].gen]
  <2>1. /\ pubPc[p] \in {"send", "blocked"}
        /\ pubPc' = [pubPc EXCEPT ![p] = "next"]
        /\ mailbox' = [mailbox EXCEPT ![s] = Append(@, d)]
        /\ UNCHANGED <<pubN, pubTodo, pubRef, targets, log>>
    BY <1>5 DEF EnqueueSend, EnqueueTry, Send, PubGoto, workVars
  <2>2. r \in Ref /\ s \in Subs /\ Pending(p, r) /\ r = [sub |-> s, gen |-> d.gen]
    BY <2>1 DEF Pending, TypeOK, TypePub, Ref
  <2>3. \A q \in Publishers, t \in Ref : Pending(q, t)' => Pending(q, t)
    BY <2>1 DEF Pending, TypeOK, TypePub
  <2>4. \A m \in Msg : FannedOut(m)' <=> FannedOut(m)
    BY <2>1 DEF FannedOut, TypeOK, TypePub, Msg
  <2>5. \A q \in Publishers : CurrentMsg(q)' = CurrentMsg(q)
    BY <2>1 DEF CurrentMsg
  <2>6. CurrentMsg(p) \in Msg /\ FannedOut(CurrentMsg(p))
    <3>1. pubN[p] \in 1..MaxMsgs /\ pubPc[p] # "load"
      BY <2>1, BoundsAssumption DEF TypeOK, TypePub
    <3>2. CurrentMsg(p).from = p /\ CurrentMsg(p).n = pubN[p]
      BY DEF CurrentMsg
    <3>3. CurrentMsg(p) \in Msg
      BY <3>1 DEF CurrentMsg, Msg
    <3> QED
      BY <3>1, <3>2, <3>3 DEF FannedOut
  <2>7. /\ \A t \in Subs : t # s => mailbox'[t] = mailbox[t]
        /\ DOMAIN mailbox'[s] = 1..(Len(mailbox[s]) + 1)
        /\ \A i \in DOMAIN mailbox'[s] :
              \/ i \in DOMAIN mailbox[s] /\ mailbox'[s][i] = mailbox[s][i]
              \/ i = Len(mailbox[s]) + 1 /\ mailbox'[s][i] = d
    <3>1. mailbox[s] \in Seq(Delivery) /\ mailbox'[s] = Append(mailbox[s], d)
      BY <2>1, <2>2, SequenceFacts DEF TypeOK, TypeMailbox
    <3>2. \A t \in Subs : t # s => mailbox'[t] = mailbox[t]
      BY <2>1, <2>2 DEF TypeOK, TypeMailbox
    <3> QED
      BY <3>1, <3>2
  <2>8. \A t \in Ref : t = r => ~Pending(p, t)'
    BY <2>1, <2>2 DEF Pending, Order, TypeOK, TypePub
  <2>9. Routing'
    <3>1. \A q \in Publishers, t \in Ref :
            Pending(q, t)' => t \in targets'[CurrentMsg(q)']
      BY <2>1, <2>3, <2>5 DEF Routing
    <3>2. d.msg = CurrentMsg(p) /\ r \in targets[CurrentMsg(p)]
      BY <2>2 DEF Routing
    <3>3. \A t \in Subs : \A i \in DOMAIN mailbox'[t] :
            /\ FannedOut(mailbox'[t][i].msg)
            /\ mailbox'[t][i].msg \in Msg
            /\ [sub |-> t, gen |-> mailbox'[t][i].gen]
                  \in targets[mailbox'[t][i].msg]
      <4>1. ASSUME NEW t \in Subs, t # s,
                   NEW i \in DOMAIN mailbox'[t]
            PROVE  /\ FannedOut(mailbox'[t][i].msg)
                   /\ mailbox'[t][i].msg \in Msg
                   /\ [sub |-> t, gen |-> mailbox'[t][i].gen]
                         \in targets[mailbox'[t][i].msg]
        BY <2>7, <4>1, SequenceFacts DEF Routing
      <4>2. ASSUME NEW i \in DOMAIN mailbox'[s]
            PROVE  /\ FannedOut(mailbox'[s][i].msg)
                   /\ mailbox'[s][i].msg \in Msg
                   /\ [sub |-> s, gen |-> mailbox'[s][i].gen]
                         \in targets[mailbox'[s][i].msg]
        <5>1. CASE i \in DOMAIN mailbox[s] /\ mailbox'[s][i] = mailbox[s][i]
          BY <2>2, <5>1, SequenceFacts DEF Routing
        <5>2. CASE mailbox'[s][i] = d
          BY <2>2, <2>6, <3>2, <5>2
        <5> QED
          BY <2>7, <4>2, <5>1, <5>2
      <4> QED
        BY <4>1, <4>2
    <3> QED
      BY <2>1, <2>4, <3>1, <3>3, SequenceFacts DEF Routing
  <2>10. Order'
    <3>1. \A t \in Ref : \A i \in DOMAIN log'[t], j \in DOMAIN mailbox'[t.sub] :
            mailbox'[t.sub][j].gen = t.gen =>
               Earlier(log'[t][i], mailbox'[t.sub][j].msg)
      <4> SUFFICES ASSUME NEW t \in Ref, NEW i \in DOMAIN log[t],
                          NEW j \in DOMAIN mailbox'[t.sub],
                          mailbox'[t.sub][j].gen = t.gen
                   PROVE  Earlier(log[t][i], mailbox'[t.sub][j].msg)
        BY <2>1
      <4>0. t.sub \in Subs
        BY DEF Ref
      <4>1. CASE j \in DOMAIN mailbox[t.sub] /\ mailbox'[t.sub][j] = mailbox[t.sub][j]
        BY <4>1 DEF Order
      <4>2. CASE t.sub = s /\ mailbox'[s][j] = d
        <5>1. t = r /\ mailbox'[s][j].msg = CurrentMsg(p)
          BY <2>2, <4>2 DEF Ref
        <5> QED
          BY <2>2, <4>2, <5>1 DEF Order
      <4> QED
        BY <2>7, <4>0, <4>1, <4>2
    <3>2. \A t \in Subs : \A i, j \in DOMAIN mailbox'[t] :
            i < j /\ mailbox'[t][i].gen = mailbox'[t][j].gen =>
               Earlier(mailbox'[t][i].msg, mailbox'[t][j].msg)
      <4> SUFFICES ASSUME NEW t \in Subs, NEW i \in DOMAIN mailbox'[t],
                          NEW j \in DOMAIN mailbox'[t], i < j,
                          mailbox'[t][i].gen = mailbox'[t][j].gen
                   PROVE  Earlier(mailbox'[t][i].msg, mailbox'[t][j].msg)
        OBVIOUS
      <4>1. CASE t # s \/ (t = s /\ j \in DOMAIN mailbox[s])
        <5>1. /\ i \in DOMAIN mailbox[t] /\ mailbox'[t][i] = mailbox[t][i]
              /\ j \in DOMAIN mailbox[t] /\ mailbox'[t][j] = mailbox[t][j]
          <6>1. CASE t # s
            BY <2>7, <6>1
          <6>2. CASE t = s /\ j \in DOMAIN mailbox[s]
            <7>1. /\ Len(mailbox[s]) \in Nat
                  /\ DOMAIN mailbox[s] = 1..Len(mailbox[s])
              BY <2>2, SequenceFacts
            <7>2. i \in DOMAIN mailbox[s] /\ j # Len(mailbox[s]) + 1
                    /\ i # Len(mailbox[s]) + 1
              BY <2>7, <6>2, <7>1
            <7> QED
              BY <2>7, <6>2, <7>2
          <6> QED
            BY <4>1, <6>1, <6>2
        <5> QED
          BY <5>1 DEF Order
      <4>2. CASE t = s /\ j \notin DOMAIN mailbox[s]
        <5>1. /\ i \in DOMAIN mailbox[s] /\ mailbox'[s][i] = mailbox[s][i]
              /\ mailbox'[s][j] = d
          BY <2>2, <2>7, <4>2, SequenceFacts
        <5>2. mailbox[s][i].gen = r.gen /\ d.msg = CurrentMsg(p)
          BY <4>2, <5>1
        <5> QED
          BY <2>2, <4>2, <5>1, <5>2 DEF Order
      <4> QED
        BY <4>1, <4>2
    <3>3. \A q \in Publishers, t \in Ref : Pending(q, t)' =>
            \A i \in DOMAIN mailbox'[t.sub] :
               mailbox'[t.sub][i].gen = t.gen =>
                  Earlier(mailbox'[t.sub][i].msg, CurrentMsg(q))
      <4> SUFFICES ASSUME NEW q \in Publishers, NEW t \in Ref, Pending(q, t)',
                          NEW i \in DOMAIN mailbox'[t.sub],
                          mailbox'[t.sub][i].gen = t.gen
                   PROVE  Earlier(mailbox'[t.sub][i].msg, CurrentMsg(q))
        OBVIOUS
      <4>1. CASE t.sub = s /\ i = Len(mailbox[s]) + 1
        <5>0. mailbox'[s][i] = d
          <6>1. Len(mailbox[s]) \in Nat /\ DOMAIN mailbox[s] = 1..Len(mailbox[s])
            BY <2>2, SequenceFacts
          <6> QED
            BY <2>7, <4>1, <6>1
        <5>1. t = r
          <6>1. t.gen = r.gen /\ t.sub = r.sub
            BY <4>1, <5>0
          <6> QED
            BY <2>2, <6>1 DEF Ref
        <5>2. q # p
          BY <2>8, <5>1
        <5>3. mailbox'[s][i].msg = CurrentMsg(p)
          BY <5>0
        <5> QED
          BY <4>1, <5>2, <5>3 DEF Earlier, CurrentMsg
      <4>2. CASE ~(t.sub = s /\ i = Len(mailbox[s]) + 1)
        BY <2>2, <2>3, <2>7, <4>2 DEF Order, Ref
      <4> QED
        BY <4>1, <4>2
    <3>4. \A q \in Publishers :
            pubPc'[q] \in {"send", "blocked"} => pubRef'[q] \notin pubTodo'[q]
      BY <2>1 DEF Order, TypeOK, TypePub
    <3>5. UNCHANGED log
      BY <2>1
    <3>6. \A t \in Ref : \A i, j \in DOMAIN log[t] :
            i < j => Earlier(log[t][i], log[t][j])
      BY DEF Order
    <3>7. \A q \in Publishers, t \in Ref : Pending(q, t)' =>
            \A i \in DOMAIN log[t] : Earlier(log[t][i], CurrentMsg(q))
      BY <2>3 DEF Order
    <3>8. \A q \in Publishers, t \in Ref : Pending(q, t)' =>
            /\ \A i \in DOMAIN log[t] : Earlier(log[t][i], CurrentMsg(q)')
            /\ \A i \in DOMAIN mailbox'[t.sub] :
                  mailbox'[t.sub][i].gen = t.gen =>
                     Earlier(mailbox'[t.sub][i].msg, CurrentMsg(q)')
      BY <2>5, <3>3, <3>7
    <3> QED
      BY <3>1, <3>2, <3>4, <3>5, <3>6, <3>8 DEF Order, Earlier
  <2> QED
    BY <2>9, <2>10
<1> QED
  BY <1>1, <1>2, <1>3, <1>4, <1>5 DEF PublishStep, EnqueueTry

\* A worker takes the head of its mailbox and handles it only if it carries the
\* worker's own generation.
LEMMA DeliveryTake ==
    ASSUME TypeOK, Routing, Order, NEW r \in Ref, UNCHANGED pubVars,
           mailbox[r.sub] # <<>>,
           mailbox' = [mailbox EXCEPT ![r.sub] = Tail(@)],
           \/ log' = log
           \/ /\ Head(mailbox[r.sub]).gen = r.gen
              /\ log' = [log EXCEPT ![r] = Append(@, Head(mailbox[r.sub]).msg)]
    PROVE  Routing' /\ Order'
<1> DEFINE s == r.sub
           d == mailbox[s][1]
<1>1. /\ s \in Subs /\ r = [sub |-> s, gen |-> r.gen]
      /\ mailbox[s] \in Seq(Delivery) /\ Len(mailbox[s]) \in Nat \ {0}
      /\ 1 \in DOMAIN mailbox[s] /\ Head(mailbox[s]) = d
  BY SequenceFacts DEF Ref
<1>2. mailbox'[s] = Tail(mailbox[s]) /\ \A t \in Subs : t # s => mailbox'[t] = mailbox[t]
  BY <1>1 DEF TypeOK, TypeMailbox
<1>3. \A i \in DOMAIN mailbox'[s] :
        /\ i + 1 \in DOMAIN mailbox[s] /\ 1 < i + 1 /\ i \in Nat
        /\ mailbox'[s][i] = mailbox[s][i + 1]
  <2>1. DOMAIN mailbox[s] = 1..Len(mailbox[s])
    BY <1>1, SequenceFacts
  <2>2. /\ DOMAIN Tail(mailbox[s]) = 1..(Len(mailbox[s]) - 1)
        /\ \A i \in 1..(Len(mailbox[s]) - 1) :
              Tail(mailbox[s])[i] = mailbox[s][i + 1]
    BY <1>1
  <2>3. Len(mailbox[s]) \in Nat \ {0} /\ mailbox'[s] = Tail(mailbox[s])
    BY <1>1, <1>2
  <2>4. ASSUME NEW i \in DOMAIN mailbox'[s]
        PROVE  /\ i + 1 \in DOMAIN mailbox[s] /\ 1 < i + 1 /\ i \in Nat
               /\ mailbox'[s][i] = mailbox[s][i + 1]
    <3> DEFINE n == Len(mailbox[s])
    <3>1. n \in Nat /\ i \in 1..(n - 1)
      BY <2>2, <2>3
    <3>2. i + 1 \in 1..n /\ 1 < i + 1 /\ i \in Nat
      BY <3>1
    <3>3. mailbox'[s][i] = mailbox[s][i + 1]
      BY <2>2, <2>3, <3>1
    <3> QED
      BY <2>1, <3>2, <3>3
  <2> QED
    BY <2>4
<1>4. \A q \in Ref : \A i \in DOMAIN log'[q] :
        \/ i \in DOMAIN log[q] /\ log'[q][i] = log[q][i]
        \/ /\ q = r /\ i = Len(log[r]) + 1 /\ log'[q][i] = d.msg /\ d.gen = r.gen
  <2>1. CASE log' = log
    BY <2>1
  <2>2. CASE /\ d.gen = r.gen
             /\ log' = [log EXCEPT ![r] = Append(@, d.msg)]
    <3>1. \A q \in Ref : q # r => log'[q] = log[q]
      BY <2>2 DEF TypeOK, TypeWork
    <3>2. log[r] \in Seq(Msg) /\ log'[r] = Append(log[r], d.msg)
      BY <2>2, SequenceFacts DEF TypeOK, TypeWork
    <3>3. \A i \in DOMAIN log'[r] :
            \/ i \in DOMAIN log[r] /\ log'[r][i] = log[r][i]
            \/ i = Len(log[r]) + 1 /\ log'[r][i] = d.msg
      BY <3>2
    <3> QED
      BY <2>2, <3>1, <3>3
  <2> QED
    BY <1>1, <2>1, <2>2
<1>5. /\ \A q \in Publishers, t \in Ref : Pending(q, t)' <=> Pending(q, t)
      /\ \A q \in Publishers : CurrentMsg(q)' = CurrentMsg(q)
      /\ \A m \in Msg : FannedOut(m)' <=> FannedOut(m)
      /\ UNCHANGED <<targets, pubPc, pubRef, pubTodo>>
  BY DEF pubVars, Pending, CurrentMsg, FannedOut
<1>6. FannedOut(d.msg) /\ d.msg \in Msg /\ (d.gen = r.gen => r \in targets[d.msg])
  BY <1>1, SequenceFacts DEF Routing
<1>7. Routing'
  <2>1. \A t \in Subs : \A i \in DOMAIN mailbox'[t] :
          /\ FannedOut(mailbox'[t][i].msg)
          /\ mailbox'[t][i].msg \in Msg
          /\ [sub |-> t, gen |-> mailbox'[t][i].gen]
                \in targets[mailbox'[t][i].msg]
    <3>1. \A t \in Subs : \A i \in DOMAIN mailbox'[t] :
            \E k \in DOMAIN mailbox[t] : mailbox'[t][i] = mailbox[t][k]
      BY <1>1, <1>2, <1>3
    <3>2. \A t \in Subs : \A k \in DOMAIN mailbox[t] :
            /\ FannedOut(mailbox[t][k].msg) /\ mailbox[t][k].msg \in Msg
            /\ [sub |-> t, gen |-> mailbox[t][k].gen] \in targets[mailbox[t][k].msg]
      BY SequenceFacts DEF Routing
    <3> SUFFICES ASSUME NEW t \in Subs, NEW i \in DOMAIN mailbox'[t]
                 PROVE  /\ FannedOut(mailbox'[t][i].msg) /\ mailbox'[t][i].msg \in Msg
                        /\ [sub |-> t, gen |-> mailbox'[t][i].gen]
                              \in targets[mailbox'[t][i].msg]
      OBVIOUS
    <3>3. PICK k \in DOMAIN mailbox[t] : mailbox'[t][i] = mailbox[t][k]
      BY <3>1
    <3> QED
      BY <3>2, <3>3
  <2>2. \A q \in Ref : \A i \in DOMAIN log'[q] :
          /\ FannedOut(log'[q][i]) /\ log'[q][i] \in Msg
          /\ q \in targets[log'[q][i]]
    BY <1>4, <1>6, SequenceFacts DEF Routing
  <2> QED
    BY <1>5, <2>1, <2>2 DEF Routing
<1>8. Order'
  <2>1. \A q \in Ref : \A i, j \in DOMAIN log'[q] :
          i < j => Earlier(log'[q][i], log'[q][j])
    <3> SUFFICES ASSUME NEW q \in Ref, NEW i \in DOMAIN log'[q],
                        NEW j \in DOMAIN log'[q], i < j
                 PROVE  Earlier(log'[q][i], log'[q][j])
      OBVIOUS
    <3>1. Len(log[q]) \in Nat /\ DOMAIN log[q] = 1..Len(log[q])
      BY SequenceFacts
    <3>2. CASE j \in DOMAIN log[q] /\ log'[q][j] = log[q][j]
      <4>1. i \in DOMAIN log[q] /\ log'[q][i] = log[q][i]
        BY <1>4, <3>1, <3>2
      <4> QED
        BY <3>2, <4>1 DEF Order
    <3>3. CASE q = r /\ j = Len(log[r]) + 1 /\ log'[q][j] = d.msg /\ d.gen = r.gen
      <4>1. i \in DOMAIN log[r] /\ log'[r][i] = log[r][i]
        BY <1>4, <3>1, <3>3
      <4> QED
        BY <1>1, <3>3, <4>1 DEF Order
    <3> QED
      BY <1>4, <3>2, <3>3
  <2>2. \A q \in Ref : \A i \in DOMAIN log'[q], j \in DOMAIN mailbox'[q.sub] :
          mailbox'[q.sub][j].gen = q.gen =>
             Earlier(log'[q][i], mailbox'[q.sub][j].msg)
    <3> SUFFICES ASSUME NEW q \in Ref, NEW i \in DOMAIN log'[q],
                        NEW j \in DOMAIN mailbox'[q.sub],
                        mailbox'[q.sub][j].gen = q.gen
                 PROVE  Earlier(log'[q][i], mailbox'[q.sub][j].msg)
      OBVIOUS
    <3>1. PICK k \in DOMAIN mailbox[q.sub] :
            /\ mailbox'[q.sub][j] = mailbox[q.sub][k]
            /\ q.sub = s => 1 < k
      BY <1>1, <1>2, <1>3 DEF Ref
    <3>2. CASE i \in DOMAIN log[q] /\ log'[q][i] = log[q][i]
      BY <3>1, <3>2 DEF Order
    <3>3. CASE q = r /\ log'[q][i] = d.msg /\ d.gen = r.gen
      BY <1>1, <3>1, <3>3 DEF Order
    <3> QED
      BY <1>4, <3>2, <3>3
  <2>3. \A t \in Subs : \A i, j \in DOMAIN mailbox'[t] :
          i < j /\ mailbox'[t][i].gen = mailbox'[t][j].gen =>
             Earlier(mailbox'[t][i].msg, mailbox'[t][j].msg)
    <3> SUFFICES ASSUME NEW t \in Subs, NEW i \in DOMAIN mailbox'[t],
                        NEW j \in DOMAIN mailbox'[t], i < j,
                        mailbox'[t][i].gen = mailbox'[t][j].gen
                 PROVE  Earlier(mailbox'[t][i].msg, mailbox'[t][j].msg)
      OBVIOUS
    <3>1. CASE t = s
      <4>1. i + 1 < j + 1
        BY <1>3, <3>1
      <4> QED
        BY <1>1, <1>3, <3>1, <4>1 DEF Order
    <3>2. CASE t # s
      BY <1>2, <3>2 DEF Order
    <3> QED
      BY <3>1, <3>2
  <2>4. \A p \in Publishers, q \in Ref : Pending(p, q) =>
          /\ \A i \in DOMAIN log'[q] : Earlier(log'[q][i], CurrentMsg(p))
          /\ \A i \in DOMAIN mailbox'[q.sub] :
                mailbox'[q.sub][i].gen = q.gen =>
                   Earlier(mailbox'[q.sub][i].msg, CurrentMsg(p))
    <3> SUFFICES ASSUME NEW p \in Publishers, NEW q \in Ref, Pending(p, q)
                 PROVE  /\ \A i \in DOMAIN log'[q] :
                              Earlier(log'[q][i], CurrentMsg(p))
                        /\ \A i \in DOMAIN mailbox'[q.sub] :
                              mailbox'[q.sub][i].gen = q.gen =>
                                 Earlier(mailbox'[q.sub][i].msg, CurrentMsg(p))
      OBVIOUS
    <3>1. \A i \in DOMAIN mailbox'[q.sub] : \E k \in DOMAIN mailbox[q.sub] :
            mailbox'[q.sub][i] = mailbox[q.sub][k]
      BY <1>2, <1>3 DEF Ref
    <3>2. \A k \in DOMAIN mailbox[q.sub] :
            mailbox[q.sub][k].gen = q.gen =>
               Earlier(mailbox[q.sub][k].msg, CurrentMsg(p))
      BY DEF Order
    <3>3. \A i \in DOMAIN log[q] : Earlier(log[q][i], CurrentMsg(p))
      BY DEF Order
    <3>4. q = r /\ d.gen = r.gen => Earlier(d.msg, CurrentMsg(p))
      BY <1>1, <3>2
    <3> QED
      BY <1>4, <3>1, <3>2, <3>3, <3>4
  <2>5. \A p \in Publishers, q \in Ref : Pending(p, q)' =>
          /\ \A i \in DOMAIN log'[q] : Earlier(log'[q][i], CurrentMsg(p)')
          /\ \A i \in DOMAIN mailbox'[q.sub] :
                mailbox'[q.sub][i].gen = q.gen =>
                   Earlier(mailbox'[q.sub][i].msg, CurrentMsg(p)')
    BY <1>5, <2>4
  <2>6. \A p \in Publishers :
          pubPc'[p] \in {"send", "blocked"} => pubRef'[p] \notin pubTodo'[p]
    BY <1>5 DEF Order
  <2> QED
    BY <2>1, <2>2, <2>3, <2>5, <2>6 DEF Order, Earlier
<1> QED
  BY <1>7, <1>8

LEMMA DeliveryWorker ==
    ASSUME TypeOK, Routing, Order, NEW r \in Ref, WorkerStep(r)
    PROVE  Routing' /\ Order'
<1>1. CASE WorkerRecv(r) \/ DrainRecv(r) \/ DiscardOne(r)
  <2>1. /\ UNCHANGED pubVars
        /\ mailbox[r.sub] # <<>>
        /\ mailbox' = [mailbox EXCEPT ![r.sub] = Tail(@)]
        /\ \/ log' = log
           \/ /\ Head(mailbox[r.sub]).gen = r.gen
              /\ log' = [log EXCEPT ![r] = Append(@, Head(mailbox[r.sub]).msg)]
    BY <1>1 DEF WorkerRecv, DrainRecv, DiscardOne, Take, WorkerGoto, workVars
  <2> QED
    BY <2>1, DeliveryTake
<1>2. CASE \/ WorkerHandled(r) \/ WorkerStop(r) \/ MailboxEmpty(r)
           \/ WorkerExit(r) \/ WorkerRecycle(r) \/ WorkerDone(r)
  <2>1. UNCHANGED <<pubVars, mailbox, log>>
    BY <1>2 DEF WorkerHandled, WorkerStop, MailboxEmpty, WorkerExit,
       WorkerRecycle, WorkerDone
  <2> QED
    BY <2>1, DeliveryUnchanged
<1> QED
  BY <1>1, <1>2 DEF WorkerStep

LEMMA DeliveryOthers ==
    ASSUME TypeOK, Routing, Order, CallerNext \/ StopNext \/ UNCHANGED vars
    PROVE  Routing' /\ Order'
<1>1. UNCHANGED <<pubVars, mailbox, log>>
  <2>1. CASE CallerNext
    BY <2>1 DEF CallerNext, CallerStep, SubscribeStart, SubscribeGet,
       SubscribeRegister, SubscribeTrack, SubscribeRecheck, SubscribeSpawn,
       UndoTrack, UndoRegister, UndoRecycle, UnsubStart, UnsubGenCheck,
       UnsubClaim, UnsubDereg, UnsubUntrack, UnsubStopClaim, UnsubStopClose,
       workVars
  <2>2. CASE StopNext
    BY <2>2 DEF StopNext, StopStep, StopStart, DrainTimeout, DrainFlag,
       RangePick, RangeClaim, RangeClose, RangeEnd, DrainDone, CloseSwap,
       CloseCh, CloseWait, StopUnchanged, workVars
  <2>3. CASE UNCHANGED vars
    BY <2>3 DEF vars, workVars
  <2> QED
    BY <2>1, <2>2, <2>3
<1> QED
  BY <1>1, DeliveryUnchanged

LEMMA DeliveryCorrect == Spec => [](Routing /\ Order)
<1>1. Init => Routing /\ Order
  BY DEF Init, Routing, Order, Pending
<1>2. TypeOK /\ Routing /\ Order /\ [Next]_vars => (Routing /\ Order)'
  BY DeliveryPublish, DeliveryWorker, DeliveryOthers
     DEF Next, PublishNext, WorkerNext
<1> QED
  BY <1>1, <1>2, TypeCorrect, PTL DEF Spec

\* A handler is only given messages whose fan-out listed its own activation: no
\* straggling publisher reaches the subscription that recycles the struct.
THEOREM RoutingCorrect == Spec => []RoutedOnlyToTargets
<1>1. Routing => RoutedOnlyToTargets
  BY DEF Routing, RoutedOnlyToTargets
<1> QED
  BY <1>1, DeliveryCorrect, PTL

\* A handler is given the messages of one publisher in publication order, none
\* of them twice.
THEOREM OrderCorrect == Spec => []PerPublisherOrder
<1>1. Order => PerPublisherOrder
  BY DEF Order, Earlier, PerPublisherOrder
<1> QED
  BY <1>1, DeliveryCorrect, PTL

-------------------------------------------------------------------------------
(* Fresh activations *)

\* An activation in the making has no worker and no handle yet, and one that is
\* still to come has left no trace.
Fresh ==
    /\ \A c \in Callers : Building(c) =>
          wpc[callerRef[c]] = "none" /\ callerRef[c] \notin handles
    /\ \A r \in Ref : r.gen > gen[r.sub] =>
          wpc[r] = "none" /\ r \notin handles /\ r \notin stopped

\* Steps that begin no activation and complete none.
LEMMA FreshUnchanged ==
    ASSUME Fresh, gen' = gen, UNCHANGED handles,
           \A c \in Callers : Building(c)' => Building(c) /\ callerRef'[c] = callerRef[c],
           \A r \in Ref : wpc[r] = "none" => wpc'[r] = "none",
           \A r \in stopped' : r \in stopped \/ r.gen <= gen[r.sub],
           \A c \in Callers : Building(c) => callerRef[c] \in Ref,
           gen \in [Subs -> 0..MaxGen]
    PROVE  Fresh'
<1>1. \A r \in Ref : r.sub \in Subs /\ r.gen \in Nat /\ gen[r.sub] \in Nat
  BY BoundsAssumption DEF Ref
<1> QED
  BY <1>1 DEF Fresh

LEMMA FreshCallers ==
    ASSUME TypeOK, SoleOwner, Fresh, NEW c \in Callers,
           SubscribeStart(c) \/ (\E r \in Ref : UnsubStart(c, r)) \/ CallerStep(c)
    PROVE  Fresh'
<1> USE BoundsAssumption
<1>1. ASSUME NEW s \in Subs, SubscribeGet(c, s) PROVE Fresh'
  <2> DEFINE q == [sub |-> s, gen |-> gen[s] + 1]
  <2>1. /\ callerPc' = [callerPc EXCEPT ![c] = "register"]
        /\ callerRef' = [callerRef EXCEPT ![c] = q]
        /\ gen' = [gen EXCEPT ![s] = gen[s] + 1] /\ gen[s] < MaxGen
        /\ UNCHANGED <<wpc, handles, stopped>>
    BY <1>1 DEF SubscribeGet, Goto, workVars
  <2>2. q \in Ref /\ q.gen > gen[q.sub]
    BY <2>1 DEF TypeOK, TypeSub, Ref
  <2>3. \A d \in Callers : d # c =>
           (Building(d)' => Building(d)) /\ callerRef'[d] = callerRef[d]
    BY <2>1 DEF TypeOK, TypeCaller, Building
  <2>4. callerRef'[c] = q
    BY <2>1 DEF TypeOK, TypeCaller
  <2>5. \A r \in Ref : r.gen > gen'[r.sub] => r.gen > gen[r.sub]
    BY <2>1 DEF TypeOK, TypeSub, Ref
  <2> QED
    BY <2>1, <2>2, <2>3, <2>4, <2>5 DEF Fresh
<1>2. CASE SubscribeSpawn(c)
  <2> DEFINE q == callerRef[c]
  <2>1. /\ Building(c) /\ q \in Ref /\ gen[q.sub] = q.gen
        /\ wpc' = [wpc EXCEPT ![q] = "run"] /\ handles' = handles \cup {q}
        /\ UNCHANGED <<gen, stopped>>
        /\ \A d \in Callers : Building(d)' => Building(d) /\ d # c /\ callerRef'[d] = callerRef[d]
    BY <1>2 DEF SubscribeSpawn, Return, Goto, Building, TypeOK, TypeCaller, subVars, SoleOwner
  <2>2. \A d \in Callers : Building(d)' => callerRef[d] # q /\ callerRef[d] \in Ref
    BY <2>1 DEF SoleOwner, TypeOK, TypeCaller, Building
  <2>3. \A r \in Ref : r # q => wpc'[r] = wpc[r]
    BY <2>1 DEF TypeOK, TypeWork
  <2>4. \A r \in Ref : r.gen > gen[r.sub] => r # q
    BY <2>1 DEF TypeOK, TypeSub, Ref
  <2> QED
    BY <2>1, <2>2, <2>3, <2>4 DEF Fresh
<1>3. \A d \in Callers : Building(d) => callerRef[d] \in Ref
  BY DEF TypeOK, TypeCaller, Building
<1>4. ASSUME NEW r \in Ref, UnsubStart(c, r) PROVE Fresh'
  BY <1>3, <1>4, FreshUnchanged DEF UnsubStart, Goto, Building, TypeOK, TypeCaller, TypeSub,
     subVars, workVars
<1>5. CASE SubscribeStart(c) \/ SubscribeRegister(c) \/ SubscribeTrack(c)
             \/ SubscribeRecheck(c) \/ UndoTrack(c) \/ UndoRegister(c) \/ UndoRecycle(c)
  BY <1>3, <1>5, FreshUnchanged DEF SubscribeStart, SubscribeRegister, SubscribeTrack,
     SubscribeRecheck, UndoTrack, UndoRegister, UndoRecycle, Return, Goto, Building, TypeOK,
     TypeCaller, TypeSub, subVars, workVars
<1>6. CASE UnsubGenCheck(c) \/ UnsubClaim(c) \/ UnsubDereg(c) \/ UnsubUntrack(c)
             \/ UnsubStopClaim(c)
  BY <1>3, <1>6, FreshUnchanged DEF UnsubGenCheck, UnsubClaim, UnsubDereg, UnsubUntrack,
     UnsubStopClaim, UnsubReturn, Return, Goto, Building, TypeOK, TypeCaller, TypeSub,
     subVars, workVars
<1>7. CASE UnsubStopClose(c)
  <2>1. callerRef[c] \in Ref
    BY <1>7 DEF UnsubStopClose, TypeOK, TypeCaller
  <2>2. \A r \in stopped' : r \in stopped \/ r.gen <= gen[r.sub]
    BY <1>7, <2>1 DEF UnsubStopClose, CloseChannel, CurrentRef, TypeOK, TypeSub, Ref
  <2> QED
    BY <1>3, <1>7, <2>2, FreshUnchanged DEF UnsubStopClose, UnsubReturn, Return, Goto,
       Building, TypeOK, TypeCaller, TypeSub, workVars
<1> QED
  BY <1>1, <1>2, <1>4, <1>5, <1>6, <1>7 DEF CallerStep

LEMMA FreshWorker ==
    ASSUME TypeOK, Fresh, NEW r \in Ref, WorkerStep(r) PROVE Fresh'
<1>1. \A d \in Callers : Building(d) => callerRef[d] \in Ref
  BY DEF TypeOK, TypeCaller, Building
<1>2. UNCHANGED <<gen, stopped, callerPc, callerRef, handles>>
  BY DEF WorkerStep, WorkerRecv, WorkerHandled, WorkerStop, DrainRecv, DiscardOne,
     MailboxEmpty, WorkerExit, WorkerRecycle, WorkerDone, subVars, callVars
<1>3. wpc[r] # "none" /\ \A q \in Ref : q # r => wpc'[q] = wpc[q]
  BY DEF WorkerStep, WorkerRecv, WorkerHandled, WorkerStop, DrainRecv, DiscardOne,
     MailboxEmpty, WorkerExit, WorkerRecycle, WorkerDone, WorkerGoto, Take, workVars,
     TypeOK, TypeWork
<1> QED
  BY <1>1, <1>2, <1>3, FreshUnchanged DEF Building, TypeOK, TypeSub

LEMMA FreshOthers ==
    ASSUME TypeOK, Fresh, PublishNext \/ StopNext \/ UNCHANGED vars PROVE Fresh'
<1>1. \A d \in Callers : Building(d) => callerRef[d] \in Ref
  BY DEF TypeOK, TypeCaller, Building
<1>2. CASE PublishNext \/ UNCHANGED vars
  <2>1. UNCHANGED <<gen, stopped, callerPc, callerRef, handles, wpc>>
    BY <1>2 DEF PublishNext, PublishStart, EnqueueCancelled, PublishStep, PublishLoad,
       EnqueueTry, EnqueueSend, EnqueueSkip, EnqueueBusClosed, PublishEnd, EnqueueCheck,
       subVars, callVars, workVars, vars
  <2> QED
    BY <1>1, <2>1, FreshUnchanged DEF Building, TypeOK, TypeSub
<1>3. ASSUME NEW x \in Stoppers, StopStart(x) \/ DrainTimeout(x) \/ StopStep(x)
      PROVE  Fresh'
  <2>1. UNCHANGED <<gen, callerPc, callerRef, handles, wpc>>
    BY <1>3 DEF StopStart, DrainTimeout, StopStep, DrainFlag, RangeClaim, RangeClose,
       RangeEnd, DrainDone, CloseSwap, CloseCh, CloseWait, RangePick, StopUnchanged,
       subVars, callVars, workVars
  <2>2. stopped' = stopped \/ RangeClose(x)
    BY <1>3 DEF StopStart, DrainTimeout, StopStep, DrainFlag, RangeClaim, RangeEnd,
       DrainDone, CloseSwap, CloseCh, CloseWait, RangePick, StopUnchanged, subVars
  <2>3. \A r \in stopped' : r \in stopped \/ r.gen <= gen[r.sub]
    BY <2>2, BoundsAssumption DEF RangeClose, CloseChannel, CurrentRef, TypeOK, TypeSub, TypeStop
  <2> QED
    BY <1>1, <2>1, <2>3, FreshUnchanged DEF Building, TypeOK, TypeSub
<1> QED
  BY <1>2, <1>3 DEF StopNext

LEMMA FreshCorrect == Spec => []Fresh
<1>1. Init => Fresh
  BY DEF Init, Fresh, Building
<1>2. TypeOK /\ SoleOwner /\ Fresh /\ [Next]_vars => Fresh'
  BY FreshCallers, FreshWorker, FreshOthers DEF Next, CallerNext, WorkerNext
<1> QED
  BY <1>1, <1>2, TypeCorrect, OwnershipCorrect, PTL DEF Spec

-------------------------------------------------------------------------------
(* The WaitGroup *)

LiveRefs == {r \in Ref : Live(r)}

WgOK == IsFiniteSet(LiveRefs) /\ wg = Cardinality(LiveRefs)

\* Only a spawned worker becomes live and only a finished one stops to be.
LEMMA WgSpawn ==
    ASSUME TypeOK, Fresh, WgOK, NEW c \in Callers, SubscribeSpawn(c) PROVE WgOK'
<1> DEFINE q == callerRef[c]
<1>1. /\ q \in Ref /\ wg' = wg + 1 /\ wpc' = [wpc EXCEPT ![q] = "run"]
      /\ wpc[q] = "none"
  BY DEF SubscribeSpawn, TypeOK, TypeCaller, Fresh, Building
<1>2. LiveRefs' = LiveRefs \cup {q} /\ q \notin LiveRefs
  BY <1>1 DEF LiveRefs, Live, Serving, TypeOK, TypeWork
<1>3. IsFiniteSet(LiveRefs \cup {q}) /\ Cardinality(LiveRefs \cup {q}) = Cardinality(LiveRefs) + 1
  BY <1>2, FS_AddElement DEF WgOK
<1> QED
  BY <1>1, <1>2, <1>3 DEF WgOK

LEMMA WgDone ==
    ASSUME TypeOK, WgOK, NEW r \in Ref, WorkerDone(r) PROVE WgOK'
<1>1. /\ wg' = wg - 1 /\ wpc' = [wpc EXCEPT ![r] = "done"] /\ wpc[r] = "leaving"
  BY DEF WorkerDone, WorkerGoto
<1>2. LiveRefs' = LiveRefs \ {r} /\ r \in LiveRefs
  BY <1>1 DEF LiveRefs, Live, Serving, TypeOK, TypeWork
<1>3. IsFiniteSet(LiveRefs \ {r}) /\ Cardinality(LiveRefs \ {r}) = Cardinality(LiveRefs) - 1
  BY <1>2, FS_RemoveElement DEF WgOK
<1> QED
  BY <1>1, <1>2, <1>3 DEF WgOK

LEMMA WgWorker ==
    ASSUME TypeOK, WgOK, NEW r \in Ref, WorkerStep(r) PROVE WgOK'
<1>1. CASE WorkerDone(r)
  BY <1>1, WgDone
<1>2. CASE ~WorkerDone(r)
  <2>1. /\ wg' = wg /\ Live(r)
        /\ wpc'[r] \in {"run", "handle", "drain", "drainHandle", "discard", "exit",
                        "recycle", "leaving"}
        /\ \A q \in Ref : q # r => wpc'[q] = wpc[q]
    BY <1>2 DEF WorkerStep, WorkerRecv, WorkerHandled, WorkerStop, DrainRecv, DiscardOne,
       MailboxEmpty, WorkerExit, WorkerRecycle, WorkerGoto, Take, workVars, Live, Serving,
       TypeOK, TypeWork
  <2>2. \A q \in Ref : Live(q)' <=> Live(q)
    BY <2>1 DEF Live, Serving
  <2>3. LiveRefs' = LiveRefs
    BY <2>2 DEF LiveRefs
  <2> QED
    BY <2>1, <2>3 DEF WgOK
<1> QED
  BY <1>1, <1>2

LEMMA WgOthers ==
    ASSUME WgOK, UNCHANGED <<wpc, wg>> PROVE WgOK'
  BY DEF WgOK, LiveRefs, Live, Serving

\* Whoever is not spawning a worker and no worker leaves the workers alone.
LEMMA WorkersUnchanged ==
    ASSUME [Next]_vars, \A c \in Callers : ~SubscribeSpawn(c), ~WorkerNext
    PROVE  UNCHANGED <<wpc, wg, log>>
<1>1. CASE PublishNext \/ UNCHANGED vars
  BY <1>1 DEF PublishNext, PublishStart, EnqueueCancelled, PublishStep, PublishLoad,
     EnqueueTry, EnqueueSend, EnqueueSkip, EnqueueBusClosed, PublishEnd, EnqueueCheck,
     workVars, vars
<1>2. CASE CallerNext
  BY <1>2 DEF CallerNext, SubscribeStart, UnsubStart, CallerStep, SubscribeGet,
     SubscribeRegister, SubscribeTrack, SubscribeRecheck, UndoTrack, UndoRegister,
     UndoRecycle, UnsubGenCheck, UnsubClaim, UnsubDereg, UnsubUntrack, UnsubStopClaim,
     UnsubStopClose, workVars
<1>3. CASE StopNext
  BY <1>3 DEF StopNext, StopStart, DrainTimeout, StopStep, DrainFlag, RangeClaim, RangeClose,
     RangeEnd, DrainDone, CloseSwap, CloseCh, CloseWait, RangePick, StopUnchanged, workVars
<1> QED
  BY <1>1, <1>2, <1>3 DEF Next

LEMMA WgInvariant == Spec => []WgOK
<1>1. Init => WgOK
  <2> SUFFICES ASSUME Init PROVE WgOK
    OBVIOUS
  <2>1. LiveRefs = {}
    BY DEF Init, LiveRefs, Live, Serving
  <2> QED
    BY <2>1, FS_EmptySet DEF WgOK, Init
<1>2. TypeOK /\ Fresh /\ WgOK /\ [Next]_vars => WgOK'
  <2> SUFFICES ASSUME TypeOK, Fresh, WgOK, [Next]_vars PROVE WgOK'
    OBVIOUS
  <2>1. CASE \E c \in Callers : SubscribeSpawn(c)
    BY <2>1, WgSpawn
  <2>2. CASE WorkerNext
    BY <2>2, WgWorker DEF WorkerNext
  <2>3. CASE ~WorkerNext /\ \A c \in Callers : ~SubscribeSpawn(c)
    BY <2>3, WorkersUnchanged, WgOthers
  <2> QED
    BY <2>1, <2>2, <2>3
<1> QED
  BY <1>1, <1>2, TypeCorrect, FreshCorrect, PTL DEF Spec

\* The WaitGroup counts exactly the workers that have not finished, for any number
\* of structs, callers and activations: the counter never goes astray.
THEOREM WgCorrect == Spec => []WgCountsWorkers
<1>1. WgOK => WgCountsWorkers
  BY DEF WgOK, WgCountsWorkers, LiveRefs
<1> QED
  BY <1>1, WgInvariant, PTL

LEMMA WgZero == WgOK /\ wg = 0 => \A r \in Ref : ~Live(r)
<1> SUFFICES ASSUME WgOK, wg = 0 PROVE LiveRefs = {}
  BY DEF LiveRefs
<1> QED
  BY FS_EmptySet DEF WgOK

\* When Close returns from its wait, no worker runs a handler or is about to.
THEOREM CloseWaits == Spec => CloseWaitsForWorkers
<1> DEFINE Waited == \A x \in Stoppers :
              stopPc[x] = "closeWait" /\ stopPc'[x] = "done" => \A r \in Ref : ~Live(r)
<1>1. TypeOK /\ WgOK /\ [Next]_vars => [Waited]_vars
  <2> SUFFICES ASSUME TypeOK, WgOK, Next, NEW x \in Stoppers,
                      stopPc[x] = "closeWait", stopPc'[x] = "done"
               PROVE  \A r \in Ref : ~Live(r)
    OBVIOUS
  <2>1. ASSUME NEW y \in Stoppers, StopStart(y) \/ DrainTimeout(y) \/ StopStep(y)
        PROVE  wg = 0
    <3>1. stopPc'[x] # stopPc[x] => y = x
      BY <2>1 DEF StopStart, DrainTimeout, StopStep, DrainFlag, RangeClaim, RangeClose,
         RangeEnd, DrainDone, CloseSwap, CloseCh, CloseWait, RangePick, StopGoto,
         BackToRange, TypeOK, TypeStop
    <3>2. CloseWait(x)
      BY <2>1, <3>1 DEF StopStart, DrainTimeout, StopStep, DrainFlag, RangeClaim, RangeClose,
         RangeEnd, DrainDone, CloseSwap, CloseCh, RangePick
    <3> QED
      BY <3>2 DEF CloseWait
  <2>2. CASE PublishNext \/ CallerNext \/ WorkerNext
    <3>1. stopPc' = stopPc
      BY <2>2 DEF PublishNext, PublishStart, EnqueueCancelled, PublishStep, PublishLoad,
         EnqueueTry, EnqueueSend, EnqueueSkip, EnqueueBusClosed, PublishEnd, EnqueueCheck,
         CallerNext, SubscribeStart, UnsubStart, CallerStep, SubscribeGet,
         SubscribeRegister, SubscribeTrack, SubscribeRecheck, SubscribeSpawn, UndoTrack,
         UndoRegister, UndoRecycle, UnsubGenCheck, UnsubClaim, UnsubDereg, UnsubUntrack,
         UnsubStopClaim, UnsubStopClose, WorkerNext, WorkerStep, WorkerRecv, WorkerHandled,
         WorkerStop, DrainRecv, DiscardOne, MailboxEmpty, WorkerExit, WorkerRecycle,
         WorkerDone, stopVars
    <3> QED
      BY <3>1
  <2> QED
    BY <2>1, <2>2, WgZero DEF Next, StopNext
<1> QED
  BY <1>1, TypeCorrect, WgInvariant, PTL DEF Spec, CloseWaitsForWorkers

-------------------------------------------------------------------------------
(* Drain *)

Logged(e) == \E i \in DOMAIN log[e[1]] : log[e[1]][i] = e[2]
Queued(e) == \E i \in DOMAIN mailbox[e[1].sub] :
                mailbox[e[1].sub][i] = [msg |-> e[2], gen |-> e[1].gen]

\* The worker will look at its mailbox until it is empty, and dispatch.
Dispatching(r) == wpc[r] \in {"run", "handle", "drain", "drainHandle"}

Kept(e) == Logged(e) \/ (Queued(e) /\ Dispatching(e[1]))

\* What a Drain is owed is handled or waits for a worker that will not discard
\* it, since draining stays set; past the wait it is handled.
Owed == \A x \in Stoppers :
    /\ owed[x] # {} => draining
    /\ \A e \in owed[x] : Kept(e)
    /\ stopPc[x] = "swap" /\ stopOp[x] = "Drain" /\ x \notin timedOut =>
          \A e \in owed[x] : Logged(e)

LEMMA SameRef == \A q, r \in Ref : q.sub = r.sub /\ q.gen = r.gen => q = r
  BY DEF Ref

\* A struct is served by the worker of one activation only.
LEMMA SoleWorker ==
    SoleOwner => \A q, r \in Ref : Serving(q) /\ Serving(r) /\ q.sub = r.sub => q = r
  BY SameRef DEF SoleOwner

\* Taking the head of a mailbox gives it to the handler, if it is for this
\* activation, and leaves the others where they are.
LEMMA TakeKeeps ==
    ASSUME TypeOK, SoleOwner, NEW r \in Ref, NEW busy \in {"handle", "drainHandle"},
           Take(r, busy), wpc[r] \in {"run", "drain"},
           NEW e \in Ref \X Msg, Kept(e)
    PROVE  Kept(e)'
<1> DEFINE q == e[1]
           box == mailbox[r.sub]
<1>1. /\ q \in Ref /\ e[2] \in Msg /\ q.sub \in Subs /\ r.sub \in Subs
      /\ box \in Seq(Delivery) /\ box # <<>>
      /\ mailbox' = [mailbox EXCEPT ![r.sub] = Tail(box)]
  BY DEF Take, Ref, TypeOK, TypeMailbox
<1>2. \/ /\ Head(box).gen = r.gen /\ wpc' = [wpc EXCEPT ![r] = busy]
         /\ log' = [log EXCEPT ![r] = Append(@, Head(box).msg)]
      \/ Head(box).gen # r.gen /\ UNCHANGED <<wpc, log>>
  BY DEF Take, WorkerGoto
<1>3. CASE Logged(e)
  <2>1. /\ log[q] \in Seq(Msg)
        /\ log'[q] = log[q] \/ log'[q] = Append(log[q], Head(box).msg)
    BY <1>1, <1>2 DEF TypeOK, TypeWork
  <2>2. \A i \in DOMAIN log[q] : i \in DOMAIN log'[q] /\ log'[q][i] = log[q][i]
    BY <2>1
  <2> QED
    BY <1>3, <2>2 DEF Logged, Kept
<1>4. CASE Queued(e) /\ Dispatching(q)
  <2>1. Dispatching(q)'
    BY <1>1, <1>2, <1>4 DEF Dispatching, TypeOK, TypeWork
  <2>2. CASE q.sub # r.sub
    BY <1>1, <1>4, <2>1, <2>2 DEF Kept, Queued, TypeOK, TypeMailbox
  <2>3. CASE q.sub = r.sub
    <3>1. q = r
      BY <1>1, <1>4, <2>3, SoleWorker DEF Dispatching, Serving
    <3>2. PICK i \in DOMAIN box : box[i] = [msg |-> e[2], gen |-> r.gen]
      BY <1>4, <3>1 DEF Queued
    <3>3. mailbox'[r.sub] = Tail(box)
      BY <1>1 DEF TypeOK, TypeMailbox
    <3>4. CASE i = 1
      <4>1. Head(box) = [msg |-> e[2], gen |-> r.gen]
        BY <1>1, <3>2, <3>4
      <4>2. log'[r] = Append(log[r], e[2]) /\ log[r] \in Seq(Msg)
        BY <1>2, <4>1 DEF TypeOK, TypeWork
      <4>3. Len(log[r]) + 1 \in DOMAIN log'[r] /\ log'[r][Len(log[r]) + 1] = e[2]
        BY <1>1, <4>2
      <4> QED
        BY <3>1, <4>3 DEF Kept, Logged
    <3>5. CASE i # 1
      <4>1. i - 1 \in DOMAIN Tail(box) /\ Tail(box)[i - 1] = box[i]
        <5>1. box \in Seq(Delivery) /\ box # <<>> /\ i \in DOMAIN box
          BY <1>1, <3>2
        <5> HIDE DEF box
        <5>2. i \in 2..Len(box) /\ Len(box) \in Nat
          BY <5>1, <3>5
        <5>3. Len(Tail(box)) = Len(box) - 1 /\ Tail(box) \in Seq(Delivery)
          BY <5>1
        <5>4. Tail(box)[i - 1] = box[(i - 1) + 1]
          BY <5>1, <5>2, <5>3
        <5> QED
          BY <5>2, <5>3, <5>4
      <4> QED
        BY <2>1, <3>1, <3>2, <3>3, <4>1 DEF Kept, Queued
    <3> QED
      BY <3>4, <3>5
  <2> QED
    BY <2>2, <2>3
<1> QED
  BY <1>3, <1>4 DEF Kept

LEMMA WorkerKeeps ==
    ASSUME TypeOK, SoleOwner, draining, NEW r \in Ref, WorkerStep(r),
           NEW e \in Ref \X Msg, Kept(e)
    PROVE  Kept(e)'
<1> DEFINE q == e[1]
<1>1. q \in Ref /\ q.sub \in Subs /\ r.sub \in Subs
  BY DEF Ref
<1>2. CASE WorkerRecv(r) \/ DrainRecv(r)
  BY <1>2, TakeKeeps DEF WorkerRecv, DrainRecv
<1>3. CASE DiscardOne(r)
  <2>1. /\ UNCHANGED <<wpc, log>> /\ wpc[r] = "discard"
        /\ mailbox' = [mailbox EXCEPT ![r.sub] = Tail(@)]
    BY <1>3 DEF DiscardOne, workVars
  <2>2. Dispatching(q) => q.sub # r.sub
    BY <1>1, <2>1, SoleWorker DEF Dispatching, Serving
  <2> QED
    BY <1>1, <2>1, <2>2 DEF Kept, Logged, Queued, Dispatching, TypeOK, TypeMailbox
<1>4. CASE MailboxEmpty(r)
  <2>1. /\ UNCHANGED <<mailbox, log>> /\ wpc[r] \in {"drain", "discard"}
        /\ mailbox[r.sub] = <<>> /\ wpc' = [wpc EXCEPT ![r] = "exit"]
    BY <1>4 DEF MailboxEmpty, WorkerGoto
  <2>2. Queued(e) => q # r
    BY <2>1 DEF Queued
  <2>3. q # r => wpc'[q] = wpc[q]
    BY <1>1, <2>1 DEF TypeOK, TypeWork
  <2> QED
    BY <2>1, <2>2, <2>3 DEF Kept, Logged, Queued, Dispatching
<1>5. CASE WorkerHandled(r) \/ WorkerStop(r) \/ WorkerExit(r) \/ WorkerRecycle(r)
             \/ WorkerDone(r)
  <2>1. /\ UNCHANGED <<mailbox, log>> /\ (Dispatching(r) => wpc'[r] \in {"run", "drain"})
        /\ \A p \in Ref : p # r => wpc'[p] = wpc[p]
    BY <1>5 DEF WorkerHandled, WorkerStop, WorkerExit, WorkerRecycle, WorkerDone, WorkerGoto,
       Dispatching, TypeOK, TypeWork
  <2> QED
    BY <1>1, <2>1 DEF Kept, Logged, Queued, Dispatching
<1> QED
  BY <1>2, <1>3, <1>4, <1>5 DEF WorkerStep

\* Everybody else only adds to mailboxes, and spawns.
LEMMA OthersKeep ==
    ASSUME TypeOK, Fresh, PublishNext \/ CallerNext \/ StopNext \/ UNCHANGED vars,
           NEW e \in Ref \X Msg, Kept(e)
    PROVE  Kept(e)'
<1> DEFINE q == e[1]
<1>1. q \in Ref /\ q.sub \in Subs
  BY DEF Ref
<1>2. CASE PublishNext
  <2>1. UNCHANGED <<wpc, log>>
    BY <1>2 DEF PublishNext, PublishStart, EnqueueCancelled, PublishStep, PublishLoad,
       EnqueueTry, EnqueueSend, EnqueueSkip, EnqueueBusClosed, PublishEnd, EnqueueCheck,
       workVars
  <2>2. mailbox' = mailbox \/ \E p \in Publishers : Send(p, pubRef[p]) /\ pubRef[p] \in Ref
    BY <1>2 DEF PublishNext, PublishStart, EnqueueCancelled, PublishStep, PublishLoad,
       EnqueueTry, EnqueueSend, EnqueueSkip, EnqueueBusClosed, PublishEnd, EnqueueCheck,
       TypeOK, TypePub
  <2>3. Queued(e) => Queued(e)'
    <3>1. ASSUME NEW p \in Publishers, Send(p, pubRef[p]), pubRef[p] \in Ref, Queued(e)
          PROVE  Queued(e)'
      <4> DEFINE s == pubRef[p].sub
                 d == [msg |-> CurrentMsg(p), gen |-> pubRef[p].gen]
      <4>1. s \in Subs /\ mailbox' = [mailbox EXCEPT ![s] = Append(mailbox[s], d)]
        BY <3>1 DEF Send, Ref
      <4>2. mailbox[q.sub] \in Seq(Delivery)
            /\ (mailbox'[q.sub] = mailbox[q.sub] \/ mailbox'[q.sub] = Append(mailbox[q.sub], d))
        BY <1>1, <4>1 DEF TypeOK, TypeMailbox
      <4>3. \A i \in DOMAIN mailbox[q.sub] :
               i \in DOMAIN mailbox'[q.sub] /\ mailbox'[q.sub][i] = mailbox[q.sub][i]
        BY <4>2
      <4> QED
        BY <3>1, <4>3 DEF Queued
    <3> QED
      BY <2>2, <3>1 DEF Queued
  <2> QED
    BY <2>1, <2>3 DEF Kept, Logged, Dispatching
<1>3. CASE CallerNext
  <2>1. UNCHANGED <<mailbox, log>>
    BY <1>3 DEF CallerNext, SubscribeStart, UnsubStart, CallerStep, SubscribeGet,
       SubscribeRegister, SubscribeTrack, SubscribeRecheck, SubscribeSpawn, UndoTrack,
       UndoRegister, UndoRecycle, UnsubGenCheck, UnsubClaim, UnsubDereg, UnsubUntrack,
       UnsubStopClaim, UnsubStopClose, workVars
  <2>2. wpc' = wpc \/ \E c \in Callers : SubscribeSpawn(c)
    BY <1>3 DEF CallerNext, SubscribeStart, UnsubStart, CallerStep, SubscribeGet,
       SubscribeRegister, SubscribeTrack, SubscribeRecheck, UndoTrack,
       UndoRegister, UndoRecycle, UnsubGenCheck, UnsubClaim, UnsubDereg, UnsubUntrack,
       UnsubStopClaim, UnsubStopClose, workVars
  <2>3. Dispatching(q) => Dispatching(q)'
    BY <1>1, <2>2 DEF SubscribeSpawn, Dispatching, TypeOK, TypeWork
  <2> QED
    BY <2>1, <2>3 DEF Kept, Logged, Queued
<1>4. CASE StopNext
  <2>1. UNCHANGED <<mailbox, wpc, log>>
    BY <1>4 DEF StopNext, StopStart, DrainTimeout, StopStep, DrainFlag, RangeClaim, RangeClose,
       RangeEnd, DrainDone, CloseSwap, CloseCh, CloseWait, RangePick, StopUnchanged, workVars
  <2> QED
    BY <2>1 DEF Kept, Logged, Queued, Dispatching
<1>5. CASE UNCHANGED vars
  BY <1>5 DEF vars, workVars, Kept, Logged, Queued, Dispatching
<1> QED
  BY <1>2, <1>3, <1>4, <1>5

\* A worker that is not done is live, so a wait that succeeds leaves nothing owed.
LEMMA WaitedLogged ==
    ASSUME TypeOK, WgOK, wg = 0, NEW e \in Ref \X Msg, Kept(e) PROVE Logged(e)
<1>1. e[1] \in Ref /\ ~Live(e[1])
  BY WgZero
<1> QED
  BY <1>1 DEF Kept, Dispatching, Live, Serving

LEMMA LoggedStays ==
    ASSUME TypeOK, [Next]_vars, NEW e \in Ref \X Msg, Logged(e) PROVE Logged(e)'
<1>1. e[1] \in Ref /\ log[e[1]] \in Seq(Msg)
  BY DEF TypeOK, TypeWork
<1>2. ASSUME NEW r \in Ref, WorkerStep(r)
      PROVE  log'[e[1]] = log[e[1]] \/ \E m \in Msg : log'[e[1]] = Append(log[e[1]], m)
  <2>1. CASE WorkerRecv(r) \/ DrainRecv(r)
    <3>1. /\ mailbox[r.sub] \in Seq(Delivery) /\ mailbox[r.sub] # <<>>
          /\ log' = log \/ log' = [log EXCEPT ![r] = Append(@, Head(mailbox[r.sub]).msg)]
      BY <2>1 DEF WorkerRecv, DrainRecv, Take, TypeOK, TypeMailbox, Ref
    <3>2. \/ log'[e[1]] = log[e[1]]
          \/ log'[e[1]] = Append(log[e[1]], Head(mailbox[r.sub]).msg)
      BY <1>1, <3>1 DEF TypeOK, TypeWork
    <3>3. Head(mailbox[r.sub]).msg \in Msg
      <4>1. Head(mailbox[r.sub]) \in Delivery
        BY <3>1
      <4> QED
        BY <4>1 DEF Delivery
    <3> QED
      BY <3>2, <3>3
  <2>2. CASE ~WorkerRecv(r) /\ ~DrainRecv(r)
    BY <1>2, <2>2 DEF WorkerStep, WorkerHandled, WorkerStop, DiscardOne, MailboxEmpty,
       WorkerExit, WorkerRecycle, WorkerDone, workVars
  <2> QED
    BY <2>1, <2>2
<1>3. CASE ~WorkerNext
  BY <1>3 DEF Next, PublishNext, PublishStart, EnqueueCancelled, PublishStep, PublishLoad,
     EnqueueTry, EnqueueSend, EnqueueSkip, EnqueueBusClosed, PublishEnd, EnqueueCheck,
     CallerNext, SubscribeStart, UnsubStart, CallerStep, SubscribeGet,
     SubscribeRegister, SubscribeTrack, SubscribeRecheck, SubscribeSpawn, UndoTrack,
     UndoRegister, UndoRecycle, UnsubGenCheck, UnsubClaim, UnsubDereg, UnsubUntrack,
     UnsubStopClaim, UnsubStopClose,
     StopNext, StopStart, DrainTimeout, StopStep, DrainFlag, RangeClaim, RangeClose,
     RangeEnd, DrainDone, CloseSwap, CloseCh, CloseWait, RangePick, StopUnchanged, workVars,
     vars, Logged
<1>4. \A i \in DOMAIN log[e[1]] :
         (\E r \in Ref : WorkerStep(r)) => i \in DOMAIN log'[e[1]] /\ log'[e[1]][i] = log[e[1]][i]
  BY <1>1, <1>2
<1> QED
  BY <1>3, <1>4 DEF Logged, WorkerNext

\* Which steps touch what Owed says of a stopper.
LEMMA StopperFrame ==
    ASSUME TypeOK, [Next]_vars, NEW x \in Stoppers
    PROVE  /\ owed'[x] = owed[x] \/ DrainFlag(x)
           /\ stopOp'[x] = stopOp[x]
           /\ draining => draining'
           /\ x \in timedOut => x \in timedOut'
           /\ stopPc'[x] = "swap" =>
                 \/ stopPc[x] = "swap"
                 \/ stopOp[x] = "Close"
                 \/ x \in timedOut'
                 \/ wg = 0 /\ wg' = wg /\ log' = log /\ owed' = owed
<1>1. ASSUME NEW y \in Stoppers, StopStart(y) \/ DrainTimeout(y) \/ StopStep(y)
      PROVE  /\ owed'[x] = owed[x] \/ DrainFlag(x)
             /\ stopOp' = stopOp /\ (draining => draining') /\ timedOut \subseteq timedOut'
  BY <1>1 DEF StopStart, DrainTimeout, StopStep, DrainFlag, RangeClaim, RangeClose,
     RangeEnd, DrainDone, CloseSwap, CloseCh, CloseWait, RangePick, busVars, TypeOK, TypeStop
<1>2. ASSUME NEW y \in Stoppers, StopStart(y) \/ DrainTimeout(y) \/ StopStep(y),
             stopPc'[x] = "swap", stopPc[x] # "swap"
      PROVE  \/ stopOp[x] = "Close"
             \/ x \in timedOut'
             \/ wg = 0 /\ wg' = wg /\ log' = log /\ owed' = owed
  <2>1. y = x
    BY <1>2 DEF StopStart, DrainTimeout, StopStep, DrainFlag, RangeClaim, RangeClose,
       RangeEnd, DrainDone, CloseSwap, CloseCh, CloseWait, RangePick, StopGoto,
       BackToRange, TypeOK, TypeStop
  <2>2. stopOp[x] \in {"Close", "Drain"}
    BY BoundsAssumption DEF TypeOK, TypeStop
  <2>3. CASE StopStart(x)
    BY <1>2, <2>2, <2>3 DEF StopStart, StopGoto, TypeOK, TypeStop
  <2>4. CASE DrainTimeout(x)
    BY <2>4 DEF DrainTimeout
  <2>5. CASE StopStep(x)
    <3>1. DrainDone(x)
      BY <1>2, <2>5 DEF StopStep, DrainFlag, RangeClaim, RangeClose, RangeEnd, CloseSwap,
         CloseCh, CloseWait, RangePick, StopGoto, BackToRange, TypeOK, TypeStop
    <3> QED
      BY <3>1 DEF DrainDone, StopUnchanged, workVars
  <2> QED
    BY <1>2, <2>1, <2>3, <2>4, <2>5
<1>3. CASE ~StopNext
  <2>1. UNCHANGED <<stopPc, stopOp, timedOut, owed, draining>>
    BY <1>3 DEF Next, PublishNext, PublishStart, EnqueueCancelled, PublishStep, PublishLoad,
       EnqueueTry, EnqueueSend, EnqueueSkip, EnqueueBusClosed, PublishEnd, EnqueueCheck,
       CallerNext, SubscribeStart, UnsubStart, CallerStep, SubscribeGet,
       SubscribeRegister, SubscribeTrack, SubscribeRecheck, SubscribeSpawn, UndoTrack,
       UndoRegister, UndoRecycle, UnsubGenCheck, UnsubClaim, UnsubDereg, UnsubUntrack,
       UnsubStopClaim, UnsubStopClose, WorkerNext, WorkerStep, WorkerRecv, WorkerHandled,
       WorkerStop, DrainRecv, DiscardOne, MailboxEmpty, WorkerExit, WorkerRecycle,
       WorkerDone, busVars, stopVars, vars
  <2> QED
    BY <2>1
<1> QED
  BY <1>1, <1>2, <1>3 DEF StopNext

LEMMA OwedStep ==
    ASSUME TypeOK, SoleOwner, Fresh, WgOK, Owed, [Next]_vars PROVE Owed'
<1> SUFFICES ASSUME NEW x \in Stoppers
             PROVE  /\ owed'[x] # {} => draining'
                    /\ \A e \in owed'[x] : Kept(e)'
                    /\ stopPc'[x] = "swap" /\ stopOp'[x] = "Drain" /\ x \notin timedOut' =>
                          \A e \in owed'[x] : Logged(e)'
  BY DEF Owed
<1>1. owed[x] \subseteq Ref \X Msg
  BY DEF TypeOK, TypeStop
<1>2. CASE DrainFlag(x)
  <2>1. /\ draining' /\ stopPc'[x] = "drainRange" /\ UNCHANGED <<mailbox, log, wpc>>
        /\ owed'[x] = {e \in Ref \X Msg : Awaits(e[1], e[2])}
    BY <1>2 DEF DrainFlag, StopUnchanged, StopGoto, workVars, TypeOK, TypeStop
  <2>2. \A e \in owed'[x] : Kept(e)'
    BY <2>1 DEF Awaits, Kept, Queued, Dispatching
  <2> QED
    BY <2>1, <2>2
<1>3. CASE owed'[x] = owed[x]
  <2>1. owed'[x] # {} => draining'
    BY <1>3, StopperFrame DEF Owed
  <2>2. ASSUME NEW e \in owed[x] PROVE Kept(e)'
    <3>1. e \in Ref \X Msg /\ Kept(e) /\ draining
      BY <1>1, <2>2 DEF Owed
    <3>2. CASE WorkerNext
      BY <3>1, <3>2, WorkerKeeps DEF WorkerNext
    <3>3. CASE PublishNext \/ CallerNext \/ StopNext \/ UNCHANGED vars
      BY <3>1, <3>3, OthersKeep
    <3> QED
      BY <3>2, <3>3 DEF Next
  <2>3. ASSUME NEW e \in owed[x], stopPc'[x] = "swap", stopOp'[x] = "Drain",
               x \notin timedOut'
        PROVE  Logged(e)'
    <3>1. e \in Ref \X Msg /\ Kept(e)
      BY <1>1, <2>3 DEF Owed
    <3>2. \/ stopPc[x] = "swap" /\ stopOp[x] = "Drain" /\ x \notin timedOut
          \/ wg = 0 /\ log' = log
      BY <2>3, StopperFrame
    <3>3. Logged(e)
      BY <3>1, <3>2, WaitedLogged DEF Owed
    <3> QED
      BY <3>1, <3>3, LoggedStays
  <2> QED
    BY <1>3, <2>1, <2>2, <2>3
<1> QED
  BY <1>2, <1>3, StopperFrame

\* A Drain whose wait succeeded has had everything handled that was queued for
\* live subscriptions when it stopped the intake, for any number of Close and
\* Drain calls at the same time.
THEOREM DrainCorrect == Spec => []DrainHandlesQueued
<1>1. Init => Owed
  BY DEF Init, Owed
<1>2. Owed => DrainHandlesQueued
  BY DEF Owed, Logged, DrainHandlesQueued
<1> QED
  BY <1>1, <1>2, OwedStep, TypeCorrect, OwnershipCorrect, FreshCorrect, WgInvariant, PTL
  DEF Spec

-------------------------------------------------------------------------------
(* Live subscriptions, and ended ones *)

Ending(c) == callerPc[c] \in {"genCheck", "claim", "dereg", "untrack", "stopClaim",
                             "stopClose"}

\* Each handle is unsubscribed by at most one call.
AskedOK ==
    /\ unsubbed \subseteq asked /\ asked \subseteq handles
    /\ \A c \in Callers : Ending(c) => callerRef[c] \in asked \ unsubbed
    /\ \A c, d \in Callers :
          Ending(c) /\ Ending(d) /\ callerRef[c] = callerRef[d] => c = d

\* A Close or Drain that ranges over the subscriptions has set its flag.
FlagOK == \A x \in Stoppers :
    stopPc[x] \notin {"idle", "drainFlag", "swap", "done"} => Stopping

\* Before the bus stops: what a subscription in the making, a live one, one that
\* is being ended and one that has ended find in the shared state.
Tidy ==
    /\ \A r \in handles \ unsubbed : r \notin stopped /\ wpc[r] \in {"run", "handle"}
    /\ \A r \in handles \ asked :
          r \in reg /\ r.sub \in active /\ ~once[r.sub] /\ ~stopClosed[r.sub]
    /\ \A r \in unsubbed : r \notin reg /\ r \in stopped
    /\ \A c \in Callers : Building(c) =>
          /\ callerPc[c] \notin {"undoTrack", "undoReg", "undoPool"}
          /\ callerRef[c] \notin stopped
          /\ ~once[callerRef[c].sub] /\ ~stopClosed[callerRef[c].sub]
          /\ callerPc[c] # "register" => callerRef[c] \in reg
          /\ callerPc[c] \in {"recheck", "spawn"} => callerRef[c].sub \in active
    /\ \A c \in Callers : Ending(c) =>
          /\ callerPc[c] \in {"genCheck", "claim"} => ~once[callerRef[c].sub]
          /\ callerPc[c] # "stopClose" => ~stopClosed[callerRef[c].sub]
          /\ callerPc[c] \in {"untrack", "stopClaim", "stopClose"} => callerRef[c] \notin reg

\* The structs of live subscriptions and of those in the making are distinct.
LEMMA Apart ==
    ASSUME TypeOK, SoleOwner, AskedOK, Tidy
    PROVE  /\ \A q, r \in handles \ unsubbed : q.sub = r.sub => q = r
           /\ \A r \in handles \ unsubbed :
                 r \in Ref /\ r.sub \in Subs /\ gen[r.sub] = r.gen /\ r.sub \notin pool
           /\ \A c \in Callers : Building(c) =>
                 callerRef[c] \in Ref /\ callerRef[c].sub \in Subs
           /\ \A c \in Callers, r \in handles \ unsubbed :
                 Building(c) => callerRef[c].sub # r.sub
           /\ \A c \in Callers : Ending(c) => callerRef[c] \in handles \ unsubbed
<1>1. \A r \in handles \ unsubbed : r \in Ref /\ r.sub \in Subs /\ Serving(r)
  BY DEF TypeOK, TypeCaller, Tidy, Serving, Ref
<1>2. \A c \in Callers : Building(c) => callerRef[c] \in Ref /\ callerRef[c].sub \in Subs
  BY DEF TypeOK, TypeCaller, Building, Ref
<1>3. \A c \in Callers : Ending(c) => callerRef[c] \in handles \ unsubbed
  BY DEF AskedOK
<1> QED
  BY <1>1, <1>2, <1>3, SoleWorker DEF SoleOwner

\* A caller's step moves nobody else.
LEMMA CallerFrame ==
    ASSUME TypeOK, NEW c \in Callers,
           SubscribeStart(c) \/ (\E r \in Ref : UnsubStart(c, r)) \/ CallerStep(c)
    PROVE  /\ \A d \in Callers : d # c =>
                 callerPc'[d] = callerPc[d] /\ callerRef'[d] = callerRef[d]
           /\ UNCHANGED <<closed, draining>>
BY DEF SubscribeStart, UnsubStart, CallerStep, SubscribeGet, SubscribeRegister, SubscribeTrack,
   SubscribeRecheck, SubscribeSpawn, UndoTrack, UndoRegister, UndoRecycle, UnsubGenCheck,
   UnsubClaim, UnsubDereg, UnsubUntrack, UnsubStopClaim, UnsubStopClose, UnsubReturn, Return,
   Goto, TypeOK, TypeCaller, busVars

LEMMA AskedStep ==
    ASSUME TypeOK, AskedOK, RepeatUnsubscribe = FALSE, [Next]_vars PROVE AskedOK'
<1>1. ASSUME NEW c \in Callers, NEW r \in Ref, UnsubStart(c, r) PROVE AskedOK'
  <2>1. /\ r \in handles \ asked /\ asked' = asked \cup {r}
        /\ callerRef'[c] = r /\ callerPc'[c] = "genCheck" /\ UNCHANGED <<handles, unsubbed>>
    BY <1>1 DEF UnsubStart, Goto, TypeOK, TypeCaller
  <2> QED
    BY <1>1, <2>1, CallerFrame DEF AskedOK, Ending
<1>2. ASSUME NEW c \in Callers, SubscribeStart(c) \/ CallerStep(c) PROVE AskedOK'
  <2>1. asked' = asked /\ handles \subseteq handles'
    BY <1>2 DEF SubscribeStart, CallerStep, SubscribeGet, SubscribeRegister, SubscribeTrack,
       SubscribeRecheck, SubscribeSpawn, UndoTrack, UndoRegister, UndoRecycle, UnsubGenCheck,
       UnsubClaim, UnsubDereg, UnsubUntrack, UnsubStopClaim, UnsubStopClose
  <2>2. \/ /\ unsubbed' = unsubbed
           /\ Ending(c)' => Ending(c) /\ callerRef'[c] = callerRef[c]
        \/ Ending(c) /\ ~Ending(c)' /\ unsubbed' = unsubbed \cup {callerRef[c]}
    BY <1>2 DEF SubscribeStart, CallerStep, SubscribeGet, SubscribeRegister, SubscribeTrack,
       SubscribeRecheck, SubscribeSpawn, UndoTrack, UndoRegister, UndoRecycle, UnsubGenCheck,
       UnsubClaim, UnsubDereg, UnsubUntrack, UnsubStopClaim, UnsubStopClose, UnsubReturn,
       Return, Goto, Ending, TypeOK, TypeCaller
  <2> QED
    BY <1>2, <2>1, <2>2, CallerFrame DEF AskedOK, Ending
<1>3. CASE ~CallerNext
  <2>1. UNCHANGED <<asked, handles, unsubbed, callerPc, callerRef>>
    BY <1>3 DEF Next, PublishNext, PublishStart, EnqueueCancelled, PublishStep, PublishLoad,
       EnqueueTry, EnqueueSend, EnqueueSkip, EnqueueBusClosed, PublishEnd, EnqueueCheck,
       WorkerNext, WorkerStep, WorkerRecv, WorkerHandled, WorkerStop, DrainRecv, DiscardOne,
       MailboxEmpty, WorkerExit, WorkerRecycle, WorkerDone,
       StopNext, StopStart, DrainTimeout, StopStep, DrainFlag, RangeClaim, RangeClose,
       RangeEnd, DrainDone, CloseSwap, CloseCh, CloseWait, RangePick, StopUnchanged,
       callVars, vars
  <2> QED
    BY <2>1 DEF AskedOK, Ending
<1> QED
  BY <1>1, <1>2, <1>3 DEF CallerNext

LEMMA FlagStep == ASSUME TypeOK, FlagOK, [Next]_vars PROVE FlagOK' /\ (Stopping => Stopping')
<1>1. ASSUME NEW y \in Stoppers, StopStart(y) \/ DrainTimeout(y) \/ StopStep(y)
      PROVE  FlagOK' /\ (Stopping => Stopping')
  <2>1. Stopping => Stopping'
    BY <1>1 DEF StopStart, DrainTimeout, StopStep, DrainFlag, RangeClaim, RangeClose,
       RangeEnd, DrainDone, CloseSwap, CloseCh, CloseWait, RangePick, busVars, Stopping
  <2>2. \A x \in Stoppers : x # y => stopPc'[x] = stopPc[x]
    BY <1>1 DEF StopStart, DrainTimeout, StopStep, DrainFlag, RangeClaim, RangeClose,
       RangeEnd, DrainDone, CloseSwap, CloseCh, CloseWait, RangePick, StopGoto,
       BackToRange, TypeOK, TypeStop
  <2>3. stopPc'[y] \in {"idle", "drainFlag", "swap", "done"} \/ Stopping'
    <3>1. CASE StopStart(y)
      BY <3>1, BoundsAssumption DEF StopStart, StopGoto, TypeOK, TypeStop
    <3>2. CASE DrainFlag(y) \/ CloseSwap(y) \/ DrainDone(y) \/ DrainTimeout(y)
      BY <3>2 DEF DrainFlag, CloseSwap, DrainDone, DrainTimeout, StopGoto, Stopping, TypeOK,
         TypeStop
    <3>3. CASE ~StopStart(y) /\ ~DrainFlag(y) /\ ~CloseSwap(y) /\ ~DrainDone(y)
               /\ ~DrainTimeout(y)
      <4>1. stopPc[y] \notin {"idle", "drainFlag", "swap", "done"}
        BY <1>1, <3>3 DEF StopStep, RangeClaim, RangeClose, RangeEnd, CloseCh, CloseWait, RangePick
      <4> QED
        BY <2>1, <4>1 DEF FlagOK
    <3> QED
      BY <3>1, <3>2, <3>3
  <2> QED
    BY <2>1, <2>2, <2>3 DEF FlagOK
<1>2. CASE ~StopNext
  <2>1. UNCHANGED <<stopPc, closed, draining>>
    BY <1>2 DEF Next, PublishNext, PublishStart, EnqueueCancelled, PublishStep, PublishLoad,
       EnqueueTry, EnqueueSend, EnqueueSkip, EnqueueBusClosed, PublishEnd, EnqueueCheck,
       CallerNext, SubscribeStart, UnsubStart, CallerStep, SubscribeGet,
       SubscribeRegister, SubscribeTrack, SubscribeRecheck, SubscribeSpawn, UndoTrack,
       UndoRegister, UndoRecycle, UnsubGenCheck, UnsubClaim, UnsubDereg, UnsubUntrack,
       UnsubStopClaim, UnsubStopClose, WorkerNext, WorkerStep, WorkerRecv, WorkerHandled,
       WorkerStop, DrainRecv, DiscardOne, MailboxEmpty, WorkerExit, WorkerRecycle,
       WorkerDone, busVars, stopVars, vars
  <2> QED
    BY <2>1 DEF FlagOK, Stopping
<1> QED
  BY <1>1, <1>2 DEF StopNext

\* Steps that leave alone what Tidy is about.
LEMMA TidyQuiet ==
    ASSUME Tidy, UNCHANGED <<handles, asked, unsubbed, reg, active, stopped, once, stopClosed>>,
           \A r \in handles \ unsubbed : wpc'[r] \in {"run", "handle"},
           \A d \in Callers : callerPc'[d] # callerPc[d] => callerPc'[d] \in {"idle", "get"},
           \A d \in Callers : callerRef'[d] # callerRef[d] => callerPc'[d] \in {"idle", "get"}
    PROVE  Tidy'
<1>1. \A d \in Callers : (Building(d)' \/ Ending(d)') =>
         callerPc'[d] = callerPc[d] /\ callerRef'[d] = callerRef[d]
  BY DEF Building, Ending
<1>2. \A d \in Callers : (Building(d)' => Building(d)) /\ (Ending(d)' => Ending(d))
  BY <1>1 DEF Building, Ending
<1> QED
  BY <1>1, <1>2 DEF Tidy

LEMMA TidyWorker ==
    ASSUME TypeOK, Tidy, NEW q \in Ref, WorkerStep(q) PROVE Tidy'
<1>1. UNCHANGED <<handles, asked, unsubbed, reg, active, stopped, once, stopClosed, callerPc,
                  callerRef>>
  BY DEF WorkerStep, WorkerRecv, WorkerHandled, WorkerStop, DrainRecv, DiscardOne,
     MailboxEmpty, WorkerExit, WorkerRecycle, WorkerDone, subVars, callVars, listVars
<1>2. \A r \in Ref : r # q => wpc'[r] = wpc[r]
  BY DEF WorkerStep, WorkerRecv, WorkerHandled, WorkerStop, DrainRecv, DiscardOne,
     MailboxEmpty, WorkerExit, WorkerRecycle, WorkerDone, WorkerGoto, Take, workVars,
     TypeOK, TypeWork
<1>3. wpc[q] \in {"run", "handle"} /\ q \notin stopped => wpc'[q] \in {"run", "handle"}
  BY DEF WorkerStep, WorkerRecv, WorkerHandled, WorkerStop, DrainRecv, DiscardOne,
     MailboxEmpty, WorkerExit, WorkerRecycle, WorkerDone, WorkerGoto, Take, workVars,
     TypeOK, TypeWork
<1>4. \A r \in handles \ unsubbed : wpc'[r] \in {"run", "handle"}
  BY <1>2, <1>3 DEF Tidy, TypeOK, TypeCaller
<1> QED
  BY <1>1, <1>4, TidyQuiet

\* A stopper that has not set its flag changes nothing here.
LEMMA TidyOthers ==
    ASSUME TypeOK, FlagOK, Tidy, ~Stopping', PublishNext \/ StopNext \/ UNCHANGED vars
    PROVE  Tidy'
<1>1. CASE PublishNext \/ UNCHANGED vars
  <2>1. UNCHANGED <<handles, asked, unsubbed, reg, active, stopped, once, stopClosed, callerPc,
                    callerRef, wpc>>
    BY <1>1 DEF PublishNext, PublishStart, EnqueueCancelled, PublishStep, PublishLoad,
       EnqueueTry, EnqueueSend, EnqueueSkip, EnqueueBusClosed, PublishEnd, EnqueueCheck,
       subVars, callVars, workVars, listVars, vars
  <2>2. \A r \in handles \ unsubbed : wpc'[r] \in {"run", "handle"}
    BY <2>1 DEF Tidy
  <2> QED
    BY <2>1, <2>2, TidyQuiet
<1>2. ASSUME NEW y \in Stoppers, StopStart(y) \/ DrainTimeout(y) \/ StopStep(y)
      PROVE  Tidy'
  <2>1. ~Stopping /\ [Next]_vars
    BY <1>2, FlagStep DEF Next, StopNext
  <2>2. stopPc[y] \in {"idle", "drainFlag", "swap", "done"}
    BY <2>1 DEF FlagOK
  <2>3. ~RangeClaim(y) /\ ~RangeClose(y)
    BY <2>2 DEF RangeClaim, RangeClose
  <2>4. UNCHANGED <<handles, asked, unsubbed, reg, active, stopped, once, stopClosed, callerPc,
                    callerRef, wpc>>
    BY <1>2, <2>3 DEF StopStart, DrainTimeout, StopStep, DrainFlag, RangeEnd, DrainDone,
       CloseSwap, CloseCh, CloseWait, RangePick, StopUnchanged, subVars, callVars, workVars,
       listVars
  <2>5. \A r \in handles \ unsubbed : wpc'[r] \in {"run", "handle"}
    BY <2>4 DEF Tidy
  <2> QED
    BY <2>4, <2>5, TidyQuiet
<1> QED
  BY <1>1, <1>2 DEF StopNext

\* Subscribe.
LEMMA TidySubscribe ==
    ASSUME TypeOK, SoleOwner, Fresh, AskedOK, Tidy, ~Stopping, NEW c \in Callers,
           SubscribeStart(c) \/ (\E s \in Subs : SubscribeGet(c, s)) \/ SubscribeRegister(c)
           \/ SubscribeTrack(c) \/ SubscribeRecheck(c) \/ SubscribeSpawn(c)
           \/ UndoTrack(c) \/ UndoRegister(c) \/ UndoRecycle(c)
    PROVE  Tidy'
<1> USE BoundsAssumption
<1> DEFINE q == callerRef[c]
<1>0. [Next]_vars
  BY DEF Next, CallerNext, CallerStep
<1>1. CASE SubscribeStart(c)
  <2>1. UNCHANGED <<handles, asked, unsubbed, reg, active, stopped, once, stopClosed, callerRef,
                    wpc>> /\ callerPc' = [callerPc EXCEPT ![c] = "get"]
    BY <1>1 DEF SubscribeStart, Goto, subVars, listVars, workVars
  <2>2. \A r \in handles \ unsubbed : wpc'[r] \in {"run", "handle"}
    BY <2>1 DEF Tidy
  <2>3. \A d \in Callers : callerPc'[d] # callerPc[d] => callerPc'[d] \in {"idle", "get"}
    BY <2>1 DEF TypeOK, TypeCaller
  <2> QED
    BY <2>1, <2>2, <2>3, TidyQuiet
<1>2. ASSUME NEW s \in Subs, SubscribeGet(c, s) PROVE Tidy'
  <2> DEFINE p == [sub |-> s, gen |-> gen[s] + 1]
  <2>1. /\ callerPc'[c] = "register" /\ callerRef'[c] = p
        /\ once' = [once EXCEPT ![s] = FALSE] /\ stopClosed' = [stopClosed EXCEPT ![s] = FALSE]
        /\ UNCHANGED <<handles, asked, unsubbed, reg, active, stopped, wpc>>
        /\ gen[s] < MaxGen /\ (s \in pool \/ gen[s] = 0)
    BY <1>2 DEF SubscribeGet, Goto, listVars, workVars, TypeOK, TypeCaller
  <2>2. p \in Ref /\ p.sub = s /\ p.gen > gen[s] /\ p \notin stopped
    BY <2>1 DEF Ref, TypeOK, TypeSub, Fresh
  <2>3. /\ once'[s] = FALSE /\ stopClosed'[s] = FALSE
        /\ \A t \in Subs : t # s => once'[t] = once[t] /\ stopClosed'[t] = stopClosed[t]
    BY <2>1 DEF TypeOK, TypeSub
  <2>4. \A t \in Subs : ~once[t] => ~once'[t]
    BY <2>3
  <2>5. \A t \in Subs : ~stopClosed[t] => ~stopClosed'[t]
    BY <2>3
  <2>6. \A d \in Callers : d # c => callerPc'[d] = callerPc[d] /\ callerRef'[d] = callerRef[d]
    BY <1>2, CallerFrame DEF CallerStep
  <2> QED
    BY <2>1, <2>2, <2>3, <2>4, <2>5, <2>6, Apart DEF Tidy, Building, Ending
<1>3. CASE SubscribeRegister(c) \/ SubscribeTrack(c) \/ SubscribeRecheck(c)
  <2>1. /\ Building(c) /\ Building(c)' /\ ~Ending(c)' /\ q \in Ref /\ callerRef' = callerRef
        /\ reg \subseteq reg' /\ reg' \subseteq reg \cup {q} /\ active \subseteq active'
        /\ callerPc'[c] \in {"track", "recheck", "spawn"}
        /\ UNCHANGED <<handles, asked, unsubbed, stopped, wpc, once, stopClosed>>
    BY <1>3 DEF SubscribeRegister, SubscribeTrack, SubscribeRecheck, Goto, Building, Ending,
       subVars, listVars, workVars, TypeOK, TypeCaller
  <2>2. q \in reg' /\ (callerPc'[c] # "track" => q.sub \in active')
    BY <1>3 DEF SubscribeRegister, SubscribeTrack, SubscribeRecheck, Goto, Building,
       subVars, listVars, workVars, TypeOK, TypeCaller, Tidy
  <2>3. \A d \in Callers : d # c => callerPc'[d] = callerPc[d]
    BY <1>3, CallerFrame DEF CallerStep
  <2>4. q \notin handles /\ \A d \in Callers : Ending(d) => callerRef[d] \in handles
    BY <2>1 DEF Fresh, AskedOK
  <2>5. \A d \in Callers : Ending(d)' => Ending(d) /\ d # c /\ callerRef[d] # q
    BY <2>1, <2>3, <2>4 DEF Ending
  <2> QED
    BY <2>1, <2>2, <2>3, <2>4, <2>5 DEF Tidy, Building, Ending, AskedOK
<1>4. CASE SubscribeSpawn(c)
  <2>1. /\ Building(c) /\ callerPc[c] = "spawn" /\ callerPc'[c] = "idle" /\ q \in Ref
        /\ handles' = handles \cup {q} /\ wpc' = [wpc EXCEPT ![q] = "run"]
        /\ UNCHANGED <<asked, unsubbed, reg, active, stopped, once, stopClosed>>
    BY <1>4 DEF SubscribeSpawn, Return, Goto, Building, subVars, listVars, TypeOK, TypeCaller
  <2>2. wpc'[q] = "run" /\ \A r \in Ref : wpc[r] \in {"run", "handle"} => wpc'[r] \in {"run", "handle"}
    BY <2>1 DEF TypeOK, TypeWork
  <2>3. \A d \in Callers : d # c => callerPc'[d] = callerPc[d] /\ callerRef'[d] = callerRef[d]
    BY <1>4, CallerFrame DEF CallerStep
  <2>4. handles \subseteq Ref
    BY DEF TypeOK, TypeCaller
  <2> QED
    BY <2>1, <2>2, <2>3, <2>4 DEF Tidy, Building, Ending
<1>5. CASE UndoTrack(c) \/ UndoRegister(c) \/ UndoRecycle(c)
  BY <1>5 DEF UndoTrack, UndoRegister, UndoRecycle, Tidy, Building
<1> QED
  BY <1>1, <1>2, <1>3, <1>4, <1>5

\* Unsubscribe.
LEMMA TidyUnsubscribe ==
    ASSUME TypeOK, SoleOwner, Fresh, AskedOK, Tidy, RepeatUnsubscribe = FALSE,
           NEW c \in Callers,
           (\E r \in Ref : UnsubStart(c, r)) \/ UnsubGenCheck(c) \/ UnsubClaim(c)
           \/ UnsubDereg(c) \/ UnsubUntrack(c) \/ UnsubStopClaim(c) \/ UnsubStopClose(c)
    PROVE  Tidy'
<1> DEFINE q == callerRef[c]
<1>1. \A d \in Callers : d # c => callerPc'[d] = callerPc[d] /\ callerRef'[d] = callerRef[d]
  BY CallerFrame DEF CallerStep
<1>2. ASSUME NEW r \in Ref, UnsubStart(c, r) PROVE Tidy'
  <2>1. /\ r \in handles \ asked /\ asked' = asked \cup {r}
        /\ callerRef'[c] = r /\ callerPc'[c] = "genCheck"
        /\ UNCHANGED <<handles, unsubbed, reg, active, stopped, once, stopClosed, wpc>>
    BY <1>2 DEF UnsubStart, Goto, subVars, listVars, workVars, TypeOK, TypeCaller
  <2> QED
    BY <1>1, <2>1 DEF Tidy, Building, Ending
<1>3. CASE ~\E r \in Ref : UnsubStart(c, r)
  <2>1. /\ Ending(c) /\ q \in asked \ unsubbed /\ q \in handles /\ q \in Ref /\ q.sub \in Subs
        /\ gen[q.sub] = q.gen
    BY <1>3, Apart DEF UnsubGenCheck, UnsubClaim, UnsubDereg, UnsubUntrack, UnsubStopClaim,
       UnsubStopClose, Ending, AskedOK
  <2>2. \A r \in handles \ unsubbed : r # q => r.sub # q.sub /\ r.sub \in Subs
    BY <2>1, Apart
  <2>3. \A d \in Callers : Building(d) => callerRef[d].sub # q.sub /\ callerRef[d].sub \in Subs
    BY <2>1, Apart
  <2>4. \A d \in Callers : d # c /\ Ending(d) =>
           callerRef[d] # q /\ callerRef[d].sub # q.sub /\ callerRef[d].sub \in Subs
    BY <2>1, <2>2, Apart DEF AskedOK
  <2>5. \A r \in handles \ asked : r.sub # q.sub /\ r.sub \in Subs /\ r # q /\ r \notin unsubbed
    BY <2>1, <2>2 DEF AskedOK
  <2>6. CASE UnsubGenCheck(c)
    <3>1. /\ callerPc[c] = "genCheck" /\ callerPc'[c] = "claim" /\ callerRef'[c] = q
          /\ UNCHANGED <<handles, asked, unsubbed, reg, active, stopped, once, stopClosed, wpc>>
      BY <2>1, <2>6 DEF UnsubGenCheck, Goto, subVars, listVars, workVars, TypeOK, TypeCaller
    <3> QED
      BY <1>1, <2>1, <3>1 DEF Tidy, Building, Ending
  <2>7. CASE UnsubClaim(c)
    <3>1. /\ callerPc[c] = "claim" /\ callerPc'[c] = "dereg" /\ callerRef'[c] = q
          /\ \A t \in Subs : t # q.sub => once'[t] = once[t]
          /\ UNCHANGED <<handles, asked, unsubbed, reg, active, stopped, stopClosed, wpc>>
      BY <2>1, <2>7 DEF UnsubClaim, Goto, listVars, workVars, TypeOK, TypeCaller, TypeSub, Tidy
    <3> QED
      BY <1>1, <2>1, <2>3, <2>4, <2>5, <3>1 DEF Tidy, Building, Ending
  <2>8. CASE UnsubDereg(c)
    <3>1. /\ callerPc[c] = "dereg" /\ callerPc'[c] = "untrack" /\ callerRef'[c] = q
          /\ reg' = reg \ {q}
          /\ UNCHANGED <<handles, asked, unsubbed, active, stopped, once, stopClosed, wpc>>
      BY <2>8 DEF UnsubDereg, Goto, subVars, workVars, TypeOK, TypeCaller
    <3> QED
      BY <1>1, <2>1, <2>3, <2>4, <2>5, <3>1 DEF Tidy, Building, Ending
  <2>9. CASE UnsubUntrack(c)
    <3>1. /\ callerPc[c] = "untrack" /\ callerPc'[c] = "stopClaim" /\ callerRef'[c] = q
          /\ active' = active \ {q.sub}
          /\ UNCHANGED <<handles, asked, unsubbed, reg, stopped, once, stopClosed, wpc>>
      BY <2>9 DEF UnsubUntrack, Untrack, Goto, subVars, workVars, TypeOK, TypeCaller
    <3> QED
      BY <1>1, <2>1, <2>3, <2>4, <2>5, <3>1 DEF Tidy, Building, Ending
  <2>10. CASE UnsubStopClaim(c)
    <3>1. /\ callerPc[c] = "stopClaim" /\ callerPc'[c] = "stopClose" /\ callerRef'[c] = q
          /\ \A t \in Subs : t # q.sub => stopClosed'[t] = stopClosed[t]
          /\ UNCHANGED <<handles, asked, unsubbed, reg, active, stopped, once, wpc>>
      BY <2>1, <2>10 DEF UnsubStopClaim, Goto, listVars, workVars, TypeOK, TypeCaller, TypeSub,
         Tidy
    <3> QED
      BY <1>1, <2>1, <2>3, <2>4, <2>5, <3>1 DEF Tidy, Building, Ending
  <2>11. CASE UnsubStopClose(c)
    <3>1. CurrentRef(q.sub) = q
      BY <2>1 DEF CurrentRef, Ref
    <3>2. /\ callerPc[c] = "stopClose" /\ callerPc'[c] = "idle"
          /\ stopped' = stopped \cup {q} /\ unsubbed' = unsubbed \cup {q}
          /\ UNCHANGED <<handles, asked, reg, active, stopClosed, once, wpc>>
      BY <2>1, <2>11, <3>1 DEF UnsubStopClose, CloseChannel, UnsubReturn, Return, Goto, listVars,
         workVars, TypeOK, TypeCaller, Tidy
    <3>3. q \notin reg
      BY <2>1, <3>2 DEF Tidy
    <3> QED
      BY <1>1, <2>1, <2>3, <2>4, <2>5, <3>2, <3>3 DEF Tidy, Building, Ending
  <2> QED
    BY <1>3, <2>6, <2>7, <2>8, <2>9, <2>10, <2>11
<1> QED
  BY <1>2, <1>3

\* While the bus does not stop, Tidy is kept.
LEMMA TidyStep ==
    ASSUME TypeOK, SoleOwner, Fresh, AskedOK, FlagOK, RepeatUnsubscribe = FALSE,
           ~Stopping => Tidy, [Next]_vars
    PROVE  ~Stopping' => Tidy'
<1> SUFFICES ASSUME ~Stopping' PROVE Tidy'
  OBVIOUS
<1>1. ~Stopping /\ Tidy
  BY FlagStep
<1>2. CASE WorkerNext
  BY <1>1, <1>2, TidyWorker DEF WorkerNext
<1>3. CASE PublishNext \/ StopNext \/ UNCHANGED vars
  BY <1>1, <1>3, TidyOthers
<1>4. CASE CallerNext
  BY <1>1, <1>4, TidySubscribe, TidyUnsubscribe DEF CallerNext, CallerStep
<1> QED
  BY <1>2, <1>3, <1>4 DEF Next

LEMMA TidyInvariant ==
    ASSUME RepeatUnsubscribe = FALSE
    PROVE  Spec => [](AskedOK /\ FlagOK /\ (~Stopping => Tidy))
<1> DEFINE TInv == AskedOK /\ FlagOK /\ (~Stopping => Tidy)
<1>1. Init => TInv
  BY DEF Init, AskedOK, FlagOK, Tidy, Building, Ending
<1>2. TypeOK /\ SoleOwner /\ Fresh /\ TInv /\ [Next]_vars => TInv'
  <2> SUFFICES ASSUME TypeOK, SoleOwner, Fresh, AskedOK, FlagOK, ~Stopping => Tidy, [Next]_vars
               PROVE  AskedOK' /\ FlagOK' /\ (~Stopping' => Tidy')
    OBVIOUS
  <2>1. AskedOK'
    BY AskedStep
  <2>2. FlagOK'
    BY FlagStep
  <2>3. ~Stopping' => Tidy'
    BY TidyStep
  <2> QED
    BY <2>1, <2>2, <2>3
<1> QED
  BY <1>1, <1>2, TypeCorrect, OwnershipCorrect, FreshCorrect, PTL DEF Spec

\* When no handle is unsubscribed twice, a subscription nobody asked to end stays
\* registered, tracked and served until the bus stops.
THEOREM LiveCorrect ==
    ASSUME RepeatUnsubscribe = FALSE
    PROVE  Spec => []LiveUntilAsked
<1>1. AskedOK /\ (~Stopping => Tidy) => LiveUntilAsked
  BY DEF AskedOK, Tidy, LiveUntilAsked
<1> QED
  BY <1>1, TidyInvariant, PTL

\* When no handle is unsubscribed twice, no stop channel is closed twice before a
\* Close or Drain has begun: Unsubscribe and recycling alone never panic.
THEOREM DoubleCloseNeedsStop ==
    ASSUME RepeatUnsubscribe = FALSE
    PROVE  Spec => [](~Stopping => NoDoubleClose)
<1> DEFINE PInv == ~Stopping => NoDoubleClose
<1>1. Init => PInv
  BY DEF Init, NoDoubleClose, Panicked
<1>2. TypeOK /\ SoleOwner /\ Fresh /\ AskedOK /\ FlagOK /\ FlagOK' /\ (~Stopping => Tidy)
      /\ PInv /\ [Next]_vars => PInv'
  <2> SUFFICES ASSUME TypeOK, SoleOwner, AskedOK, FlagOK, FlagOK', ~Stopping => Tidy, PInv,
                      [Next]_vars, ~Stopping'
               PROVE  ~Panicked'
    BY DEF NoDoubleClose
  <2>1. ~Stopping /\ Tidy /\ ~Panicked
    BY FlagStep DEF NoDoubleClose
  <2>2. \A x \in Stoppers : stopPc'[x] # "panicked"
    BY DEF FlagOK
  <2>3. ASSUME NEW c \in Callers, UnsubStopClose(c) PROVE callerPc'[c] # "panicked"
    <3>1. callerRef[c] \in Ref /\ callerRef[c] \notin stopped
          /\ gen[callerRef[c].sub] = callerRef[c].gen
      BY <2>1, <2>3, Apart DEF UnsubStopClose, Ending, Tidy
    <3>2. CurrentRef(callerRef[c].sub) = callerRef[c]
      BY <3>1 DEF CurrentRef, Ref
    <3> QED
      BY <2>3, <3>1, <3>2 DEF UnsubStopClose, UnsubReturn, Return, Goto, TypeOK, TypeCaller
  <2>4. ASSUME NEW c \in Callers, callerPc' # callerPc, CallerStep(c) \/ SubscribeStart(c)
                 \/ \E r \in Ref : UnsubStart(c, r), ~UnsubStopClose(c)
        PROVE  callerPc'[c] # "panicked"
    BY <2>4 DEF CallerStep, SubscribeStart, UnsubStart, SubscribeGet, SubscribeRegister,
       SubscribeTrack, SubscribeRecheck, SubscribeSpawn, UndoTrack, UndoRegister,
       UndoRecycle, UnsubGenCheck, UnsubClaim, UnsubDereg, UnsubUntrack, UnsubStopClaim,
       UnsubReturn, Return, Goto, TypeOK, TypeCaller
  <2>5. \A d \in Callers : callerPc'[d] # "panicked"
    <3>1. CASE CallerNext
      <4>1. PICK c \in Callers : CallerStep(c) \/ SubscribeStart(c)
                                 \/ \E r \in Ref : UnsubStart(c, r)
        BY <3>1 DEF CallerNext
      <4>2. \A d \in Callers : d # c => callerPc'[d] = callerPc[d]
        BY <4>1, CallerFrame
      <4> QED
        BY <2>1, <2>3, <2>4, <4>1, <4>2 DEF Panicked
    <3>2. CASE ~CallerNext
      <4>1. callerPc' = callerPc
        BY <3>2 DEF Next, PublishNext, WorkerNext, StopNext, PublishStart, EnqueueCancelled,
           PublishStep, PublishLoad, EnqueueTry, EnqueueSend, EnqueueSkip, EnqueueBusClosed,
           PublishEnd, EnqueueCheck, WorkerStep, WorkerRecv, WorkerHandled, WorkerStop,
           DrainRecv, DiscardOne, MailboxEmpty, WorkerExit, WorkerRecycle, WorkerDone,
           StopStart, DrainTimeout, StopStep, DrainFlag, RangeClaim, RangeClose, RangeEnd,
           DrainDone, CloseSwap, CloseCh, CloseWait, RangePick, StopUnchanged, callVars, vars
      <4> QED
        BY <2>1, <4>1 DEF Panicked
    <3> QED
      BY <3>1, <3>2
  <2> QED
    BY <2>2, <2>5 DEF Panicked
<1> QED
  BY <1>1, <1>2, TidyInvariant, TypeCorrect, OwnershipCorrect, FreshCorrect, PTL DEF Spec

\* On a bus nobody closes or drains, when no handle is unsubscribed twice, no later
\* publish finds a subscription whose Unsubscribe has returned, and its worker has
\* been told to stop.
THEOREM GoneCorrect ==
    ASSUME RepeatUnsubscribe = FALSE, Stoppers = {}
    PROVE  Spec => []UnsubscribedIsGone
<1>1. Init => ~Stopping
  BY DEF Init, Stopping
<1>2. ~Stopping /\ [Next]_vars => ~Stopping'
  BY DEF Next, PublishNext, PublishStart, EnqueueCancelled, PublishStep, PublishLoad,
     EnqueueTry, EnqueueSend, EnqueueSkip, EnqueueBusClosed, PublishEnd, EnqueueCheck,
     CallerNext, SubscribeStart, UnsubStart, CallerStep, SubscribeGet,
     SubscribeRegister, SubscribeTrack, SubscribeRecheck, SubscribeSpawn, UndoTrack,
     UndoRegister, UndoRecycle, UnsubGenCheck, UnsubClaim, UnsubDereg, UnsubUntrack,
     UnsubStopClaim, UnsubStopClose, WorkerNext, WorkerStep, WorkerRecv, WorkerHandled,
     WorkerStop, DrainRecv, DiscardOne, MailboxEmpty, WorkerExit, WorkerRecycle,
     WorkerDone, StopNext, busVars, vars, Stopping
<1>3. Tidy => UnsubscribedIsGone
  BY DEF Tidy, UnsubscribedIsGone
<1> QED
  BY <1>1, <1>2, <1>3, TidyInvariant, PTL DEF Spec

-------------------------------------------------------------------------------
(* What Close and Drain wait for *)

Taking(r) == wpc[r] \in {"run", "handle"}

\* A worker that takes messages, or a Subscribe that will start one.
Coming(r) == Taking(r) \/ \E c \in Callers : callerPc[c] = "spawn" /\ callerRef[c] = r

\* The same, or a Subscribe that has tracked its struct and may start one.
InUse(r) == Coming(r) \/ \E c \in Callers : callerPc[c] = "recheck" /\ callerRef[c] = r

\* Somebody has claimed stopClosed and not yet closed the channel.
Closing(s) ==
    \/ \E c \in Callers : callerPc[c] = "stopClose" /\ callerRef[c].sub = s
    \/ \E x \in Stoppers : stopPc[x] \in {"drainStop", "closeStop"} /\ stopSub[x] = s

\* A claimed flag means that the struct's current channel is closed or about to be.
ClaimOK == \A s \in Subs : stopClosed[s] => CurrentRef(s) \in stopped \/ Closing(s)

\* What is in use is tracked until somebody is about to stop it.
TrackOK == \A r \in Ref : InUse(r) => r.sub \in active \/ ToldToStop(r)

Claims == {"drainClaim", "closeClaim"}
Ranges == {"drainRange", "drainStop", "closeRange", "closeStop"} \cup Claims
Waits  == {"drainWait", "closeWait"}

\* Stopper x will still meet struct s, or is at it.
WillMeet(x, s) == \/ stopPc[x] \in Ranges /\ s \in due[x] \ seen[x]
                  \/ stopPc[x] \in Claims /\ stopSub[x] = s

\* A Range meets what nobody else stops.
RangeOK == \A x \in Stoppers, r \in Ref :
    stopPc[x] \in Ranges \cup Waits /\ Coming(r) => ToldToStop(r) \/ WillMeet(x, r.sub)

StopOK == ClaimOK /\ TrackOK /\ RangeOK

\* What is in use is at its struct's current generation, alone.
LEMMA UserFacts ==
    ASSUME TypeOK, SoleOwner
    PROVE  /\ \A r \in Ref : InUse(r) => CurrentRef(r.sub) = r
           /\ \A r \in Ref, c \in Callers :
                 Building(c) /\ InUse(r) /\ callerRef[c].sub = r.sub => callerRef[c] = r
           /\ \A c \in Callers : Building(c) => callerRef[c] \in Ref
           /\ \A r \in Ref : InUse(r) => r.sub \notin pool /\ gen[r.sub] # 0
<1>1. \A c \in Callers : Building(c) => callerRef[c] \in Ref
  BY DEF TypeOK, TypeCaller, Building
<1>2. \A r \in Ref : Taking(r) => Serving(r)
  BY DEF Taking, Serving
<1>3. \A r \in Ref : InUse(r) =>
         Serving(r) \/ \E c \in Callers : Building(c) /\ callerRef[c] = r
  BY <1>2 DEF InUse, Coming, Building
<1>4. \A r \in Ref : InUse(r) => gen[r.sub] = r.gen /\ r.sub \notin pool
  BY <1>3 DEF SoleOwner
<1>5. \A r \in Ref : InUse(r) => CurrentRef(r.sub) = r
  BY <1>4 DEF CurrentRef, Ref
<1>6. \A r \in Ref, c \in Callers :
         Building(c) /\ InUse(r) /\ callerRef[c].sub = r.sub => callerRef[c] = r
  BY <1>3 DEF SoleOwner
<1> QED
  BY <1>1, <1>4, <1>5, <1>6, BoundsAssumption DEF Ref

\* Steps that leave alone what StopOK is about.
LEMMA StopQuiet ==
    ASSUME StopOK,
           UNCHANGED <<gen, stopClosed, stopped, active, callerPc, callerRef, stopPc, stopSub,
                       due, seen>>,
           \A r \in Ref : Taking(r)' => Taking(r)
    PROVE  StopOK'
<1>1. \A s : Closing(s)' = Closing(s) /\ CurrentRef(s)' = CurrentRef(s)
  BY DEF Closing, CurrentRef
<1>2. \A r : ToldToStop(r)' = ToldToStop(r)
  BY DEF ToldToStop
<1>3. \A r \in Ref : (Coming(r)' => Coming(r)) /\ (InUse(r)' => InUse(r))
  BY DEF Coming, InUse
<1>4. \A x, s : WillMeet(x, s)' = WillMeet(x, s)
  BY DEF WillMeet
<1> QED
  BY <1>1, <1>2, <1>3, <1>4 DEF StopOK, ClaimOK, TrackOK, RangeOK

\* Steps of a caller that neither starts, stops nor untracks anything.
LEMMA StopCallerQuiet ==
    ASSUME TypeOK, StopOK, NEW c \in Callers,
           UNCHANGED <<gen, stopClosed, stopped, active, wpc, stopPc, stopSub, due, seen>>,
           \A d \in Callers : d # c => callerPc'[d] = callerPc[d] /\ callerRef'[d] = callerRef[d],
           callerPc[c] \notin {"stopClaim", "stopClose"},
           callerPc'[c] \notin {"recheck", "spawn"}
    PROVE  StopOK'
<1>1. \A s : (Closing(s) => Closing(s)') /\ CurrentRef(s)' = CurrentRef(s)
  BY DEF Closing, CurrentRef
<1>2. \A r : ToldToStop(r) => ToldToStop(r)'
  BY DEF ToldToStop
<1>3. \A r \in Ref : (Coming(r)' => Coming(r)) /\ (InUse(r)' => InUse(r))
  BY DEF Coming, InUse, Taking
<1>4. \A x, s : WillMeet(x, s)' = WillMeet(x, s)
  BY DEF WillMeet
<1> QED
  BY <1>1, <1>2, <1>3, <1>4 DEF StopOK, ClaimOK, TrackOK, RangeOK

LEMMA StopSubscribe ==
    ASSUME TypeOK, SoleOwner, FlagOK, StopOK, NEW c \in Callers,
           \/ SubscribeTrack(c) \/ SubscribeRecheck(c) \/ SubscribeSpawn(c)
           \/ \E s \in Subs : SubscribeGet(c, s)
    PROVE  StopOK'
<1>1. /\ \A d \in Callers : d # c => callerPc'[d] = callerPc[d] /\ callerRef'[d] = callerRef[d]
      /\ UNCHANGED <<closed, draining>>
  BY CallerFrame DEF CallerStep
<1>2. UNCHANGED <<stopped, stopPc, stopSub, due, seen>>
  BY DEF SubscribeTrack, SubscribeRecheck, SubscribeSpawn, SubscribeGet, subVars, stopVars
<1>3. callerPc[c] \in {"get", "track", "recheck", "spawn"}
  BY DEF SubscribeTrack, SubscribeRecheck, SubscribeSpawn, SubscribeGet
<1>4. \A s : Closing(s) => Closing(s)'
  BY <1>1, <1>2, <1>3 DEF Closing
<1>5. \A r : ToldToStop(r) => ToldToStop(r)'
  BY <1>1, <1>2, <1>3 DEF ToldToStop
<1>6. \A x, s : WillMeet(x, s)' = WillMeet(x, s)
  BY <1>2 DEF WillMeet
<1>7. CASE \E s \in Subs : SubscribeGet(c, s)
  <2> PICK s \in Subs : SubscribeGet(c, s)
    BY <1>7
  <2>1. /\ callerPc'[c] = "register" /\ UNCHANGED <<active, wpc>>
        /\ ~stopClosed'[s]
        /\ \A t \in Subs : t # s => stopClosed'[t] = stopClosed[t] /\ gen'[t] = gen[t]
    BY DEF SubscribeGet, Goto, listVars, workVars, TypeOK, TypeSub, TypeCaller
  <2>2. ClaimOK'
    BY <1>2, <1>4, <2>1 DEF StopOK, ClaimOK, CurrentRef
  <2>3. \A r \in Ref : (Coming(r)' => Coming(r)) /\ (InUse(r)' => InUse(r))
    BY <1>1, <2>1 DEF Coming, InUse, Taking
  <2> QED
    BY <1>2, <1>5, <1>6, <2>1, <2>2, <2>3 DEF StopOK, TrackOK, RangeOK
<1>8. CASE ~\E s \in Subs : SubscribeGet(c, s)
  <2>1. UNCHANGED <<gen, stopClosed>> /\ active \subseteq active'
    BY <1>8 DEF SubscribeTrack, SubscribeRecheck, SubscribeSpawn, subVars, listVars
  <2>2. ClaimOK'
    BY <1>2, <1>4, <2>1 DEF StopOK, ClaimOK, CurrentRef
  <2>3. CASE SubscribeTrack(c)
    <3>1. /\ callerPc'[c] = "recheck" /\ callerRef'[c] = callerRef[c] /\ wpc' = wpc
          /\ callerRef[c].sub \in active'
      BY <2>3 DEF SubscribeTrack, Goto, workVars, TypeOK, TypeCaller
    <3>2. \A r \in Ref : (Coming(r)' => Coming(r)) /\ (InUse(r)' => InUse(r) \/ r = callerRef[c])
      BY <1>1, <3>1 DEF Coming, InUse, Taking
    <3> QED
      BY <1>2, <1>5, <1>6, <2>1, <2>2, <3>1, <3>2 DEF StopOK, TrackOK, RangeOK
  <2>4. CASE SubscribeRecheck(c)
    <3>1. /\ callerPc[c] = "recheck" /\ callerRef'[c] = callerRef[c] /\ wpc' = wpc
          /\ callerPc'[c] = IF Stopping THEN "undoTrack" ELSE "spawn"
      BY <2>4 DEF SubscribeRecheck, Goto, workVars, TypeOK, TypeCaller
    <3>2. \A r \in Ref : InUse(r)' => InUse(r)
      BY <1>1, <3>1 DEF Coming, InUse, Taking
    <3>3. CASE Stopping
      <4>1. \A r \in Ref : Coming(r)' => Coming(r)
        BY <1>1, <3>1, <3>3 DEF Coming, Taking
      <4> QED
        BY <1>2, <1>5, <1>6, <2>1, <2>2, <3>2, <4>1 DEF StopOK, TrackOK, RangeOK
    <3>4. CASE ~Stopping
      <4>1. \A x \in Stoppers : stopPc[x] \notin Ranges \cup Waits
        BY <3>4 DEF FlagOK, Ranges, Claims, Waits
      <4> QED
        BY <1>2, <1>5, <2>1, <2>2, <3>2, <4>1 DEF StopOK, TrackOK, RangeOK
    <3> QED
      BY <3>3, <3>4
  <2>5. CASE SubscribeSpawn(c)
    <3>1. /\ callerPc[c] = "spawn" /\ callerPc'[c] = "idle"
          /\ \A r \in Ref : r # callerRef[c] => wpc'[r] = wpc[r]
      BY <2>5 DEF SubscribeSpawn, Return, Goto, TypeOK, TypeCaller, TypeWork
    <3>2. \A r \in Ref : (Coming(r)' => Coming(r)) /\ (InUse(r)' => InUse(r))
      BY <1>1, <3>1 DEF Coming, InUse, Taking
    <3> QED
      BY <1>2, <1>5, <1>6, <2>1, <2>2, <3>2 DEF StopOK, TrackOK, RangeOK
  <2> QED
    BY <1>8, <2>3, <2>4, <2>5
<1> QED
  BY <1>7, <1>8

\* Untracking takes a struct from the Ranges under way too.
LEMMA StopUntrack ==
    ASSUME TypeOK, SoleOwner, StopOK, NEW c \in Callers, UndoTrack(c) \/ UnsubUntrack(c)
    PROVE  StopOK'
<1> DEFINE s == callerRef[c].sub
<1>1. \A d \in Callers : d # c => callerPc'[d] = callerPc[d] /\ callerRef'[d] = callerRef[d]
  BY CallerFrame DEF CallerStep
<1>2. /\ UNCHANGED <<gen, stopped, stopClosed, wpc, stopPc, stopSub, seen>>
      /\ callerRef' = callerRef
      /\ active' = active \ {s}
      /\ \A x \in Stoppers : due'[x] = due[x] \ {s}
  BY DEF UndoTrack, UnsubUntrack, Untrack, subVars, workVars, TypeOK, TypeStop
<1>3. callerPc[c] \in {"undoTrack", "untrack"} /\ callerPc'[c] \in {"undoReg", "stopClaim"}
  BY DEF UndoTrack, UnsubUntrack, Goto, TypeOK, TypeCaller
<1>4. \A t : (Closing(t) => Closing(t)') /\ CurrentRef(t)' = CurrentRef(t)
  BY <1>1, <1>2, <1>3 DEF Closing, CurrentRef
<1>5. \A r : ToldToStop(r) => ToldToStop(r)'
  BY <1>1, <1>2, <1>3 DEF ToldToStop
<1>6. \A r \in Ref : (Coming(r)' => Coming(r)) /\ (InUse(r)' => InUse(r)) /\ (Coming(r) => InUse(r))
  BY <1>1, <1>2, <1>3 DEF Coming, InUse, Taking
<1>7. \A r \in Ref : InUse(r) /\ r.sub = s => ToldToStop(r)'
  <2>1. CASE UndoTrack(c)
    <3> SUFFICES ASSUME NEW r \in Ref, InUse(r), r.sub = s PROVE FALSE
      OBVIOUS
    <3>1. Building(c) /\ callerPc[c] = "undoTrack"
      BY <2>1 DEF UndoTrack, Building
    <3>2. callerRef[c] = r
      BY <3>1, UserFacts
    <3>3. ~Taking(r)
      BY <3>1, <3>2 DEF SoleOwner, Taking, Serving
    <3>4. PICK d \in Callers : callerPc[d] \in {"spawn", "recheck"} /\ callerRef[d] = r
      BY <3>3 DEF InUse, Coming
    <3> QED
      BY <3>1, <3>2, <3>4 DEF SoleOwner, Building
  <2>2. CASE UnsubUntrack(c)
    <3>1. callerPc'[c] = "stopClaim"
      BY <2>2 DEF UnsubUntrack, Goto, TypeOK, TypeCaller
    <3> QED
      BY <1>2, <3>1 DEF ToldToStop
  <2> QED
    BY <2>1, <2>2
<1>8. \A x \in Stoppers : \A t : WillMeet(x, t) => WillMeet(x, t)' \/ t = s
  BY <1>2 DEF WillMeet
<1>9. ClaimOK'
  BY <1>2, <1>4 DEF StopOK, ClaimOK
<1>10. TrackOK'
  BY <1>2, <1>5, <1>6, <1>7 DEF StopOK, TrackOK
<1>11. RangeOK'
  BY <1>2, <1>5, <1>6, <1>7, <1>8 DEF StopOK, RangeOK
<1> QED
  BY <1>9, <1>10, <1>11 DEF StopOK

\* The two halves of closeStop in Unsubscribe.
LEMMA StopUnsubscribe ==
    ASSUME TypeOK, SoleOwner, StopOK, NEW c \in Callers, UnsubStopClaim(c) \/ UnsubStopClose(c)
    PROVE  StopOK'
<1> PICK s \in Subs : s = callerRef[c].sub
  BY DEF UnsubStopClaim, UnsubStopClose, TypeOK, TypeCaller, Ref
<1>1. \A d \in Callers : d # c => callerPc'[d] = callerPc[d] /\ callerRef'[d] = callerRef[d]
  BY CallerFrame DEF CallerStep
<1>2. UNCHANGED <<gen, active, wpc, stopPc, stopSub, due, seen>> /\ stopped \subseteq stopped'
  BY DEF UnsubStopClaim, UnsubStopClose, CloseChannel, listVars, workVars, stopVars
<1>3. /\ callerPc[c] \in {"stopClaim", "stopClose"}
      /\ callerPc'[c] \in {"idle", "stopClose", "panicked"}
  BY DEF UnsubStopClaim, UnsubStopClose, UnsubReturn, Return, Goto, TypeOK, TypeCaller
<1>4. \A t : CurrentRef(t)' = CurrentRef(t)
  BY <1>2 DEF CurrentRef
<1>5. \A r \in Ref : (Coming(r)' => Coming(r)) /\ (InUse(r)' => InUse(r)) /\ (Coming(r) => InUse(r))
  BY <1>1, <1>2, <1>3 DEF Coming, InUse, Taking
<1>6. \A x, t : WillMeet(x, t)' = WillMeet(x, t)
  BY <1>2 DEF WillMeet
<1>7. \A t : t # s => (Closing(t) => Closing(t)')
  BY <1>1, <1>2, <1>3 DEF Closing
<1>8. CurrentRef(s) \in stopped' \/ Closing(s)'
  <2>1. CASE UnsubStopClaim(c) /\ stopClosed[s]
    <3>1. CurrentRef(s) \in stopped \/ Closing(s)
      BY <1>3, <2>1 DEF StopOK, ClaimOK
    <3>2. callerPc[c] = "stopClaim"
      BY <2>1 DEF UnsubStopClaim
    <3> QED
      BY <1>1, <1>2, <3>1, <3>2 DEF Closing
  <2>2. CASE UnsubStopClaim(c) /\ ~stopClosed[s]
    <3>1. callerPc'[c] = "stopClose" /\ callerRef'[c] = callerRef[c]
      BY <2>2 DEF UnsubStopClaim, Goto, TypeOK, TypeCaller
    <3> QED
      BY <3>1 DEF Closing
  <2>3. CASE UnsubStopClose(c)
    BY <2>3 DEF UnsubStopClose, CloseChannel
  <2> QED
    BY <2>1, <2>2, <2>3
<1>9. \A t \in Subs : t # s => stopClosed'[t] = stopClosed[t]
  BY DEF UnsubStopClaim, UnsubStopClose, TypeOK, TypeSub
<1>10. ClaimOK'
  BY <1>2, <1>4, <1>7, <1>8, <1>9 DEF StopOK, ClaimOK
<1>11. \A r \in Ref : InUse(r) /\ ToldToStop(r) => ToldToStop(r)'
  <2> SUFFICES ASSUME NEW r \in Ref, InUse(r), ToldToStop(r) PROVE ToldToStop(r)'
    OBVIOUS
  <2>1. CASE r.sub = s
    <3>1. r \in stopped' \/ Closing(r.sub)'
      BY <1>8, <2>1, UserFacts
    <3> QED
      BY <3>1 DEF ToldToStop, Closing
  <2>2. CASE r.sub # s
    BY <1>1, <1>2, <2>2 DEF ToldToStop
  <2> QED
    BY <2>1, <2>2
<1> QED
  BY <1>2, <1>5, <1>6, <1>10, <1>11 DEF StopOK, TrackOK, RangeOK

LEMMA StopCaller ==
    ASSUME TypeOK, SoleOwner, FlagOK, StopOK, NEW c \in Callers,
           SubscribeStart(c) \/ (\E r \in Ref : UnsubStart(c, r)) \/ CallerStep(c)
    PROVE  StopOK'
<1>1. CASE \/ SubscribeStart(c) \/ SubscribeRegister(c) \/ UndoRegister(c) \/ UndoRecycle(c)
           \/ UnsubGenCheck(c) \/ UnsubClaim(c) \/ UnsubDereg(c)
           \/ \E r \in Ref : UnsubStart(c, r)
  <2>1. UNCHANGED <<gen, stopClosed, stopped, active, wpc, stopPc, stopSub, due, seen>>
    BY <1>1 DEF SubscribeStart, SubscribeRegister, UndoRegister, UndoRecycle, UnsubGenCheck,
       UnsubClaim, UnsubDereg, UnsubStart, subVars, listVars, workVars, stopVars
  <2>2. /\ callerPc[c] \notin {"stopClaim", "stopClose"}
        /\ callerPc'[c] \notin {"recheck", "spawn"}
    BY <1>1 DEF SubscribeStart, SubscribeRegister, UndoRegister, UndoRecycle, UnsubGenCheck,
       UnsubClaim, UnsubDereg, UnsubStart, UnsubReturn, Return, Goto, TypeOK, TypeCaller
  <2> QED
    BY <2>1, <2>2, CallerFrame, StopCallerQuiet
<1> QED
  BY <1>1, StopSubscribe, StopUntrack, StopUnsubscribe DEF CallerStep

\* Steps of a stopper that end no Range, or begin one.
LEMMA StopStopperQuiet ==
    ASSUME TypeOK, StopOK, NEW x \in Stoppers,
           UNCHANGED <<gen, stopClosed, stopped, active, callVars, wpc>>,
           \A y \in Stoppers : y # x => /\ stopPc'[y] = stopPc[y] /\ stopSub'[y] = stopSub[y]
                                        /\ due'[y] = due[y] /\ seen'[y] = seen[y],
           stopPc[x] \notin {"drainStop", "closeStop"},
           \/ stopPc'[x] \notin Ranges \cup Waits
           \/ stopPc'[x] \in Ranges /\ due'[x] = active /\ seen'[x] = {}
    PROVE  StopOK'
<1>1. \A s : (Closing(s) => Closing(s)') /\ CurrentRef(s)' = CurrentRef(s)
  BY DEF Closing, CurrentRef, callVars
<1>2. \A r : ToldToStop(r) => ToldToStop(r)'
  BY DEF ToldToStop, callVars
<1>3. \A r \in Ref : Coming(r)' = Coming(r) /\ InUse(r)' = InUse(r) /\ (Coming(r) => InUse(r))
  BY DEF Coming, InUse, Taking, callVars
<1>4. \A y \in Stoppers : \A s : y # x => WillMeet(y, s)' = WillMeet(y, s)
  BY DEF WillMeet
<1>5. \A s : stopPc'[x] \in Ranges \cup Waits /\ s \in active => WillMeet(x, s)'
  BY DEF WillMeet, Ranges, Claims, Waits
<1> QED
  BY <1>1, <1>2, <1>3, <1>4, <1>5 DEF StopOK, ClaimOK, TrackOK, RangeOK

LEMMA StopRange ==
    ASSUME TypeOK, SoleOwner, StopOK, NEW x \in Stoppers,
           RangeClaim(x) \/ RangeClose(x) \/ RangeEnd(x) \/ \E s \in Subs : RangePick(x, s)
    PROVE  StopOK'
<1>1. /\ UNCHANGED <<gen, active, callVars, wpc>> /\ stopped \subseteq stopped'
      /\ \A y \in Stoppers : y # x => /\ stopPc'[y] = stopPc[y] /\ stopSub'[y] = stopSub[y]
                                      /\ due'[y] = due[y] /\ seen'[y] = seen[y]
      /\ due' = due
  BY DEF RangeClaim, RangeClose, RangeEnd, RangePick, CloseChannel, StopUnchanged, StopGoto,
     BackToRange, subVars, listVars, workVars, TypeOK, TypeStop
<1>2. /\ \A s : CurrentRef(s)' = CurrentRef(s)
      /\ \A r \in Ref : Coming(r)' = Coming(r) /\ InUse(r)' = InUse(r) /\ (Coming(r) => InUse(r))
      /\ \A y \in Stoppers : \A s : y # x => WillMeet(y, s)' = WillMeet(y, s)
  BY <1>1 DEF CurrentRef, Coming, InUse, Taking, WillMeet, callVars
<1>3. SUFFICES /\ ClaimOK'
               /\ \A r \in Ref : InUse(r) /\ ToldToStop(r) => ToldToStop(r)'
               /\ \A r \in Ref : stopPc'[x] \in Ranges \cup Waits /\ Coming(r)
                                     => ToldToStop(r)' \/ WillMeet(x, r.sub)'
  BY <1>1, <1>2 DEF StopOK, TrackOK, RangeOK
<1>4. stopPc[x] \in Ranges
  BY DEF RangeClaim, RangeClose, RangeEnd, RangePick, Ranges, Claims
<1>5. \A r \in Ref : Coming(r) => ToldToStop(r) \/ WillMeet(x, r.sub)
  BY <1>4 DEF StopOK, RangeOK
<1>6. CASE RangeEnd(x) \/ \E s \in Subs : RangePick(x, s)
  <2>1. /\ stopPc[x] \in {"drainRange", "closeRange"}
        /\ UNCHANGED <<stopClosed, stopped>>
    BY <1>6 DEF RangeEnd, RangePick, StopUnchanged, subVars
  <2>2. \A s : Closing(s) => Closing(s)'
    BY <1>1, <2>1 DEF Closing, callVars
  <2>3. \A r : ToldToStop(r) => ToldToStop(r)'
    BY <1>1, <2>1 DEF ToldToStop, callVars
  <2>4. \A s : WillMeet(x, s) => s \in due[x] \ seen[x]
    BY <2>1 DEF WillMeet, Claims
  <2>5. CASE RangeEnd(x)
    <3>1. due[x] \subseteq seen[x]
      BY <2>5 DEF RangeEnd
    <3> QED
      BY <1>2, <1>5, <2>1, <2>2, <2>3, <2>4, <3>1 DEF StopOK, ClaimOK
  <2>6. ASSUME NEW s \in Subs, RangePick(x, s)
        PROVE  \A t : WillMeet(x, t) => WillMeet(x, t)'
    <3>1. /\ stopPc'[x] \in Claims /\ stopSub'[x] = s
          /\ seen'[x] = seen[x] \cup {s} /\ due'[x] = due[x]
      BY <2>6 DEF RangePick, StopGoto, Claims, TypeOK, TypeStop
    <3> QED
      BY <2>4, <3>1 DEF WillMeet, Ranges
  <2> QED
    BY <1>2, <1>5, <1>6, <2>1, <2>2, <2>3, <2>5, <2>6 DEF StopOK, ClaimOK
<1>7. CASE RangeClaim(x) \/ RangeClose(x)
  <2> PICK s \in Subs : s = stopSub[x]
    BY <1>7 DEF RangeClaim, RangeClose, TypeOK, TypeStop
  <2>1. /\ UNCHANGED <<stopSub, seen>>
        /\ stopPc[x] \in {"drainClaim", "closeClaim", "drainStop", "closeStop"}
        /\ stopPc'[x] \in {"drainRange", "closeRange", "drainStop", "closeStop", "panicked"}
    BY <1>7 DEF RangeClaim, RangeClose, StopGoto, BackToRange, TypeOK, TypeStop
  <2>2. \A t : t # s => (Closing(t) => Closing(t)')
    BY <1>1, <2>1 DEF Closing, callVars
  <2>3. CurrentRef(s) \in stopped' \/ Closing(s)'
    <3>1. CASE RangeClaim(x) /\ stopClosed[s]
      <4>1. CurrentRef(s) \in stopped \/ Closing(s)
        BY <2>1, <3>1 DEF StopOK, ClaimOK
      <4>2. stopPc[x] \in Claims
        BY <3>1 DEF RangeClaim, Claims
      <4> QED
        BY <1>1, <2>1, <4>1, <4>2 DEF Closing, callVars, Claims
    <3>2. CASE RangeClaim(x) /\ ~stopClosed[s]
      <4>1. stopPc'[x] \in {"drainStop", "closeStop"}
        BY <3>2 DEF RangeClaim, StopGoto, TypeOK, TypeStop
      <4> QED
        BY <2>1, <4>1 DEF Closing
    <3>3. CASE RangeClose(x)
      BY <3>3 DEF RangeClose, CloseChannel
    <3> QED
      BY <1>7, <3>1, <3>2, <3>3
  <2>4. \A t \in Subs : t # s => stopClosed'[t] = stopClosed[t]
    BY <1>7 DEF RangeClaim, RangeClose, TypeOK, TypeSub
  <2>5. ClaimOK'
    BY <1>1, <1>2, <2>2, <2>3, <2>4 DEF StopOK, ClaimOK
  <2>6. \A r \in Ref : InUse(r) /\ r.sub = s => ToldToStop(r)'
    <3> SUFFICES ASSUME NEW r \in Ref, InUse(r), r.sub = s PROVE ToldToStop(r)'
      OBVIOUS
    <3>1. r \in stopped' \/ Closing(r.sub)'
      BY <2>3, UserFacts
    <3> QED
      BY <3>1 DEF ToldToStop, Closing
  <2>7. \A r \in Ref : r.sub # s /\ ToldToStop(r) => ToldToStop(r)'
    BY <1>1, <2>1 DEF ToldToStop, callVars
  <2>8. \A t : t # s /\ WillMeet(x, t) => t \in due[x] \ seen[x]
    BY DEF WillMeet
  <2>9. \A t : stopPc'[x] \in Ranges \cup Waits /\ t \in due[x] \ seen[x] => WillMeet(x, t)'
    BY <1>1, <2>1 DEF WillMeet, Ranges, Claims, Waits
  <2> QED
    BY <1>2, <1>5, <2>5, <2>6, <2>7, <2>8, <2>9
<1> QED
  BY <1>6, <1>7

LEMMA StopStopper ==
    ASSUME TypeOK, SoleOwner, StopOK, NEW x \in Stoppers,
           StopStart(x) \/ DrainTimeout(x) \/ StopStep(x)
    PROVE  StopOK'
<1>1. CASE \/ StopStart(x) \/ DrainTimeout(x) \/ DrainFlag(x) \/ DrainDone(x)
           \/ CloseSwap(x) \/ CloseCh(x) \/ CloseWait(x)
  <2>1. UNCHANGED <<gen, stopClosed, stopped, active, callVars, wpc>>
    BY <1>1 DEF StopStart, DrainTimeout, DrainFlag, DrainDone, CloseSwap, CloseCh, CloseWait,
       StopUnchanged, subVars, listVars, workVars
  <2>2. \A y \in Stoppers : y # x => /\ stopPc'[y] = stopPc[y] /\ stopSub'[y] = stopSub[y]
                                     /\ due'[y] = due[y] /\ seen'[y] = seen[y]
    BY <1>1 DEF StopStart, DrainTimeout, DrainFlag, DrainDone, CloseSwap, CloseCh, CloseWait,
       StopGoto, RangeBegin, TypeOK, TypeStop
  <2>3. stopPc[x] \notin {"drainStop", "closeStop"}
    BY <1>1 DEF StopStart, DrainTimeout, DrainFlag, DrainDone, CloseSwap, CloseCh, CloseWait
  <2>4. CASE DrainFlag(x) \/ CloseCh(x)
    <3>1. stopPc'[x] \in Ranges /\ due'[x] = active /\ seen'[x] = {}
      BY <2>4 DEF DrainFlag, CloseCh, RangeBegin, StopGoto, Ranges, TypeOK, TypeStop
    <3> QED
      BY <2>1, <2>2, <2>3, <3>1, StopStopperQuiet
  <2>5. CASE ~(DrainFlag(x) \/ CloseCh(x))
    <3>1. stopPc'[x] \in {"swap", "drainFlag", "done", "closeCh"}
      BY <1>1, <2>5, BoundsAssumption DEF StopStart, DrainTimeout, DrainDone, CloseSwap,
         CloseWait, StopGoto, TypeOK, TypeStop
    <3>2. stopPc'[x] \notin Ranges \cup Waits
      BY <3>1 DEF Ranges, Claims, Waits
    <3> QED
      BY <2>1, <2>2, <2>3, <3>2, StopStopperQuiet
  <2> QED
    BY <2>4, <2>5
<1> QED
  BY <1>1, StopRange DEF StopStep

LEMMA StopOthers ==
    ASSUME TypeOK, StopOK, PublishNext \/ WorkerNext \/ UNCHANGED vars PROVE StopOK'
<1>1. UNCHANGED <<gen, stopClosed, stopped, active, callerPc, callerRef, stopPc, stopSub, due,
                  seen>>
  BY DEF PublishNext, PublishStart, EnqueueCancelled, PublishStep, PublishLoad, EnqueueTry,
     EnqueueSend, EnqueueSkip, EnqueueBusClosed, PublishEnd, EnqueueCheck, WorkerNext,
     WorkerStep, WorkerRecv, WorkerHandled, WorkerStop, DrainRecv, DiscardOne, MailboxEmpty,
     WorkerExit, WorkerRecycle, WorkerDone, subVars, listVars, callVars, stopVars, vars
<1>2. \A r \in Ref : Taking(r)' => Taking(r)
  BY DEF PublishNext, PublishStart, EnqueueCancelled, PublishStep, PublishLoad, EnqueueTry,
     EnqueueSend, EnqueueSkip, EnqueueBusClosed, PublishEnd, EnqueueCheck, WorkerNext,
     WorkerStep, WorkerRecv, WorkerHandled, WorkerStop, DrainRecv, DiscardOne, MailboxEmpty,
     WorkerExit, WorkerRecycle, WorkerDone, Take, WorkerGoto, Taking, workVars, vars, TypeOK,
     TypeWork
<1> QED
  BY <1>1, <1>2, StopQuiet

\* No Close or Drain waits for a worker that nobody stops: Range meets every
\* subscription in use, or somebody is stopping it already, however structs are
\* recycled and handles unsubscribed, twice too, while it ranges.
THEOREM ShutdownMissesNone == Spec => []AwaitedAreStopped
<1>1. Init => FlagOK /\ StopOK
  BY DEF Init, FlagOK, StopOK, ClaimOK, TrackOK, RangeOK, InUse, Coming, Taking, Ranges, Claims,
     Waits
<1>2. TypeOK /\ SoleOwner /\ FlagOK /\ StopOK /\ [Next]_vars => FlagOK' /\ StopOK'
  BY FlagStep, StopCaller, StopStopper, StopOthers DEF Next, CallerNext, StopNext
<1>3. FlagOK /\ StopOK => AwaitedAreStopped
  BY DEF StopOK, RangeOK, AwaitedAreStopped, Coming, Taking, WillMeet, Ranges, Claims, Waits
<1> QED
  BY <1>1, <1>2, <1>3, TypeCorrect, OwnershipCorrect, PTL DEF Spec
===============================================================================
