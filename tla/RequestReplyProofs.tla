--------------------------- MODULE RequestReplyProofs -------------------------
(* Theorems about RequestReply, for any requesters, workers, waiters and     *)
(* rounds.                                                                   *)
EXTENDS RequestReply, TLAPS

\* A request has the identity of a request.
LEMMA CurrentReqType ==
    ASSUME TypeReq, NEW q \in Requesters, rpc[q] # "idle"
    PROVE  CurrentReq(q) \in Req
  BY RequestBounds DEF TypeReq, CurrentReq, Req

\* A requester past GetWaiter has a waiter.
LEMMA HasWaiter ==
    ASSUME TypeReq, NEW q \in Requesters, rpc[q] \notin {"idle", "get"}
    PROVE  rw[q] \in Waiters
  BY DEF TypeReq

\* What is on a waiter's channel is one result.
LEMMA OneResult ==
    ASSUME TypeWaiter, NEW w \in Waiters, ch[w] # <<>>
    PROVE  Head(ch[w]) \in Result /\ Tail(ch[w]) = <<>> /\ ch[w] = <<Head(ch[w])>>
<1>1. ch[w] \in Seq(Result) /\ Len(ch[w]) <= 1
  BY DEF TypeWaiter
<1> QED
  BY <1>1

\* Returning keeps the types of what Request keeps.
LEMMA ReturnType ==
    ASSUME TypeReq, NEW q \in Requesters,
           NEW kind \in Errors \cup {"none", "reply"}, NEW req \in Req \cup {NoReq},
           Return(q, kind, req),
           UNCHANGED <<reqN, ctx, todo, delivered, attempt, terminal>>
    PROVE  TypeReq'
  BY DEF TypeReq, ReqPcs, Return, Goto

\* Every action keeps the types.
LEMMA TypeInductive == TypeOK /\ [Next]_vars => TypeOK'
<1> SUFFICES ASSUME TypeWaiter, TypeReq, TypeWork, [Next]_vars PROVE TypeOK'
  BY DEF TypeOK
<1> USE RequestBounds
<1> USE DEF Goto, Return, busVars, waitVars, reqVars, workVars
<1>1. ASSUME NEW q \in Requesters, RequestStart(q)
      PROVE  TypeOK'
  <2>1. TypeWaiter'
    BY <1>1 DEF RequestStart, TypeWaiter
  <2>2. TypeReq'
    BY <1>1 DEF RequestStart, TypeReq, ReqPcs, Errors, CtxState
  <2>3. TypeWork'
    BY <1>1 DEF RequestStart, TypeWork
  <2> QED
    BY <2>1, <2>2, <2>3 DEF TypeOK
<1>2. ASSUME NEW q \in Requesters, NEW w \in Waiters, GetWaiter(q, w)
      PROVE  TypeOK'
  <2>1. TypeWaiter'
    BY <1>2 DEF GetWaiter, TypeWaiter
  <2>2. TypeReq'
    BY <1>2 DEF GetWaiter, TypeReq, ReqPcs, Errors, CtxState
  <2>3. TypeWork'
    BY <1>2 DEF GetWaiter, TypeWork
  <2> QED
    BY <2>1, <2>2, <2>3 DEF TypeOK
<1>3. ASSUME NEW q \in Requesters, ArmWaiter(q)
      PROVE  TypeOK'
  <2>4. /\ rw[q] \in Waiters
        /\ gen \in [Waiters -> Nat] /\ gen' = [gen EXCEPT ![rw[q]] = gen[rw[q]] + 1]
    BY <1>3, HasWaiter DEF ArmWaiter, TypeWaiter
  <2>5. gen' \in [Waiters -> Nat]
    BY <2>4
  <2>6. armed' \in [Waiters -> BOOLEAN]
    BY <1>3 DEF ArmWaiter, TypeWaiter
  <2>1. TypeWaiter'
    BY <1>3, <2>5, <2>6 DEF ArmWaiter, TypeWaiter
  <2>2. TypeReq'
    BY <1>3 DEF ArmWaiter, TypeReq, ReqPcs, Errors, CtxState
  <2>3. TypeWork'
    BY <1>3 DEF ArmWaiter, TypeWork
  <2> QED
    BY <2>1, <2>2, <2>3 DEF TypeOK
<1>4. ASSUME NEW q \in Requesters, CollectNone(q)
      PROVE  TypeOK'
  <2>1. TypeWaiter'
    BY <1>4, HasWaiter DEF CollectNone, TypeWaiter
  <2>2. TypeReq'
    BY <1>4 DEF CollectNone, TypeReq, ReqPcs, Errors, CtxState
  <2>3. TypeWork'
    BY <1>4 DEF CollectNone, TypeWork
  <2> QED
    BY <2>1, <2>2, <2>3 DEF TypeOK
<1>5. ASSUME NEW q \in Requesters, NEW targets \in SUBSET Workers, Collect(q, targets)
      PROVE  TypeOK'
  <2>1. TypeWaiter'
    BY <1>5 DEF Collect, TypeWaiter
  <2>2. TypeReq'
    BY <1>5 DEF Collect, TypeReq, ReqPcs, Errors, CtxState
  <2>3. TypeWork'
    BY <1>5 DEF Collect, TypeWork
  <2> QED
    BY <2>1, <2>2, <2>3 DEF TypeOK
<1>6. ASSUME NEW q \in Requesters, NEW v \in Workers, Accept(q, v)
      PROVE  TypeOK'
  <2>1. TypeWaiter'
    BY <1>6 DEF Accept, TypeWaiter
  <2>2. TypeReq'
    BY <1>6 DEF Accept, TypeReq, ReqPcs, Errors, CtxState
  <2> DEFINE d == [req |-> CurrentReq(q), w |-> rw[q], reqGen |-> gen[rw[q]]]
  <2>4. CurrentReq(q) \in Req /\ rw[q] \in Waiters
    BY <1>6, CurrentReqType, HasWaiter DEF Accept
  <2>5. d \in Delivery
    BY <2>4 DEF Delivery, TypeWaiter
  <2> HIDE DEF d
  <2>6. inbox' = [inbox EXCEPT ![v] = Append(@, d)]
    BY <1>6 DEF Accept, d
  <2>7. inbox' \in [Workers -> Seq(Delivery)] /\ accepted' \subseteq Req \X Workers
    BY <1>6, <2>4, <2>5, <2>6 DEF Accept, TypeWork
  <2>3. TypeWork'
    BY <1>6, <2>7 DEF Accept, TypeWork
  <2> QED
    BY <2>1, <2>2, <2>3 DEF TypeOK
<1>7. ASSUME NEW q \in Requesters, NEW v \in Workers, TornDown(q, v)
      PROVE  TypeOK'
  <2>1. TypeWaiter'
    BY <1>7 DEF TornDown, TypeWaiter
  <2>2. TypeReq'
    BY <1>7 DEF TornDown, TypeReq, ReqPcs, Errors, CtxState
  <2>3. TypeWork'
    BY <1>7 DEF TornDown, TypeWork
  <2> QED
    BY <2>1, <2>2, <2>3 DEF TypeOK
<1>8. ASSUME NEW q \in Requesters, EnqueueFails(q)
      PROVE  TypeOK'
  <2>1. TypeWaiter'
    BY <1>8 DEF EnqueueFails, TypeWaiter
  <2>2. TypeReq'
    BY <1>8 DEF EnqueueFails, CtxErr, TypeReq, ReqPcs, Errors, CtxState
  <2>3. TypeWork'
    BY <1>8 DEF EnqueueFails, TypeWork
  <2> QED
    BY <2>1, <2>2, <2>3 DEF TypeOK
<1>9. ASSUME NEW q \in Requesters, RoundDone(q)
      PROVE  TypeOK'
  <2>1. TypeWaiter'
    BY <1>9 DEF RoundDone, TypeWaiter
  <2>2. TypeReq'
    BY <1>9 DEF RoundDone, TypeReq, ReqPcs, Errors, CtxState
  <2>3. TypeWork'
    BY <1>9 DEF RoundDone, TypeWork
  <2> QED
    BY <2>1, <2>2, <2>3 DEF TypeOK
<1>10. ASSUME NEW q \in Requesters, GiveUp(q)
      PROVE  TypeOK'
  <2>1. TypeWaiter'
    BY <1>10, HasWaiter DEF GiveUp, TypeWaiter
  <2>2. TypeReq'
    BY <1>10 DEF GiveUp, TypeReq, ReqPcs, Errors, CtxState
  <2>3. TypeWork'
    BY <1>10 DEF GiveUp, TypeWork
  <2> QED
    BY <2>1, <2>2, <2>3 DEF TypeOK
<1>11. ASSUME NEW q \in Requesters, Reply(q)
      PROVE  TypeOK'
  <2> DEFINE res == Head(ch[rw[q]])
  <2>4. /\ rw[q] \in Waiters /\ ch[rw[q]] # <<>>
        /\ ch' = [ch EXCEPT ![rw[q]] = Tail(@)]
    BY <1>11, HasWaiter DEF Reply
  <2>5. res \in Result /\ Tail(ch[rw[q]]) = <<>>
    BY <2>4, OneResult
  <2>6. res.req \in Req
    BY <2>5 DEF Result
  <2>7. ch' \in [Waiters -> Seq(Result)] /\ \A w \in Waiters : Len(ch'[w]) <= 1
    BY <2>4, <2>5 DEF TypeWaiter
  <2>1. TypeWaiter'
    BY <1>11, <2>4, <2>7 DEF Reply, TypeWaiter
  <2> HIDE DEF res
  <2>2. TypeReq'
    BY <1>11, <2>6 DEF Reply, res, CtxErr, TypeReq, ReqPcs, Errors, CtxState
  <2>3. TypeWork'
    BY <1>11 DEF Reply, TypeWork
  <2> QED
    BY <2>1, <2>2, <2>3 DEF TypeOK
<1>12. ASSUME NEW q \in Requesters, WaitEnds(q)
      PROVE  TypeOK'
  <2>1. TypeWaiter'
    BY <1>12 DEF WaitEnds, TypeWaiter
  <2>2. TypeReq'
    BY <1>12 DEF WaitEnds, CtxErr, TypeReq, ReqPcs, Errors, CtxState
  <2>3. TypeWork'
    BY <1>12 DEF WaitEnds, TypeWork
  <2> QED
    BY <2>1, <2>2, <2>3 DEF TypeOK
<1>13. ASSUME NEW q \in Requesters, Abandon(q)
      PROVE  TypeOK'
  <2>1. TypeWaiter'
    BY <1>13, HasWaiter DEF Abandon, TypeWaiter
  <2>2. TypeReq'
    BY <1>13 DEF Abandon, TypeReq, ReqPcs, Errors, CtxState
  <2>3. TypeWork'
    BY <1>13 DEF Abandon, TypeWork
  <2> QED
    BY <2>1, <2>2, <2>3 DEF TypeOK
<1>14. ASSUME NEW q \in Requesters, FinishLost(q)
      PROVE  TypeOK'
  <2>1. TypeWaiter'
    BY <1>14 DEF FinishLost, TypeWaiter
  <2>2. TypeReq'
    BY <1>14 DEF FinishLost, TypeReq, ReqPcs, Errors, CtxState
  <2>3. TypeWork'
    BY <1>14 DEF FinishLost, TypeWork
  <2> QED
    BY <2>1, <2>2, <2>3 DEF TypeOK
<1>15. ASSUME NEW q \in Requesters, FinishRecv(q)
      PROVE  TypeOK'
  <2> DEFINE res == Head(ch[rw[q]])
  <2>4. /\ rw[q] \in Waiters /\ ch[rw[q]] # <<>>
        /\ ch' = [ch EXCEPT ![rw[q]] = Tail(@)]
    BY <1>15, HasWaiter DEF FinishRecv
  <2>5. res \in Result /\ Tail(ch[rw[q]]) = <<>>
    BY <2>4, OneResult
  <2>6. res.req \in Req
    BY <2>5 DEF Result
  <2>7. ch' \in [Waiters -> Seq(Result)] /\ \A w \in Waiters : Len(ch'[w]) <= 1
    BY <2>4, <2>5 DEF TypeWaiter
  <2>1. TypeWaiter'
    BY <1>15, <2>4, <2>7 DEF FinishRecv, TypeWaiter
  <2> HIDE DEF res
  <2>2. TypeReq'
    <3>1. UNCHANGED <<reqN, ctx, todo, delivered, attempt, terminal>>
      BY <1>15 DEF FinishRecv
    <3>2. CASE res.ok
      <4>1. Return(q, "reply", res.req)
        BY <1>15, <3>2 DEF FinishRecv, res
      <4> QED
        BY <2>6, <3>1, <4>1, ReturnType
    <3>3. CASE ~res.ok
      <4>1. Return(q, terminal[q], NoReq)
        BY <1>15, <3>3 DEF FinishRecv, res
      <4>2. terminal[q] \in Errors \cup {"none", "reply"}
        BY DEF TypeReq, Errors
      <4> QED
        BY <3>1, <4>1, <4>2, ReturnType
    <3> QED
      BY <3>2, <3>3
  <2>3. TypeWork'
    BY <1>15 DEF FinishRecv, TypeWork
  <2> QED
    BY <2>1, <2>2, <2>3 DEF TypeOK
<1>16. ASSUME NEW v \in Workers, WorkerTake(v)
      PROVE  TypeOK'
  <2>1. TypeWaiter'
    BY <1>16 DEF WorkerTake, TypeWaiter
  <2>2. TypeReq'
    BY <1>16 DEF WorkerTake, TypeReq
  <2>3. TypeWork'
    BY <1>16 DEF WorkerTake, TypeWork
  <2> QED
    BY <2>1, <2>2, <2>3 DEF TypeOK
<1>17. ASSUME NEW v \in Workers, Discard(v)
      PROVE  TypeOK'
  <2>1. TypeWaiter'
    BY <1>17 DEF Discard, TypeWaiter
  <2>2. TypeReq'
    BY <1>17 DEF Discard, TypeReq
  <2>3. TypeWork'
    BY <1>17 DEF Discard, TypeWork
  <2> QED
    BY <2>1, <2>2, <2>3 DEF TypeOK
<1>18. ASSUME NEW v \in Workers, Handled(v)
      PROVE  TypeOK'
  <2>1. TypeWaiter'
    BY <1>18 DEF Handled, TypeWaiter
  <2>2. TypeReq'
    BY <1>18 DEF Handled, TypeReq
  <2>3. TypeWork'
    BY <1>18 DEF Handled, TypeWork
  <2> QED
    BY <2>1, <2>2, <2>3 DEF TypeOK
<1>19. ASSUME NEW v \in Workers, Claim(v)
      PROVE  TypeOK'
  <2>1. TypeWaiter'
    BY <1>19 DEF Claim, TypeWaiter
  <2>2. TypeReq'
    BY <1>19 DEF Claim, TypeReq
  <2>4. [req |-> vd[v].req, ok |-> vok[v]] \in Result
    BY <1>19 DEF Claim, TypeWork, Delivery, Result
  <2>3. TypeWork'
    BY <1>19, <2>4 DEF Claim, TypeWork
  <2> QED
    BY <2>1, <2>2, <2>3 DEF TypeOK
<1>20. ASSUME NEW v \in Workers, SendReply(v)
      PROVE  TypeOK'
  <2> DEFINE res == [req |-> vd[v].req, ok |-> vok[v]]
  <2>4. res \in Result
    BY <1>20 DEF SendReply, TypeWork, Delivery, Result
  <2> HIDE DEF res
  <2>5. ch' = [ch EXCEPT ![vd[v].w] = <<res>>]
    BY <1>20 DEF SendReply, res
  <2>6. <<res>> \in Seq(Result) /\ Len(<<res>>) = 1
    BY <2>4
  <2>7. vd[v].w \in Waiters
    BY <1>20 DEF SendReply, TypeWork, Delivery
  <2>8. ch' \in [Waiters -> Seq(Result)] /\ \A w \in Waiters : Len(ch'[w]) <= 1
    BY <2>5, <2>6, <2>7 DEF TypeWaiter
  <2>1. TypeWaiter'
    BY <1>20, <2>8 DEF SendReply, TypeWaiter
  <2>2. TypeReq'
    BY <1>20 DEF SendReply, TypeReq
  <2>3. TypeWork'
    BY <1>20 DEF SendReply, TypeWork
  <2> QED
    BY <2>1, <2>2, <2>3 DEF TypeOK
<1>21. ASSUME NEW q \in Requesters, CtxEnds(q)
      PROVE  TypeOK'
  <2>1. TypeWaiter'
    BY <1>21 DEF CtxEnds, TypeWaiter
  <2>2. TypeReq'
    BY <1>21 DEF CtxEnds, TypeReq, ReqPcs, Errors, CtxState
  <2>3. TypeWork'
    BY <1>21 DEF CtxEnds, TypeWork
  <2> QED
    BY <2>1, <2>2, <2>3 DEF TypeOK
<1>22. CASE StopIntake \/ CloseBus
  BY <1>22 DEF StopIntake, CloseBus, TypeOK, TypeWaiter, TypeReq, TypeWork
<1>23. CASE UNCHANGED vars
  BY <1>23 DEF vars, TypeOK, TypeWaiter, TypeReq, TypeWork
<1> QED
  BY <1>1, <1>2, <1>3, <1>4, <1>5, <1>6, <1>7, <1>8, <1>9, <1>10, <1>11, <1>12,
     <1>13, <1>14, <1>15, <1>16, <1>17, <1>18, <1>19, <1>20, <1>21, <1>22, <1>23
     DEF Next, RequestStep, WorkerStep

\* Spec => []TypeOK: the state of requesters, waiters and workers keeps its type,
\* a waiter's channel never holds two results, and Request starts a round only
\* when one is left.
THEOREM TypeCorrect == Spec => []TypeOK
<1>1. Init => TypeOK
  <2> SUFFICES ASSUME Init PROVE TypeOK
    OBVIOUS
  <2>1. TypeWaiter
    <3>1. <<>> \in Seq(Result) /\ Len(<<>>) = 0
      OBVIOUS
    <3>2. ch \in [Waiters -> Seq(Result)] /\ \A w \in Waiters : Len(ch[w]) <= 1
      BY <3>1 DEF Init
    <3> QED
      BY <3>2 DEF Init, TypeWaiter
  <2>2. TypeReq
    BY RequestBounds DEF Init, TypeReq, ReqPcs, Errors, CtxState
  <2>3. TypeWork
    BY DEF Init, TypeWork
  <2> QED
    BY <2>1, <2>2, <2>3 DEF TypeOK
<1> QED
  BY <1>1, TypeInductive, PTL DEF Spec
-------------------------------------------------------------------------------
(* Who has a waiter *)

Holds(q) == rpc[q] \notin {"idle", "get"}

\* Each requester past GetWaiter has a waiter of its own, and none of these is
\* in the pool.
OwnInv ==
    /\ \A q \in Requesters : ~Holds(q) => rw[q] = NoWaiter
    /\ \A q \in Requesters : Holds(q) => rw[q] \notin pool
    /\ \A p, q \in Requesters : Holds(p) /\ Holds(q) /\ rw[p] = rw[q] => p = q

\* Every action keeps the waiters apart.
LEMMA OwnInductive ==
    TypeReq /\ OwnInv /\ [Next]_vars => OwnInv'
<1> SUFFICES ASSUME TypeReq, OwnInv, [Next]_vars PROVE OwnInv'
  OBVIOUS
<1> USE DEF OwnInv, Holds, TypeReq, Goto, Return, busVars, waitVars, reqVars, workVars
<1>1. ASSUME NEW q \in Requesters,
          \/ RequestStart(q) \/ ArmWaiter(q) \/ EnqueueFails(q)
          \/ RoundDone(q) \/ WaitEnds(q) \/ FinishLost(q)
          \/ CtxEnds(q)
      PROVE  OwnInv'
  BY <1>1 DEF RequestStart, ArmWaiter, EnqueueFails, RoundDone, WaitEnds,
     FinishLost, CtxEnds
<1>2. ASSUME NEW q \in Requesters, NEW w \in Waiters, GetWaiter(q, w)
      PROVE  OwnInv'
  <2>1. \A p \in Requesters : rw[p] # w
    <3>1. ASSUME NEW p \in Requesters, rw[p] = w PROVE FALSE
      BY <1>2, <3>1, Sentinels DEF GetWaiter
    <3> QED
      BY <3>1
  <2> QED
    BY <1>2, <2>1, HasWaiter DEF GetWaiter
<1>3. ASSUME NEW q \in Requesters, CollectNone(q) \/ GiveUp(q) \/ Reply(q)
                  \/ Abandon(q) \/ FinishRecv(q)
      PROVE  OwnInv'
  <2>1. \E kind, req : Return(q, kind, req)
    BY <1>3 DEF CollectNone, GiveUp, Reply, Abandon, FinishRecv
  <2>2. rpc[q] \notin {"idle", "get"}
    BY <1>3 DEF CollectNone, GiveUp, Reply, Abandon, FinishRecv
  <2> QED
    BY <2>1, <2>2
<1>4. ASSUME NEW q \in Requesters, NEW targets \in SUBSET Workers, Collect(q, targets)
      PROVE  OwnInv'
  BY <1>4 DEF Collect
<1>5. ASSUME NEW q \in Requesters, NEW v \in Workers, Accept(q, v) \/ TornDown(q, v)
      PROVE  OwnInv'
  BY <1>5 DEF Accept, TornDown
<1>6. ASSUME NEW v \in Workers, WorkerTake(v) \/ Discard(v) \/ Handled(v)
                  \/ Claim(v) \/ SendReply(v)
      PROVE  OwnInv'
  BY <1>6 DEF WorkerTake, Discard, Handled, Claim, SendReply
<1>7. CASE StopIntake \/ CloseBus
  BY <1>7 DEF StopIntake, CloseBus
<1>8. CASE UNCHANGED vars
  BY <1>8 DEF vars
<1> QED
  BY <1>1, <1>2, <1>3, <1>4, <1>5, <1>6, <1>7, <1>8
     DEF Next, RequestStep, WorkerStep

-------------------------------------------------------------------------------
(* What answers the waiters are open to *)

\* q's Request is the one w serves and it knows that some mailbox took it, so it
\* cannot return without a reply or the swap.
Serves(q, w, req) ==
    /\ rw[q] = w
    /\ rpc[q] \in {"enqueue", "wait", "finish", "recv"}
    /\ rpc[q] = "enqueue" => delivered[q]
    /\ CurrentReq(q) = req

Served(w, req) == \E q \in Requesters : Serves(q, w, req)

\* If the swap of a delivery's answer would succeed, its request is the one
\* its waiter serves.
Current(d) == d.reqGen <= gen[d.w] /\ (StillArmed(d) => Served(d.w, d.req))

DeliveryInv ==
    /\ \A q \in Requesters : rpc[q] \in {"get", "arm", "collect"} => ~delivered[q]
    /\ \A v \in Workers : \A i \in DOMAIN inbox[v] : Current(inbox[v][i])
    /\ \A v \in Workers : vpc[v] \in {"handle", "claim"} => Current(vd[v])

\* The responder that has won the swap is alone, and what it sends, or has
\* sent, answers the request its waiter serves.
AnswerInv ==
    /\ \A v \in Workers : vpc[v] = "send" =>
          ch[vd[v].w] = <<>> /\ ~armed[vd[v].w] /\ Served(vd[v].w, vd[v].req)
    /\ \A u, v \in Workers :
          vpc[u] = "send" /\ vpc[v] = "send" /\ vd[u].w = vd[v].w => u = v
    /\ \A w \in Waiters : ch[w] # <<>> => ~armed[w] /\ Served(w, Head(ch[w]).req)

WaiterInv == DeliveryInv /\ AnswerInv

\* What the rest of a mailbox holds was in it.
LEMMA TailElements ==
    ASSUME NEW S, NEW s \in Seq(S), s # <<>>
    PROVE  Head(s) = s[1] /\ \A i \in DOMAIN Tail(s) : i + 1 \in DOMAIN s /\ Tail(s)[i] = s[i + 1]
  OBVIOUS

\* A step that leaves waiters and workers as they are, and no request that is
\* served, keeps the invariant.
LEMMA SameWaiters ==
    ASSUME WaiterInv, UNCHANGED <<gen, armed, ch, inbox, workVars>>,
           \A q \in Requesters : \A w, req : Serves(q, w, req) => Serves(q, w, req)',
           \A q \in Requesters : rpc'[q] \in {"get", "arm", "collect"} => ~delivered'[q]
    PROVE  WaiterInv'
<1> USE DEF WaiterInv, workVars
<1>1. \A w, req : Served(w, req) => Served(w, req)'
  BY DEF Served
<1>2. \A d : Current(d) => Current(d)'
  BY <1>1 DEF Current, StillArmed
<1>3. DeliveryInv'
  BY <1>2 DEF DeliveryInv
<1>4. AnswerInv'
  BY <1>1 DEF AnswerInv
<1> QED
  BY <1>3, <1>4

\* A requester whose request is served is the only one at its waiter.
LEMMA ServedByHolder ==
    ASSUME OwnInv, TypeReq, NEW q \in Requesters, Holds(q),
           NEW w, NEW req, w = rw[q], Served(w, req)
    PROVE  Serves(q, w, req)
  BY DEF OwnInv, Served, Serves, Holds

\* Every action keeps the answers to the requests they are for.
LEMMA WaiterInductive ==
    TypeOK /\ OwnInv /\ WaiterInv /\ [Next]_vars => WaiterInv'
<1> SUFFICES ASSUME TypeOK, OwnInv, WaiterInv, [Next]_vars PROVE WaiterInv'
  OBVIOUS
<1>0. TypeWaiter /\ TypeReq /\ TypeWork
  BY DEF TypeOK
<1> USE <1>0
<1>1. ASSUME NEW q \in Requesters,
          \/ RequestStart(q) \/ CollectNone(q) \/ EnqueueFails(q)
          \/ RoundDone(q) \/ GiveUp(q) \/ WaitEnds(q)
          \/ FinishLost(q) \/ CtxEnds(q)
      PROVE  WaiterInv'
  <2>1. UNCHANGED <<gen, armed, ch, inbox, workVars>>
    BY <1>1 DEF RequestStart, CollectNone, EnqueueFails, RoundDone, GiveUp,
       WaitEnds, FinishLost, CtxEnds, waitVars
  <2>2. \A p \in Requesters : \A w, req : Serves(p, w, req) => Serves(p, w, req)'
    BY <1>1 DEF RequestStart, CollectNone, EnqueueFails, RoundDone, GiveUp,
       WaitEnds, FinishLost, CtxEnds, Serves, CurrentReq, Goto, Return, TypeReq,
       DeliveryInv, WaiterInv
  <2>3. \A p \in Requesters : rpc'[p] \in {"get", "arm", "collect"} => ~delivered'[p]
    BY <1>1 DEF RequestStart, CollectNone, EnqueueFails, RoundDone, GiveUp,
       WaitEnds, FinishLost, CtxEnds, Goto, Return, TypeReq, DeliveryInv, WaiterInv
  <2> QED
    BY <2>1, <2>2, <2>3, SameWaiters
<1>2. ASSUME NEW q \in Requesters, NEW w \in Waiters, GetWaiter(q, w)
      PROVE  WaiterInv'
  <2>1. UNCHANGED <<gen, armed, inbox, workVars>> /\ ch' = [ch EXCEPT ![w] = <<>>]
    BY <1>2 DEF GetWaiter
  <2>2. \A x, req : Served(x, req) => Served(x, req)'
    BY <1>2 DEF GetWaiter, Served, Serves, CurrentReq, Goto, TypeReq
  <2>3. \A p \in Requesters : rpc'[p] \in {"get", "arm", "collect"} => ~delivered'[p]
    BY <1>2 DEF GetWaiter, Goto, TypeReq, DeliveryInv, WaiterInv
  <2>4. \A d : Current(d) => Current(d)'
    BY <2>1, <2>2 DEF Current, StillArmed
  <2>5. DeliveryInv'
    BY <2>1, <2>3, <2>4 DEF DeliveryInv, WaiterInv, workVars
  <2>6. AnswerInv'
    BY <2>1, <2>2 DEF AnswerInv, WaiterInv, workVars, TypeWaiter
  <2> QED
    BY <2>5, <2>6 DEF WaiterInv
<1>3. ASSUME NEW q \in Requesters, ArmWaiter(q)
      PROVE  WaiterInv'
  <2> DEFINE w == rw[q]
  <2>1. w \in Waiters /\ Holds(q) /\ rpc[q] = "arm"
    BY <1>3, HasWaiter DEF ArmWaiter, Holds
  <2>2. gen' = [gen EXCEPT ![w] = gen[w] + 1] /\ UNCHANGED <<ch, inbox, vpc, vd>> /\ armed' = [armed EXCEPT ![w] = TRUE]
    BY <1>3 DEF ArmWaiter, Return, busVars, workVars
  <2>3. \A p \in Requesters : \A x, req : x # w /\ Serves(p, x, req) => Serves(p, x, req)'
    BY <1>3 DEF ArmWaiter, Serves, CurrentReq, Goto, Return, TypeReq
  <2>4. \A x, req : x # w /\ Served(x, req) => Served(x, req)'
    BY <2>3 DEF Served
  <2>5. \A p \in Requesters : rpc'[p] \in {"get", "arm", "collect"} => ~delivered'[p]
    BY <1>3 DEF ArmWaiter, Goto, Return, TypeReq, DeliveryInv, WaiterInv
  <2>6. /\ \A req : ~Served(w, req)
        /\ ch[w] = <<>> /\ \A v \in Workers : vpc[v] = "send" => vd[v].w # w
    <3>1. \A req : ~Served(w, req)
      BY <2>1, ServedByHolder DEF Serves
    <3> QED
      BY <2>1, <3>1 DEF AnswerInv, WaiterInv
  <2>7. DeliveryInv'
    <3>1. ASSUME NEW d \in Delivery, Current(d) PROVE Current(d)'
      <4>1. CASE d.w = w
        BY <2>1, <2>2, <2>6, <3>1, <4>1 DEF Current, StillArmed, TypeWaiter, Delivery
      <4>2. CASE d.w # w
        BY <2>1, <2>2, <2>4, <3>1, <4>2 DEF Current, StillArmed, TypeWaiter, Delivery
      <4> QED
        BY <4>1, <4>2
    <3>2. \A v \in Workers : \A i \in DOMAIN inbox[v] : inbox[v][i] \in Delivery
      BY DEF TypeWork
    <3> QED
      BY <2>2, <2>5, <3>1, <3>2 DEF DeliveryInv, WaiterInv, TypeWork
  <2>8. AnswerInv'
    <3>1. \A v \in Workers : vpc[v] = "send" => vd[v].w # w /\ vd[v].w \in Waiters
      BY <2>1, <2>6 DEF AnswerInv, WaiterInv, TypeWork, Delivery
    <3> QED
      BY <2>1, <2>2, <2>4, <2>6, <3>1 DEF AnswerInv, WaiterInv, TypeWaiter
  <2> QED
    BY <2>7, <2>8 DEF WaiterInv
<1>4. ASSUME NEW q \in Requesters, NEW targets \in SUBSET Workers, Collect(q, targets)
      PROVE  WaiterInv'
  <2>1. UNCHANGED <<gen, armed, ch, inbox, workVars>>
    BY <1>4 DEF Collect, waitVars
  <2>2. \A p \in Requesters : \A w, req : Serves(p, w, req) => Serves(p, w, req)'
    BY <1>4 DEF Collect, Serves, CurrentReq, Goto, Return, TypeReq, DeliveryInv, WaiterInv
  <2>3. \A p \in Requesters : rpc'[p] \in {"get", "arm", "collect"} => ~delivered'[p]
    BY <1>4 DEF Collect, Goto, Return, TypeReq, DeliveryInv, WaiterInv
  <2> QED
    BY <2>1, <2>2, <2>3, SameWaiters
<1>5. ASSUME NEW q \in Requesters, NEW v \in Workers, Accept(q, v)
      PROVE  WaiterInv'
  <2> DEFINE d == [req |-> CurrentReq(q), w |-> rw[q], reqGen |-> gen[rw[q]]]
  <2>1. UNCHANGED <<gen, armed, ch, workVars>>
    BY <1>5 DEF Accept, waitVars
  <2>2. \A x, req : Served(x, req) => Served(x, req)'
    BY <1>5 DEF Accept, Served, Serves, CurrentReq, TypeReq
  <2>3. \A p \in Requesters : rpc'[p] \in {"get", "arm", "collect"} => ~delivered'[p]
    BY <1>5 DEF Accept, TypeReq, DeliveryInv, WaiterInv
  <2>4. \A e : Current(e) => Current(e)'
    BY <2>1, <2>2 DEF Current, StillArmed
  <2>5. Serves(q, rw[q], CurrentReq(q))'
    BY <1>5 DEF Accept, Serves, CurrentReq, TypeReq
  <2>6. rw' = rw /\ CurrentReq(q)' = CurrentReq(q) /\ rw[q] \in Waiters
    BY <1>5, HasWaiter DEF Accept, CurrentReq
  <2>7. d.req = CurrentReq(q) /\ d.w = rw[q] /\ d.reqGen = gen[rw[q]]
    OBVIOUS
  <2> HIDE DEF d
  <2>8. PICK e : e = d
    OBVIOUS
  <2>9. Current(e)'
    BY <2>1, <2>5, <2>6, <2>7, <2>8 DEF Current, Served, Serves, CurrentReq, TypeWaiter
  <2>10. inbox' = [inbox EXCEPT ![v] = Append(inbox[v], e)] /\ inbox[v] \in Seq(Delivery)
    BY <1>5, <2>8 DEF Accept, d, TypeWork
  <2>11. \A u \in Workers : \A i \in DOMAIN inbox'[u] :
            inbox'[u][i] = e \/ Current(inbox'[u][i])
    <3>1. ASSUME NEW i \in DOMAIN Append(inbox[v], e)
          PROVE  Append(inbox[v], e)[i] = e \/ Current(Append(inbox[v], e)[i])
      <4>1. Append(inbox[v], e)[i] = e \/ (i \in DOMAIN inbox[v] /\ Append(inbox[v], e)[i] = inbox[v][i])
        BY <2>10
      <4> QED
        BY <4>1 DEF DeliveryInv, WaiterInv
    <3> QED
      BY <2>10, <3>1 DEF DeliveryInv, WaiterInv, TypeWork
  <2>12. AnswerInv'
    BY <2>1, <2>2 DEF AnswerInv, WaiterInv, workVars
  <2>13. DeliveryInv'
    BY <2>1, <2>3, <2>4, <2>9, <2>11 DEF DeliveryInv, WaiterInv, workVars
  <2> QED
    BY <2>12, <2>13 DEF WaiterInv
<1>6. ASSUME NEW q \in Requesters, NEW v \in Workers, TornDown(q, v)
      PROVE  WaiterInv'
  <2>1. UNCHANGED <<gen, armed, ch, inbox, workVars>>
    BY <1>6 DEF TornDown, waitVars
  <2>2. \A p \in Requesters : \A w, req : Serves(p, w, req) => Serves(p, w, req)'
    BY <1>6 DEF TornDown, Serves, CurrentReq, Goto, Return, TypeReq, DeliveryInv,
       WaiterInv
  <2>3. \A p \in Requesters : rpc'[p] \in {"get", "arm", "collect"} => ~delivered'[p]
    BY <1>6 DEF TornDown, Goto, Return, TypeReq, DeliveryInv, WaiterInv
  <2> QED
    BY <2>1, <2>2, <2>3, SameWaiters
<1>7. ASSUME NEW q \in Requesters, Reply(q) \/ FinishRecv(q)
      PROVE  WaiterInv'
  <2> DEFINE w == rw[q]
  <2>1. w \in Waiters /\ Holds(q) /\ ch[w] # <<>>
    BY <1>7, HasWaiter DEF Reply, FinishRecv, Holds
  <2>2. ch' = [ch EXCEPT ![w] = <<>>] /\ UNCHANGED <<gen, armed, inbox, vpc, vd>>
    BY <1>7, <2>1, OneResult DEF Reply, FinishRecv, Return, busVars, workVars
  <2>3. \A p \in Requesters : \A x, req : x # w /\ Serves(p, x, req) => Serves(p, x, req)'
    BY <1>7 DEF Reply, FinishRecv, Serves, CurrentReq, Goto, Return, TypeReq
  <2>4. \A x, req : x # w /\ Served(x, req) => Served(x, req)'
    BY <2>3 DEF Served
  <2>5. \A p \in Requesters : rpc'[p] \in {"get", "arm", "collect"} => ~delivered'[p]
    BY <1>7 DEF Reply, FinishRecv, Goto, Return, TypeReq, DeliveryInv, WaiterInv
  <2>6. ~armed[w] /\ \A v \in Workers : vpc[v] = "send" => vd[v].w # w
    BY <2>1 DEF AnswerInv, WaiterInv
  <2>7. DeliveryInv'
    <3>1. ASSUME NEW d \in Delivery, Current(d) PROVE Current(d)'
      <4>1. CASE d.w = w
        BY <2>1, <2>2, <2>6, <3>1, <4>1 DEF Current, StillArmed, TypeWaiter, Delivery
      <4>2. CASE d.w # w
        BY <2>1, <2>2, <2>4, <3>1, <4>2 DEF Current, StillArmed, TypeWaiter, Delivery
      <4> QED
        BY <4>1, <4>2
    <3>2. \A v \in Workers : \A i \in DOMAIN inbox[v] : inbox[v][i] \in Delivery
      BY DEF TypeWork
    <3> QED
      BY <2>2, <2>5, <3>1, <3>2 DEF DeliveryInv, WaiterInv, TypeWork
  <2>8. AnswerInv'
    <3>1. \A v \in Workers : vpc[v] = "send" => vd[v].w # w /\ vd[v].w \in Waiters
      BY <2>1, <2>6 DEF AnswerInv, WaiterInv, TypeWork, Delivery
    <3> QED
      BY <2>1, <2>2, <2>4, <2>6, <3>1 DEF AnswerInv, WaiterInv, TypeWaiter
  <2> QED
    BY <2>7, <2>8 DEF WaiterInv
<1>8. ASSUME NEW q \in Requesters, Abandon(q)
      PROVE  WaiterInv'
  <2> DEFINE w == rw[q]
  <2>1. w \in Waiters /\ Holds(q) /\ armed[w]
    BY <1>8, HasWaiter DEF Abandon, Holds
  <2>2. armed' = [armed EXCEPT ![w] = FALSE] /\ UNCHANGED <<gen, ch, inbox, vpc, vd>>
    BY <1>8 DEF Abandon, Return, busVars, workVars
  <2>3. \A p \in Requesters : \A x, req : x # w /\ Serves(p, x, req) => Serves(p, x, req)'
    BY <1>8 DEF Abandon, Serves, CurrentReq, Goto, Return, TypeReq
  <2>4. \A x, req : x # w /\ Served(x, req) => Served(x, req)'
    BY <2>3 DEF Served
  <2>5. \A p \in Requesters : rpc'[p] \in {"get", "arm", "collect"} => ~delivered'[p]
    BY <1>8 DEF Abandon, Goto, Return, TypeReq, DeliveryInv, WaiterInv
  <2>6. ch[w] = <<>> /\ \A v \in Workers : vpc[v] = "send" => vd[v].w # w
    BY <2>1 DEF AnswerInv, WaiterInv
  <2>7. DeliveryInv'
    <3>1. ASSUME NEW d \in Delivery, Current(d) PROVE Current(d)'
      <4>1. CASE d.w = w
        BY <2>1, <2>2, <2>6, <3>1, <4>1 DEF Current, StillArmed, TypeWaiter, Delivery
      <4>2. CASE d.w # w
        BY <2>1, <2>2, <2>4, <3>1, <4>2 DEF Current, StillArmed, TypeWaiter, Delivery
      <4> QED
        BY <4>1, <4>2
    <3>2. \A v \in Workers : \A i \in DOMAIN inbox[v] : inbox[v][i] \in Delivery
      BY DEF TypeWork
    <3> QED
      BY <2>2, <2>5, <3>1, <3>2 DEF DeliveryInv, WaiterInv, TypeWork
  <2>8. AnswerInv'
    <3>1. \A v \in Workers : vpc[v] = "send" => vd[v].w # w /\ vd[v].w \in Waiters
      BY <2>1, <2>6 DEF AnswerInv, WaiterInv, TypeWork, Delivery
    <3> QED
      BY <2>1, <2>2, <2>4, <2>6, <3>1 DEF AnswerInv, WaiterInv, TypeWaiter
  <2> QED
    BY <2>7, <2>8 DEF WaiterInv
<1>9. ASSUME NEW v \in Workers, WorkerTake(v)
      PROVE  WaiterInv'
  <2>1. UNCHANGED <<reqVars, waitVars>>
    BY <1>9 DEF WorkerTake
  <2>2. \A x, req : Served(x, req) => Served(x, req)'
    BY <2>1 DEF Served, Serves, CurrentReq, reqVars
  <2>3. \A d : Current(d) => Current(d)'
    BY <2>1, <2>2 DEF Current, StillArmed, waitVars
  <2>4. inbox[v] \in Seq(Delivery) /\ inbox[v] # <<>>
    BY <1>9 DEF WorkerTake, TypeWork
  <2>5. inbox' = [inbox EXCEPT ![v] = Tail(inbox[v])]
    BY <1>9 DEF WorkerTake
  <2>6. \A u \in Workers : \A i \in DOMAIN inbox'[u] : Current(inbox'[u][i])
    <3>1. ASSUME NEW i \in DOMAIN Tail(inbox[v]) PROVE Current(Tail(inbox[v])[i])
      BY <2>4, <3>1, TailElements DEF DeliveryInv, WaiterInv
    <3> QED
      BY <2>5, <3>1 DEF DeliveryInv, WaiterInv, TypeWork
  <2>7. Current(Head(inbox[v]))
    <3>1. 1 \in DOMAIN inbox[v] /\ Head(inbox[v]) = inbox[v][1]
      BY <2>4
    <3> QED
      BY <3>1 DEF DeliveryInv, WaiterInv
  <2>8. /\ vpc' = [vpc EXCEPT ![v] = "handle"]
        /\ vd' = [vd EXCEPT ![v] = Head(inbox[v])]
    BY <1>9 DEF WorkerTake
  <2>9. \A u \in Workers : vpc'[u] \in {"handle", "claim"} => Current(vd'[u])
    BY <2>7, <2>8 DEF DeliveryInv, WaiterInv, TypeWork
  <2>10. DeliveryInv'
    BY <2>1, <2>3, <2>6, <2>9 DEF DeliveryInv, WaiterInv, reqVars
  <2>11. AnswerInv'
    BY <2>1, <2>2, <2>8 DEF AnswerInv, WaiterInv, TypeWork, waitVars
  <2> QED
    BY <2>10, <2>11 DEF WaiterInv
<1>10. ASSUME NEW v \in Workers, Discard(v)
      PROVE  WaiterInv'
  <2>1. UNCHANGED <<reqVars, waitVars>>
    BY <1>10 DEF Discard
  <2>2. \A x, req : Served(x, req) => Served(x, req)'
    BY <2>1 DEF Served, Serves, CurrentReq, reqVars
  <2>3. \A d : Current(d) => Current(d)'
    BY <2>1, <2>2 DEF Current, StillArmed, waitVars
  <2>4. inbox[v] \in Seq(Delivery) /\ inbox[v] # <<>>
    BY <1>10 DEF Discard, TypeWork
  <2>5. inbox' = [inbox EXCEPT ![v] = Tail(inbox[v])]
    BY <1>10 DEF Discard
  <2>6. \A u \in Workers : \A i \in DOMAIN inbox'[u] : Current(inbox'[u][i])
    <3>1. ASSUME NEW i \in DOMAIN Tail(inbox[v]) PROVE Current(Tail(inbox[v])[i])
      BY <2>4, <3>1, TailElements DEF DeliveryInv, WaiterInv
    <3> QED
      BY <2>5, <3>1 DEF DeliveryInv, WaiterInv, TypeWork
  <2>7. DeliveryInv'
    BY <1>10, <2>1, <2>3, <2>6 DEF Discard, DeliveryInv, WaiterInv, reqVars, workVars
  <2>8. AnswerInv'
    BY <1>10, <2>1, <2>2 DEF Discard, AnswerInv, WaiterInv, waitVars, workVars
  <2> QED
    BY <2>7, <2>8 DEF WaiterInv
<1>11. ASSUME NEW v \in Workers, Handled(v)
      PROVE  WaiterInv'
  <2>1. UNCHANGED <<reqVars, waitVars>>
    BY <1>11 DEF Handled
  <2>2. \A x, req : Served(x, req) => Served(x, req)'
    BY <2>1 DEF Served, Serves, CurrentReq, reqVars
  <2>3. \A d : Current(d) => Current(d)'
    BY <2>1, <2>2 DEF Current, StillArmed, waitVars
  <2>4. vpc[v] = "handle" /\ vpc' = [vpc EXCEPT ![v] = "claim"] /\ UNCHANGED <<inbox, vd>>
    BY <1>11 DEF Handled
  <2>5. DeliveryInv'
    BY <2>1, <2>3, <2>4 DEF DeliveryInv, WaiterInv, TypeWork, reqVars
  <2>6. AnswerInv'
    BY <2>1, <2>2, <2>4 DEF AnswerInv, WaiterInv, TypeWork, waitVars
  <2> QED
    BY <2>5, <2>6 DEF WaiterInv
<1>12. ASSUME NEW v \in Workers, Claim(v)
      PROVE  WaiterInv'
  <2> DEFINE w == vd[v].w
  <2>1. UNCHANGED <<reqVars, gen, ch, inbox, vd>>
    BY <1>12 DEF Claim
  <2>2. \A x, req : Served(x, req) => Served(x, req)'
    BY <2>1 DEF Served, Serves, CurrentReq, reqVars
  <2>3. vd[v] \in Delivery /\ w \in Waiters /\ Current(vd[v]) /\ vpc[v] = "claim"
    BY <1>12 DEF Claim, TypeWork, Delivery, DeliveryInv, WaiterInv
  <2>4. CASE StillArmed(vd[v])
    <3>1. armed' = [armed EXCEPT ![w] = FALSE] /\ vpc' = [vpc EXCEPT ![v] = "send"]
      BY <1>12, <2>4 DEF Claim
    <3>2. /\ armed[w] /\ Served(w, vd[v].req) /\ ch[w] = <<>>
          /\ \A u \in Workers : vpc[u] = "send" => vd[u].w # w
      BY <2>3, <2>4 DEF Current, StillArmed, AnswerInv, WaiterInv
    <3>3. \A d : Current(d) => Current(d)'
      BY <2>1, <2>2, <3>1 DEF Current, StillArmed, TypeWaiter
    <3>4. DeliveryInv'
      BY <2>1, <2>3, <3>1, <3>3 DEF DeliveryInv, WaiterInv, TypeWork, reqVars
    <3>5. AnswerInv'
      BY <2>1, <2>2, <2>3, <3>1, <3>2 DEF AnswerInv, WaiterInv, TypeWork, TypeWaiter
    <3> QED
      BY <3>4, <3>5 DEF WaiterInv
  <2>5. CASE ~StillArmed(vd[v])
    <3>1. armed' = armed /\ vpc' = [vpc EXCEPT ![v] = "idle"]
      BY <1>12, <2>5 DEF Claim
    <3>2. \A d : Current(d) => Current(d)'
      BY <2>1, <2>2, <3>1 DEF Current, StillArmed
    <3>3. DeliveryInv'
      BY <2>1, <3>1, <3>2 DEF DeliveryInv, WaiterInv, TypeWork, reqVars
    <3>4. AnswerInv'
      BY <2>1, <2>2, <3>1 DEF AnswerInv, WaiterInv, TypeWork
    <3> QED
      BY <3>3, <3>4 DEF WaiterInv
  <2> QED
    BY <2>4, <2>5
<1>13. ASSUME NEW v \in Workers, SendReply(v)
      PROVE  WaiterInv'
  <2> DEFINE w == vd[v].w
             res == [req |-> vd[v].req, ok |-> vok[v]]
  <2>1. UNCHANGED <<reqVars, gen, armed, inbox, vd>>
    BY <1>13 DEF SendReply
  <2>2. \A x, req : Served(x, req) => Served(x, req)'
    BY <2>1 DEF Served, Serves, CurrentReq, reqVars
  <2>3. /\ vpc[v] = "send" /\ vpc' = [vpc EXCEPT ![v] = "idle"]
        /\ ch' = [ch EXCEPT ![w] = <<res>>] /\ w \in Waiters
    BY <1>13 DEF SendReply, TypeWork, Delivery
  <2>4. ~armed[w] /\ Served(w, vd[v].req)
    BY <2>3 DEF AnswerInv, WaiterInv
  <2>5. Head(<<res>>).req = vd[v].req
    OBVIOUS
  <2> HIDE DEF res
  <2>6. \A d : Current(d) => Current(d)'
    BY <2>1, <2>2 DEF Current, StillArmed
  <2>7. DeliveryInv'
    BY <2>1, <2>3, <2>6 DEF DeliveryInv, WaiterInv, TypeWork, reqVars
  <2>8. ASSUME NEW u \in Workers, vpc'[u] = "send"
        PROVE  u # v /\ vpc[u] = "send" /\ vd[u].w # w /\ vd[u].w \in Waiters
    BY <2>3, <2>8 DEF AnswerInv, WaiterInv, TypeWork, Delivery
  <2>9. ASSUME NEW x \in Waiters, ch'[x] # <<>>
        PROVE  (~armed[x] /\ Served(x, Head(ch[x]).req))'
    <3>1. CASE x = w
      BY <2>1, <2>2, <2>3, <2>4, <2>5, <3>1 DEF TypeWaiter
    <3>2. CASE x # w
      BY <2>1, <2>2, <2>3, <2>9, <3>2 DEF TypeWaiter, AnswerInv, WaiterInv
    <3> QED
      BY <3>1, <3>2
  <2>10. AnswerInv'
    BY <2>1, <2>2, <2>3, <2>8, <2>9 DEF AnswerInv, WaiterInv, TypeWaiter
  <2> QED
    BY <2>7, <2>10 DEF WaiterInv
<1>14. CASE StopIntake \/ CloseBus
  <2>1. UNCHANGED <<gen, armed, ch, inbox, workVars, reqVars>>
    BY <1>14 DEF StopIntake, CloseBus, waitVars
  <2>2. \A p \in Requesters : \A w, req : Serves(p, w, req) => Serves(p, w, req)'
    BY <2>1 DEF Serves, CurrentReq, reqVars
  <2>3. \A p \in Requesters : rpc'[p] \in {"get", "arm", "collect"} => ~delivered'[p]
    BY <2>1 DEF reqVars, DeliveryInv, WaiterInv
  <2> QED
    BY <2>1, <2>2, <2>3, SameWaiters
<1>15. CASE UNCHANGED vars
  <2>1. UNCHANGED <<gen, armed, ch, inbox, workVars, reqVars>>
    BY <1>15 DEF vars, waitVars, workVars, reqVars
  <2>2. \A p \in Requesters : \A w, req : Serves(p, w, req) => Serves(p, w, req)'
    BY <2>1 DEF Serves, CurrentReq, reqVars
  <2>3. \A p \in Requesters : rpc'[p] \in {"get", "arm", "collect"} => ~delivered'[p]
    BY <2>1 DEF reqVars, DeliveryInv, WaiterInv
  <2> QED
    BY <2>1, <2>2, <2>3, SameWaiters
<1> QED
  BY <1>1, <1>2, <1>3, <1>4, <1>5, <1>6, <1>7, <1>8, <1>9, <1>10, <1>11,
     <1>12, <1>13, <1>14, <1>15
     DEF Next, RequestStep, WorkerStep

-------------------------------------------------------------------------------
(* Waiters and replies *)

\* The initial state has all waiters new and all requesters idle.
LEMMA WaitersInit == Init => OwnInv /\ WaiterInv
<1> SUFFICES ASSUME Init PROVE OwnInv /\ WaiterInv
  OBVIOUS
<1>1. OwnInv
  BY DEF Init, OwnInv, Holds
<1>2. DeliveryInv
  BY DEF Init, DeliveryInv
<1>3. AnswerInv
  BY DEF Init, AnswerInv
<1> QED
  BY <1>1, <1>2, <1>3 DEF WaiterInv

\* In every reachable state each requester has a waiter of its own, and what
\* workers hold or have sent answers the request its waiter serves.
LEMMA WaitersCorrect == Spec => [](TypeOK /\ OwnInv /\ WaiterInv)
<1>1. TypeOK /\ OwnInv /\ [Next]_vars => OwnInv'
  BY OwnInductive DEF TypeOK
<1>2. Spec => []TypeOK
  BY TypeCorrect
<1> QED
  BY <1>1, <1>2, WaitersInit, TypeInductive, WaiterInductive, PTL DEF Spec

\* Spec => []PooledWaiterClean: in waiterPool no waiter has a result on its
\* channel or a responder that will still send one.
THEOREM CleanCorrect == Spec => []PooledWaiterClean
<1>1. TypeOK /\ OwnInv /\ WaiterInv => PooledWaiterClean
  <2> SUFFICES ASSUME TypeOK, OwnInv, WaiterInv, NEW w \in pool
               PROVE  ch[w] = <<>> /\ \A v \in Workers : vpc[v] = "send" => vd[v].w # w
    BY DEF PooledWaiterClean
  <2>1. w \in Waiters
    BY DEF TypeOK, TypeWaiter
  <2>2. \A req : ~Served(w, req)
    BY DEF Served, Serves, OwnInv, Holds
  <2> QED
    BY <2>1, <2>2 DEF WaiterInv, AnswerInv
<1> QED
  BY <1>1, WaitersCorrect, PTL

\* Spec => []ResponderNeverBlocks: the send of waiter.deliver finds the channel
\* empty.
THEOREM NeverBlocksCorrect == Spec => []ResponderNeverBlocks
<1>1. WaiterInv => ResponderNeverBlocks
  BY DEF WaiterInv, AnswerInv, ResponderNeverBlocks
<1> QED
  BY <1>1, WaitersCorrect, PTL

\* The result a requester reads answers its own request.
LEMMA ReadsOwnReply ==
    ASSUME TypeOK, OwnInv, WaiterInv, NEW q \in Requesters, Holds(q), ch[rw[q]] # <<>>
    PROVE  Head(ch[rw[q]]).req = CurrentReq(q)
<1>1. rw[q] \in Waiters
  BY HasWaiter DEF TypeOK, Holds
<1>2. Served(rw[q], Head(ch[rw[q]]).req)
  BY <1>1 DEF WaiterInv, AnswerInv
<1> QED
  BY <1>2, ServedByHolder DEF TypeOK, Serves

\* Every action keeps the replies returned those to the requests made.
LEMMA ReplyInductive ==
    TypeOK /\ OwnInv /\ WaiterInv /\ ReplyMatchesRequest /\ [Next]_vars => ReplyMatchesRequest'
<1> SUFFICES ASSUME TypeOK, OwnInv, WaiterInv, ReplyMatchesRequest, [Next]_vars PROVE ReplyMatchesRequest'
  OBVIOUS
<1>0. TypeWaiter /\ TypeReq /\ TypeWork
  BY DEF TypeOK
<1> USE <1>0
<1>1. ASSUME NEW q \in Requesters,
          \/ RequestStart(q) \/ ArmWaiter(q) \/ CollectNone(q)
          \/ EnqueueFails(q) \/ RoundDone(q) \/ GiveUp(q)
          \/ WaitEnds(q) \/ FinishLost(q) \/ CtxEnds(q)
      PROVE  ReplyMatchesRequest'
  BY <1>1 DEF RequestStart, ArmWaiter, CollectNone, EnqueueFails, RoundDone, GiveUp,
     WaitEnds, FinishLost, CtxEnds, ReplyMatchesRequest, CurrentReq, Goto, Return,
     TypeReq
<1>2. ASSUME NEW q \in Requesters, NEW w \in Waiters, GetWaiter(q, w)
      PROVE  ReplyMatchesRequest'
  BY <1>2 DEF GetWaiter, ReplyMatchesRequest, CurrentReq, Goto, Return, TypeReq
<1>3. ASSUME NEW q \in Requesters, NEW targets \in SUBSET Workers, Collect(q, targets)
      PROVE  ReplyMatchesRequest'
  BY <1>3 DEF Collect, ReplyMatchesRequest, CurrentReq, Goto, Return, TypeReq
<1>4. ASSUME NEW q \in Requesters, NEW v \in Workers, Accept(q, v) \/ TornDown(q, v)
      PROVE  ReplyMatchesRequest'
  BY <1>4 DEF Accept, TornDown, ReplyMatchesRequest, CurrentReq, Goto, Return, TypeReq
<1>5. ASSUME NEW q \in Requesters, Reply(q)
      PROVE  ReplyMatchesRequest'
  <2>1. \E kind, req : Return(q, kind, req) /\ (kind = "reply" => req = CurrentReq(q))
    <3>1. Head(ch[rw[q]]).req = CurrentReq(q)
      BY <1>5, ReadsOwnReply DEF Reply, Holds
    <3> QED
      BY <1>5, <3>1 DEF Reply, CtxErr, TypeReq
  <2>2. UNCHANGED reqN
    BY <1>5 DEF Reply
  <2> QED
    BY <2>1, <2>2 DEF ReplyMatchesRequest, CurrentReq, Goto, Return, TypeReq
<1>6. ASSUME NEW q \in Requesters, Abandon(q)
      PROVE  ReplyMatchesRequest'
  <2>1. Return(q, terminal[q], NoReq) /\ UNCHANGED reqN /\ terminal[q] # "reply"
    BY <1>6 DEF Abandon, TypeReq
  <2> QED
    BY <2>1 DEF ReplyMatchesRequest, CurrentReq, Goto, Return, TypeReq
<1>7. ASSUME NEW q \in Requesters, FinishRecv(q)
      PROVE  ReplyMatchesRequest'
  <2>1. \E kind, req : Return(q, kind, req) /\ (kind = "reply" => req = CurrentReq(q))
    <3>1. Head(ch[rw[q]]).req = CurrentReq(q)
      BY <1>7, ReadsOwnReply DEF FinishRecv, Holds
    <3> QED
      BY <1>7, <3>1 DEF FinishRecv, CtxErr, TypeReq
  <2>2. UNCHANGED reqN
    BY <1>7 DEF FinishRecv
  <2> QED
    BY <2>1, <2>2 DEF ReplyMatchesRequest, CurrentReq, Goto, Return, TypeReq
<1>8. ASSUME NEW v \in Workers, WorkerTake(v) \/ Discard(v) \/ Handled(v)
                  \/ Claim(v) \/ SendReply(v)
      PROVE  ReplyMatchesRequest'
  BY <1>8 DEF WorkerTake, Discard, Handled, Claim, SendReply, ReplyMatchesRequest,
     CurrentReq, reqVars
<1>9. CASE StopIntake \/ CloseBus
  BY <1>9 DEF StopIntake, CloseBus, reqVars, ReplyMatchesRequest, CurrentReq
<1>10. CASE UNCHANGED vars
  BY <1>10 DEF vars, reqVars, ReplyMatchesRequest, CurrentReq
<1> QED
  BY <1>1, <1>2, <1>3, <1>4, <1>5, <1>6, <1>7, <1>8, <1>9, <1>10
     DEF Next, RequestStep, WorkerStep

\* Spec => []ReplyMatchesRequest: whatever waiters are reused and however late
\* responders answer, a Request that returns a reply returns its own.
THEOREM ReplyCorrect == Spec => []ReplyMatchesRequest
<1>1. Init => ReplyMatchesRequest
  BY DEF Init, ReplyMatchesRequest
<1> QED
  BY <1>1, WaitersCorrect, ReplyInductive, PTL DEF Spec

-------------------------------------------------------------------------------
(* Retries *)

\* The request exists and, if it is its requester's latest, the search for its
\* targets has begun.
Made(req) ==
    /\ req.n <= reqN[req.by]
    /\ req.n = reqN[req.by] => rpc[req.by] \notin {"get", "arm"}

\* Whatever a mailbox or a worker has been given was made.
MadeInv ==
    /\ \A e \in accepted : Made(e[1])
    /\ \A v \in Workers : \A i \in DOMAIN inbox[v] : Made(inbox[v][i].req)
    /\ \A v \in Workers : vpc[v] # "idle" => Made(vd[v].req)
    /\ \A res \in claims : Made(res.req)

\* A request that a mailbox took is known to its requester: delivered is set
\* while it goes on to look for targets.
RetryInv ==
    /\ \A q \in Requesters : rpc[q] \in {"collect", "enqueue"} /\ ~delivered[q]
          => \A v \in Workers : <<CurrentReq(q), v>> \notin accepted
    /\ RetryOnlyUndelivered

\* What was made stays made.
LEMMA MadeStays ==
    TypeReq /\ [Next]_vars => \A req \in Req : Made(req) => Made(req)'
<1> SUFFICES ASSUME TypeReq, [Next]_vars PROVE \A req \in Req : Made(req) => Made(req)'
  OBVIOUS
<1> USE DEF Made, Req, Goto, Return, TypeReq
<1>1. ASSUME NEW q \in Requesters,
          \/ RequestStart(q) \/ ArmWaiter(q) \/ CollectNone(q)
          \/ EnqueueFails(q) \/ RoundDone(q) \/ GiveUp(q)
          \/ Reply(q) \/ WaitEnds(q) \/ Abandon(q)
          \/ FinishLost(q) \/ FinishRecv(q) \/ CtxEnds(q)
      PROVE  \A req \in Req : Made(req) => Made(req)'
  BY <1>1 DEF RequestStart, ArmWaiter, CollectNone, EnqueueFails, RoundDone, GiveUp,
     Reply, WaitEnds, Abandon, FinishLost, FinishRecv, CtxEnds
<1>2. ASSUME NEW q \in Requesters, NEW w \in Waiters, GetWaiter(q, w)
      PROVE  \A req \in Req : Made(req) => Made(req)'
  BY <1>2 DEF GetWaiter
<1>3. ASSUME NEW q \in Requesters, NEW targets \in SUBSET Workers, Collect(q, targets)
      PROVE  \A req \in Req : Made(req) => Made(req)'
  BY <1>3 DEF Collect
<1>4. ASSUME NEW q \in Requesters, NEW v \in Workers, Accept(q, v) \/ TornDown(q, v)
      PROVE  \A req \in Req : Made(req) => Made(req)'
  BY <1>4 DEF Accept, TornDown
<1>5. ASSUME NEW v \in Workers, WorkerTake(v) \/ Discard(v) \/ Handled(v)
                  \/ Claim(v) \/ SendReply(v)
      PROVE  \A req \in Req : Made(req) => Made(req)'
  BY <1>5 DEF WorkerTake, Discard, Handled, Claim, SendReply, reqVars
<1>6. CASE StopIntake \/ CloseBus
  BY <1>6 DEF StopIntake, CloseBus, reqVars
<1>7. CASE UNCHANGED vars
  BY <1>7 DEF vars, reqVars
<1> QED
  BY <1>1, <1>2, <1>3, <1>4, <1>5, <1>6, <1>7
     DEF Next, RequestStep, WorkerStep

\* What mailboxes and workers have been given are requests.
LEMMA ReqTypes ==
    ASSUME TypeWork
    PROVE  /\ \A e \in accepted : e[1] \in Req
           /\ \A v \in Workers : \A i \in DOMAIN inbox[v] : inbox[v][i].req \in Req
           /\ \A v \in Workers : vpc[v] # "idle" => vd[v].req \in Req
           /\ \A res \in claims : res.req \in Req
<1>1. \A v \in Workers : \A i \in DOMAIN inbox[v] : inbox[v][i] \in Delivery
  BY DEF TypeWork
<1>2. \A d \in Delivery : d.req \in Req
  BY DEF Delivery
<1>3. \A v \in Workers : \A i \in DOMAIN inbox[v] : inbox[v][i].req \in Req
  BY <1>1, <1>2
<1>4. \A res \in claims : res.req \in Req
  BY DEF TypeWork, Result
<1>5. \A e \in accepted : e[1] \in Req
  BY DEF TypeWork
<1>6. \A v \in Workers : vpc[v] # "idle" => vd[v].req \in Req
  BY <1>2 DEF TypeWork
<1> QED
  BY <1>3, <1>4, <1>5, <1>6

\* A step that gives nothing to mailboxes and workers.
LEMMA NothingGiven ==
    ASSUME TypeWork, MadeInv, UNCHANGED <<inbox, workVars, claims, accepted>>,
           \A req \in Req : Made(req) => Made(req)'
    PROVE  MadeInv'
  BY ReqTypes DEF MadeInv, workVars

\* Every action gives mailboxes and workers only what was made.
LEMMA MadeInductive ==
    TypeOK /\ MadeInv /\ [Next]_vars => MadeInv'
<1> SUFFICES ASSUME TypeOK, MadeInv, [Next]_vars PROVE MadeInv'
  OBVIOUS
<1>0. TypeWaiter /\ TypeReq /\ TypeWork
  BY DEF TypeOK
<1> USE <1>0
<1>m. \A req \in Req : Made(req) => Made(req)'
  BY MadeStays
<1>1. ASSUME NEW q \in Requesters,
          \/ RequestStart(q) \/ ArmWaiter(q) \/ CollectNone(q)
          \/ EnqueueFails(q) \/ RoundDone(q) \/ GiveUp(q)
          \/ Reply(q) \/ WaitEnds(q) \/ Abandon(q)
          \/ FinishLost(q) \/ FinishRecv(q) \/ CtxEnds(q)
      PROVE  MadeInv'
  <2>1. UNCHANGED <<inbox, workVars, claims, accepted>>
    BY <1>1 DEF RequestStart, ArmWaiter, CollectNone, EnqueueFails, RoundDone,
       GiveUp, Reply, WaitEnds, Abandon, FinishLost, FinishRecv, CtxEnds
  <2> QED
    BY <1>m, <2>1, NothingGiven
<1>2. ASSUME NEW q \in Requesters, NEW w \in Waiters, GetWaiter(q, w)
      PROVE  MadeInv'
  <2>1. UNCHANGED <<inbox, workVars, claims, accepted>>
    BY <1>2 DEF GetWaiter
  <2> QED
    BY <1>m, <2>1, NothingGiven
<1>3. ASSUME NEW q \in Requesters, NEW targets \in SUBSET Workers, Collect(q, targets)
      PROVE  MadeInv'
  <2>1. UNCHANGED <<inbox, workVars, claims, accepted>>
    BY <1>3 DEF Collect
  <2> QED
    BY <1>m, <2>1, NothingGiven
<1>4. ASSUME NEW q \in Requesters, NEW v \in Workers, Accept(q, v)
      PROVE  MadeInv'
  <2>1. UNCHANGED <<workVars, claims>> /\ CurrentReq(q) \in Req
    BY <1>4, CurrentReqType DEF Accept
  <2>2. Made(CurrentReq(q))'
    BY <1>4 DEF Accept, Made, CurrentReq, TypeReq
  <2>3. PICK d : d = [req |-> CurrentReq(q), w |-> rw[q], reqGen |-> gen[rw[q]]]
    OBVIOUS
  <2>4. Made(d.req)' /\ inbox[v] \in Seq(Delivery)
    BY <1>4, <2>2, <2>3 DEF Accept, CurrentReq, TypeWork
  <2>5. inbox' = [inbox EXCEPT ![v] = Append(inbox[v], d)]
    BY <1>4, <2>3 DEF Accept
  <2>6. \A e \in accepted' : Made(e[1])'
    BY <1>4, <1>m, <2>2 DEF Accept, MadeInv, TypeWork, CurrentReq
  <2>7. ASSUME NEW i \in DOMAIN Append(inbox[v], d)
        PROVE  \/ Append(inbox[v], d)[i] = d
               \/ i \in DOMAIN inbox[v] /\ Append(inbox[v], d)[i] = inbox[v][i]
    BY <2>4, <2>7
  <2>8. \A u \in Workers : \A i \in DOMAIN inbox'[u] :
           \/ inbox'[u][i] = d
           \/ i \in DOMAIN inbox[u] /\ inbox'[u][i] = inbox[u][i]
    BY <2>5, <2>7 DEF TypeWork
  <2>9. \A u \in Workers : \A i \in DOMAIN inbox[u] : inbox[u][i].req \in Req
    BY ReqTypes
  <2>10. \A u \in Workers : \A i \in DOMAIN inbox'[u] :
            inbox'[u][i] = d \/ (inbox'[u][i].req \in Req /\ Made(inbox'[u][i].req))
    BY <2>8, <2>9 DEF MadeInv
  <2>11. \A u \in Workers : \A i \in DOMAIN inbox'[u] : (Made(inbox[u][i].req))'
    BY <1>m, <2>4, <2>10
  <2> QED
    BY <1>m, <2>1, <2>6, <2>11, ReqTypes DEF MadeInv, workVars
<1>5. ASSUME NEW q \in Requesters, NEW v \in Workers, TornDown(q, v)
      PROVE  MadeInv'
  <2>1. UNCHANGED <<inbox, workVars, claims, accepted>>
    BY <1>5 DEF TornDown
  <2> QED
    BY <1>m, <2>1, NothingGiven
<1>6. ASSUME NEW v \in Workers, WorkerTake(v)
      PROVE  MadeInv'
  <2>1. UNCHANGED <<claims, accepted>>
    BY <1>6 DEF WorkerTake, workVars
  <2>2. inbox[v] \in Seq(Delivery) /\ inbox[v] # <<>> /\ inbox' = [inbox EXCEPT ![v] = Tail(inbox[v])]
    BY <1>6 DEF WorkerTake, TypeWork
  <2>3. ASSUME NEW i \in DOMAIN Tail(inbox[v])
        PROVE  i + 1 \in DOMAIN inbox[v] /\ Tail(inbox[v])[i] = inbox[v][i + 1]
    BY <2>2, <2>3, TailElements
  <2>4. \A u \in Workers : \A i \in DOMAIN inbox'[u] : \E j \in DOMAIN inbox[u] : inbox'[u][i] = inbox[u][j]
    BY <2>2, <2>3 DEF TypeWork
  <2>5. \A u \in Workers : \A i \in DOMAIN inbox[u] : inbox[u][i].req \in Req
    BY ReqTypes
  <2>6. \A u \in Workers : \A i \in DOMAIN inbox'[u] :
           inbox'[u][i].req \in Req /\ Made(inbox'[u][i].req)
    BY <2>4, <2>5 DEF MadeInv
  <2>7. \A u \in Workers : \A i \in DOMAIN inbox'[u] : (Made(inbox[u][i].req))'
    BY <1>m, <2>6
  <2>8. 1 \in DOMAIN inbox[v] /\ Head(inbox[v]) = inbox[v][1]
    BY <2>2
  <2>9. Head(inbox[v]).req \in Req /\ Made(Head(inbox[v]).req)
    BY <2>5, <2>8 DEF MadeInv
  <2>10. ASSUME NEW u \in Workers, vpc'[u] # "idle" PROVE Made(vd[u].req)'
    <3>1. vd'[u].req \in Req /\ Made(vd'[u].req)
      BY <1>6, <2>9, <2>10, ReqTypes DEF WorkerTake, MadeInv, TypeWork
    <3> QED
      BY <1>m, <3>1
  <2> QED
    BY <1>m, <2>1, <2>7, <2>10, ReqTypes DEF MadeInv
<1>7. ASSUME NEW v \in Workers, Discard(v)
      PROVE  MadeInv'
  <2>1. UNCHANGED <<claims, accepted>>
    BY <1>7 DEF Discard, workVars
  <2>2. inbox[v] \in Seq(Delivery) /\ inbox[v] # <<>> /\ inbox' = [inbox EXCEPT ![v] = Tail(inbox[v])]
    BY <1>7 DEF Discard, TypeWork
  <2>3. ASSUME NEW i \in DOMAIN Tail(inbox[v])
        PROVE  i + 1 \in DOMAIN inbox[v] /\ Tail(inbox[v])[i] = inbox[v][i + 1]
    BY <2>2, <2>3, TailElements
  <2>4. \A u \in Workers : \A i \in DOMAIN inbox'[u] : \E j \in DOMAIN inbox[u] : inbox'[u][i] = inbox[u][j]
    BY <2>2, <2>3 DEF TypeWork
  <2>5. \A u \in Workers : \A i \in DOMAIN inbox[u] : inbox[u][i].req \in Req
    BY ReqTypes
  <2>6. \A u \in Workers : \A i \in DOMAIN inbox'[u] :
           inbox'[u][i].req \in Req /\ Made(inbox'[u][i].req)
    BY <2>4, <2>5 DEF MadeInv
  <2>7. \A u \in Workers : \A i \in DOMAIN inbox'[u] : (Made(inbox[u][i].req))'
    BY <1>m, <2>6
  <2> QED
    BY <1>7, <1>m, <2>1, <2>7, ReqTypes DEF Discard, MadeInv, workVars
<1>8. ASSUME NEW v \in Workers, Handled(v) \/ SendReply(v)
      PROVE  MadeInv'
  BY <1>8, <1>m, ReqTypes DEF Handled, SendReply, MadeInv, TypeWork
<1>9. ASSUME NEW v \in Workers, Claim(v)
      PROVE  MadeInv'
  <2>1. \A res \in claims' : res.req \in Req /\ Made(res.req)
    BY <1>9, ReqTypes DEF Claim, MadeInv
  <2> QED
    BY <1>9, <1>m, <2>1, ReqTypes DEF Claim, MadeInv, TypeWork
<1>10. CASE StopIntake \/ CloseBus
  <2>1. UNCHANGED <<inbox, workVars, claims, accepted>>
    BY <1>10 DEF StopIntake, CloseBus, workVars
  <2> QED
    BY <1>m, <2>1, NothingGiven
<1>11. CASE UNCHANGED vars
  <2>1. UNCHANGED <<inbox, workVars, claims, accepted>>
    BY <1>11 DEF vars, workVars
  <2> QED
    BY <1>m, <2>1, NothingGiven
<1> QED
  BY <1>1, <1>2, <1>3, <1>4, <1>5, <1>6, <1>7, <1>8, <1>9, <1>10, <1>11
     DEF Next, RequestStep, WorkerStep

\* Every action keeps a request out of a second round once a mailbox took it.
LEMMA RetryInductive ==
    TypeOK /\ WaiterInv /\ MadeInv /\ RetryInv /\ [Next]_vars => RetryInv'
<1> SUFFICES ASSUME TypeOK, WaiterInv, MadeInv, RetryInv, [Next]_vars PROVE RetryInv'
  OBVIOUS
<1>0. TypeWaiter /\ TypeReq /\ TypeWork
  BY DEF TypeOK
<1> USE <1>0 DEF RetryInv, RetryOnlyUndelivered, CurrentReq, Goto, Return, TypeReq
<1>1. ASSUME NEW q \in Requesters,
          \/ RequestStart(q) \/ EnqueueFails(q) \/ RoundDone(q)
          \/ GiveUp(q) \/ WaitEnds(q) \/ Abandon(q)
          \/ FinishLost(q) \/ CtxEnds(q)
      PROVE  RetryInv'
  <2>1. \A p \in Requesters : rpc'[p] \in {"collect", "enqueue"} /\ ~delivered'[p]
           => \A u \in Workers : <<CurrentReq(p)', u>> \notin accepted'
    BY <1>1 DEF RequestStart, EnqueueFails, RoundDone, GiveUp, WaitEnds, Abandon,
       FinishLost, CtxEnds
  <2>2. RetryOnlyUndelivered'
    BY <1>1, <2>1 DEF RequestStart, EnqueueFails, RoundDone, GiveUp, WaitEnds,
       Abandon, FinishLost, CtxEnds, RetryOnlyUndelivered
  <2> QED
    BY <2>1, <2>2 DEF CurrentReq
<1>2. ASSUME NEW q \in Requesters, NEW w \in Waiters, GetWaiter(q, w)
      PROVE  RetryInv'
  <2>1. \A p \in Requesters : rpc'[p] \in {"collect", "enqueue"} /\ ~delivered'[p]
           => \A u \in Workers : <<CurrentReq(p)', u>> \notin accepted'
    BY <1>2 DEF GetWaiter
  <2>2. RetryOnlyUndelivered'
    BY <1>2, <2>1 DEF GetWaiter, RetryOnlyUndelivered
  <2> QED
    BY <2>1, <2>2 DEF CurrentReq
<1>3. ASSUME NEW q \in Requesters, ArmWaiter(q)
      PROVE  RetryInv'
  <2>0. \A v \in Workers : <<CurrentReq(q), v>> \notin accepted
    <3>1. ~Made(CurrentReq(q))
      BY <1>3 DEF ArmWaiter, Made
    <3> QED
      BY <3>1 DEF MadeInv
  <2>1. \A p \in Requesters : rpc'[p] \in {"collect", "enqueue"} /\ ~delivered'[p]
           => \A u \in Workers : <<CurrentReq(p)', u>> \notin accepted'
    BY <1>3, <2>0 DEF ArmWaiter
  <2>2. RetryOnlyUndelivered'
    BY <1>3, <2>1, <2>0 DEF ArmWaiter, RetryOnlyUndelivered
  <2> QED
    BY <2>1, <2>2 DEF CurrentReq
<1>4. ASSUME NEW q \in Requesters, CollectNone(q)
      PROVE  RetryInv'
  <2>1. \A p \in Requesters : rpc'[p] \in {"collect", "enqueue"} /\ ~delivered'[p]
           => \A u \in Workers : <<CurrentReq(p)', u>> \notin accepted'
    BY <1>4 DEF CollectNone, WaiterInv, DeliveryInv
  <2>2. RetryOnlyUndelivered'
    BY <1>4, <2>1 DEF CollectNone, RetryOnlyUndelivered, WaiterInv, DeliveryInv
  <2> QED
    BY <2>1, <2>2 DEF CurrentReq
<1>5. ASSUME NEW q \in Requesters, NEW targets \in SUBSET Workers, Collect(q, targets)
      PROVE  RetryInv'
  <2>1. \A p \in Requesters : rpc'[p] \in {"collect", "enqueue"} /\ ~delivered'[p]
           => \A u \in Workers : <<CurrentReq(p)', u>> \notin accepted'
    BY <1>5 DEF Collect
  <2>2. RetryOnlyUndelivered'
    BY <1>5, <2>1 DEF Collect, RetryOnlyUndelivered
  <2> QED
    BY <2>1, <2>2 DEF CurrentReq
<1>6. ASSUME NEW q \in Requesters, NEW v \in Workers, Accept(q, v)
      PROVE  RetryInv'
  <2>1. \A p \in Requesters : rpc'[p] \in {"collect", "enqueue"} /\ ~delivered'[p]
           => \A u \in Workers : <<CurrentReq(p)', u>> \notin accepted'
    BY <1>6 DEF Accept
  <2>2. RetryOnlyUndelivered'
    BY <1>6, <2>1 DEF Accept, RetryOnlyUndelivered
  <2> QED
    BY <2>1, <2>2 DEF CurrentReq
<1>7. ASSUME NEW q \in Requesters, NEW v \in Workers, TornDown(q, v)
      PROVE  RetryInv'
  <2>1. \A p \in Requesters : rpc'[p] \in {"collect", "enqueue"} /\ ~delivered'[p]
           => \A u \in Workers : <<CurrentReq(p)', u>> \notin accepted'
    BY <1>7 DEF TornDown
  <2>2. RetryOnlyUndelivered'
    BY <1>7, <2>1 DEF TornDown, RetryOnlyUndelivered
  <2> QED
    BY <2>1, <2>2 DEF CurrentReq
<1>8. ASSUME NEW q \in Requesters, Reply(q)
      PROVE  RetryInv'
  <2>0. /\ UNCHANGED <<reqN, delivered, accepted>>
        /\ \E kind, req : Return(q, kind, req) /\ kind # "ErrNoResponders"
    BY <1>8 DEF Reply, CtxErr
  <2>1. \A p \in Requesters : rpc'[p] \in {"collect", "enqueue"} /\ ~delivered'[p]
           => \A u \in Workers : <<CurrentReq(p)', u>> \notin accepted'
    BY <2>0 DEF CurrentReq
  <2>2. RetryOnlyUndelivered'
    BY <2>0, <2>1 DEF RetryOnlyUndelivered
  <2> QED
    BY <2>1, <2>2 DEF CurrentReq
<1>9. ASSUME NEW q \in Requesters, FinishRecv(q)
      PROVE  RetryInv'
  <2>0. /\ UNCHANGED <<reqN, delivered, accepted>>
        /\ \E kind, req : Return(q, kind, req) /\ kind # "ErrNoResponders"
    BY <1>9 DEF FinishRecv
  <2>1. \A p \in Requesters : rpc'[p] \in {"collect", "enqueue"} /\ ~delivered'[p]
           => \A u \in Workers : <<CurrentReq(p)', u>> \notin accepted'
    BY <2>0 DEF CurrentReq
  <2>2. RetryOnlyUndelivered'
    BY <2>0, <2>1 DEF RetryOnlyUndelivered
  <2> QED
    BY <2>1, <2>2 DEF CurrentReq
<1>10. ASSUME NEW v \in Workers, WorkerTake(v) \/ Discard(v) \/ Handled(v)
                  \/ Claim(v) \/ SendReply(v)
      PROVE  RetryInv'
  <2>1. \A p \in Requesters : rpc'[p] \in {"collect", "enqueue"} /\ ~delivered'[p]
           => \A u \in Workers : <<CurrentReq(p)', u>> \notin accepted'
    BY <1>10 DEF WorkerTake, Discard, Handled, Claim, SendReply, reqVars
  <2>2. RetryOnlyUndelivered'
    BY <1>10, <2>1 DEF WorkerTake, Discard, Handled, Claim, SendReply,
       RetryOnlyUndelivered, reqVars
  <2> QED
    BY <2>1, <2>2 DEF CurrentReq
<1>11. CASE StopIntake \/ CloseBus
  <2>1. \A p \in Requesters : rpc'[p] \in {"collect", "enqueue"} /\ ~delivered'[p]
           => \A u \in Workers : <<CurrentReq(p)', u>> \notin accepted'
    BY <1>11 DEF StopIntake, CloseBus, reqVars
  <2>2. RetryOnlyUndelivered'
    BY <1>11, <2>1 DEF StopIntake, CloseBus, RetryOnlyUndelivered, reqVars
  <2> QED
    BY <2>1, <2>2 DEF CurrentReq
<1>12. CASE UNCHANGED vars
  <2>1. \A p \in Requesters : rpc'[p] \in {"collect", "enqueue"} /\ ~delivered'[p]
           => \A u \in Workers : <<CurrentReq(p)', u>> \notin accepted'
    BY <1>12 DEF vars, reqVars
  <2>2. RetryOnlyUndelivered'
    BY <1>12, <2>1 DEF vars, RetryOnlyUndelivered, reqVars
  <2> QED
    BY <2>1, <2>2 DEF CurrentReq
<1> QED
  BY <1>1, <1>2, <1>3, <1>4, <1>5, <1>6, <1>7, <1>8, <1>9, <1>10, <1>11, <1>12
     DEF Next, RequestStep, WorkerStep

\* In every reachable state what mailboxes took is made and not retried.
LEMMA RetriesCorrect == Spec => [](MadeInv /\ RetryInv)
<1>1. Init => MadeInv /\ RetryInv
  BY DEF Init, MadeInv, RetryInv, RetryOnlyUndelivered
<1> QED
  BY <1>1, WaitersCorrect, MadeInductive, RetryInductive, PTL DEF Spec

\* Spec => []RetryOnlyUndelivered: the attempt loop of Request offers a request
\* again, or gives it up for want of responders, only if no mailbox took it.
THEOREM RetryCorrect == Spec => []RetryOnlyUndelivered
<1>1. RetryInv => RetryOnlyUndelivered
  BY DEF RetryInv
<1> QED
  BY <1>1, RetriesCorrect, PTL

-------------------------------------------------------------------------------
(* Claims *)

\* The result is with a responder that has won the swap, or on a channel.
Due(res) ==
    \/ \E v \in Workers : vpc[v] = "send" /\ res = [req |-> vd[v].req, ok |-> vok[v]]
    \/ \E w \in Waiters : ch[w] # <<>> /\ Head(ch[w]) = res

\* A claimed result is on its way to its requester for as long as the request
\* has not returned.
ClaimInv ==
    /\ \A q \in Requesters : \A res \in claims :
          res.req = CurrentReq(q) /\ rpc[q] # "idle" => Due(res)
    /\ SuccessfulReplyWins

\* A result that is due keeps its requester at its waiter, with no other answer
\* possible there.
LEMMA DueAtWaiter ==
    ASSUME TypeOK, OwnInv, WaiterInv, NEW q \in Requesters, NEW res,
           Due(res), res.req = CurrentReq(q)
    PROVE  /\ Serves(q, rw[q], CurrentReq(q)) /\ rw[q] \in Waiters /\ ~armed[rw[q]]
           /\ ch[rw[q]] # <<>> => Head(ch[rw[q]]) = res
<1>1. \A p \in Requesters : \A w : Serves(p, w, CurrentReq(q)) => p = q /\ w = rw[q]
  BY DEF Serves, CurrentReq
<1>2. CASE \E v \in Workers : vpc[v] = "send" /\ res = [req |-> vd[v].req, ok |-> vok[v]]
  <2>1. PICK v \in Workers : vpc[v] = "send" /\ res = [req |-> vd[v].req, ok |-> vok[v]]
    BY <1>2
  <2>2. /\ ch[vd[v].w] = <<>> /\ ~armed[vd[v].w] /\ Served(vd[v].w, CurrentReq(q))
        /\ vd[v].w \in Waiters
    BY <2>1 DEF WaiterInv, AnswerInv, TypeOK, TypeWork, Delivery
  <2> QED
    BY <1>1, <2>2 DEF Served
<1>3. CASE \E w \in Waiters : ch[w] # <<>> /\ Head(ch[w]) = res
  <2>1. PICK w \in Waiters : ch[w] # <<>> /\ Head(ch[w]) = res
    BY <1>3
  <2>2. ~armed[w] /\ Served(w, CurrentReq(q))
    BY <2>1 DEF WaiterInv, AnswerInv
  <2> QED
    BY <1>1, <2>1, <2>2 DEF Served
<1> QED
  BY <1>2, <1>3 DEF Due

\* A request whose result is due has no armed waiter.
LEMMA NothingClaimed ==
    ASSUME TypeOK, OwnInv, WaiterInv, ClaimInv, NEW q \in Requesters,
           rpc[q] # "idle", ~Serves(q, rw[q], CurrentReq(q)) \/ armed[rw[q]]
    PROVE  \A res \in claims : res.req # CurrentReq(q)
  BY DueAtWaiter DEF ClaimInv

\* A step that claims nothing, loses no result that is due and returns from no
\* request with a claimed result keeps the invariant.
LEMMA ClaimKept ==
    ASSUME ClaimInv, UNCHANGED claims,
           \A res : Due(res) => Due(res)',
           \A q \in Requesters : \A res \in claims : res.req = CurrentReq(q)' =>
              /\ CurrentReq(q)' = CurrentReq(q)
              /\ rpc'[q] # "idle" => rpc[q] # "idle"
              /\ rpc'[q] = "idle" =>
                    rpc[q] = "idle" /\ outcome'[q] = outcome[q]
    PROVE  ClaimInv'
<1>1. \A q \in Requesters : \A res \in claims' :
         res.req = CurrentReq(q)' /\ rpc'[q] # "idle" => Due(res)'
  BY DEF ClaimInv
<1>2. \A req : [req |-> req, ok |-> TRUE].req = req
  OBVIOUS
<1>3. \A q \in Requesters :
         rpc'[q] = "idle" /\ [req |-> CurrentReq(q)', ok |-> TRUE] \in claims'
            => outcome'[q] = "reply"
  <2> SUFFICES ASSUME NEW q \in Requesters, rpc'[q] = "idle",
                      [req |-> CurrentReq(q)', ok |-> TRUE] \in claims
               PROVE  outcome'[q] = "reply"
    OBVIOUS
  <2>1. CurrentReq(q)' = CurrentReq(q) /\ rpc[q] = "idle" /\ outcome'[q] = outcome[q]
    BY <1>2
  <2> QED
    BY <2>1 DEF ClaimInv, SuccessfulReplyWins
<1> QED
  BY <1>1, <1>3 DEF ClaimInv, SuccessfulReplyWins

\* Every action keeps claimed results on their way.
LEMMA ClaimInductive ==
    TypeOK /\ OwnInv /\ WaiterInv /\ MadeInv /\ ClaimInv /\ [Next]_vars => ClaimInv'
<1> SUFFICES ASSUME TypeOK, OwnInv, WaiterInv, MadeInv, ClaimInv, [Next]_vars PROVE ClaimInv'
  OBVIOUS
<1>0. TypeWaiter /\ TypeReq /\ TypeWork
  BY DEF TypeOK
<1> USE <1>0
<1>1. ASSUME NEW q \in Requesters, RequestStart(q)
      PROVE  ClaimInv'
  <2>1. UNCHANGED <<ch, workVars, claims>>
    BY <1>1 DEF RequestStart, waitVars
  <2>2. \A res : Due(res) => Due(res)'
    BY <2>1 DEF Due, workVars
  <2>3. \A res \in claims : res.req # CurrentReq(q)'
    <3>1. \A res \in claims : res.req \in Req /\ Made(res.req)
      BY ReqTypes DEF MadeInv
    <3> QED
      BY <1>1, <3>1 DEF RequestStart, CurrentReq, Made, TypeReq, Req
  <2>4. \A p \in Requesters : p # q =>
           CurrentReq(p)' = CurrentReq(p) /\ rpc'[p] = rpc[p] /\ outcome'[p] = outcome[p]
    BY <1>1 DEF RequestStart, CurrentReq, Goto, TypeReq
  <2> QED
    BY <2>1, <2>2, <2>3, <2>4, ClaimKept
<1>2. ASSUME NEW q \in Requesters, NEW w \in Waiters, GetWaiter(q, w)
      PROVE  ClaimInv'
  <2>1. UNCHANGED <<workVars, claims>> /\ ch' = [ch EXCEPT ![w] = <<>>]
    BY <1>2 DEF GetWaiter
  <2>2. ch[w] = <<>>
    <3>1. \A req : ~Served(w, req)
      BY <1>2 DEF GetWaiter, Served, Serves, OwnInv, Holds
    <3> QED
      BY <3>1 DEF WaiterInv, AnswerInv
  <2>3. \A res : Due(res) => Due(res)'
    BY <2>1, <2>2 DEF Due, workVars, TypeWaiter
  <2>4. \A p \in Requesters :
           /\ CurrentReq(p)' = CurrentReq(p)
           /\ \/ rpc'[p] # "idle" /\ rpc[p] # "idle"
              \/ rpc'[p] = rpc[p] /\ outcome'[p] = outcome[p]
    BY <1>2 DEF GetWaiter, CurrentReq, Goto, TypeReq
  <2> QED
    BY <2>1, <2>3, <2>4, ClaimKept
<1>3. ASSUME NEW q \in Requesters,
          \/ ArmWaiter(q) \/ EnqueueFails(q) \/ RoundDone(q)
          \/ WaitEnds(q) \/ FinishLost(q) \/ CtxEnds(q)
      PROVE  ClaimInv'
  <2>1. UNCHANGED <<ch, workVars, claims>>
    BY <1>3 DEF ArmWaiter, EnqueueFails, RoundDone, WaitEnds, FinishLost, CtxEnds,
       waitVars
  <2>2. \A res : Due(res) => Due(res)'
    BY <2>1 DEF Due, workVars
  <2>3. \A p \in Requesters :
           /\ CurrentReq(p)' = CurrentReq(p)
           /\ \/ rpc'[p] # "idle" /\ rpc[p] # "idle"
              \/ rpc'[p] = rpc[p] /\ outcome'[p] = outcome[p]
    BY <1>3 DEF ArmWaiter, EnqueueFails, RoundDone, WaitEnds, FinishLost, CtxEnds,
       CurrentReq, Goto, TypeReq
  <2> QED
    BY <2>1, <2>2, <2>3, ClaimKept
<1>4. ASSUME NEW q \in Requesters, CollectNone(q) \/ GiveUp(q) \/ Abandon(q)
      PROVE  ClaimInv'
  <2>1. UNCHANGED <<ch, workVars, claims>>
    BY <1>4 DEF CollectNone, GiveUp, Abandon
  <2>2. \A res : Due(res) => Due(res)'
    BY <2>1 DEF Due, workVars
  <2>3. \A res \in claims : res.req # CurrentReq(q)
    BY <1>4, NothingClaimed DEF CollectNone, GiveUp, Abandon, Serves, WaiterInv,
       DeliveryInv
  <2>4. CurrentReq(q)' = CurrentReq(q) /\ \A p \in Requesters : p # q =>
           CurrentReq(p)' = CurrentReq(p) /\ rpc'[p] = rpc[p] /\ outcome'[p] = outcome[p]
    BY <1>4 DEF CollectNone, GiveUp, Abandon, CurrentReq, Goto, Return, TypeReq
  <2> QED
    BY <2>1, <2>2, <2>3, <2>4, ClaimKept
<1>5. ASSUME NEW q \in Requesters, NEW targets \in SUBSET Workers, Collect(q, targets)
      PROVE  ClaimInv'
  <2>1. UNCHANGED <<ch, workVars, claims>>
    BY <1>5 DEF Collect, waitVars
  <2>2. \A res : Due(res) => Due(res)'
    BY <2>1 DEF Due, workVars
  <2>3. \A p \in Requesters :
           /\ CurrentReq(p)' = CurrentReq(p)
           /\ \/ rpc'[p] # "idle" /\ rpc[p] # "idle"
              \/ rpc'[p] = rpc[p] /\ outcome'[p] = outcome[p]
    BY <1>5 DEF Collect, CurrentReq, Goto, TypeReq
  <2> QED
    BY <2>1, <2>2, <2>3, ClaimKept
<1>6. ASSUME NEW q \in Requesters, NEW v \in Workers, Accept(q, v) \/ TornDown(q, v)
      PROVE  ClaimInv'
  <2>1. UNCHANGED <<ch, workVars, claims>>
    BY <1>6 DEF Accept, TornDown, waitVars
  <2>2. \A res : Due(res) => Due(res)'
    BY <2>1 DEF Due, workVars
  <2>3. \A p \in Requesters :
           /\ CurrentReq(p)' = CurrentReq(p)
           /\ \/ rpc'[p] # "idle" /\ rpc[p] # "idle"
              \/ rpc'[p] = rpc[p] /\ outcome'[p] = outcome[p]
    BY <1>6 DEF Accept, TornDown, CurrentReq, Goto, TypeReq
  <2> QED
    BY <2>1, <2>2, <2>3, ClaimKept
<1>7. ASSUME NEW q \in Requesters, Reply(q)
      PROVE  ClaimInv'
  <2> DEFINE w == rw[q]
             head == Head(ch[w])
  <2>1. w \in Waiters /\ Holds(q) /\ ch[w] # <<>> /\ rpc[q] # "idle"
    BY <1>7, HasWaiter DEF Reply, Holds
  <2>2. ch' = [ch EXCEPT ![w] = <<>>] /\ UNCHANGED <<workVars, claims>>
    BY <1>7, <2>1, OneResult DEF Reply
  <2>3. head.req = CurrentReq(q)
    BY <2>1, ReadsOwnReply
  <2>4. \A res : Due(res) /\ res # head => Due(res)'
    BY <2>2 DEF Due, workVars, TypeWaiter
  <2>5. \A res \in claims : res.req = CurrentReq(q) => res = head
    BY <2>1, DueAtWaiter DEF ClaimInv
  <2>6. CurrentReq(q)' = CurrentReq(q) /\ rpc'[q] = "idle" /\ (head.ok => outcome'[q] = "reply")
    BY <1>7 DEF Reply, CurrentReq, Goto, Return, TypeReq
  <2>7. \A p \in Requesters : p # q =>
           /\ CurrentReq(p)' = CurrentReq(p) /\ rpc'[p] = rpc[p] /\ outcome'[p] = outcome[p]
           /\ CurrentReq(p) # CurrentReq(q)
    BY <1>7 DEF Reply, CurrentReq, Goto, Return, TypeReq
  <2> HIDE DEF head, w
  <2>8. \A p \in Requesters : \A res \in claims' :
           res.req = CurrentReq(p)' /\ rpc'[p] # "idle" => Due(res)'
    BY <2>2, <2>3, <2>4, <2>6, <2>7 DEF ClaimInv
  <2>9. ASSUME NEW p \in Requesters, rpc'[p] = "idle", [req |-> CurrentReq(p)', ok |-> TRUE] \in claims
        PROVE  outcome'[p] = "reply"
    <3>1. CASE p = q
      <4>1. PICK res \in claims : res = [req |-> CurrentReq(q), ok |-> TRUE]
        BY <2>6, <2>9, <3>1
      <4> QED
        BY <2>5, <2>6, <3>1, <4>1
    <3>2. CASE p # q
      BY <2>7, <2>9, <3>2 DEF ClaimInv, SuccessfulReplyWins
    <3> QED
      BY <3>1, <3>2
  <2>10. SuccessfulReplyWins'
    BY <2>2, <2>9 DEF SuccessfulReplyWins
  <2> QED
    BY <2>8, <2>10 DEF ClaimInv
<1>8. ASSUME NEW q \in Requesters, FinishRecv(q)
      PROVE  ClaimInv'
  <2> DEFINE w == rw[q]
             head == Head(ch[w])
  <2>1. w \in Waiters /\ Holds(q) /\ ch[w] # <<>> /\ rpc[q] # "idle"
    BY <1>8, HasWaiter DEF FinishRecv, Holds
  <2>2. ch' = [ch EXCEPT ![w] = <<>>] /\ UNCHANGED <<workVars, claims>>
    BY <1>8, <2>1, OneResult DEF FinishRecv
  <2>3. head.req = CurrentReq(q)
    BY <2>1, ReadsOwnReply
  <2>4. \A res : Due(res) /\ res # head => Due(res)'
    BY <2>2 DEF Due, workVars, TypeWaiter
  <2>5. \A res \in claims : res.req = CurrentReq(q) => res = head
    BY <2>1, DueAtWaiter DEF ClaimInv
  <2>6. CurrentReq(q)' = CurrentReq(q) /\ rpc'[q] = "idle" /\ (head.ok => outcome'[q] = "reply")
    BY <1>8 DEF FinishRecv, CurrentReq, Goto, Return, TypeReq
  <2>7. \A p \in Requesters : p # q =>
           /\ CurrentReq(p)' = CurrentReq(p) /\ rpc'[p] = rpc[p] /\ outcome'[p] = outcome[p]
           /\ CurrentReq(p) # CurrentReq(q)
    BY <1>8 DEF FinishRecv, CurrentReq, Goto, Return, TypeReq
  <2> HIDE DEF head, w
  <2>8. \A p \in Requesters : \A res \in claims' :
           res.req = CurrentReq(p)' /\ rpc'[p] # "idle" => Due(res)'
    BY <2>2, <2>3, <2>4, <2>6, <2>7 DEF ClaimInv
  <2>9. ASSUME NEW p \in Requesters, rpc'[p] = "idle", [req |-> CurrentReq(p)', ok |-> TRUE] \in claims
        PROVE  outcome'[p] = "reply"
    <3>1. CASE p = q
      <4>1. PICK res \in claims : res = [req |-> CurrentReq(q), ok |-> TRUE]
        BY <2>6, <2>9, <3>1
      <4> QED
        BY <2>5, <2>6, <3>1, <4>1
    <3>2. CASE p # q
      BY <2>7, <2>9, <3>2 DEF ClaimInv, SuccessfulReplyWins
    <3> QED
      BY <3>1, <3>2
  <2>10. SuccessfulReplyWins'
    BY <2>2, <2>9 DEF SuccessfulReplyWins
  <2> QED
    BY <2>8, <2>10 DEF ClaimInv
<1>9. ASSUME NEW v \in Workers, WorkerTake(v) \/ Discard(v) \/ Handled(v)
      PROVE  ClaimInv'
  <2>1. UNCHANGED <<reqVars, ch, claims>>
    BY <1>9 DEF WorkerTake, Discard, Handled, waitVars
  <2>2. \A res : Due(res) => Due(res)'
    BY <1>9, <2>1 DEF WorkerTake, Discard, Handled, Due, TypeWork, workVars
  <2>3. \A p \in Requesters :
           CurrentReq(p)' = CurrentReq(p) /\ rpc'[p] = rpc[p] /\ outcome'[p] = outcome[p]
    BY <2>1 DEF CurrentReq, reqVars
  <2> QED
    BY <2>1, <2>2, <2>3, ClaimKept
<1>10. ASSUME NEW v \in Workers, Claim(v)
      PROVE  ClaimInv'
  <2>1. UNCHANGED <<reqVars, ch, vd, vok>>
    BY <1>10 DEF Claim
  <2>2. \A p \in Requesters :
           CurrentReq(p)' = CurrentReq(p) /\ rpc'[p] = rpc[p] /\ outcome'[p] = outcome[p]
    BY <2>1 DEF CurrentReq, reqVars
  <2>3. \A res : Due(res) => Due(res)'
    BY <1>10, <2>1 DEF Claim, Due, TypeWork
  <2>4. CASE StillArmed(vd[v])
    <3> DEFINE out == [req |-> vd[v].req, ok |-> vok[v]]
    <3>1. claims' = claims \cup {out} /\ vpc' = [vpc EXCEPT ![v] = "send"]
      BY <1>10, <2>4 DEF Claim
    <3>2. PICK p \in Requesters : Serves(p, vd[v].w, vd[v].req)
      BY <1>10, <2>4 DEF Claim, WaiterInv, DeliveryInv, Current, Served
    <3>3. rpc[p] # "idle" /\ out.req = CurrentReq(p)
      BY <3>2 DEF Serves
    <3>4. Due(out)'
      BY <2>1, <3>1 DEF Due, TypeWork
    <3> HIDE DEF out
    <3>5. \A r \in Requesters : \A res \in claims' :
             res.req = CurrentReq(r)' /\ rpc'[r] # "idle" => Due(res)'
      <4>1. \A res \in claims' : res \in claims \/ res = out
        BY <3>1
      <4>2. PICK o : o = out
        OBVIOUS
      <4>3. Due(o)'
        BY <2>1, <3>1, <4>2 DEF Due, TypeWork, out
      <4> QED
        BY <2>2, <2>3, <4>1, <4>2, <4>3 DEF ClaimInv
    <3>6. ASSUME NEW r \in Requesters, rpc'[r] = "idle", [req |-> CurrentReq(r)', ok |-> TRUE] \in claims'
          PROVE  outcome'[r] = "reply"
      <4>1. [req |-> CurrentReq(r), ok |-> TRUE] # out
        <5>1. CurrentReq(r) # CurrentReq(p)
          BY <2>2, <3>3, <3>6 DEF CurrentReq
        <5> QED
          BY <3>3, <5>1
      <4> QED
        BY <2>2, <3>1, <3>6, <4>1 DEF ClaimInv, SuccessfulReplyWins
    <3>7. SuccessfulReplyWins'
      BY <3>6 DEF SuccessfulReplyWins
    <3> QED
      BY <3>5, <3>7 DEF ClaimInv
  <2>5. CASE ~StillArmed(vd[v])
    <3>1. claims' = claims
      BY <1>10, <2>5 DEF Claim
    <3> QED
      BY <2>2, <2>3, <3>1, ClaimKept
  <2> QED
    BY <2>4, <2>5
<1>11. ASSUME NEW v \in Workers, SendReply(v)
      PROVE  ClaimInv'
  <2> DEFINE w == vd[v].w
             out == [req |-> vd[v].req, ok |-> vok[v]]
  <2>1. UNCHANGED <<reqVars, claims, vd, vok>>
    BY <1>11 DEF SendReply
  <2>2. /\ ch[w] = <<>> /\ ch' = [ch EXCEPT ![w] = <<out>>] /\ w \in Waiters
        /\ vpc' = [vpc EXCEPT ![v] = "idle"]
    BY <1>11 DEF SendReply, TypeWork, Delivery
  <2> HIDE DEF w
  <2>3. \A res : Due(res) => Due(res)'
    <3>1. ASSUME NEW res, NEW u \in Workers, vpc[u] = "send", res = [req |-> vd[u].req, ok |-> vok[u]]
          PROVE  Due(res)'
      <4>1. CASE u = v
        <5>1. ch'[w] = <<res>>
          BY <2>2, <3>1, <4>1 DEF TypeWaiter
        <5>2. ch'[w] # <<>> /\ Head(ch'[w]) = res
          BY <5>1
        <5> QED
          BY <2>2, <5>2 DEF Due
      <4>2. CASE u # v
        BY <2>1, <2>2, <3>1, <4>2 DEF Due, TypeWork
      <4> QED
        BY <4>1, <4>2
    <3>2. ASSUME NEW res, NEW x \in Waiters, ch[x] # <<>>, Head(ch[x]) = res
          PROVE  Due(res)'
      BY <2>2, <3>2 DEF Due, TypeWaiter
    <3> QED
      BY <3>1, <3>2 DEF Due
  <2>4. \A p \in Requesters :
           CurrentReq(p)' = CurrentReq(p) /\ rpc'[p] = rpc[p] /\ outcome'[p] = outcome[p]
    BY <2>1 DEF CurrentReq, reqVars
  <2> QED
    BY <2>1, <2>3, <2>4, ClaimKept
<1>12. CASE StopIntake \/ CloseBus
  <2>1. UNCHANGED <<reqVars, ch, workVars, claims>>
    BY <1>12 DEF StopIntake, CloseBus, waitVars
  <2>2. \A res : Due(res) => Due(res)'
    BY <2>1 DEF Due, workVars
  <2>3. \A p \in Requesters :
           CurrentReq(p)' = CurrentReq(p) /\ rpc'[p] = rpc[p] /\ outcome'[p] = outcome[p]
    BY <2>1 DEF CurrentReq, reqVars
  <2> QED
    BY <2>1, <2>2, <2>3, ClaimKept
<1>13. CASE UNCHANGED vars
  <2>1. UNCHANGED <<reqVars, ch, workVars, claims>>
    BY <1>13 DEF vars, waitVars, reqVars, workVars
  <2>2. \A res : Due(res) => Due(res)'
    BY <2>1 DEF Due, workVars
  <2>3. \A p \in Requesters :
           CurrentReq(p)' = CurrentReq(p) /\ rpc'[p] = rpc[p] /\ outcome'[p] = outcome[p]
    BY <2>1 DEF CurrentReq, reqVars
  <2> QED
    BY <2>1, <2>2, <2>3, ClaimKept
<1> QED
  BY <1>1, <1>2, <1>3, <1>4, <1>5, <1>6, <1>7, <1>8, <1>9, <1>10, <1>11,
     <1>12, <1>13
     DEF Next, RequestStep, WorkerStep

\* Spec => []SuccessfulReplyWins: a Request whose waiter a successful responder
\* claimed returns that reply, though its context or the bus ended meanwhile.
THEOREM WinCorrect == Spec => []SuccessfulReplyWins
<1>1. Init => ClaimInv
  BY DEF Init, ClaimInv, SuccessfulReplyWins
<1>2. ClaimInv => SuccessfulReplyWins
  BY DEF ClaimInv
<1> QED
  BY <1>1, <1>2, WaitersCorrect, RetriesCorrect, ClaimInductive, PTL DEF Spec

===============================================================================
