----------------------------- MODULE RequestReply -----------------------------
(***************************************************************************)
(* Local.Request: pooled rendezvous (waiters), the requesters that check   *)
(* them out and the workers that answer.  A waiter's state word packs a    *)
(* generation and armed or done; one compare-and-swap on it decides        *)
(* between a responder and the requester's own exit.                       *)
(*                                                                         *)
(* Who is subscribed, whether a mailbox has room and when a worker drops   *)
(* what it holds are left open here: LocalBus has them.                    *)
(***************************************************************************)
EXTENDS Naturals, Sequences

CONSTANTS
    Requesters,     \* goroutines that call Request
    Workers,        \* subscriptions' workers
    Waiters,        \* waiters the pool can ever create
    MaxReqs,        \* bound: requests of one requester
    MaxAttempts,    \* rounds of collecting targets (4 in the code)
    NoWaiter, NoDelivery, NoReq

ASSUME RequestBounds == MaxReqs \in Nat /\ MaxAttempts \in Nat \ {0}

Req      == [by : Requesters, n : 1..MaxReqs]
Delivery == [req : Req, w : Waiters, reqGen : Nat]
Result   == [req : Req, ok : BOOLEAN]       \* what a responder puts on w.ch

ASSUME Sentinels == /\ NoWaiter \notin Waiters
                    /\ NoDelivery \notin Delivery
                    /\ NoReq \notin Req

VARIABLES
    intakeStopped,  \* closed or draining
    closedCh,
    pool,           \* waiterPool
    gen, armed, ch, \* waiter: state's generation, state's armed bit, channel
    rpc, reqN, rw, ctx, todo, delivered, attempt, terminal, \* Request's locals
    inbox,          \* mailboxes, by worker
    vpc, vd, vok,   \* the dispatch a worker is in
    outcome,        \* how each requester's latest Request returned
    answer,         \* the request whose reply it returned
    claims,         \* results whose responder won the compare-and-swap
    accepted        \* which worker's mailbox took which request

busVars  == <<intakeStopped, closedCh>>
waitVars == <<pool, gen, armed, ch>>
reqVars  == <<rpc, reqN, rw, ctx, todo, delivered, attempt, terminal,
              outcome, answer>>
workVars == <<vpc, vd, vok>>
vars == <<busVars, waitVars, reqVars, inbox, workVars, claims, accepted>>

ReqPcs   == {"idle", "get", "arm", "collect", "enqueue", "wait", "finish", "recv"}
Errors   == {"ErrNoResponders", "ErrTimeout", "ErrCanceled", "ErrClosed",
             "handlerError"}
CtxState == {"live", "deadline", "cancelled"}

CurrentReq(q) == [by |-> q, n |-> reqN[q]]
CtxErr(q) == IF ctx[q] = "deadline" THEN "ErrTimeout" ELSE "ErrCanceled"

Init ==
    /\ intakeStopped = FALSE /\ closedCh = FALSE
    /\ pool = {}
    /\ gen = [w \in Waiters |-> 0]
    /\ armed = [w \in Waiters |-> FALSE]
    /\ ch = [w \in Waiters |-> <<>>]
    /\ rpc = [q \in Requesters |-> "idle"]
    /\ reqN = [q \in Requesters |-> 0]
    /\ rw = [q \in Requesters |-> NoWaiter]
    /\ ctx = [q \in Requesters |-> "live"]
    /\ todo = [q \in Requesters |-> {}]
    /\ delivered = [q \in Requesters |-> FALSE]
    /\ attempt = [q \in Requesters |-> 0]
    /\ terminal = [q \in Requesters |-> "none"]
    /\ outcome = [q \in Requesters |-> "none"]
    /\ answer = [q \in Requesters |-> NoReq]
    /\ inbox = [v \in Workers |-> <<>>]
    /\ vpc = [v \in Workers |-> "idle"]
    /\ vd = [v \in Workers |-> NoDelivery]
    /\ vok = [v \in Workers |-> FALSE]
    /\ claims = {} /\ accepted = {}

-------------------------------------------------------------------------------
(* Request *)

Goto(q, pc) == rpc' = [rpc EXCEPT ![q] = pc]

\* Request returns an error or the reply to req; the waiter is pooled.
Return(q, kind, req) ==
    /\ Goto(q, "idle")
    /\ outcome' = [outcome EXCEPT ![q] = kind]
    /\ answer' = [answer EXCEPT ![q] = req]
    /\ pool' = pool \cup {rw[q]}
    /\ rw' = [rw EXCEPT ![q] = NoWaiter]

RequestStart(q) ==
    /\ rpc[q] = "idle"
    /\ reqN[q] < MaxReqs
    /\ ~intakeStopped
    /\ reqN' = [reqN EXCEPT ![q] = @ + 1]
    /\ ctx' = [ctx EXCEPT ![q] = "live"]
    /\ todo' = [todo EXCEPT ![q] = {}]
    /\ delivered' = [delivered EXCEPT ![q] = FALSE]
    /\ attempt' = [attempt EXCEPT ![q] = 0]
    /\ terminal' = [terminal EXCEPT ![q] = "none"]
    /\ outcome' = [outcome EXCEPT ![q] = "none"]
    /\ answer' = [answer EXCEPT ![q] = NoReq]
    /\ Goto(q, "get")
    /\ UNCHANGED <<busVars, waitVars, rw, inbox, workVars, claims, accepted>>

\* waiterPool.Get, or a new waiter, which is created armed at generation 1.
\* From the pool: drain the channel without blocking, then arm.
GetWaiter(q, w) ==
    /\ rpc[q] = "get"
    /\ w \in pool \/ (gen[w] = 0 /\ \A p \in Requesters : rw[p] # w)
    /\ pool' = pool \ {w}
    /\ rw' = [rw EXCEPT ![q] = w]
    /\ ch' = [ch EXCEPT ![w] = <<>>]
    /\ Goto(q, "arm")
    /\ UNCHANGED <<busVars, gen, armed, reqN, ctx, todo, delivered, attempt,
                   terminal, outcome, answer, inbox, workVars, claims, accepted>>

ArmWaiter(q) ==
    /\ rpc[q] = "arm"
    /\ gen' = [gen EXCEPT ![rw[q]] = @ + 1]
    /\ armed' = [armed EXCEPT ![rw[q]] = TRUE]
    /\ Goto(q, "collect")
    /\ UNCHANGED <<busVars, pool, ch, reqN, rw, ctx, todo, delivered, attempt,
                   terminal, outcome, answer, inbox, workVars, claims, accepted>>

\* One round of the attempt loop starts: who matches the subject by now.
CollectNone(q) ==
    /\ rpc[q] = "collect"
    /\ Return(q, "ErrNoResponders", NoReq)
    /\ UNCHANGED <<busVars, gen, armed, ch, reqN, ctx, todo, delivered, attempt,
                   terminal, inbox, workVars, claims, accepted>>

Collect(q, targets) ==
    /\ rpc[q] = "collect"
    /\ targets # {}
    /\ todo' = [todo EXCEPT ![q] = targets]
    /\ attempt' = [attempt EXCEPT ![q] = @ + 1]
    /\ Goto(q, "enqueue")
    /\ UNCHANGED <<busVars, waitVars, reqN, rw, ctx, delivered, terminal,
                   outcome, answer, inbox, workVars, claims, accepted>>

\* Fault: an accepted delivery is not remembered.
FaultAccept(q, v) ==
    /\ rpc[q] = "enqueue" /\ v \in todo[q]
    /\ todo' = [todo EXCEPT ![q] = @ \ {v}]
    /\ inbox' = [inbox EXCEPT ![v] =
                   Append(@, [req |-> CurrentReq(q), w |-> rw[q],
                              reqGen |-> gen[rw[q]]])]
    /\ accepted' = accepted \cup {<<CurrentReq(q), v>>}
    /\ UNCHANGED <<busVars, waitVars, rpc, reqN, rw, ctx, delivered, attempt,
                   terminal, outcome, answer, workVars, claims>>

Accept(q, v) ==
    /\ rpc[q] = "enqueue" /\ v \in todo[q]
    /\ todo' = [todo EXCEPT ![q] = @ \ {v}]
    /\ delivered' = [delivered EXCEPT ![q] = TRUE]
    /\ inbox' = [inbox EXCEPT ![v] =
                   Append(@, [req |-> CurrentReq(q), w |-> rw[q],
                              reqGen |-> gen[rw[q]]])]
    /\ accepted' = accepted \cup {<<CurrentReq(q), v>>}
    /\ UNCHANGED <<busVars, waitVars, rpc, reqN, rw, ctx, attempt, terminal,
                   outcome, answer, workVars, claims>>

TornDown(q, v) ==               \* the target's stop channel is closed
    /\ rpc[q] = "enqueue" /\ v \in todo[q]
    /\ todo' = [todo EXCEPT ![q] = @ \ {v}]
    /\ UNCHANGED <<busVars, waitVars, rpc, reqN, rw, ctx, delivered, attempt,
                   terminal, outcome, answer, inbox, workVars, claims, accepted>>

\* Blocked on a full mailbox when the context or the bus ends.
EnqueueFails(q) ==
    /\ rpc[q] = "enqueue" /\ todo[q] # {}
    /\ \/ ctx[q] # "live" /\ terminal' = [terminal EXCEPT ![q] = CtxErr(q)]
       \/ closedCh /\ terminal' = [terminal EXCEPT ![q] = "ErrClosed"]
    /\ Goto(q, "finish")
    /\ UNCHANGED <<busVars, waitVars, reqN, rw, ctx, todo, delivered, attempt,
                   outcome, answer, inbox, workVars, claims, accepted>>

\* The round is over: wait if any mailbox took the request, else try again.
RoundDone(q) ==
    /\ rpc[q] = "enqueue" /\ todo[q] = {}
    /\ delivered[q] \/ attempt[q] < MaxAttempts
    /\ Goto(q, IF delivered[q] THEN "wait" ELSE "collect")
    /\ UNCHANGED <<busVars, waitVars, reqN, rw, ctx, todo, delivered, attempt,
                   terminal, outcome, answer, inbox, workVars, claims, accepted>>

GiveUp(q) ==
    /\ rpc[q] = "enqueue" /\ todo[q] = {}
    /\ ~delivered[q] /\ attempt[q] = MaxAttempts
    /\ Return(q, "ErrNoResponders", NoReq)
    /\ UNCHANGED <<busVars, gen, armed, ch, reqN, ctx, todo, delivered, attempt,
                   terminal, inbox, workVars, claims, accepted>>

\* The select on w.ch: an errored reply yields to the context's own error.
Reply(q) ==
    LET res == Head(ch[rw[q]]) IN
    /\ rpc[q] = "wait"
    /\ ch[rw[q]] # <<>>
    /\ ch' = [ch EXCEPT ![rw[q]] = Tail(@)]
    /\ \/ res.ok /\ Return(q, "reply", res.req)
       \/ ~res.ok /\ ctx[q] # "live" /\ Return(q, CtxErr(q), NoReq)
       \/ ~res.ok /\ ctx[q] = "live" /\ Return(q, "handlerError", NoReq)
    /\ UNCHANGED <<busVars, gen, armed, reqN, ctx, todo, delivered, attempt,
                   terminal, inbox, workVars, claims, accepted>>

\* Fault: the wait does not watch the context.
FaultWaitEnds(q) ==
    /\ rpc[q] = "wait"
    /\ closedCh
    /\ terminal' = [terminal EXCEPT ![q] = "ErrClosed"]
    /\ Goto(q, "finish")
    /\ UNCHANGED <<busVars, waitVars, reqN, rw, ctx, todo, delivered, attempt,
                   outcome, answer, inbox, workVars, claims, accepted>>

WaitEnds(q) ==
    /\ rpc[q] = "wait"
    /\ \/ ctx[q] # "live" /\ terminal' = [terminal EXCEPT ![q] = CtxErr(q)]
       \/ closedCh /\ terminal' = [terminal EXCEPT ![q] = "ErrClosed"]
    /\ Goto(q, "finish")
    /\ UNCHANGED <<busVars, waitVars, reqN, rw, ctx, todo, delivered, attempt,
                   outcome, answer, inbox, workVars, claims, accepted>>

\* finishReq wins the compare-and-swap: no responder will send.
Abandon(q) ==
    /\ rpc[q] = "finish"
    /\ armed[rw[q]]
    /\ armed' = [armed EXCEPT ![rw[q]] = FALSE]
    /\ Return(q, terminal[q], NoReq)
    /\ UNCHANGED <<busVars, gen, ch, reqN, ctx, todo, delivered, attempt,
                   terminal, inbox, workVars, claims, accepted>>

\* Fault: a lost swap returns at once, leaving the result to come.
FaultFinishLost(q) ==
    /\ rpc[q] = "finish"
    /\ ~armed[rw[q]]
    /\ Return(q, terminal[q], NoReq)
    /\ UNCHANGED <<busVars, gen, armed, ch, reqN, ctx, todo, delivered, attempt,
                   terminal, inbox, workVars, claims, accepted>>

FinishLost(q) ==
    /\ rpc[q] = "finish"
    /\ ~armed[rw[q]]
    /\ Goto(q, "recv")
    /\ UNCHANGED <<busVars, waitVars, reqN, rw, ctx, todo, delivered, attempt,
                   terminal, outcome, answer, inbox, workVars, claims, accepted>>

\* Fault: the terminal error is returned whatever the responder sent.
FaultFinishRecv(q) ==
    /\ rpc[q] = "recv"
    /\ ch[rw[q]] # <<>>
    /\ ch' = [ch EXCEPT ![rw[q]] = Tail(@)]
    /\ Return(q, terminal[q], NoReq)
    /\ UNCHANGED <<busVars, gen, armed, reqN, ctx, todo, delivered, attempt,
                   terminal, inbox, workVars, claims, accepted>>

\* A responder won: its result is, or will be, on the channel.
FinishRecv(q) ==
    LET res == Head(ch[rw[q]]) IN
    /\ rpc[q] = "recv"
    /\ ch[rw[q]] # <<>>
    /\ ch' = [ch EXCEPT ![rw[q]] = Tail(@)]
    /\ IF res.ok THEN Return(q, "reply", res.req)
                 ELSE Return(q, terminal[q], NoReq)
    /\ UNCHANGED <<busVars, gen, armed, reqN, ctx, todo, delivered, attempt,
                   terminal, inbox, workVars, claims, accepted>>

RequestStep(q) ==
    \/ \E w \in Waiters : GetWaiter(q, w)
    \/ ArmWaiter(q) \/ CollectNone(q)
    \/ \E targets \in SUBSET Workers : Collect(q, targets)
    \/ \E v \in Workers : Accept(q, v) \/ TornDown(q, v)
    \/ EnqueueFails(q) \/ RoundDone(q) \/ GiveUp(q)
    \/ Reply(q) \/ WaitEnds(q) \/ Abandon(q) \/ FinishLost(q) \/ FinishRecv(q)

-------------------------------------------------------------------------------
(* dispatch, on a worker *)

WorkerTake(v) ==
    /\ vpc[v] = "idle"
    /\ inbox[v] # <<>>
    /\ vd' = [vd EXCEPT ![v] = Head(inbox[v])]
    /\ inbox' = [inbox EXCEPT ![v] = Tail(@)]
    /\ vpc' = [vpc EXCEPT ![v] = "handle"]
    /\ UNCHANGED <<busVars, waitVars, reqVars, vok, claims, accepted>>

\* The subscription ends, or its struct is recycled, before this delivery.
Discard(v) ==
    /\ vpc[v] = "idle"
    /\ inbox[v] # <<>>
    /\ inbox' = [inbox EXCEPT ![v] = Tail(@)]
    /\ UNCHANGED <<busVars, waitVars, reqVars, workVars, claims, accepted>>

\* The handler returns a reply, or an error or a recovered panic.
Handled(v) ==
    /\ vpc[v] = "handle"
    /\ \E ok \in BOOLEAN : vok' = [vok EXCEPT ![v] = ok]
    /\ vpc' = [vpc EXCEPT ![v] = "claim"]
    /\ UNCHANGED <<busVars, waitVars, reqVars, inbox, vd, claims, accepted>>

\* Fault: the swap ignores the generation.
FaultStillArmedBit(d) == armed[d.w]

\* Fault: the swap ignores the armed bit.
FaultStillArmedGen(d) == gen[d.w] = d.reqGen

\* waiter.deliver: the compare-and-swap from (reqGen, armed) to (reqGen, done).
StillArmed(d) == gen[d.w] = d.reqGen /\ armed[d.w]

Claim(v) ==
    /\ vpc[v] = "claim"
    /\ IF StillArmed(vd[v])
       THEN /\ armed' = [armed EXCEPT ![vd[v].w] = FALSE]
            /\ claims' = claims \cup {[req |-> vd[v].req, ok |-> vok[v]]}
            /\ vpc' = [vpc EXCEPT ![v] = "send"]
       ELSE /\ vpc' = [vpc EXCEPT ![v] = "idle"]
            /\ UNCHANGED <<armed, claims>>
    /\ UNCHANGED <<busVars, pool, gen, ch, reqVars, inbox, vd, vok, accepted>>

\* w.ch <- result; the channel holds one.
SendReply(v) ==
    /\ vpc[v] = "send"
    /\ ch[vd[v].w] = <<>>
    /\ ch' = [ch EXCEPT ![vd[v].w] = <<[req |-> vd[v].req, ok |-> vok[v]]>>]
    /\ vpc' = [vpc EXCEPT ![v] = "idle"]
    /\ UNCHANGED <<busVars, pool, gen, armed, reqVars, inbox, vd, vok, claims,
                   accepted>>

WorkerStep(v) ==
    WorkerTake(v) \/ Discard(v) \/ Handled(v) \/ Claim(v) \/ SendReply(v)

-------------------------------------------------------------------------------
(* The bus and the contexts *)

StopIntake ==
    /\ ~intakeStopped
    /\ intakeStopped' = TRUE
    /\ UNCHANGED <<closedCh, waitVars, reqVars, inbox, workVars, claims, accepted>>

CloseBus ==
    /\ intakeStopped /\ ~closedCh
    /\ closedCh' = TRUE
    /\ UNCHANGED <<intakeStopped, waitVars, reqVars, inbox, workVars, claims,
                   accepted>>

\* The caller's deadline or DefaultRequestTimeout passes, or the caller cancels.
CtxEnds(q) ==
    /\ rpc[q] # "idle" /\ ctx[q] = "live"
    /\ \E why \in {"deadline", "cancelled"} : ctx' = [ctx EXCEPT ![q] = why]
    /\ UNCHANGED <<busVars, waitVars, rpc, reqN, rw, todo, delivered, attempt,
                   terminal, outcome, answer, inbox, workVars, claims, accepted>>

Next ==
    \/ \E q \in Requesters : RequestStart(q) \/ RequestStep(q) \/ CtxEnds(q)
    \/ \E v \in Workers : WorkerStep(v)
    \/ StopIntake \/ CloseBus

Spec == Init /\ [][Next]_vars

\* Goroutines inside an operation keep running and handlers return.
FairSpec ==
    /\ Spec
    /\ \A q \in Requesters : WF_vars(RequestStep(q))
    /\ \A v \in Workers : WF_vars(WorkerStep(v))

-------------------------------------------------------------------------------
(* Properties *)

TypeWaiter ==
    /\ intakeStopped \in BOOLEAN /\ closedCh \in BOOLEAN
    /\ pool \subseteq Waiters
    /\ gen \in [Waiters -> Nat]
    /\ armed \in [Waiters -> BOOLEAN]
    /\ ch \in [Waiters -> Seq(Result)]
    /\ \A w \in Waiters : Len(ch[w]) <= 1

TypeReq ==
    /\ rpc \in [Requesters -> ReqPcs]
    /\ reqN \in [Requesters -> 0..MaxReqs]
    /\ rw \in [Requesters -> Waiters \cup {NoWaiter}]
    /\ \A q \in Requesters :
          /\ rpc[q] # "idle" => reqN[q] > 0
          /\ rpc[q] \notin {"idle", "get"} => rw[q] \in Waiters
          /\ rpc[q] \in {"get", "arm", "collect"} => attempt[q] < MaxAttempts
    /\ ctx \in [Requesters -> CtxState]
    /\ todo \in [Requesters -> SUBSET Workers]
    /\ delivered \in [Requesters -> BOOLEAN]
    /\ attempt \in [Requesters -> 0..MaxAttempts]
    /\ terminal \in [Requesters -> {"none", "ErrTimeout", "ErrCanceled", "ErrClosed"}]
    /\ outcome \in [Requesters -> Errors \cup {"none", "reply"}]
    /\ answer \in [Requesters -> Req \cup {NoReq}]

TypeWork ==
    /\ inbox \in [Workers -> Seq(Delivery)]
    /\ vpc \in [Workers -> {"idle", "handle", "claim", "send"}]
    /\ vd \in [Workers -> Delivery \cup {NoDelivery}]
    /\ \A v \in Workers : vpc[v] # "idle" => vd[v] \in Delivery
    /\ vok \in [Workers -> BOOLEAN]
    /\ claims \subseteq Result
    /\ accepted \subseteq Req \X Workers

\* Every variable has its type; a waiter's channel holds at most one result, and
\* a round starts only when one is left.
TypeOK == TypeWaiter /\ TypeReq /\ TypeWork

\* "A slow responder from a previous request can never complete a recycled
\* waiter": a Request that returns a reply returns the reply to itself.
ReplyMatchesRequest ==
    \A q \in Requesters :
        rpc[q] = "idle" /\ outcome[q] = "reply" => answer[q] = CurrentReq(q)

\* A pooled waiter is idle: nothing on its channel and no responder about to
\* send.  What a responder sends into it would be read by a later request.
PooledWaiterClean ==
    \A w \in pool :
        /\ ch[w] = <<>>
        /\ \A v \in Workers : vpc[v] = "send" => vd[v].w # w

\* A responder that won the swap never blocks on the channel.
ResponderNeverBlocks ==
    \A v \in Workers : vpc[v] = "send" => ch[vd[v].w] = <<>>

\* A reply raced in with a timeout or a close wins: a Request whose responder
\* claimed the waiter with a successful reply returns that reply.
SuccessfulReplyWins ==
    \A q \in Requesters :
        rpc[q] = "idle" /\ [req |-> CurrentReq(q), ok |-> TRUE] \in claims
            => outcome[q] = "reply"

\* A request is collected again, or reported to have no responders, only if no
\* mailbox took it: no worker is given one request twice by a retry.
RetryOnlyUndelivered ==
    \A q \in Requesters :
        rpc[q] = "collect" \/ (rpc[q] = "idle" /\ outcome[q] = "ErrNoResponders")
            => \A v \in Workers : <<CurrentReq(q), v>> \notin accepted

\* A Request returns once its context has ended or the bus is closed.
RequestReturns ==
    \A q \in Requesters :
        rpc[q] # "idle" /\ (ctx[q] # "live" \/ closedCh) ~> rpc[q] = "idle"
===============================================================================
