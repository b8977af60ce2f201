------------------------------- MODULE LocalBus -------------------------------
(***************************************************************************)
(* The lifecycle of bus.Local: publishers, pooled and generation-stamped   *)
(* subscriptions with one worker goroutine each, Unsubscribe, Close and    *)
(* Drain.  Every goroutine advances one shared-memory access at a time,    *)
(* in the order the code makes them, so that all interleavings of          *)
(* pkg/bus/local.go at that grain are behaviours here.                     *)
(*                                                                         *)
(* One subject is modelled.  Its registry entry is the set of references a *)
(* snapshot of it lists (module Registry has the entries, the wildcard     *)
(* list and the queue groups).  The order of the fan-out is left open.     *)
(* Requests have a module of their own, RequestReply.                      *)
(***************************************************************************)
EXTENDS Integers, Sequences, FiniteSets

CONSTANTS
    Subs,           \* subscription structs the pool can ever create
    Callers,        \* goroutines that call Subscribe and Unsubscribe
    Publishers,     \* goroutines that call Publish
    Stoppers,       \* goroutines that call Close or Drain, once each
    StopOps,        \* which of {"Close", "Drain"} they call
    RepeatUnsubscribe,  \* may Unsubscribe be called twice on one handle?
    BufferSize,     \* LocalConfig.BufferSize, the mailbox capacity
    MaxGen,         \* bound: activations of one struct
    MaxMsgs,        \* bound: messages of one publisher
    NoRef

ASSUME BoundsAssumption ==
    /\ BufferSize \in Nat \ {0}
    /\ MaxGen \in Nat \ {0}
    /\ MaxMsgs \in Nat
    /\ RepeatUnsubscribe \in BOOLEAN
    /\ StopOps \subseteq {"Close", "Drain"}

\* subRef: a struct stamped with the generation of one of its activations.
\* It stands also for that activation's stop channel and its worker.
Ref == [sub : Subs, gen : 1..MaxGen]

ASSUME NoRefAssumption == NoRef \notin Ref

Msg      == [from : Publishers, n : 1..MaxMsgs]
Delivery == [msg : Msg, gen : 1..MaxGen]

VARIABLES
    \* Local
    closed, draining, closedCh,
    pool,           \* subPool
    active,         \* the keys of subs
    wg,             \* the WaitGroup's counter
    reg,            \* references listed by the subject's current snapshot
    \* subscription, by struct
    gen, once, stopClosed, mailbox,
    stopped,        \* references whose stop channel is closed
    \* goroutines
    wpc,            \* the worker of each activation
    callerPc, callerRef,
    pubPc, pubN, pubTodo, pubRef,
    stopPc, stopOp, due, seen, stopSub,
    \* what happened so far (no action reads these)
    handles,        \* handles Subscribe has returned
    asked,          \* handles on which Unsubscribe was called
    unsubbed,       \* handles on which an Unsubscribe has returned
    targets,        \* the snapshot each message was fanned out from
    log,            \* the messages each activation's handler was given
    timedOut,       \* Drain calls whose context expired first
    owed            \* deliveries queued when this Drain stopped the intake

busVars  == <<closed, draining, closedCh>>
subVars  == <<gen, once, stopClosed, stopped, pool>>
listVars == <<reg, active>>
callVars == <<callerPc, callerRef, handles, asked, unsubbed>>
pubVars  == <<pubPc, pubN, pubTodo, pubRef, targets>>
workVars == <<wpc, wg, log>>
stopVars == <<stopPc, stopOp, due, seen, stopSub, timedOut, owed>>
vars == <<busVars, subVars, listVars, mailbox, callVars, pubVars, workVars,
          stopVars>>

WorkerPcs == {"none", "run", "handle", "drain", "drainHandle", "discard",
              "exit", "recycle", "leaving", "done"}
CallerPcs == {"idle", "get", "register", "track", "recheck", "undoTrack",
              "undoReg", "undoPool", "spawn", "genCheck", "claim", "dereg",
              "untrack", "stopClaim", "stopClose", "panicked"}
PubPcs    == {"idle", "load", "next", "send", "blocked"}
StopPcs   == {"idle", "drainFlag", "drainRange", "drainWait", "swap",
              "closeCh", "closeRange", "closeWait", "done", "panicked"}
          \cup {"drainClaim", "drainStop", "closeClaim", "closeStop"}

Stopping      == closed \/ draining
CurrentRef(s) == [sub |-> s, gen |-> gen[s]]
CurrentMsg(p) == [from |-> p, n |-> pubN[p]]

\* A goroutine has panicked outside a handler, which ends the process.
Panicked ==
    \/ \E c \in Callers : callerPc[c] = "panicked"
    \/ \E x \in Stoppers : stopPc[x] = "panicked"

\* A goroutine of a process that still runs is at this label.
At(pc, label) == ~Panicked /\ pc = label

Init ==
    /\ closed = FALSE /\ draining = FALSE /\ closedCh = FALSE
    /\ pool = {} /\ active = {} /\ reg = {} /\ wg = 0
    /\ gen = [s \in Subs |-> 0]
    /\ once = [s \in Subs |-> FALSE]
    /\ stopClosed = [s \in Subs |-> FALSE]
    /\ stopped = {}
    /\ mailbox = [s \in Subs |-> <<>>]
    /\ wpc = [r \in Ref |-> "none"]
    /\ callerPc = [c \in Callers |-> "idle"]
    /\ callerRef = [c \in Callers |-> NoRef]
    /\ handles = {} /\ asked = {} /\ unsubbed = {}
    /\ pubPc = [p \in Publishers |-> "idle"]
    /\ pubN = [p \in Publishers |-> 0]
    /\ pubTodo = [p \in Publishers |-> {}]
    /\ pubRef = [p \in Publishers |-> NoRef]
    /\ targets = [m \in Msg |-> {}]
    /\ log = [r \in Ref |-> <<>>]
    /\ stopPc = [x \in Stoppers |-> "idle"]
    /\ stopOp \in [Stoppers -> StopOps]
    /\ due = [x \in Stoppers |-> {}]
    /\ seen = [x \in Stoppers |-> {}]
    /\ stopSub = [x \in Stoppers |-> NoRef]
    /\ timedOut = {} /\ owed = [x \in Stoppers |-> {}]

-------------------------------------------------------------------------------
(* Publish *)

PubGoto(p, pc) == pubPc' = [pubPc EXCEPT ![p] = pc]

\* Publish returns, with nil or an error.
PubReturn(p) ==
    /\ PubGoto(p, "idle")
    /\ pubTodo' = [pubTodo EXCEPT ![p] = {}]
    /\ pubRef' = [pubRef EXCEPT ![p] = NoRef]

\* The flags are checked once, before the registry is read.
PublishStart(p) ==
    /\ At(pubPc[p], "idle")
    /\ pubN[p] < MaxMsgs
    /\ ~Stopping
    /\ pubN' = [pubN EXCEPT ![p] = @ + 1]
    /\ PubGoto(p, "load")
    /\ UNCHANGED <<busVars, subVars, listVars, mailbox, callVars, workVars,
                   stopVars, pubTodo, pubRef, targets>>

PublishLoad(p) ==
    /\ At(pubPc[p], "load")
    /\ pubTodo' = [pubTodo EXCEPT ![p] = reg]
    /\ targets' = [targets EXCEPT ![CurrentMsg(p)] = reg]
    /\ PubGoto(p, "next")
    /\ UNCHANGED <<busVars, subVars, listVars, mailbox, callVars, workVars,
                   stopVars, pubN, pubRef>>

\* enqueue, first select: a closed stop channel means skip this target.
EnqueueCheck(p, r) ==
    /\ At(pubPc[p], "next")
    /\ r \in pubTodo[p]
    /\ pubTodo' = [pubTodo EXCEPT ![p] = @ \ {r}]
    /\ IF r \in stopped
       THEN UNCHANGED <<pubPc, pubRef>>
       ELSE PubGoto(p, "send") /\ pubRef' = [pubRef EXCEPT ![p] = r]
    /\ UNCHANGED <<busVars, subVars, listVars, mailbox, callVars, workVars,
                   stopVars, pubN, targets>>

\* Fault: the mailbox takes one delivery too many.
FaultHasSpace(s) == Len(mailbox[s]) <= BufferSize

HasSpace(s) == Len(mailbox[s]) < BufferSize

Send(p, r) ==
    mailbox' = [mailbox EXCEPT
                  ![r.sub] = Append(@, [msg |-> CurrentMsg(p), gen |-> r.gen])]

\* Fault: the non-blocking send falls through to the blocking one.
FaultEnqueueTry(p) ==
    /\ At(pubPc[p], "send")
    /\ IF HasSpace(pubRef[p].sub) THEN Send(p, pubRef[p]) ELSE UNCHANGED mailbox
    /\ PubGoto(p, "blocked")
    /\ UNCHANGED <<busVars, subVars, listVars, callVars, workVars, stopVars,
                   pubN, pubTodo, pubRef, targets>>

\* enqueue, second select: a send that does not block.
EnqueueTry(p) ==
    /\ At(pubPc[p], "send")
    /\ IF HasSpace(pubRef[p].sub)
       THEN Send(p, pubRef[p]) /\ PubGoto(p, "next")
       ELSE UNCHANGED mailbox /\ PubGoto(p, "blocked")
    /\ UNCHANGED <<busVars, subVars, listVars, callVars, workVars, stopVars,
                   pubN, pubTodo, pubRef, targets>>

\* enqueue, third select: whichever of its cases is ready.
EnqueueSend(p) ==
    /\ At(pubPc[p], "blocked")
    /\ HasSpace(pubRef[p].sub)
    /\ Send(p, pubRef[p])
    /\ PubGoto(p, "next")
    /\ UNCHANGED <<busVars, subVars, listVars, callVars, workVars, stopVars,
                   pubN, pubTodo, pubRef, targets>>

EnqueueSkip(p) ==
    /\ At(pubPc[p], "blocked")
    /\ pubRef[p] \in stopped
    /\ PubGoto(p, "next")
    /\ UNCHANGED <<busVars, subVars, listVars, mailbox, callVars, workVars,
                   stopVars, pubN, pubTodo, pubRef, targets>>

EnqueueCancelled(p) ==          \* the publisher's context is done
    /\ At(pubPc[p], "blocked")
    /\ PubReturn(p)
    /\ UNCHANGED <<busVars, subVars, listVars, mailbox, callVars, workVars,
                   stopVars, pubN, targets>>

\* Fault: a blocked publisher does not watch closedCh.
FaultEnqueueBusClosed(p) == FALSE /\ UNCHANGED vars

EnqueueBusClosed(p) ==
    /\ At(pubPc[p], "blocked")
    /\ closedCh
    /\ PubReturn(p)
    /\ UNCHANGED <<busVars, subVars, listVars, mailbox, callVars, workVars,
                   stopVars, pubN, targets>>

PublishEnd(p) ==
    /\ At(pubPc[p], "next")
    /\ pubTodo[p] = {}
    /\ PubReturn(p)
    /\ UNCHANGED <<busVars, subVars, listVars, mailbox, callVars, workVars,
                   stopVars, pubN, targets>>

PublishStep(p) ==
    \/ PublishLoad(p) \/ EnqueueTry(p) \/ EnqueueSend(p) \/ EnqueueSkip(p)
    \/ EnqueueBusClosed(p) \/ PublishEnd(p)
    \/ \E r \in Ref : EnqueueCheck(p, r)

-------------------------------------------------------------------------------
(* Subscribe: addSub *)

Goto(c, pc) == callerPc' = [callerPc EXCEPT ![c] = pc]

Return(c) == Goto(c, "idle") /\ callerRef' = [callerRef EXCEPT ![c] = NoRef]

SubscribeStart(c) ==
    /\ At(callerPc[c], "idle")
    /\ ~Stopping
    /\ \E s \in Subs : gen[s] < MaxGen
    /\ Goto(c, "get")
    /\ UNCHANGED <<busVars, subVars, listVars, mailbox, pubVars, workVars,
                   stopVars, callerRef, handles, asked, unsubbed>>

\* getSub (a pooled struct, or a new one when the pool has none to give) and
\* the activation.  The struct is the caller's own here, and the once flag,
\* which the others compete for, is reset last, so this is one step.
SubscribeGet(c, s) ==
    /\ At(callerPc[c], "get")
    /\ s \in pool \/ gen[s] = 0
    /\ gen[s] < MaxGen
    /\ pool' = pool \ {s}
    /\ gen' = [gen EXCEPT ![s] = @ + 1]
    /\ stopClosed' = [stopClosed EXCEPT ![s] = FALSE]
    /\ once' = [once EXCEPT ![s] = FALSE]
    /\ callerRef' = [callerRef EXCEPT ![c] = [sub |-> s, gen |-> gen[s] + 1]]
    /\ Goto(c, "register")
    /\ UNCHANGED <<busVars, listVars, mailbox, pubVars, workVars, stopVars,
                   stopped, handles, asked, unsubbed>>

SubscribeRegister(c) ==
    /\ At(callerPc[c], "register")
    /\ reg' = reg \cup {callerRef[c]}
    /\ Goto(c, "track")
    /\ UNCHANGED <<busVars, subVars, mailbox, pubVars, workVars, stopVars,
                   active, callerRef, handles, asked, unsubbed>>

\* Fault: the subscription is not stored where Close and Drain look.
FaultSubscribeTrack(c) ==
    /\ At(callerPc[c], "track")
    /\ Goto(c, "recheck")
    /\ UNCHANGED <<busVars, subVars, mailbox, pubVars, workVars, stopVars,
                   active, reg, callerRef, handles, asked, unsubbed>>

SubscribeTrack(c) ==
    /\ At(callerPc[c], "track")
    /\ active' = active \cup {callerRef[c].sub}
    /\ Goto(c, "recheck")
    /\ UNCHANGED <<busVars, subVars, mailbox, pubVars, workVars, stopVars,
                   reg, callerRef, handles, asked, unsubbed>>

SubscribeRecheck(c) ==
    /\ At(callerPc[c], "recheck")
    /\ Goto(c, IF Stopping THEN "undoTrack" ELSE "spawn")
    /\ UNCHANGED <<busVars, subVars, listVars, mailbox, pubVars, workVars,
                   stopVars, callerRef, handles, asked, unsubbed>>

\* subs.Delete: a Range under way may or may not still meet the key.
Untrack(s) ==
    /\ active' = active \ {s}
    /\ due' = [x \in Stoppers |-> due[x] \ {s}]

UndoTrack(c) ==
    /\ At(callerPc[c], "undoTrack")
    /\ Untrack(callerRef[c].sub)
    /\ Goto(c, "undoReg")
    /\ UNCHANGED <<busVars, subVars, mailbox, pubVars, workVars, reg,
                   callerRef, handles, asked, unsubbed,
                   stopPc, stopOp, seen, stopSub, timedOut, owed>>

UndoRegister(c) ==
    /\ At(callerPc[c], "undoReg")
    /\ reg' = reg \ {callerRef[c]}
    /\ Goto(c, "undoPool")
    /\ UNCHANGED <<busVars, subVars, mailbox, pubVars, workVars, stopVars,
                   active, callerRef, handles, asked, unsubbed>>

UndoRecycle(c) ==
    /\ At(callerPc[c], "undoPool")
    /\ pool' = pool \cup {callerRef[c].sub}
    /\ Return(c)
    /\ UNCHANGED <<busVars, listVars, mailbox, pubVars, workVars, stopVars,
                   gen, once, stopClosed, stopped, handles, asked, unsubbed>>

\* Fault: the WaitGroup is not told of the worker.
FaultSubscribeSpawn(c) ==
    /\ At(callerPc[c], "spawn")
    /\ wpc' = [wpc EXCEPT ![callerRef[c]] = "run"]
    /\ handles' = handles \cup {callerRef[c]}
    /\ Return(c)
    /\ UNCHANGED <<busVars, subVars, listVars, mailbox, pubVars, stopVars,
                   wg, log, asked, unsubbed>>

\* wg.Add(1), go runWorker(s), and Subscribe returns the handle.
SubscribeSpawn(c) ==
    /\ At(callerPc[c], "spawn")
    /\ wg' = wg + 1
    /\ wpc' = [wpc EXCEPT ![callerRef[c]] = "run"]
    /\ handles' = handles \cup {callerRef[c]}
    /\ Return(c)
    /\ UNCHANGED <<busVars, subVars, listVars, mailbox, pubVars, stopVars,
                   log, asked, unsubbed>>

-------------------------------------------------------------------------------
(* Unsubscribe *)

\* The interface calls Unsubscribe idempotent, so a caller may repeat it, on
\* any goroutine and at any time after Subscribe returned.
UnsubStart(c, r) ==
    /\ At(callerPc[c], "idle")
    /\ r \in handles
    /\ RepeatUnsubscribe \/ r \notin asked
    /\ asked' = asked \cup {r}
    /\ callerRef' = [callerRef EXCEPT ![c] = r]
    /\ Goto(c, "genCheck")
    /\ UNCHANGED <<busVars, subVars, listVars, mailbox, pubVars, workVars,
                   stopVars, handles, unsubbed>>

UnsubReturn(c) == Return(c) /\ unsubbed' = unsubbed \cup {callerRef[c]}

UnsubGenCheck(c) ==
    /\ At(callerPc[c], "genCheck")
    /\ IF gen[callerRef[c].sub] = callerRef[c].gen
       THEN Goto(c, "claim") /\ UNCHANGED <<callerRef, unsubbed>>
       ELSE UnsubReturn(c)
    /\ UNCHANGED <<busVars, subVars, listVars, mailbox, pubVars, workVars,
                   stopVars, handles, asked>>

\* The compare-and-swap on once, which belongs to the struct's current
\* activation, whichever that is by now.
UnsubClaim(c) ==
    /\ At(callerPc[c], "claim")
    /\ once' = [once EXCEPT ![callerRef[c].sub] = TRUE]
    /\ IF once[callerRef[c].sub]
       THEN UnsubReturn(c)
       ELSE Goto(c, "dereg") /\ UNCHANGED <<callerRef, unsubbed>>
    /\ UNCHANGED <<busVars, listVars, mailbox, pubVars, workVars, stopVars,
                   gen, stopClosed, stopped, pool, handles, asked>>

\* Fault: the reference stays in the registry.
FaultUnsubDeregNone(c) ==
    /\ At(callerPc[c], "dereg")
    /\ Goto(c, "untrack")
    /\ UNCHANGED <<busVars, subVars, mailbox, pubVars, workVars, stopVars,
                   reg, active, callerRef, handles, asked, unsubbed>>

\* Fault: the whole entry goes when one of its members leaves.
FaultUnsubDeregAll(c) ==
    /\ At(callerPc[c], "dereg")
    /\ reg' = {}
    /\ Goto(c, "untrack")
    /\ UNCHANGED <<busVars, subVars, mailbox, pubVars, workVars, stopVars,
                   active, callerRef, handles, asked, unsubbed>>

UnsubDereg(c) ==
    /\ At(callerPc[c], "dereg")
    /\ reg' = reg \ {callerRef[c]}
    /\ Goto(c, "untrack")
    /\ UNCHANGED <<busVars, subVars, mailbox, pubVars, workVars, stopVars,
                   active, callerRef, handles, asked, unsubbed>>

UnsubUntrack(c) ==
    /\ At(callerPc[c], "untrack")
    /\ Untrack(callerRef[c].sub)
    /\ Goto(c, "stopClaim")
    /\ UNCHANGED <<busVars, subVars, mailbox, pubVars, workVars, reg,
                   callerRef, handles, asked, unsubbed,
                   stopPc, stopOp, seen, stopSub, timedOut, owed>>

\* closeStop, first half: the compare-and-swap on stopClosed.
UnsubStopClaim(c) ==
    /\ At(callerPc[c], "stopClaim")
    /\ stopClosed' = [stopClosed EXCEPT ![callerRef[c].sub] = TRUE]
    /\ IF stopClosed[callerRef[c].sub]
       THEN UnsubReturn(c)
       ELSE Goto(c, "stopClose") /\ UNCHANGED <<callerRef, unsubbed>>
    /\ UNCHANGED <<busVars, listVars, mailbox, pubVars, workVars, stopVars,
                   gen, once, stopped, pool, handles, asked>>

\* closeStop, second half: close(s.stop), which panics on a closed channel.  The
\* channel is that of the struct's current activation, whichever that is by now.
CloseChannel(s) == stopped' = stopped \cup {CurrentRef(s)}

\* Fault: Unsubscribe puts the struct back itself, its worker still running.
FaultUnsubStopClose(c) ==
    /\ At(callerPc[c], "stopClose")
    /\ CloseChannel(callerRef[c].sub)
    /\ pool' = pool \cup {callerRef[c].sub}
    /\ UnsubReturn(c)
    /\ UNCHANGED <<busVars, listVars, mailbox, pubVars, workVars, stopVars,
                   gen, once, stopClosed, handles, asked>>

UnsubStopClose(c) ==
    /\ At(callerPc[c], "stopClose")
    /\ CloseChannel(callerRef[c].sub)
    /\ IF CurrentRef(callerRef[c].sub) \in stopped
       THEN Goto(c, "panicked") /\ UNCHANGED <<callerRef, unsubbed>>
       ELSE UnsubReturn(c)
    /\ UNCHANGED <<busVars, listVars, mailbox, pubVars, workVars, stopVars,
                   gen, once, stopClosed, pool, handles, asked>>

CallerStep(c) ==
    \/ \E s \in Subs : SubscribeGet(c, s)
    \/ SubscribeRegister(c) \/ SubscribeTrack(c) \/ SubscribeRecheck(c)
    \/ SubscribeSpawn(c) \/ UndoTrack(c) \/ UndoRegister(c) \/ UndoRecycle(c)
    \/ UnsubGenCheck(c) \/ UnsubClaim(c) \/ UnsubDereg(c) \/ UnsubUntrack(c)
    \/ UnsubStopClaim(c) \/ UnsubStopClose(c)

-------------------------------------------------------------------------------
(* The worker of activation r: runWorker, drainProcess, drainDiscard *)

WorkerGoto(r, pc) == wpc' = [wpc EXCEPT ![r] = pc]

\* Fault: the generation of a delivery is not compared.
FaultTakeAny(r, busy) ==
    /\ mailbox[r.sub] # <<>>
    /\ mailbox' = [mailbox EXCEPT ![r.sub] = Tail(@)]
    /\ WorkerGoto(r, busy)
    /\ log' = [log EXCEPT ![r] = Append(@, Head(mailbox[r.sub]).msg)]

\* Fault: the comparison is off by one.
FaultTakeOlder(r, busy) ==
    LET d == Head(mailbox[r.sub]) IN
    /\ mailbox[r.sub] # <<>>
    /\ mailbox' = [mailbox EXCEPT ![r.sub] = Tail(@)]
    /\ IF d.gen < r.gen
       THEN WorkerGoto(r, busy) /\ log' = [log EXCEPT ![r] = Append(@, d.msg)]
       ELSE UNCHANGED <<wpc, log>>

\* Take the head of the mailbox; dispatch it if it carries this generation.
Take(r, busy) ==
    LET d == Head(mailbox[r.sub]) IN
    /\ mailbox[r.sub] # <<>>
    /\ mailbox' = [mailbox EXCEPT ![r.sub] = Tail(@)]
    /\ IF d.gen = r.gen
       THEN WorkerGoto(r, busy) /\ log' = [log EXCEPT ![r] = Append(@, d.msg)]
       ELSE UNCHANGED <<wpc, log>>

\* The worker's select may take a message even when stop is closed.
WorkerRecv(r) ==
    /\ At(wpc[r], "run")
    /\ Take(r, "handle")
    /\ UNCHANGED <<busVars, subVars, listVars, callVars, pubVars, stopVars, wg>>

\* The handler returns or its panic is recovered.
WorkerHandled(r) ==
    /\ ~Panicked /\ wpc[r] \in {"handle", "drainHandle"}
    /\ WorkerGoto(r, IF wpc[r] = "handle" THEN "run" ELSE "drain")
    /\ UNCHANGED <<busVars, subVars, listVars, mailbox, callVars, pubVars,
                   stopVars, wg, log>>

\* Fault: a draining worker discards its mailbox.
FaultWorkerStop(r) ==
    /\ At(wpc[r], "run")
    /\ r \in stopped
    /\ WorkerGoto(r, "discard")
    /\ UNCHANGED <<busVars, subVars, listVars, mailbox, callVars, pubVars,
                   stopVars, wg, log>>

WorkerStop(r) ==
    /\ At(wpc[r], "run")
    /\ r \in stopped
    /\ WorkerGoto(r, IF draining THEN "drain" ELSE "discard")
    /\ UNCHANGED <<busVars, subVars, listVars, mailbox, callVars, pubVars,
                   stopVars, wg, log>>

DrainRecv(r) ==
    /\ At(wpc[r], "drain")
    /\ Take(r, "drainHandle")
    /\ UNCHANGED <<busVars, subVars, listVars, callVars, pubVars, stopVars, wg>>

DiscardOne(r) ==
    /\ At(wpc[r], "discard")
    /\ mailbox[r.sub] # <<>>
    /\ mailbox' = [mailbox EXCEPT ![r.sub] = Tail(@)]
    /\ UNCHANGED <<busVars, subVars, listVars, callVars, pubVars, workVars,
                   stopVars>>

MailboxEmpty(r) ==
    /\ ~Panicked /\ wpc[r] \in {"drain", "discard"}
    /\ mailbox[r.sub] = <<>>
    /\ WorkerGoto(r, "exit")
    /\ UNCHANGED <<busVars, subVars, listVars, mailbox, callVars, pubVars,
                   stopVars, wg, log>>

WorkerExit(r) ==
    /\ At(wpc[r], "exit")
    /\ WorkerGoto(r, IF Stopping THEN "leaving" ELSE "recycle")
    /\ UNCHANGED <<busVars, subVars, listVars, mailbox, callVars, pubVars,
                   stopVars, wg, log>>

WorkerRecycle(r) ==
    /\ At(wpc[r], "recycle")
    /\ pool' = pool \cup {r.sub}
    /\ WorkerGoto(r, "leaving")
    /\ UNCHANGED <<busVars, listVars, mailbox, callVars, pubVars, stopVars,
                   gen, once, stopClosed, stopped, wg, log>>

WorkerDone(r) ==
    /\ At(wpc[r], "leaving")
    /\ wg' = wg - 1
    /\ WorkerGoto(r, "done")
    /\ UNCHANGED <<busVars, subVars, listVars, mailbox, callVars, pubVars,
                   stopVars, log>>

WorkerStep(r) ==
    \/ WorkerRecv(r) \/ WorkerHandled(r) \/ WorkerStop(r) \/ DrainRecv(r)
    \/ DiscardOne(r) \/ MailboxEmpty(r) \/ WorkerExit(r) \/ WorkerRecycle(r)
    \/ WorkerDone(r)

-------------------------------------------------------------------------------
(* Drain and Close *)

StopGoto(x, pc) == stopPc' = [stopPc EXCEPT ![x] = pc]

StopUnchanged ==
    UNCHANGED <<subVars, listVars, mailbox, callVars, pubVars, workVars>>

\* Drain on a closed bus returns nil; Close starts with the swap.
StopStart(x) ==
    /\ At(stopPc[x], "idle")
    /\ StopGoto(x, CASE stopOp[x] = "Close" -> "swap"
                     [] stopOp[x] = "Drain" /\ ~closed -> "drainFlag"
                     [] stopOp[x] = "Drain" /\ closed  -> "done")
    /\ StopUnchanged
    /\ UNCHANGED <<busVars, stopOp, due, seen, stopSub, timedOut, owed>>

RangeBegin(x) ==
    /\ due' = [due EXCEPT ![x] = active]
    /\ seen' = [seen EXCEPT ![x] = {}]

\* Message m waits for live subscription r.
Awaits(r, m) ==
    /\ wpc[r] \in {"run", "handle"} /\ r \notin stopped
    /\ \E i \in DOMAIN mailbox[r.sub] :
          mailbox[r.sub][i] = [msg |-> m, gen |-> r.gen]

\* Range starts after the flag is stored.  What is tracked in between re-checks
\* the flag and backs out, so whether this Range meets it makes no difference.
DrainFlag(x) ==
    /\ At(stopPc[x], "drainFlag")
    /\ draining' = TRUE
    /\ owed' = [owed EXCEPT ![x] = {e \in Ref \X Msg : Awaits(e[1], e[2])}]
    /\ RangeBegin(x)
    /\ StopGoto(x, "drainRange")
    /\ StopUnchanged
    /\ UNCHANGED <<closed, closedCh, stopOp, stopSub, timedOut>>

\* subs.Range: keys stored meanwhile may be met; none is met twice.
RangePick(x, s) ==
    /\ ~Panicked /\ stopPc[x] \in {"drainRange", "closeRange"}
    /\ s \in active \ seen[x]
    /\ seen' = [seen EXCEPT ![x] = @ \cup {s}]
    /\ stopSub' = [stopSub EXCEPT ![x] = s]
    /\ StopGoto(x, IF stopPc[x] = "drainRange" THEN "drainClaim"
                                               ELSE "closeClaim")
    /\ StopUnchanged
    /\ UNCHANGED <<busVars, stopOp, due, timedOut, owed>>

BackToRange(x) ==
    StopGoto(x, IF stopPc[x] \in {"drainClaim", "drainStop"}
                THEN "drainRange" ELSE "closeRange")

RangeClaim(x) ==
    /\ ~Panicked /\ stopPc[x] \in {"drainClaim", "closeClaim"}
    /\ stopClosed' = [stopClosed EXCEPT ![stopSub[x]] = TRUE]
    /\ IF stopClosed[stopSub[x]]
       THEN BackToRange(x)
       ELSE StopGoto(x, IF stopPc[x] = "drainClaim" THEN "drainStop"
                                                    ELSE "closeStop")
    /\ UNCHANGED <<busVars, listVars, mailbox, callVars, pubVars, workVars,
                   gen, once, stopped, pool,
                   stopOp, due, seen, stopSub, timedOut, owed>>

RangeClose(x) ==
    /\ ~Panicked /\ stopPc[x] \in {"drainStop", "closeStop"}
    /\ CloseChannel(stopSub[x])
    /\ IF CurrentRef(stopSub[x]) \in stopped
       THEN StopGoto(x, "panicked")
       ELSE BackToRange(x)
    /\ UNCHANGED <<busVars, listVars, mailbox, callVars, pubVars, workVars,
                   gen, once, stopClosed, pool,
                   stopOp, due, seen, stopSub, timedOut, owed>>

RangeEnd(x) ==
    /\ ~Panicked /\ stopPc[x] \in {"drainRange", "closeRange"}
    /\ due[x] \subseteq seen[x]
    /\ StopGoto(x, IF stopPc[x] = "drainRange" THEN "drainWait"
                                               ELSE "closeWait")
    /\ StopUnchanged
    /\ UNCHANGED <<busVars, stopOp, due, seen, stopSub, timedOut, owed>>

DrainDone(x) ==
    /\ At(stopPc[x], "drainWait")
    /\ wg = 0
    /\ StopGoto(x, "swap")
    /\ StopUnchanged
    /\ UNCHANGED <<busVars, stopOp, due, seen, stopSub, timedOut, owed>>

DrainTimeout(x) ==
    /\ At(stopPc[x], "drainWait")
    /\ timedOut' = timedOut \cup {x}
    /\ StopGoto(x, "swap")
    /\ StopUnchanged
    /\ UNCHANGED <<busVars, stopOp, due, seen, stopSub, owed>>

\* closed.Swap(true): only the first Close goes on.
CloseSwap(x) ==
    /\ At(stopPc[x], "swap")
    /\ closed' = TRUE
    /\ StopGoto(x, IF closed THEN "done" ELSE "closeCh")
    /\ StopUnchanged
    /\ UNCHANGED <<draining, closedCh, stopOp, due, seen, stopSub, timedOut,
                   owed>>

CloseCh(x) ==
    /\ At(stopPc[x], "closeCh")
    /\ closedCh' = TRUE
    /\ RangeBegin(x)
    /\ StopGoto(x, "closeRange")
    /\ StopUnchanged
    /\ UNCHANGED <<closed, draining, stopOp, stopSub, timedOut, owed>>

\* Close then empties the wildcard list, which nobody reads on a closed bus but a
\* publisher past its check, to whom every subscription in it is stopped.
CloseWait(x) ==
    /\ At(stopPc[x], "closeWait")
    /\ wg = 0
    /\ StopGoto(x, "done")
    /\ StopUnchanged
    /\ UNCHANGED <<busVars, stopOp, due, seen, stopSub, timedOut, owed>>

StopStep(x) ==
    \/ DrainFlag(x) \/ RangeClaim(x) \/ RangeClose(x) \/ RangeEnd(x)
    \/ DrainDone(x) \/ CloseSwap(x) \/ CloseCh(x) \/ CloseWait(x)
    \/ \E s \in Subs : RangePick(x, s)

-------------------------------------------------------------------------------
PublishNext == \E p \in Publishers :
    PublishStart(p) \/ EnqueueCancelled(p) \/ PublishStep(p)

CallerNext == \E c \in Callers :
    SubscribeStart(c) \/ (\E r \in Ref : UnsubStart(c, r)) \/ CallerStep(c)

WorkerNext == \E r \in Ref : WorkerStep(r)

StopNext == \E x \in Stoppers : StopStart(x) \/ DrainTimeout(x) \/ StopStep(x)

Next == PublishNext \/ CallerNext \/ WorkerNext \/ StopNext

Spec == Init /\ [][Next]_vars

\* A goroutine inside an operation keeps running, and handlers return.  When
\* an operation is called, a context ends or a Drain times out is not assured.
Fairness ==
    /\ \A p \in Publishers : WF_vars(PublishStep(p))
    /\ \A c \in Callers : WF_vars(CallerStep(c))
    /\ \A r \in Ref : WF_vars(WorkerStep(r))
    /\ \A x \in Stoppers : WF_vars(StopStep(x))

FairSpec == Spec /\ Fairness

-------------------------------------------------------------------------------
(* Properties *)

TypeBus == closed \in BOOLEAN /\ draining \in BOOLEAN /\ closedCh \in BOOLEAN

TypeSub ==
    /\ gen \in [Subs -> 0..MaxGen]
    /\ once \in [Subs -> BOOLEAN]
    /\ stopClosed \in [Subs -> BOOLEAN]
    /\ stopped \subseteq [sub : Subs, gen : 0..MaxGen]
    /\ pool \subseteq Subs

TypeList == reg \subseteq Ref /\ active \subseteq Subs

TypeMailbox ==
    /\ mailbox \in [Subs -> Seq(Delivery)]
    /\ \A s \in Subs : Len(mailbox[s]) <= BufferSize

TypeCaller ==
    /\ callerPc \in [Callers -> CallerPcs]
    /\ callerRef \in [Callers -> Ref \cup {NoRef}]
    /\ \A c \in Callers :
          callerPc[c] \notin {"idle", "get"} => callerRef[c] \in Ref
    /\ handles \subseteq Ref /\ asked \subseteq Ref /\ unsubbed \subseteq Ref

TypePub ==
    /\ pubPc \in [Publishers -> PubPcs]
    /\ pubN \in [Publishers -> 0..MaxMsgs]
    /\ pubTodo \in [Publishers -> SUBSET Ref]
    /\ pubRef \in [Publishers -> Ref \cup {NoRef}]
    /\ \A p \in Publishers :
          /\ pubPc[p] # "idle" => pubN[p] > 0
          /\ pubPc[p] \in {"send", "blocked"} => pubRef[p] \in Ref
    /\ targets \in [Msg -> SUBSET Ref]

TypeWork ==
    /\ wpc \in [Ref -> WorkerPcs]
    /\ wg \in Int
    /\ log \in [Ref -> Seq(Msg)]

TypeStop ==
    /\ stopPc \in [Stoppers -> StopPcs]
    /\ stopOp \in [Stoppers -> StopOps]
    /\ due \in [Stoppers -> SUBSET Subs]
    /\ seen \in [Stoppers -> SUBSET Subs]
    /\ stopSub \in [Stoppers -> Subs \cup {NoRef}]
    /\ \A x \in Stoppers :
          stopPc[x] \in {"drainClaim", "drainStop", "closeClaim", "closeStop"}
             => stopSub[x] \in Subs
    /\ timedOut \subseteq Stoppers
    /\ owed \in [Stoppers -> SUBSET (Ref \X Msg)]

\* Every variable has its type; a mailbox never exceeds its capacity, and
\* whoever works on a reference has one.
TypeOK ==
    /\ TypeBus /\ TypeSub /\ TypeList /\ TypeMailbox
    /\ TypeCaller /\ TypePub /\ TypeWork /\ TypeStop

\* A caller that has taken a struct and not yet given it to a worker or back.
Building(c) == callerPc[c] \in {"register", "track", "recheck", "undoTrack",
                                "undoReg", "undoPool", "spawn"}

\* A worker that still uses its struct; Live also counts one that has given it
\* back and is on its way out.
Serving(r) == wpc[r] \in {"run", "handle", "drain", "drainHandle", "discard",
                          "exit", "recycle"}
Live(r) == Serving(r) \/ wpc[r] = "leaving"

\* A pooled struct has one user at a time: a struct that is being activated or
\* served is at that activation's generation and not in the pool, no two
\* callers activate it, and none does while a worker serves it.  dispatch reads
\* s.handler from the struct, so this is what makes the handler that runs the
\* one the delivery was meant for.
SoleOwner ==
    /\ \A c \in Callers : Building(c) =>
          /\ callerRef[c].sub \notin pool
          /\ gen[callerRef[c].sub] = callerRef[c].gen
    /\ \A r \in Ref : Serving(r) => r.sub \notin pool /\ gen[r.sub] = r.gen
    /\ \A c, d \in Callers :
          Building(c) /\ Building(d) /\ callerRef[c].sub = callerRef[d].sub
             => c = d
    /\ \A c \in Callers, r \in Ref :
          Building(c) /\ Serving(r) => callerRef[c].sub # r.sub

\* "A straggling publisher can never route a message to a recycled
\* subscription" (doc.go): a handler is only given messages whose fan-out
\* snapshot listed its own activation.
RoutedOnlyToTargets ==
    \A r \in Ref : \A i \in DOMAIN log[r] : r \in targets[log[r][i]]

\* Per-subscription FIFO order: a handler is given the messages of one publisher
\* in the order they were published, none of them twice.
PerPublisherOrder ==
    \A r \in Ref : \A i, j \in DOMAIN log[r] :
        i < j /\ log[r][i].from = log[r][j].from => log[r][i].n < log[r][j].n

\* When Unsubscribe has returned, a publish that starts later does not find the
\* subscription and its worker has been told to stop.
UnsubscribedIsGone == \A r \in unsubbed : r \notin reg /\ r \in stopped

\* A subscription nobody asked to end stays registered, known to Close and
\* Drain, and served, for as long as the bus is not stopping.
LiveUntilAsked ==
    ~Stopping => \A r \in handles \ asked :
        /\ r \in reg /\ r.sub \in active
        /\ r \notin stopped /\ wpc[r] \in {"run", "handle"}

\* The WaitGroup counts exactly the workers that have not finished.
WgCountsWorkers == wg = Cardinality({r \in Ref : Live(r)})

\* "prove the bus never deadlocks, panics" (stress_test.go), "never panic (e.g.
\* double-close of the stop channel)": closeStop never closes a channel that is
\* closed already.  It may: a closeStop claimed for one activation that meets the
\* next one closes its channel, and leaves its flag for a second to claim.
NoDoubleClose == ~Panicked

\* What was queued for a live subscription when Drain stopped the intake has been
\* given to its handler by the time Drain's wait succeeds.
DrainHandlesQueued ==
    \A x \in Stoppers :
        stopOp[x] = "Drain" /\ x \notin timedOut /\ stopPc[x] = "swap" =>
            \A e \in owed[x] : \E i \in DOMAIN log[e[1]] : log[e[1]][i] = e[2]

\* The stop channel of r is closed, or somebody is about to claim or to do that.
ToldToStop(r) ==
    \/ r \in stopped
    \/ \E c \in Callers : /\ callerPc[c] \in {"stopClaim", "stopClose"}
                          /\ callerRef[c].sub = r.sub
    \/ \E x \in Stoppers : /\ stopPc[x] \in {"drainStop", "closeStop"}
                           /\ stopSub[x] = r.sub

\* "so a concurrent Close/Drain cannot miss this subscription" (addSub): no Close
\* or Drain waits for a worker that nobody stops, whoever unsubscribes, backs
\* out of Subscribe or recycles structs while it ranges over them.
AwaitedAreStopped ==
    \A x \in Stoppers : stopPc[x] \in {"drainWait", "closeWait"} =>
        \A r \in Ref : wpc[r] \in {"run", "handle"} => ToldToStop(r)

\* Close returns from its wait only when no worker is running a handler or is
\* about to: it waits for the message being handled.
CloseWaitsForWorkers ==
    [][\A x \in Stoppers :
         stopPc[x] = "closeWait" /\ stopPc'[x] = "done" =>
             \A r \in Ref : ~Live(r)]_vars

\* What the comment in addSub promises, "so a concurrent Close/Drain cannot miss
\* this subscription": when the Close that stops the bus has returned, no
\* worker is left.  The code re-checks before wg.Add, so it does not hold.
CloseLeavesNoWorker ==
    \A x \in Stoppers : closed /\ stopPc[x] = "done" => \A r \in Ref : ~Live(r)

\* "Close ... abandons queued messages (the message a worker is already handling
\* still completes)" (bus.go): a worker that Close has told to stop starts no
\* other message.  Its select may take one all the same.
CloseAbandonsQueued ==
    [][\A r \in Ref :
         closed /\ r \in stopped => ~(wpc[r] = "run" /\ wpc'[r] = "handle")]_vars

\* Drain: "If ctx expires first, remaining work is abandoned like Close"
\* (bus.go): no worker takes another queued message.  drainProcess never looks.
DrainExpiryAbandons ==
    [][timedOut # {} =>
         \A r \in Ref : ~(wpc[r] = "drain" /\ wpc'[r] = "drainHandle")]_vars

\* Every Close and Drain under way returns, Drain without its timeout too,
\* unless a double close (NoDoubleClose) ends the process first.
StopReturns ==
    \A x \in Stoppers : stopPc[x] # "idle" ~> stopPc[x] = "done" \/ Panicked

\* Every Publish returns: backpressure ends when space is available, the
\* subscription ends or the bus stops.  Here too a panic ends everything.
PublishReturns ==
    \A p \in Publishers : pubPc[p] # "idle" ~> pubPc[p] = "idle" \/ Panicked

\* A message accepted for a live subscription is given to its handler unless the
\* subscription or the bus is stopped first.  A panic takes a stopper, which
\* Stopping covers.
AcceptedIsHandled ==
    \A r \in Ref, m \in Msg :
        Awaits(r, m) ~>
            Stopping \/ r \in stopped \/ \E i \in DOMAIN log[r] : log[r][i] = m
===============================================================================
