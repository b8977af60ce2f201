------------------------------- MODULE Registry -------------------------------
(***************************************************************************)
(* The bus's registry: a concurrent map from pattern to entry, an          *)
(* immutable snapshot of references in each entry, and a copy-on-write     *)
(* list of the wildcard entries.  Callers register and deregister while    *)
(* publishers read without a lock.                                         *)
(*                                                                         *)
(* All patterns here match the one subject that is published.  What holds  *)
(* under an entry's mutex is one step: a reader that loads the snapshot    *)
(* and the index separately cannot tell the order of the two writes.       *)
(* Mailboxes are LocalBus's; which member of a queue group is next is left *)
(* open.                                                                   *)
(***************************************************************************)
EXTENDS Naturals, Sequences, SequencesExt

CONSTANTS
    Callers,        \* goroutines that subscribe and unsubscribe
    Publishers,
    Wildcards,      \* wildcard patterns that match the subject
    ExactPatterns,  \* the subject itself, or none
    Groups,         \* queue groups
    FanOut,         \* the group of a plain subscription
    MaxSubs,        \* bound: subscriptions of one caller
    MaxPubs,        \* bound: publishes of one publisher
    MaxEntries,     \* bound: subjectEntry structs ever created
    NoEntry, NoRef

Patterns == Wildcards \cup ExactPatterns
Entries  == 1..MaxEntries

\* subRef, with what its subscription was made for.
Ref == [by : Callers, n : 1..MaxSubs, pattern : Patterns,
        queue : Groups \cup {FanOut}]

ASSUME Subjects == Wildcards \cap ExactPatterns = {}
ASSUME Bounds == MaxSubs \in Nat /\ MaxPubs \in Nat /\ MaxEntries \in Nat
ASSUME NoSuch == NoEntry \notin Entries /\ NoRef \notin Ref /\ FanOut \notin Groups

VARIABLES
    index,              \* pattern -> entry
    state, dead,        \* by entry: the snapshot ({} is nil), the dead mark
    created,            \* entries created so far
    wild,               \* the list of wildcard entries
    callerPc, subN, ref, entry,                  \* by caller
    stopped,            \* references whose stop channel is closed
    live,               \* Subscribe has returned, Unsubscribe is not called
    pubPc, pubN, snap, pubWild,                  \* by publisher
    got,                \* references this Publish has enqueued to
    liveAt, settledAt   \* live, and settled, when this Publish began

regVars == <<index, state, dead, created, wild>>
callVars == <<subN, ref, entry>>
pubVars == <<pubPc, pubN, snap, pubWild, got, liveAt, settledAt>>
vars == <<regVars, callerPc, callVars, stopped, live, pubVars>>

CallerPcs == {"idle", "lookup", "insert", "addWild", "subscribed", "find",
              "remove", "removeWild", "stop"}
PubPcs == {"idle", "exact", "wild", "next", "deliverExact", "deliverWild",
           "done", "failed"}

Init ==
    /\ index = [p \in Patterns |-> NoEntry]
    /\ state = [e \in Entries |-> {}]
    /\ dead = [e \in Entries |-> FALSE]
    /\ created = 0
    /\ wild = <<>>
    /\ callerPc = [c \in Callers |-> "idle"]
    /\ subN = [c \in Callers |-> 0]
    /\ ref = [c \in Callers |-> NoRef]
    /\ entry = [c \in Callers |-> NoEntry]
    /\ stopped = {} /\ live = {}
    /\ pubPc = [p \in Publishers |-> "idle"]
    /\ pubN = [p \in Publishers |-> 0]
    /\ snap = [p \in Publishers |-> {}]
    /\ pubWild = [p \in Publishers |-> <<>>]
    /\ got = [p \in Publishers |-> <<>>]
    /\ liveAt = [p \in Publishers |-> {}]
    /\ settledAt = [p \in Publishers |-> {}]

CallerGoto(c, at) == callerPc' = [callerPc EXCEPT ![c] = at]

\* Fault: the new snapshot is built without the old one.
FaultCloneAdd(old, r) == {r}

\* The snapshots: a group whose last member leaves goes, and so {} is nil.
CloneAdd(old, r)    == old \cup {r}
CloneRemove(old, r) == old \ {r}

\* The copy of the list that removeWild keeps: every entry but e, in order.
Without(entries, e) ==
    FlattenSeq([i \in DOMAIN entries |->
                  IF entries[i] # e THEN <<entries[i]>> ELSE <<>>])

-------------------------------------------------------------------------------
(* Subscribe: register *)

SubscribeStart(c, pattern, queue) ==
    /\ callerPc[c] = "idle"
    /\ subN[c] < MaxSubs
    /\ subN' = [subN EXCEPT ![c] = @ + 1]
    /\ ref' = [ref EXCEPT ![c] = [by |-> c, n |-> subN[c] + 1,
                                  pattern |-> pattern, queue |-> queue]]
    /\ CallerGoto(c, "lookup")
    /\ UNCHANGED <<regVars, entry, stopped, live, pubVars>>

\* Load, or LoadOrStore of a fresh entry.
Lookup(c) ==
    LET p == ref[c].pattern IN
    /\ callerPc[c] = "lookup"
    /\ \/ /\ index[p] # NoEntry
          /\ entry' = [entry EXCEPT ![c] = index[p]]
          /\ UNCHANGED <<index, created>>
       \/ /\ index[p] = NoEntry
          /\ created < MaxEntries
          /\ created' = created + 1
          /\ index' = [index EXCEPT ![p] = created + 1]
          /\ entry' = [entry EXCEPT ![c] = created + 1]
    /\ CallerGoto(c, "insert")
    /\ UNCHANGED <<state, dead, wild, subN, ref, stopped, live, pubVars>>

\* Fault: the dead mark is not looked at.
FaultInsert(c) ==
    /\ callerPc[c] = "insert"
    /\ state' = [state EXCEPT ![entry[c]] = CloneAdd(@, ref[c])]
    /\ CallerGoto(c, IF ref[c].pattern \in Wildcards /\ state[entry[c]] = {}
                     THEN "addWild" ELSE "subscribed")
    /\ UNCHANGED <<index, dead, created, wild, callVars, stopped, live, pubVars>>

\* Under e.mu: an entry being removed is left for a fresh one.
Insert(c) ==
    /\ callerPc[c] = "insert"
    /\ IF dead[entry[c]]
       THEN CallerGoto(c, "lookup") /\ UNCHANGED state
       ELSE /\ state' = [state EXCEPT ![entry[c]] = CloneAdd(@, ref[c])]
            /\ CallerGoto(c, IF ref[c].pattern \in Wildcards /\ state[entry[c]] = {}
                             THEN "addWild" ELSE "subscribed")
    /\ UNCHANGED <<index, dead, created, wild, callVars, stopped, live, pubVars>>

AddWild(c) ==
    /\ callerPc[c] = "addWild"
    /\ wild' = Append(wild, entry[c])
    /\ CallerGoto(c, "subscribed")
    /\ UNCHANGED <<index, state, dead, created, callVars, stopped, live, pubVars>>

SubscribeReturns(c) ==
    /\ callerPc[c] = "subscribed"
    /\ live' = live \cup {ref[c]}
    /\ CallerGoto(c, "idle")
    /\ UNCHANGED <<regVars, callVars, stopped, pubVars>>

-------------------------------------------------------------------------------
(* Unsubscribe: deregister, closeStop *)

UnsubStart(c) ==
    /\ callerPc[c] = "idle" /\ ref[c] \in live
    /\ live' = live \ {ref[c]}
    /\ CallerGoto(c, "find")
    /\ UNCHANGED <<regVars, callVars, stopped, pubVars>>

Find(c) ==
    /\ callerPc[c] = "find"
    /\ entry' = [entry EXCEPT ![c] = index[ref[c].pattern]]
    /\ CallerGoto(c, IF entry'[c] = NoEntry THEN "stop" ELSE "remove")
    /\ UNCHANGED <<regVars, subN, ref, stopped, live, pubVars>>

\* Under e.mu.
RemoveRef(c) ==
    LET left == CloneRemove(state[entry[c]], ref[c]) IN
    /\ callerPc[c] = "remove"
    /\ state' = [state EXCEPT ![entry[c]] = left]
    /\ IF left = {}
       THEN /\ dead' = [dead EXCEPT ![entry[c]] = TRUE]
            /\ index' = [index EXCEPT ![ref[c].pattern] = NoEntry]
       ELSE UNCHANGED <<dead, index>>
    /\ CallerGoto(c, IF left = {} /\ ref[c].pattern \in Wildcards
                     THEN "removeWild" ELSE "stop")
    /\ UNCHANGED <<created, wild, callVars, stopped, live, pubVars>>

\* Fault: the list loses its last entry, whichever that is.
FaultRemoveWild(c) ==
    /\ callerPc[c] = "removeWild"
    /\ wild' = Front(wild)
    /\ CallerGoto(c, "stop")
    /\ UNCHANGED <<index, state, dead, created, callVars, stopped, live, pubVars>>

RemoveWild(c) ==
    /\ callerPc[c] = "removeWild"
    /\ wild' = Without(wild, entry[c])
    /\ CallerGoto(c, "stop")
    /\ UNCHANGED <<index, state, dead, created, callVars, stopped, live, pubVars>>

StopWorker(c) ==
    /\ callerPc[c] = "stop"
    /\ stopped' = stopped \cup {ref[c]}
    /\ CallerGoto(c, "idle")
    /\ UNCHANGED <<regVars, callVars, live, pubVars>>

-------------------------------------------------------------------------------
(* Publish *)

\* The registration of r is complete: its entry is where publishers look.
Settled(r) ==
    \A c \in Callers : callerPc[c] = "addWild" => ref[c].pattern # r.pattern

PubGoto(p, at) == pubPc' = [pubPc EXCEPT ![p] = at]

PublishStart(p) ==
    /\ pubPc[p] \in {"idle", "done", "failed"}
    /\ pubN[p] < MaxPubs
    /\ pubN' = [pubN EXCEPT ![p] = @ + 1]
    /\ got' = [got EXCEPT ![p] = <<>>]
    /\ liveAt' = [liveAt EXCEPT ![p] = live]
    /\ settledAt' = [settledAt EXCEPT ![p] = {r \in live : Settled(r)}]
    /\ PubGoto(p, "exact")
    /\ UNCHANGED <<regVars, callerPc, callVars, stopped, live, snap, pubWild>>

\* index.Load and the entry's state.Load: the entry is loaded, then its
\* snapshot; an entry that dies in between has none.
LoadExact(p) ==
    /\ pubPc[p] = "exact"
    /\ snap' = [snap EXCEPT ![p] =
                  UNION {state[index[q]] : q \in {x \in ExactPatterns : index[x] # NoEntry}}]
    /\ PubGoto(p, "deliverExact")
    /\ UNCHANGED <<regVars, callerPc, callVars, stopped, live, pubN, pubWild, got,
                   liveAt, settledAt>>

LoadWild(p) ==
    /\ pubPc[p] = "wild"
    /\ pubWild' = [pubWild EXCEPT ![p] = wild]
    /\ PubGoto(p, "next")
    /\ UNCHANGED <<regVars, callerPc, callVars, stopped, live, pubN, snap, got,
                   liveAt, settledAt>>

NextWild(p) ==
    /\ pubPc[p] = "next"
    /\ pubWild[p] # <<>>
    /\ snap' = [snap EXCEPT ![p] = state[Head(pubWild[p])]]
    /\ pubWild' = [pubWild EXCEPT ![p] = Tail(@)]
    /\ PubGoto(p, "deliverWild")
    /\ UNCHANGED <<regVars, callerPc, callVars, stopped, live, pubN, got, liveAt,
                   settledAt>>

PublishReturns(p) ==
    /\ pubPc[p] = "next"
    /\ pubWild[p] = <<>>
    /\ PubGoto(p, "done")
    /\ UNCHANGED <<regVars, callerPc, callVars, stopped, live, pubN, snap, pubWild,
                   got, liveAt, settledAt>>

\* enqueue refuses a target whose stop channel is closed.
Enqueue(p, r) ==
    got' = IF r \in stopped THEN got ELSE [got EXCEPT ![p] = Append(@, r)]

\* deliverState: every plain subscriber, then one member of each queue group.
Deliver(p) ==
    /\ pubPc[p] \in {"deliverExact", "deliverWild"}
    /\ \E r \in snap[p] :
          /\ Enqueue(p, r)
          /\ \/ /\ r.queue = FanOut
                /\ snap' = [snap EXCEPT ![p] = @ \ {r}]
             \/ /\ r.queue # FanOut
                /\ \A x \in snap[p] : x.queue # FanOut
                /\ snap' = [snap EXCEPT ![p] = {x \in @ : x.queue # r.queue}]
    /\ UNCHANGED <<regVars, callerPc, callVars, stopped, live, pubPc, pubN, pubWild,
                   liveAt, settledAt>>

Delivered(p) ==
    /\ pubPc[p] \in {"deliverExact", "deliverWild"}
    /\ snap[p] = {}
    /\ PubGoto(p, IF pubPc[p] = "deliverExact" THEN "wild" ELSE "next")
    /\ UNCHANGED <<regVars, callerPc, callVars, stopped, live, pubN, snap, pubWild,
                   got, liveAt, settledAt>>

\* Blocked on a full mailbox when the context or the bus ends.
EnqueueFails(p) ==
    /\ pubPc[p] \in {"deliverExact", "deliverWild"}
    /\ snap[p] # {}
    /\ snap' = [snap EXCEPT ![p] = {}]
    /\ pubWild' = [pubWild EXCEPT ![p] = <<>>]
    /\ PubGoto(p, "failed")
    /\ UNCHANGED <<regVars, callerPc, callVars, stopped, live, pubN, got, liveAt,
                   settledAt>>

Next ==
    \/ \E c \in Callers :
          \/ \E p \in Patterns, q \in Groups \cup {FanOut} : SubscribeStart(c, p, q)
          \/ Lookup(c) \/ Insert(c) \/ AddWild(c) \/ SubscribeReturns(c)
          \/ UnsubStart(c) \/ Find(c) \/ RemoveRef(c) \/ RemoveWild(c) \/ StopWorker(c)
    \/ \E p \in Publishers :
          \/ PublishStart(p) \/ LoadExact(p) \/ LoadWild(p) \/ NextWild(p)
          \/ PublishReturns(p) \/ Deliver(p) \/ Delivered(p) \/ EnqueueFails(p)

Spec == Init /\ [][Next]_vars

-------------------------------------------------------------------------------
(* Properties *)

\* Every variable has its type; no dead entry is left in the index.
TypeOK ==
    /\ index \in [Patterns -> Entries \cup {NoEntry}]
    /\ state \in [Entries -> SUBSET Ref]
    /\ dead \in [Entries -> BOOLEAN]
    /\ created \in 0..MaxEntries
    /\ wild \in Seq(Entries)
    /\ callerPc \in [Callers -> CallerPcs]
    /\ subN \in [Callers -> 0..MaxSubs]
    /\ ref \in [Callers -> Ref \cup {NoRef}]
    /\ entry \in [Callers -> Entries \cup {NoEntry}]
    /\ stopped \subseteq Ref /\ live \subseteq Ref
    /\ pubPc \in [Publishers -> PubPcs]
    /\ pubN \in [Publishers -> 0..MaxPubs]
    /\ snap \in [Publishers -> SUBSET Ref]
    /\ pubWild \in [Publishers -> Seq(Entries)]
    /\ got \in [Publishers -> Seq(Ref)]
    /\ liveAt \in [Publishers -> SUBSET Ref]
    /\ settledAt \in [Publishers -> SUBSET Ref]
    /\ \A p \in Patterns : index[p] # NoEntry => ~dead[index[p]]

Registered == UNION {state[index[p]] : p \in {x \in Patterns : index[x] # NoEntry}}

\* A subscription whose Subscribe has returned is in the index until it is
\* unsubscribed, whichever entries its pattern went through meanwhile.
LiveIsRegistered == live \subseteq Registered

Abstract == INSTANCE RegistrySet WITH Refs <- Ref, reg <- Registered

\* Concurrent copies on write lose no update: the registry changes by one
\* reference at a time, the one being registered or deregistered.
ImplementsSet == Abstract!Spec

Quiet == \A c \in Callers : callerPc[c] = "idle"

\* When nobody is subscribing or unsubscribing, the wildcard list holds each
\* wildcard entry of the index once and nothing else, and no entry outlives
\* its subscriptions: churn leaks nothing.
WildListExact ==
    Quiet => LET kept == {e \in Entries : \E p \in Wildcards : index[p] = e} IN
             /\ ToSet(wild) = kept
             /\ IsInjective(wild)
             /\ \A p \in Patterns : index[p] # NoEntry => state[index[p]] # {}

\* A Publish that succeeds has reached every plain subscription that was
\* settled when it began and is still not being unsubscribed.
SettledReached ==
    \A p \in Publishers : \A r \in settledAt[p] \cap live :
        pubPc[p] = "done" /\ r.queue = FanOut => r \in ToSet(got[p])

\* No Publish reaches a subscription twice, nor two members of a queue group.
AtMostOnce ==
    \A p \in Publishers : \A i, j \in DOMAIN got[p] :
        LET a == got[p][i]
            b == got[p][j] IN
        i # j => a # b /\ ~(a.pattern = b.pattern /\ a.queue = b.queue /\ a.queue # FanOut)

\* "Publish delivers msg to every matching fan-out subscriber" (bus.go), of
\* those whose Subscribe had returned.
FanOutReached ==
    \A p \in Publishers : \A r \in liveAt[p] \cap live :
        pubPc[p] = "done" /\ r.queue = FanOut => r \in ToSet(got[p])

\* "... and to exactly one subscriber per matching queue group" (bus.go), when
\* the group has had a settled member throughout.
QueueReached ==
    \A p \in Publishers : \A r \in settledAt[p] \cap live :
        pubPc[p] = "done" /\ r.queue # FanOut
            => \E x \in ToSet(got[p]) : x.pattern = r.pattern /\ x.queue = r.queue
===============================================================================
