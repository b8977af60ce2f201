# Verification of xqua-go

TLA+ models of the packages under `src/pkg`, the TLC configurations that check
them on small instances, and TLAPS proofs of what holds for every size. Every
definition is a translation of the Go source; `PROJECT.json` gives, for each,
the lines it stands for (`map`), and lists the components, the runs, the known
divergences (`findings`), the hazards and the theorems.

## 1. The system

xqua-go is a set of Go packages for services.

| Component | State | Operations | What is hard |
|---|---|---|---|
| **bus**: subscriptions, workers, Publish, Close, Drain (`pkg/bus/local.go`) | flags `closed`, `draining`; `closedCh`; pool of subscription structs, each with generation, `once`, `stopClosed`, mailbox, stop channel; `subs`; a WaitGroup | Subscribe, Unsubscribe, Publish and enqueue, the worker loop, Close, Drain | lock-free: every flag, swap, channel operation interleaves; structs are recycled while publishers and stale handles still refer to them |
| **bus**: registry (`register`, `deregister`, `matchTargets`, `deliverState`) | index pattern to entry; per entry an immutable snapshot and a dead mark; copy-on-write list of wildcard entries; queue cursors | register, deregister, the walk of a Publish | readers take no lock; entries die and are re-created |
| **bus**: request and reply (`Request`, `waiter`, `finishReq`) | pool of waiters, each a word (generation, armed) and a channel of one | Request and its rounds, deliver, the requester's exits | a timeout races a late answer into a recycled waiter |
| **migrate**: gate and Down (`gate.go`, `migrator.go`, `state.go`, `apply.go`, `meta.go`) | in Postgres: `schema_migrations`, `migration_state`, an advisory lock; per call a session and a context | RunStartupGate, Down, Status | replicas of different builds, crashes and lost answers between any two statements |
| **runtime** (`runtime.go`) | readiness counter and channel, error channel, signal channel | Run: hooks, unit goroutines, first select, serving select, shutdown | readiness, errors and signals meet in one select |
| **errors** | a catalog; chains and collections of wrapped errors | Define, Is, AsErrors, Wrap, Map, Or, MapOr | which entry of a chain speaks for it |
| **openapi**: router, manifest, security | the contract groups hand down; the recorder of registered routes; the schemes | registration and its refusals, the guard over alternatives | what a route inherits decides both what is enforced and what is documented |
| **openapi**: binder, adapter; **http**: access log, recovery, error handler | per request | bind, call, answer, log | every stage may fail, and each failure is answered by one of two writers with different rules |
| **openapi**: handler, generator, builder, reflector | a `sync.Once` per document; names and components of one reflector | the first request for a document builds it | registration goes on meanwhile; what comes out is kept for good |
| **openapi**: validator | none | what makes a document an error | one fault anywhere refuses the whole document |
| **bus**: subject matching, JSON; **migrate**: discovery; **env**; **logger**; examples, guides, scripts | none, or a shared backend | text | see section 5 |

How they interact. The runtime owns the units (an `http.Transport` is one); the
start-up hooks are where an application runs the migration gate, before any unit
serves. Handlers call the bus; the bus calls handlers from its workers, one
goroutine per subscription. A route registered on an `openapi` router is compiled
once, into the Fiber handler that enforces it and into the manifest entry that
documents it; `errors` supplies the entries both speak of, and `pkg/http` the
middlewares and the error handler around it.

What makes each correct:

- bus lifecycle: a pooled struct has one user at a time; a delivery reaches only
  the activations the publisher saw; order and at-most-once per subscription;
  a subscription lives until it is unsubscribed; Close and Drain wait for the
  workers, and Drain loses nothing that was queued; nobody is stuck.
- registry: it behaves as a set although entries die and are re-created; a
  Publish reaches everyone who is settled; churn leaks nothing.
- request and reply: a late answer never completes another request; a reply that
  won the race is returned; only undelivered requests are retried; a Request
  whose context ends returns.
- migrate: one leader; no gaps in the applied versions; success only at head;
  the lock comes back; no gate waits for a dead leader.
- runtime: serving means all units are ready; shutdown is complete and ordered;
  no goroutine is left behind.
- a request: only public entries are sent; the handler of a secured route runs
  only for a request an alternative accepted; a failure is answered once, at a
  declared status; what is logged is what is sent.
- a document: it shows the routes it should, its references mean the types they
  were made from, it says what is enforced, and every request gets the same one.

## 2. Modules

| Module | Models | Notes |
|---|---|---|
| `LocalBus` | subscriptions, workers, Publish, Unsubscribe, Close, Drain | one shared-memory access per step |
| `RegistrySet` | what the registry promises: a set of references | abstract specification |
| `Registry` | index, entries, snapshots, wildcard list | implements `RegistrySet` by a refinement mapping |
| `RequestReply` | Request, waiters, responders | |
| `MigrateGate` | RunStartupGate and Down of several replicas | one SQL statement per step |
| `Runtime` | Run, units, hooks, signals | |
| `Errors` | errors as chains of links | operators |
| `Binder` | a request bound into an input struct | operators, extends `Errors` |
| `Router` | groups, contracts, refusals, the manifest and its filter | operators, extends `Binder` |
| `RequestPipeline` | one typed route under requests, from the guard to the error handler | extends `Router` |
| `Reflector` | Go types as schemas, parameters and component names | operators |
| `Validator` | what makes a document an error | operators, extends `Reflector` |
| `OpenAPI` | registration, and documents built under a Once | extends `Router` and `Validator` |
| `LocalBusProofs`, `RegistryProofs`, `RequestReplyProofs`, `MigrateGateProofs`, `RuntimeProofs`, `RequestPipelineProofs`, `OpenAPIProofs` | theorems | each extends its component |
| `SequenceLemmas` | lemmas about FlattenSeq, appending, Tail, Min, and induction over numbers | extended by three of the proof modules |
| `MC...` | constants and symmetry sets for TLC | |

`LocalBus` uses for its registry a set `reg` of references to which one is added
or from which one is taken per step. `RegistrySet` is that set, and the run
`registry` checks that `Registry`, with its entries and locks, implements it; so
the two models compose on it. `RequestReply` leaves open what `LocalBus`
determines (who is subscribed, whether a mailbox has room, when a worker drops
what it holds) and so allows every behaviour the bus below it can show.
`RequestPipeline` and `OpenAPI` compose on `Router`: the first runs what
registration accepted, the second documents it, and `DocumentedAsEnforced`
compares the two.

Operators called `Fault...` are the code with a plausible mistake in it. No
specification uses them; each is there to show that a property notices.

### LocalBus

`closed`, `draining`, `closedCh`, `pool`, `active` (the keys of `subs`) and `wg`
are the fields of `Local`; `gen`, `once`, `stopClosed`, `mailbox` are those of
`subscription`; `stopped` is the set of closed stop channels. A stop channel and
a worker belong to one activation of a struct, so both are named by the
reference (struct, generation). Each goroutine has a program counter whose
values are the points between two shared accesses: `addSub` is `get`, `register`,
`track`, `recheck`, then `spawn` or the three undo steps; `unsubscribe` is
`genCheck`, `claim`, `dereg`, `untrack`, `stopClaim`, `stopClose`; `enqueue` is
the check of the stop channel, the non-blocking send, and the blocking select,
each of whose cases is an action; the worker is `run`, `handle`, `drain`,
`drainHandle`, `discard`, `exit`, `recycle`, `leaving`. `Range` over `subs` is
what the library promises: keys present throughout are met, others may be.
Closing a stop channel that is closed already panics: the goroutine is `panicked`
from then on, and no other has a step (`At` is the guard of them all).

Abstracted: one subject; activation (pool, generation, flags) is one step, since
the struct is private then and the flag others compete for is written last; the
order of the fan-out is open; handlers are opaque and return; generations do not
wrap. History variables (`handles`, `asked`, `unsubbed`, `targets`, `log`,
`timedOut`, `owed`, which each Drain has of its own) are read by no action, except
that `RepeatUnsubscribe` decides whether a handle may be unsubscribed again.

### Registry

`index`, `state`, `dead`, `wild` are `subjects`, the entries' snapshot pointers
and dead marks, and the wildcard list. What runs under an entry's mutex is one
step; what `register` and `deregister` do after unlocking (the wildcard list) is
a step of its own. Publishers load the index, the snapshot and the list in
separate steps. All patterns match the one published subject. The member of a
queue group that is next is any one of them.

### RequestReply

A waiter's word is `gen` and `armed`; one compare-and-swap on it (`Claim`,
`Abandon`) decides between responder and requester. `Request` is `get`, `arm`,
`collect`, `enqueue`, `wait`, `finish`, `recv`. The pool may hand out any pooled
waiter or a new one; waiters are not dropped from the pool, which only removes
ways in which they are shared.

### MigrateGate

A step is one statement. Its outcomes are: it takes effect and is answered; it
is not sent because the context has ended (the session stays); the session dies
before or after it took effect. A session that dies frees its lock at once or
later (`Ghost`), and `ProcessEnds` may happen anywhere. A build `b` ships
migrations `1..b`. What the SQL of a migration does is not modelled beyond the
transaction: it and its row are committed or neither is. `MaxStarts` bounds the
process starts of all replicas together.

### Runtime

`RunWithShutdownTimeout` is one process with loops over hooks and units; each
unit is a process that may report ready (or not), stop at any time, and hand its
result to `errCh`. `late` and `reported` are history. Time is not modelled: hooks
and Shutdowns return when they return.

### Errors, Binder, Router

An error is the chain that `Unwrap` walks; a link is a catalog entry, a foreign
wrapper, a `*fiber.Error`, a collection (`errors.Errors`) or the result of the
standard `Join`. A collection ends its chain and holds chains without one of their
own. Messages do not exist: identity is the entry, as in `Error.Is`.

A struct is the sequence of its fields in the order the binder visits them. A
value is a number (an integer, the length of a string, how many files), a request
gives every field "absent", "bad" (it does not parse) or a value; integers are
stored at the width of the field, with their low bits, as `SetInt` does.

A route is what `compileRoute` makes of a declaration on nested groups; the three
checks that panic at registration are `SecuredRouteValid`, `ErrCasesValid` and the
422 template that input fields need.

### RequestPipeline

`pc` is where a request is: `guard`, `afterAuth` (group middlewares), `call`, `fill`
and `marshal` (the success writer), `log` (the access log, on the way out),
`errorHandler` (Fiber's global one), `done`. `WriteHandlerError` is
`handleHandlerError`, which every failing stage goes through: it answers, or it
returns the error to Fiber (`bubbled`). `at`, `forbidden`, `unauthorized` are the
locals of the guard's loop. What Verify, a middleware or a handler returns is any
error of a constant set. `shell` is the request id inside an output object that
the handler hands out by pointer more than once. `failedAt`, `cause` are history.

### Reflector, Validator, OpenAPI

A schema is the record of what validation and the binder's counterpart look at:
whether it is a lone `$ref`, its properties and those required, the keywords that are
checked, the types and components it leads to. Since what one type comes to does not depend on
the others, it is computed once per type (`SchemaOf`, `ComponentOf`, `RequestOf`);
what depends on the document, the names and which type a name holds, is state.
`TypeNames` gives every name that the walk over Go's randomly ordered map may end
with. A name is a pair, its stem and the decimal digits it ends in, because the code
writes the number of a namesake behind its name: the second `User` is `User2`, and so
is a type of that name.

In `OpenAPI`, `routes` is the recorder; `once`, `result` are the `sync.Once` and the
captured `body`, `err` of `handler`; `build` is the builder on the goroutine that
entered the Once. A step is the registration of a route, the entry into the Once
(which takes the manifest), one `addRoute`, one `addWebhook`, the component of one
type, `Finish` with validation, or a reply. Routes are added in registration order,
webhooks in any order, as they are a Go map. The components a route leads to are
built in any order. A `SchemaExposer` may panic (`PanicIn`), and a struct that is
written out inside itself overflows the stack, which ends the process (`Overflow`).

## 3. Runs

| Run | Instance | Shows |
|---|---|---|
| `bus_churn` | 2 structs of 2 generations, 2 callers, a publisher, mailbox of 1 | `SoleOwner`, `RoutedOnlyToTargets`, `UnsubscribedIsGone`, `LiveUntilAsked` |
| `bus_stop` | 1 struct, 2 callers, 2 messages, a Close or a Drain, under fairness | `PerPublisherOrder`, `DrainHandlesQueued`, `AwaitedAreStopped`, `CloseWaitsForWorkers`, `PublishReturns`, `AcceptedIsHandled` |
| `bus_stale_unsub` | Unsubscribe may be repeated | `LiveUntilAsked` is violated |
| `request_reply` | 1 requester of 2 requests, 1 waiter, 2 workers, 2 rounds, under fairness | `ReplyMatchesRequest`, `PooledWaiterClean`, `ResponderNeverBlocks`, `SuccessfulReplyWins`, `RetryOnlyUndelivered`, `RequestReturns` |
| `registry` | 3 callers, 1 publisher, an exact and a wildcard pattern, a queue group, 3 entries | `LiveIsRegistered`, `WildListExact`, `ImplementsSet`, `SettledReached` |
| `registry_wild` | 2 callers on a wildcard pattern | `FanOutReached` is violated |
| `gate` | 2 replicas, builds 1 and 2, 3 starts, under fairness | `LeaderHoldsLock`, `NoGaps`, `ConfirmedAtHead`, `LockReleased`, `GateReturns` |
| `gate_latch` | 2 replicas, 1 migration | `FailedLatches` is violated |
| `runtime` | 3 units, 1 start-up and 2 shutdown hooks, under fairness | `ServingMeansAllReady`, `ShutdownComplete`, `ServeGoroutineEnds` |
| `runtime_abort` | 2 units | `StopAfterReadyIsGraceful` is violated |
| `request` | 1 request to each of 5 accepted routes (5 more are refused), every credential, input and error of the instance | `OnlyPublicOnWire`, `HandlerAuthorized`, `RefusalIsDeclared`, `BindFailureIs422`, `LoggedStatusIsSent`, `AnsweredOnce` |
| `document` | any 2 of 12 routes, in any order, 3 documents, 2 requests | `ShowsItsRoutes`, `RefsMeanTheirTypes`, `DocumentedAsEnforced`, `RepliesAgree` |

`bus_stop` and `gate` also check `TypeOK`. The other modules' `TypeOK`, and
`WgCountsWorkers`, `AtMostOnce` and `UnitEndEndsRun`, hold on the same instances
and are no part of a run.

Why the bounds are enough. The hazards of the bus are between one user of a
struct and the next, so two generations show them; two structs show neighbours
on one subject; a mailbox of one is full after one message, so both paths of
`enqueue` run. In `bus_stop` a Drain, whose context may end, goes on to Close, so
one stopper runs both. Nothing is recycled there, so that two messages of one
publisher fit; what it says of stopping does not rest on that: its safety properties
are theorems for any number of generations, and `LocalBusRecycle.cfg` checks the
same race with one message and two generations, under fairness: `AwaitedAreStopped`,
`PublishReturns`, `AcceptedIsHandled` and `StopReturns`, that Close and Drain return. It
passes too, but includes the double close below (`LocalBusPanic.cfg`), which ends the
process, so `StopReturns` is true only as "returns unless it has panicked". It is no
registered run: with both messages and both generations in one run TLC needs more
than five minutes. In `registry` three callers with three entries let an entry
die and be re-created while a third caller still holds the old one.
`request_reply` needs a second request on one waiter and two possible responders;
with two waiters the requests only separate. In `gate` three starts let a call
fail, another take over and a third (a restart, or a Down in between) find what
they left. `MaxAttempts` is 4 in the code and 2 here: the loop has a first, a
repeated and a last round. In `request` the requests meet in nothing but `shell`,
which no property reads, so one of them is enough, and the theorems have any
number. Its routes have two alternatives with and without scopes, fields of every
kind and place, uploads, and no fields at all; its errors have every shape that
`AsErrors`, `Is` and the fallbacks tell apart. In `document` two routes are what a
clash takes: of names, operation IDs, paths, components or statuses; the twelve
include two types called `User` and one called `User3`, JSON bodies with and without
parameters, a form with a parameter whose field has another name than its tag, a
webhook, a stream, hidden and undocumented routes, one that panics and one that
recurs, and each is alone in some document too. One document's own security names its
scheme by a URI.

Every cfg says `CHECK_DEADLOCK FALSE`: callers need not call again, the bounds
run out, and a bus that is closed, a Run that has returned or a request that is
answered stays so.

Symmetry is used where no liveness is checked, over model values that no action
tells apart. It is not used in the runs under fairness.

Fairness. A goroutine that is inside an operation keeps running (weak fairness of
its steps), which the Go scheduler and `database/sql`'s statements give; handlers,
hooks and Shutdowns return; Postgres notices a dead client some time
(`GhostReaped`). Nothing is assumed about when an operation is called, a context
ends, a select with several ready cases prefers one of them, a unit stops, a
signal comes or a process dies. `RequestPipeline` and `OpenAPI` state none: they
have no loop in which a request could stay.

### Known divergences

Four runs show where the code does not do what its comments or documents say;
`findings` has them with the lines they contradict:

- `bus_stale_unsub`: a repeated Unsubscribe that passed the generation check can
  claim the `once` of the next activation and end somebody else's subscription.
- `registry_wild`: the second subscriber of a new wildcard pattern can return
  before the first has listed the entry; a Publish after that misses it.
- `gate_latch`: the status is read before the lock and not again after it, so a
  follower can run a failed migration again and clear the failed state.
- `runtime_abort`: a unit that stops right after readiness can make `Run` abort
  where it should shut down gracefully.

Others have a property and a configuration that reproduces them, and are not among
the registered runs:

| Configuration | Property | What happens |
|---|---|---|
| `LocalBusPanic.cfg` | `NoDoubleClose` | `closeStop` claims `stopClosed` and closes the channel in two steps; a Subscribe that backs out of a Drain in between has its struct recycled, the Drain closes the channel of the next activation, whose flag is still to be claimed, and the second close panics (`stress_test.go` wants it never to) |
| `LocalBusMissed.cfg` | `CloseLeavesNoWorker` | Close may return before a racing Subscribe counts its worker |
| `LocalBusAbandon.cfg` | `CloseAbandonsQueued` | a worker that Close has stopped may still take queued messages |
| `LocalBusExpiry.cfg` | `DrainExpiryAbandons` | nor does an expired Drain stop its workers |
| `RegistryQueue.cfg` | `QueueReached` | a message for a queue group goes with the member that leaves |
| `MigrateGateDown.cfg` | `DownTakesHighest` | Down of an older build rolls back under the newer versions |
| `RequestStatus.cfg` | `AnsweredWithOwnStatus` | the status is that of the first declared entry anywhere in the chain, so an error may be sent with its cause's status (`guides/errors.md` says the highest declared one wins) |
| `BindSource.cfg` | `FieldErrorUsesItsTemplate` | the binder calls a body field `json.name`, the guide and the showcase `body.name`, so such templates never match |
| `DocumentPublic.cfg` | `PublicIsDocumented` | a public route's empty security list is dropped by omitempty: it is documented with the default requirement |
| `DocumentEmpty.cfg` | `EmptyNeverServed` | after a panic inside the Once, later requests get 200 and an empty body |
| `DocumentNames.cfg` | `NamesakesKeptApart` | with three types of one name, two may share a component |
| `DocumentNumbers.cfg` | `NamesakesKeptApart` | with two types called `User` and one called `User2`, two may share a component |
| `DocumentForm.cfg` | `FormFieldsDocumented` | a form without parameters is documented under its JSON or Go names (`RequestParts` leaves it to `RefSchema`), the binder reads the names of the `form` tags |

Read in the code while modelling, and part of the definitions: a nested group's
response set replaces the outer one while its middlewares are inherited
(`Group`); an internal entry around a declared public one is kept by the guard and
then bubbles (`VerifyFails`, `Answers`); `AsErrors` sees only the first entry of a
Join and none inside a wrapped collection, while `Is` sees all; a single form file
that is missing is an error though optional (`FileFails`); fields of embedded
structs are not decoded in a mixed struct (`BodyTargets`); an API key in the query
is read from a header (`Extracts`); no line is logged for a request that panics
(`Panic`); catalog errors replace whatever a status declared (`WithErrors`), also on
the operation a hidden route shares (`AddRoute`); a component may overwrite the
envelope's (`Finished`); fields of a struct embedded by `$ref` are bound but are
no parameters of the operation (`ForEachField`); operation IDs of `/users/:id` and `/users/id` are the same
(`OperationID`), and one such clash refuses the whole document for good.

## 4. Proofs

TLAPS proves for all values of the constants that satisfy the modules' assumptions:

`LocalBusProofs`
- `TypeCorrect`: `Spec => []TypeOK`. The typing is inductive by itself.
- `OwnershipCorrect`: `SoleOwner`. Inductive together with `TypeOK`. It holds also
  when handles are unsubscribed repeatedly: the defect of `bus_stale_unsub` ends
  the wrong subscription, but never gives a struct two users.
- `RoutingCorrect`: `RoutedOnlyToTargets`. `SoleOwner` alone does not say what is
  in a mailbox, so the strengthening `Routing` adds where a delivery can be on
  its way: the snapshot a publisher still works through, and the mailbox, hold
  only references of the message's targets, at the generation they were stamped.
- `OrderCorrect`: `PerPublisherOrder`, by `Order`: what a worker has logged, what
  is in its mailbox and what the publisher has pending for it are, in this order,
  increasing for each publisher.

- `WgCorrect`: `WgCountsWorkers`, by `WgOK`. It needs `Fresh`: an activation that is
  in the making, or to come, has no worker yet, so a spawn adds one to the set.
- `CloseWaits`: `CloseWaitsForWorkers`, since a counter of zero means no worker.
- `DrainCorrect`: `DrainHandlesQueued`, by `Owed`: what a Drain is owed has been
  handled or waits in a mailbox whose worker will still dispatch it. A worker takes
  the discarding path only while `draining` is not set, and `SoleOwner` keeps the
  workers of other activations off the mailbox. It holds for any number of Close
  and Drain calls at the same time, also of Drains that expire.
- `LiveCorrect`: `LiveUntilAsked`, and `GoneCorrect`: `UnsubscribedIsGone`, by `Tidy`,
  which says for every point of Subscribe and Unsubscribe what the flags, the
  registry and the tracked set hold for their struct. Both assume that no handle is
  unsubscribed twice, which `bus_stale_unsub` shows to be needed. `GoneCorrect` also
  assumes a bus that nobody stops: when Close or Drain has claimed `stopClosed`,
  Unsubscribe returns before the channel is closed.
- `DoubleCloseNeedsStop`: `NoDoubleClose` until a Close or Drain has begun, by `Tidy`
  too: the channel an Unsubscribe is about to close is open.
- `ShutdownMissesNone`: `AwaitedAreStopped`, by `StopOK`: a claimed `stopClosed` means
  that the current channel is closed or about to be, whichever activation it was
  claimed for (`ClaimOK`); what is in use is tracked until somebody is about to stop it
  (`TrackOK`); and a Range that has not met it yet still will (`RangeOK`). It assumes
  nothing of the handles: Unsubscribe may be repeated.

`RequestReplyProofs`
- `TypeCorrect`: `TypeOK`, inductive by itself.
- `CleanCorrect`, `NeverBlocksCorrect`, `ReplyCorrect`: `PooledWaiterClean`,
  `ResponderNeverBlocks` and `ReplyMatchesRequest`, by two invariants. `OwnInv`:
  each requester has a waiter of its own. `WaiterInv`: a delivery whose swap
  would still succeed, a responder that has won it and a result on a channel all
  belong to the request their waiter serves at the moment. It is inductive
  because a requester that knows of a delivery cannot leave its waiter without
  taking part in the swap (`Serves`); one that knows of none has none out.
- `RetryCorrect`: `RetryOnlyUndelivered`, by `MadeInv` (no mailbox, worker or
  claim has a request that has not begun to look for targets) and `RetryInv`.
- `WinCorrect`: `SuccessfulReplyWins`, by `ClaimInv`: a claimed result is with its
  responder or on the channel until its request returns.

`MigrateGateProofs`
- `TypeCorrect`: `TypeOK`, inductive by itself.
- `LeaderCorrect`: `LeaderHoldsLock`, by `LockInv`: the holder of the lock has an
  open session, and every open session in the critical section is the holder's.
- `ReleaseCorrect`: `LockReleased`.
- `HeadCorrect`: `ConfirmedAtHead`, by `CallInv` and `LeaderInv`: while a leader's
  session is open, what it still has pending and what is applied together cover
  its build, because nobody else can write.
- `NoGapsCorrect`: `NoGaps`, by `GapInv`, under the assumption that every build
  that runs Down ships every migration. The run `gate` has that assumption in its
  constants; `MigrateGateDown.cfg` shows that it is needed.

`RequestPipelineProofs`, for any set of concurrent requests
- `TypeCorrect`: `TypeOK`.
- `PublicCorrect`: `OnlyPublicOnWire`, inductive with `TypeOK`: every failing stage
  goes through `WriteHandlerError`, which checks the catalog before it answers, and
  the error handler falls back to entries that `FallbackAssumption` makes public.
- `AuthorizedCorrect`: `HandlerAuthorized`. No stage behind the guard touches the
  identity or the credentials, and only an accepted alternative leads past it.
- `AnsweredCorrect`: `AnsweredOnce`, by `Quiet`: before `log` nothing is written and
  nothing has bubbled, and after it an error has bubbled only if nothing was
  answered. Without it nothing excludes an error that is answered twice.
- `LoggedCorrect`: `LoggedStatusIsSent`, from `Quiet` under the assumption that
  `DefaultStatus` is 500, which is the configured default: the access log computes
  the status the error handler is going to send.
- `RefusalCorrect`: `RefusalIsDeclared`, and `BindFailureCorrect`: `BindFailureIs422`,
  by `ErrorStands` (what `handleHandlerError` answered with stays the answer, and
  does not bubble as well) and an invariant on the error the stage failed with.
  `RefusalCause`: the guard keeps a Verify error only if the route declares its entry
  at 403 or 401. `BindCause`: every error of the binder is a chain that ends in
  entries the route declares at 422. Registration has checked that an entry stands at
  one status only, so `ResolveStatus` finds the one it was declared at
  (`SuffixShows`, `AsErrorsShow`, `ResolvedIsDeclared`). These are the theorems that
  need `RouteAssumption` and `ErrorAssumption`: what registration is given has the Go
  types it is declared with, and an error is a chain of wrappers with at most one
  collection, at its end, whose members are chains themselves. A collection ends a
  chain since its Unwrap returns a list; deeper nesting of collections is the one
  thing excluded, and is not something the package builds by itself.

`RegistryProofs`, for any callers, publishers, patterns and entries
- `LiveRegistered`: `LiveIsRegistered`, by `IInv`. `IndexOK`: an indexed entry is
  alive and indexed once, for the pattern of everything in it. `EntryOK`: the entry
  a caller has found is still the indexed one when it inserts, unless it has died,
  which is why the dead mark is looked at under the mutex. `HeldOK`: what a caller
  is completing, keeps or has not yet removed is in the snapshot of the indexed
  entry. `RefOK` makes references new, so that a removal takes no one else's.
- `RefinesSet`: `ImplementsSet`, the refinement of `RegistrySet`. Under `IInv` a
  reference is registered exactly if it is in the entry its pattern is indexed at,
  and only an insert into a live entry and a removal change that.

- `WildListCorrect`: `WildListExact`, by `WildInv`. `WildSound`: what is in the list is
  there once, and is indexed and in use or about to be taken out. `WildComplete`: an
  indexed wildcard entry in use is listed or about to be. `WildCallers`: who adds an
  entry is alone in it, and who takes one out has seen it die. `NoEmpty`: an indexed
  entry without subscriptions waits for its first.
- `SettledIsReached`: `SettledReached`, by `PubInv`. `Past`: references are used once.
  `Reaching`: at each point of a Publish, what was settled when it began and is live
  has been reached, is in the snapshot at hand, or is in an entry still ahead in the
  copy of the wildcard list.
- `OnceCorrect`: `AtMostOnce`, which no run has, by `Indexed` (an entry with a
  subscription is in the index) and `Once`: no entry still ahead in the list that a
  Publish has loaded is the one indexed for a pattern it has met. The list may hold a
  dying entry and its successor, but only one of them can have subscriptions.

`OpenAPIProofs`, for any declarations that registration accepts, any types, Specs,
webhooks and readers
- `Base` is what the theorems share: `Shapes` and `Builds` give every variable
  and every build under way its form, `OneBuilder` allows one builder per document,
  inside its Once, and `Answered` keeps what the Once has left. `Steps` reduces the
  actions to ten kinds of step, which differ in what they change of a build.
- `RepliesCorrect`: `RepliesAgree`. A reader that did not panic has been given
  `result`, and no step changes that of a finished document.
- `RoutesShown`: `ShowsItsRoutes`, by `Underway`: what a build has added so far and
  what is still on its list stand, together, where the snapshot has the routes the
  Spec asks for. `ForSpecElements` and `GroupedPath` say what the filter keeps and
  that a route's path is that of its groups and its own, so never a webhook's.
- `TypesDescribed`: `RefsMeanTheirTypes`, by `Naming`: in a build, the components are
  those of the names given, and each holds the type it was given for as long as the
  kin of that type, the types whose base names have the same stem, are told apart
  (`ToldApart`). That is, no three of them share a base name, and none has for its own
  base the name with which the second of two namesakes is numbered. Then at most two
  types ask for one name (`TwoNamesakes`), and the second of them finds the number 2
  free (`SecondName`, `NumberedTwo`). A build only adds names, so kin that are told
  apart at its end were so at every step (`FewerToldApart`). Without either half two
  types may share a component: `DocumentNames.cfg` has three namesakes,
  `DocumentNumbers.cfg` two and a type called like the second.
- `RoutesDocumented`: `DocumentedAsEnforced`, from the two before it and `ExactInv`:
  an entry whose method and path no other entry of the snapshot has (`Solo`) is
  either not in the document yet, or its operation there is `Final`, the one that
  `PlanOf` and the extensions make of it alone, whatever else was added; and the types
  of its body have names or are about to get them. What is left is about one entry:
  `SecurityTold` (the requirements are those of the guard, also when the operation has
  none and falls back on the document's), `FinalFields` (statuses and their errors
  survive `WithRequests` and `WithStreams`), `ParameterTold` and `BodyTold`. These two
  rest on `BoundWalked`: `ForEachField`, a sequence, and `Bound`, a set, are two walks
  down the embedded structs that meet the same fields, by induction over the depth.
  `ContentInferred` says that the content type inferred for an input is one its binder
  takes, and that the body is named by the tag the binder reads; `FieldInBody`, that a
  field of the body is then a property of that name, required when its tag says so,
  of the schema that is written out or of the component it refers to.
- The assumptions: `PathAssumption` (registered paths and prefixes consist of the four
  kinds of segment Fiber's paths have), `SpecAssumption` (a Spec's prefix is a sequence
  of segments), `TypesAssumption` (there are finitely many types, fields and a
  handler's input have types among them, only structs have fields, and a base name is
  a stem and decimal digits) and
  `PolicyAssumption` (a public policy carries no requirements, as `PublicSecurity` is
  the only constructor that makes one; the fields are not exported). All say what Go's
  types, the path parser and the constructors give.

What `RoutesDocumented` does not cover is in the comment of the property: a route with
an explicit request replaces the body that was reflected; an input whose component is
not told apart (`DocumentNames.cfg`, `DocumentNumbers.cfg`); a form without a
parameter, which is documented under other names (`DocumentForm.cfg`); the JSON fields
of a form, which are documented and read by nobody; fields without a tag; and the
parameters of a struct embedded by `$ref`, which are bound and not documented as
parameters.

`SequenceLemmas` holds what the last three need of sequences. Its inductions go over
a set of numbers (the least number for which a fact fails), so that no theorem with
an operator for a parameter is used; and what the code does in loops and recursive
calls that are proved about is written as a recursive function or with FlattenSeq
(`Without`, `ForSpec`, `Grouped`, `FieldsTo`, `Written`). `FieldsTo` and `ReadTo` count
the depth they may still go down; structs embed one another no deeper than there are
types (`Depth`), unless one embeds itself, and that one is `Endless`.

`RuntimeProofs`, for any number of units and hooks
- `TypeCorrect`: `TypeOK`.
- `ServingReady`: `ServingMeansAllReady`, by `ReadyOK`: the counter is the number of
  units that have reported, so it reaches their number when all have.
- `ShutdownWhole`: `ShutdownComplete`, by `RunOK`: at every moment what has been
  called is a prefix of the plan, of the length `pc` and the loop index say.
- `SendNeverBlocks`: a `Serve` that has ended always has room in `errCh`, by
  `ErrChOK` and counting: the buffer holds results of distinct stopped units. It
  is the safety half of `ServeGoroutineEnds`.

Only model-checked: liveness (fairness and ENABLED are out of the prover's reach).
Every invariant of the runs that pass is a theorem. `Errors`, `Binder`, `Router`, `Reflector`
and `Validator` hold operators and have no theorems of their own; the lemmas about
them are in the proof modules of `RequestPipeline` and `OpenAPI`.

## 5. Not modelled, and the plan

Not modelled:

- subject matching (`isWildcard`, `matchPattern`), migration discovery, `env`,
  the JSON helpers and the encoding of `spec` types: one sequential pass over text,
  without a state or an order that could go wrong. A definition would repeat it.
- `logger`: a front for a logging library.
- The reflector's options: interceptors, type mappings, InlineRefs, renamed tags.
- In the validator, what the generator cannot produce: links, callbacks, headers,
  path items by reference, versions 3.0 and 3.1; and findings that are warnings.
- Pagination, the health and version endpoints, request ids beyond their place in
  the envelope, Fiber and pgx themselves, wall-clock time, generation counters
  that wrap around, the layout of documents, examples.

What could follow:

1. Proofs: that what `Validator` accepts stays accepted under `Finished`, and lemmas
   about `Errors` and `Binder` beyond those the pipeline needs.
2. Handlers that call the bus (publishing to their own mailbox, Close from a
   handler), composed with `LocalBus`.
3. The round-robin cursor of queue groups, with its overflow.
4. Deadlines: one shutdown context for all hooks and units.
