-------------------------- MODULE RequestPipeline --------------------------
(***************************************************************************)
(* One typed route of pkg/http/openapi under concurrent requests: what     *)
(* registration refuses, then for each request the security guard, the     *)
(* group middlewares, the binder, the handler and the writer, and around   *)
(* them the access log and the global error handler of pkg/http.           *)
(*                                                                         *)
(* A route is a record                                                     *)
(*   cases     the error contract, group cases first: a sequence of        *)
(*             records [status, errors], errors a sequence of entries      *)
(*   security  the alternatives, in order: records [scheme, scopes]        *)
(*   mws       how many AfterAuth middlewares its groups add               *)
(*   fields    the input struct (module Binder); inputs, the requests      *)
(*             [sent, body] that arrive; bodied, whether the method has a  *)
(*             body                                                        *)
(*   out       what the handler returns: "raw" (not enveloped), "value" or *)
(*             "fresh" (an enveloped struct, or a pointer to a new one),   *)
(*             "shared" (a pointer every call returns)                     *)
(***************************************************************************)
EXTENDS Router

CONSTANTS Requests, Routes,
          Unhandled, NotFound,    \* the fallbacks
          VerifyErrors, StepErrors, HandlerErrors,
          Pairs                   \* a service's mapping at its boundary
ASSUME FallbackAssumption == {Unhandled, NotFound} \subseteq Public
ASSUME RouteAssumption ==
  \A r \in Routes :
    /\ r.cases \in Seq([status : Nat, errors : Seq(Entry)])
    /\ IsSequence(r.fields) /\ IsSequence(r.security)
ASSUME ErrorAssumption ==
  \A err \in VerifyErrors \cup StepErrors \cup HandlerErrors : IsError(err)

VARIABLES route, pc,
          req,       \* what the request carries: [creds, sent, body]
          at,        \* the guard's requirement, then the middleware, it is at
          forbidden, unauthorized,  \* the last Verify errors declared 403 and 401
          identity,  \* the scheme whose Verify accepted the request
          bound,     \* the values bound for the handler
          bubbled,   \* the error the handler chain returned to Fiber
          resp,      \* the response: [status, codes, id]
          logged,    \* the statuses the access log wrote for it
          shell,     \* the request id in the shared output object
          failedAt,  \* history: the stage that ended the request
          cause      \* history: the error that stage answered with
vars == <<route, pc, req, at, forbidden, unauthorized, identity, bound, bubbled,
          resp, logged, shell, failedAt, cause>>

None == "none"
NoRequest == [creds |-> {}, input |-> [sent |-> <<>>, body |-> "empty"]]
NoResp == [status |-> 200, codes |-> <<>>, id |-> None]

(***************************************************************************)
(* The error contract at work.                                             *)
(***************************************************************************)
DeclaresIn(case, err) ==
  \E j \in DOMAIN case.errors : Is(err, case.errors[j])
Declared(cases, err) == \E i \in DOMAIN cases : DeclaresIn(cases[i], err)
\* The first case, in declaration order, with an entry err matches at any depth.
DeclaredStatus(cases, err) ==
  cases[Min({i \in DOMAIN cases : DeclaresIn(cases[i], err)})].status

\* Every entry err carries must be declared; the highest status wins.
ResolveStatus(cases, err) ==
  LET es == AsErrors(err)
  IN IF es # <<>> /\ \A i \in DOMAIN es : Declared(cases, es[i])
     THEN Max({DeclaredStatus(cases, es[i]) : i \in DOMAIN es}) ELSE 0

Codes(err) == [i \in DOMAIN AsErrors(err) |-> AsErrors(err)[i][1].e]
Envelope(q, status, codes) == [status |-> status, codes |-> codes, id |-> q]

FaultAnswers(err) == ResolveStatus(route.cases, err) # 0   \* no catalog check
\* handleHandlerError answers with err when it is public and declared through
\* and through; every other error is returned to Fiber.
Answers(err) ==
  /\ ResolveStatus(route.cases, err) # 0
  /\ \A i \in DOMAIN AsErrors(err) : Defines(Public, AsErrors(err)[i])

\* Faulty: the answered error is returned to Fiber as well.
FaultWriteHandlerError(q, stage, err) ==
  /\ pc' = [pc EXCEPT ![q] = "log"]
  /\ failedAt' = [failedAt EXCEPT ![q] = stage]
  /\ cause' = [cause EXCEPT ![q] = err]
  /\ bubbled' = [bubbled EXCEPT ![q] = err]
  /\ IF Answers(err)
     THEN resp' = [resp EXCEPT ![q] =
                     Envelope(q, ResolveStatus(route.cases, err), Codes(err))]
     ELSE UNCHANGED resp

WriteHandlerError(q, stage, err) ==
  /\ pc' = [pc EXCEPT ![q] = "log"]
  /\ failedAt' = [failedAt EXCEPT ![q] = stage]
  /\ cause' = [cause EXCEPT ![q] = err]
  /\ IF Answers(err)
     THEN /\ resp' = [resp EXCEPT ![q] =
                        Envelope(q, ResolveStatus(route.cases, err), Codes(err))]
          /\ UNCHANGED bubbled
     ELSE /\ bubbled' = [bubbled EXCEPT ![q] = err]
          /\ UNCHANGED resp

(***************************************************************************)
(* A request arrives with some credentials (one Authorization header at    *)
(* most) and one of the route's inputs.                                    *)
(***************************************************************************)
Carried == {cs \in SUBSET {"bearer", "basic", "key", "cookie", "cert"} :
              ~({"bearer", "basic"} \subseteq cs)}
\* Where the default extractor of a scheme looks: an API key declared in the
\* query is read from the header of its name.
Extracts(type) ==
  CASE type \in {"bearer", "oauth2", "openIdConnect"} -> "bearer"
    [] type = "basic" -> "basic"
    [] type \in {"apiKeyHeader", "apiKeyQuery"} -> "key"
    [] type = "apiKeyCookie" -> "cookie"
    [] type = "mutualTLS" -> "cert"

Arrive(q) ==
  /\ pc[q] = "new"
  /\ \E cs \in Carried, input \in route.inputs :
       /\ cs \subseteq {Extracts(Schemes[route.security[i].scheme].type) :
                          i \in DOMAIN route.security}
       /\ req' = [req EXCEPT ![q] = [creds |-> cs, input |-> input]]
  /\ pc' = [pc EXCEPT ![q] = IF route.security = <<>> THEN "afterAuth" ELSE "guard"]
  /\ UNCHANGED <<route, at, forbidden, unauthorized, identity, bound, bubbled,
                 resp, logged, shell, failedAt, cause>>

(***************************************************************************)
(* The guard tries the alternatives in order.  One whose credential is     *)
(* missing is skipped; a Verify error is kept when the contract declares   *)
(* it at 403 or 401, and dropped otherwise.                                *)
(***************************************************************************)
Requirement(q) == route.security[at[q]]
Presented(q) ==
  Extracts(Schemes[Requirement(q).scheme].type) \in req[q].creds
AtGuard(q) == pc[q] = "guard" /\ at[q] \in DOMAIN route.security

\* Faulty: running out of alternatives falls through to the handler.
FaultSkipRequirement(q) ==
  /\ AtGuard(q) /\ ~Presented(q)
  /\ at' = [at EXCEPT ![q] = IF @ = Len(route.security) THEN 1 ELSE @ + 1]
  /\ pc' = [pc EXCEPT ![q] = IF at[q] = Len(route.security) THEN "afterAuth" ELSE @]
  /\ UNCHANGED <<route, req, forbidden, unauthorized, identity, bound, bubbled,
                 resp, logged, shell, failedAt, cause>>

SkipRequirement(q) ==
  /\ AtGuard(q) /\ ~Presented(q)
  /\ at' = [at EXCEPT ![q] = @ + 1]
  /\ UNCHANGED <<route, pc, req, forbidden, unauthorized, identity, bound,
                 bubbled, resp, logged, shell, failedAt, cause>>

VerifyAccepts(q) ==
  /\ AtGuard(q) /\ Presented(q)
  /\ identity' = [identity EXCEPT ![q] = Requirement(q).scheme]
  /\ pc' = [pc EXCEPT ![q] = "afterAuth"]
  /\ at' = [at EXCEPT ![q] = 1]
  /\ UNCHANGED <<route, req, forbidden, unauthorized, bound, bubbled, resp,
                 logged, shell, failedAt, cause>>

\* Faulty: an error the contract does not declare is kept as a 401.
FaultVerifyFails(q) ==
  /\ AtGuard(q) /\ Presented(q)
  /\ \E err \in VerifyErrors :
       LET status == ResolveStatus(route.cases, err) IN
       /\ forbidden' = [forbidden EXCEPT ![q] = IF status = 403 THEN err ELSE @]
       /\ unauthorized' = [unauthorized EXCEPT ![q] = IF status # 403 THEN err ELSE @]
  /\ at' = [at EXCEPT ![q] = @ + 1]
  /\ UNCHANGED <<route, pc, req, identity, bound, bubbled, resp, logged, shell,
                 failedAt, cause>>

VerifyFails(q) ==
  /\ AtGuard(q) /\ Presented(q)
  /\ \E err \in VerifyErrors :
       LET status == ResolveStatus(route.cases, err) IN
       /\ forbidden' = [forbidden EXCEPT ![q] = IF status = 403 THEN err ELSE @]
       /\ unauthorized' = [unauthorized EXCEPT ![q] = IF status = 401 THEN err ELSE @]
  /\ at' = [at EXCEPT ![q] = @ + 1]
  /\ UNCHANGED <<route, pc, req, identity, bound, bubbled, resp, logged, shell,
                 failedAt, cause>>

\* No alternative accepted: a 403 comes before a 401, a 401 before the first
\* entry of Err(401).
Refuse(q) ==
  /\ pc[q] = "guard" /\ at[q] \notin DOMAIN route.security
  /\ WriteHandlerError(q, "guard",
       IF forbidden[q] # Nil THEN forbidden[q]
       ELSE IF unauthorized[q] # Nil THEN unauthorized[q]
       ELSE Canonical(DeclaredAt(route.cases, 401)[1]))
  /\ UNCHANGED <<route, req, at, forbidden, unauthorized, identity, bound,
                 logged, shell>>

(***************************************************************************)
(* AfterAuth middlewares, in group order.  One that returns an error ends  *)
(* the request; when it returned what WriteError gave it, the answer is    *)
(* the one WriteError wrote, which is the same.                            *)
(***************************************************************************)
AtMiddleware(q) == pc[q] = "afterAuth" /\ at[q] <= route.mws

MiddlewarePasses(q) ==
  /\ AtMiddleware(q)
  /\ at' = [at EXCEPT ![q] = @ + 1]
  /\ UNCHANGED <<route, pc, req, forbidden, unauthorized, identity, bound,
                 bubbled, resp, logged, shell, failedAt, cause>>

MiddlewareStops(q) ==
  /\ AtMiddleware(q)
  /\ \E err \in StepErrors : WriteHandlerError(q, "afterAuth", err)
  /\ UNCHANGED <<route, req, at, forbidden, unauthorized, identity, bound,
                 logged, shell>>

BindRequest(q) ==
  /\ pc[q] = "afterAuth" /\ at[q] > route.mws
  /\ LET b == Bind(route.fields, DeclaredAt(route.cases, 422), route.bodied,
                   req[q].input)
     IN IF b.errs = <<>>
        THEN /\ bound' = [bound EXCEPT ![q] = b.values]
             /\ pc' = [pc EXCEPT ![q] = "call"]
             /\ UNCHANGED <<failedAt, cause, resp, bubbled>>
        ELSE WriteHandlerError(q, "bind", Many(b.errs)) /\ UNCHANGED bound
  /\ UNCHANGED <<route, req, at, forbidden, unauthorized, identity, logged, shell>>

(***************************************************************************)
(* The handler returns an output or an error, as it is or translated at    *)
(* the service's boundary; Map turns an error it does not know into nil.   *)
(***************************************************************************)
AtBoundary(err) ==
  {err, Map(err, Pairs), Or(err, Unhandled), MapOr(err, Unhandled, Pairs)}

HandlerSucceeds(q) ==
  /\ pc[q] = "call"
  /\ pc' = [pc EXCEPT ![q] = "fill"]
  /\ UNCHANGED <<route, req, at, forbidden, unauthorized, identity, bound,
                 bubbled, resp, logged, shell, failedAt, cause>>

HandlerFails(q) ==
  /\ pc[q] = "call"
  /\ \E err \in HandlerErrors : \E ret \in AtBoundary(err) \ {Nil} :
       WriteHandlerError(q, "handler", ret)
  /\ UNCHANGED <<route, req, at, forbidden, unauthorized, identity, bound,
                 logged, shell>>

\* fillEnvelopedOut works on a copy of a struct, and on the very object when the
\* handler returned a pointer.
Fill(q) ==
  /\ pc[q] = "fill"
  /\ shell' = IF route.out = "shared" THEN q ELSE shell
  /\ pc' = [pc EXCEPT ![q] = "marshal"]
  /\ UNCHANGED <<route, req, at, forbidden, unauthorized, identity, bound,
                 bubbled, resp, logged, failedAt, cause>>

Marshal(q) ==
  /\ pc[q] = "marshal"
  /\ \/ /\ resp' = [resp EXCEPT ![q].id =
                      IF route.out = "raw" THEN None
                      ELSE IF route.out = "shared" THEN shell ELSE q]
        /\ UNCHANGED bubbled
     \/ /\ bubbled' = [bubbled EXCEPT ![q] = Plain]    \* it cannot be encoded
        /\ UNCHANGED resp
  /\ pc' = [pc EXCEPT ![q] = "log"]
  /\ UNCHANGED <<route, req, at, forbidden, unauthorized, identity, bound, logged,
                 shell, failedAt, cause>>

(***************************************************************************)
(* Around the route.  The access log is inside the recover middleware and  *)
(* inside Fiber, which calls the global error handler after it.            *)
(***************************************************************************)
\* The *fiber.Error that As finds in err, first on its chain, then in its parts.
FiberLinks(err) ==
  SelectSeq(err \o FlattenSeq(Parts(err, "join")), LAMBDA link : link.k = "fiber")
FiberCode(err) == Head(FiberLinks(err)).code

\* Faulty: every error that reaches the access log counts as a 500.
FaultAccessLog(q) ==
  /\ pc[q] = "log"
  /\ logged' = [logged EXCEPT ![q] = Append(@,
       IF bubbled[q] # Nil THEN 500 ELSE resp[q].status)]
  /\ pc' = [pc EXCEPT ![q] = IF bubbled[q] = Nil THEN "done" ELSE "errorHandler"]
  /\ UNCHANGED <<route, req, at, forbidden, unauthorized, identity, bound,
                 bubbled, resp, shell, failedAt, cause>>

\* AccessLog guesses the status the error handler is going to write.
AccessLog(q) ==
  /\ pc[q] = "log"
  /\ logged' = [logged EXCEPT ![q] = Append(@,
       IF bubbled[q] # Nil /\ resp[q].status < 400
       THEN IF FiberLinks(bubbled[q]) # <<>> THEN FiberCode(bubbled[q]) ELSE 500
       ELSE resp[q].status)]
  /\ pc' = [pc EXCEPT ![q] = IF bubbled[q] = Nil THEN "done" ELSE "errorHandler"]
  /\ UNCHANGED <<route, req, at, forbidden, unauthorized, identity, bound,
                 bubbled, resp, shell, failedAt, cause>>

\* A panic unwinds past the access log to recover, which makes an error of it.
Panic(q) ==
  /\ pc[q] = "call" \/ AtMiddleware(q)
       \/ (AtGuard(q) /\ Presented(q))
  /\ bubbled' = [bubbled EXCEPT ![q] = Plain]
  /\ pc' = [pc EXCEPT ![q] = "errorHandler"]
  /\ UNCHANGED <<route, req, at, forbidden, unauthorized, identity, bound, resp,
                 logged, shell, failedAt, cause>>

\* inCatalog: every entry err carries is public.
InCatalog(err) ==
  IsStructured(err)
    /\ \A i \in DOMAIN AsErrors(err) : Defines(Public, AsErrors(err)[i])

\* Fiber errors keep their status, whatever wraps them; a public error keeps its
\* entries; everything else becomes Unhandled.
ErrorHandler(q) ==
  /\ pc[q] = "errorHandler"
  /\ resp' = [resp EXCEPT ![q] =
       LET err == bubbled[q] IN
       IF FiberLinks(err) # <<>>
       THEN Envelope(q, FiberCode(err),
                     IF FiberCode(err) = 404 THEN <<NotFound>> ELSE <<Unhandled>>)
       ELSE Envelope(q, DefaultStatus,
                     IF InCatalog(err) THEN Codes(err) ELSE <<Unhandled>>)]
  /\ pc' = [pc EXCEPT ![q] = "done"]
  /\ UNCHANGED <<route, req, at, forbidden, unauthorized, identity, bound,
                 bubbled, logged, shell, failedAt, cause>>

Init ==
  /\ route \in {r \in Routes : Accepted(r)}
  /\ pc = [q \in Requests |-> "new"]
  /\ req = [q \in Requests |-> NoRequest]
  /\ at = [q \in Requests |-> 1]
  /\ forbidden = [q \in Requests |-> Nil]
  /\ unauthorized = [q \in Requests |-> Nil]
  /\ identity = [q \in Requests |-> None]
  /\ bound = [q \in Requests |-> <<>>]
  /\ bubbled = [q \in Requests |-> Nil]
  /\ resp = [q \in Requests |-> NoResp]
  /\ logged = [q \in Requests |-> <<>>]
  /\ shell = None
  /\ failedAt = [q \in Requests |-> None]
  /\ cause = [q \in Requests |-> Nil]

Next ==
  \E q \in Requests :
    \/ Arrive(q)
    \/ SkipRequirement(q) \/ VerifyAccepts(q) \/ VerifyFails(q) \/ Refuse(q)
    \/ MiddlewarePasses(q) \/ MiddlewareStops(q)
    \/ BindRequest(q)
    \/ HandlerSucceeds(q) \/ HandlerFails(q)
    \/ Fill(q) \/ Marshal(q)
    \/ AccessLog(q) \/ Panic(q) \/ ErrorHandler(q)

Spec == Init /\ [][Next]_vars

(***************************************************************************)
(* Properties.                                                             *)
(***************************************************************************)
Done(q) == pc[q] = "done"
Running == {"call", "fill", "marshal"}

TypeOK ==
  /\ route \in {r \in Routes : Accepted(r)}
  /\ pc \in [Requests -> {"new", "guard", "afterAuth", "log", "errorHandler", "done"}
                         \cup Running]
  /\ at \in [Requests -> Nat \ {0}]
  /\ identity \in [Requests -> DOMAIN Schemes \cup {None}]
  /\ shell \in Requests \cup {None}
  /\ DOMAIN req = Requests /\ DOMAIN bubbled = Requests
  /\ DOMAIN resp = Requests /\ DOMAIN logged = Requests
  /\ \A q \in Requests :
       resp[q] = Envelope(resp[q].id, resp[q].status, resp[q].codes)

\* Whatever goes wrong and wherever, only entries of the public catalog reach the
\* wire: an internal or anonymous entry is replaced by the Unhandled fallback
\* (handleHandlerError, ErrorHandler).
OnlyPublicOnWire ==
  \A q \in Requests : \A i \in DOMAIN resp[q].codes : resp[q].codes[i] \in Public

\* On a secured route middlewares, binder and handler run only for a request that
\* an alternative of the route accepted: it carried that scheme's credential, and
\* the identity in the context is the one that scheme's Verify returned.
HandlerAuthorized ==
  \A q \in Requests :
    pc[q] \in Running \cup {"afterAuth"} /\ route.security # <<>> =>
      \E i \in DOMAIN route.security :
        /\ identity[q] = route.security[i].scheme
        /\ Extracts(Schemes[route.security[i].scheme].type) \in req[q].creds

\* A request the guard turned away is answered 401 or 403 with entries of the
\* route's contract, whatever Verify returned, unless what Verify returned was
\* an entry that is not public around one that is.
RefusalIsDeclared ==
  \A q \in Requests :
    Done(q) /\ failedAt[q] = "guard" /\ InCatalog(cause[q]) =>
      /\ resp[q].status \in {401, 403}
      /\ resp[q].status = 403 => forbidden[q] # Nil
      /\ Declared(route.cases, cause[q])

\* What an accepted route with input fields cannot bind is answered 422 with
\* entries it declares there: the registration check that demands a template and
\* the one that pins the template's status leave no other case.
BindFailureIs422 ==
  \A q \in Requests :
    Done(q) /\ failedAt[q] = "bind" /\ route.fields # <<>> =>
      /\ resp[q].status = 422
      /\ \A i \in DOMAIN resp[q].codes :
           resp[q].codes[i] \in ToSet(DeclaredAt(route.cases, 422))

\* The access log runs before the global error handler and has to foresee its
\* status: with the default DefaultStatus, the logged one is the one sent.
LoggedStatusIsSent ==
  \A q \in Requests :
    Done(q) /\ logged[q] # <<>> => logged[q] = <<resp[q].status>>

\* A response that has been written is not written over by a later stage: an
\* error that was answered is not returned to Fiber as well.
AnsweredOnce ==
  [][\A q \in Requests : resp[q] # NoResp => resp'[q] = resp[q]]_vars

\* guides/errors.md: "When multiple errors are returned together on a declared
\* route, the highest declared status wins", so an answer's status is one that
\* an entry it shows is declared at.
AnsweredWithOwnStatus ==
  \A q \in Requests :
    Done(q) /\ failedAt[q] # None /\ bubbled[q] = Nil =>
      resp[q].status = Max({StatusOf[c] : c \in ToSet(resp[q].codes)})

\* guides/errors.md calls Source a "field/input hint (`body.name`, `params.id`)
\* for validation matching": when one required body field is missing and an
\* entry with its Source is declared, that entry is the answer.
FieldErrorUsesItsTemplate ==
  \A q \in Requests : Done(q) /\ failedAt[q] = "bind" =>
    LET sent == req[q].input.sent IN
    \A i \in DOMAIN route.fields :
      \A t \in ToSet(DeclaredAt(route.cases, 422)) :
        /\ route.fields[i].in = "json"
        /\ Source[t] = <<"body", route.fields[i].name>>
        /\ sent[i].s = "absent" /\ req[q].input.body = "object"
        /\ \A j \in DOMAIN sent \ {i} : sent[j].s = "sent"
        => resp[q].codes = <<t>>
=============================================================================
