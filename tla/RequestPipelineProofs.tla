------------------------ MODULE RequestPipelineProofs ------------------------
(***************************************************************************)
(* Theorems about RequestPipeline, for every set of requests, every route  *)
(* that registration accepts, every catalog and every error.               *)
(***************************************************************************)
EXTENDS RequestPipeline, SequenceLemmas, SequenceTheorems, TLAPS

Underway == {"new", "guard", "afterAuth"} \cup Running

\* What the actions that end a request with an error have in common.
Fails(q, err) ==
  /\ pc[q] \in Underway
  /\ \E stage : WriteHandlerError(q, stage, err)
  /\ UNCHANGED <<route, req, at, identity, logged, shell>>

LEMMA FailingActions ==
    ASSUME NEW q \in Requests,
           Refuse(q) \/ MiddlewareStops(q) \/ HandlerFails(q)
    PROVE  \E err : Fails(q, err)
  BY DEF Refuse, MiddlewareStops, HandlerFails, Fails, AtMiddleware, Underway,
         Running

\* The binder's failures end the request; otherwise only pc and bound change.
LEMMA BindEnds ==
    ASSUME NEW q \in Requests, BindRequest(q)
    PROVE  \/ \E err : Fails(q, err)
           \/ /\ pc[q] = "afterAuth"
              /\ pc' = [pc EXCEPT ![q] = "call"]
              /\ UNCHANGED <<route, req, at, identity, bubbled, resp, logged, shell>>
<1> DEFINE b == Bind(route.fields, DeclaredAt(route.cases, 422), route.bodied,
                     req[q].input)
<1>1. CASE b.errs = <<>>
  <2> HIDE DEF b
  <2> QED
    BY <1>1 DEF BindRequest, b
<1>2. CASE b.errs # <<>>
  <2>1. /\ WriteHandlerError(q, "bind", Many(b.errs))
        /\ pc[q] = "afterAuth"
        /\ UNCHANGED <<route, req, at, identity, logged, shell>>
    BY <1>2 DEF BindRequest
  <2>2. Fails(q, Many(b.errs))
    BY <2>1 DEF Fails, Underway
  <2> QED
    BY <2>2
<1> QED
  BY <1>1, <1>2

\* handleHandlerError either answers, with public entries only, or returns the
\* error to Fiber.
LEMMA FailsResp ==
    ASSUME NEW q \in Requests, NEW err, Fails(q, err)
    PROVE  /\ pc' = [pc EXCEPT ![q] = "log"]
           /\ \/ \E status, codes :
                   /\ resp' = [resp EXCEPT ![q] = Envelope(q, status, codes)]
                   /\ \A i \in DOMAIN codes : codes[i] \in Public
                   /\ bubbled' = bubbled
              \/ /\ resp' = resp
                 /\ bubbled' = [bubbled EXCEPT ![q] = err]
<1>1. PICK stage : WriteHandlerError(q, stage, err)
  BY DEF Fails
<1>2. CASE Answers(err)
  <2>1. \A i \in DOMAIN Codes(err) : Codes(err)[i] \in Public
    BY <1>2 DEF Answers, Codes, Defines
  <2> QED
    BY <1>1, <1>2, <2>1 DEF WriteHandlerError
<1>3. CASE ~Answers(err)
  BY <1>1, <1>3 DEF WriteHandlerError
<1> QED
  BY <1>2, <1>3

\* The status the error handler answers an error with.
SentStatus(err) ==
  IF FiberLinks(err) # <<>> THEN FiberCode(err) ELSE DefaultStatus

LEMMA HandlerSends ==
    ASSUME NEW q \in Requests, ErrorHandler(q)
    PROVE  \E codes :
             /\ resp' = [resp EXCEPT ![q] = Envelope(q, SentStatus(bubbled[q]), codes)]
             /\ \A i \in DOMAIN codes : codes[i] \in Public
<1> DEFINE fiber == FiberLinks(bubbled[q])
<1>2. CASE fiber # <<>>
  <2> DEFINE c == FiberCode(bubbled[q])
  <2>1. resp' = [resp EXCEPT ![q] =
                  Envelope(q, c, IF c = 404 THEN <<NotFound>> ELSE <<Unhandled>>)]
    BY <1>2 DEF ErrorHandler
  <2>2. c = SentStatus(bubbled[q])
    BY <1>2 DEF SentStatus
  <2> DEFINE codes == IF c = 404 THEN <<NotFound>> ELSE <<Unhandled>>
  <2>3. \A i \in DOMAIN codes : codes[i] \in Public
    BY FallbackAssumption
  <2>4. resp' = [resp EXCEPT ![q] = Envelope(q, SentStatus(bubbled[q]), codes)]
    BY <2>1, <2>2
  <2> HIDE DEF codes
  <2> QED
    BY <2>3, <2>4
<1>3. CASE fiber = <<>>
  <2>1. resp' = [resp EXCEPT ![q] =
                  Envelope(q, DefaultStatus, IF InCatalog(bubbled[q])
                                             THEN Codes(bubbled[q]) ELSE <<Unhandled>>)]
    BY <1>3 DEF ErrorHandler
  <2>2. InCatalog(bubbled[q]) =>
          \A i \in DOMAIN Codes(bubbled[q]) : Codes(bubbled[q])[i] \in Public
    BY DEF InCatalog, Codes, Defines
  <2>3. DefaultStatus = SentStatus(bubbled[q])
    BY <1>3 DEF SentStatus
  <2> DEFINE codes == IF InCatalog(bubbled[q]) THEN Codes(bubbled[q])
                      ELSE <<Unhandled>>
  <2>4. \A i \in DOMAIN codes : codes[i] \in Public
    BY <2>2, FallbackAssumption
  <2>5. resp' = [resp EXCEPT ![q] = Envelope(q, SentStatus(bubbled[q]), codes)]
    BY <2>1, <2>3
  <2> HIDE DEF codes
  <2> QED
    BY <2>4, <2>5
<1> QED
  BY <1>2, <1>3

LEMMA TypeInit == Init => TypeOK
  BY DEF Init, TypeOK, NoResp, Envelope

LEMMA TypeStep ==
    TypeOK /\ [Next]_vars
      => TypeOK'
<1> SUFFICES ASSUME TypeOK,
                    [Next]_vars
             PROVE  TypeOK'
  OBVIOUS
<1> USE DEF TypeOK, Running, Envelope
<1>1. ASSUME NEW q \in Requests, Arrive(q) PROVE TypeOK'
  BY <1>1 DEF Arrive
<1>2. ASSUME NEW q \in Requests, SkipRequirement(q) PROVE TypeOK'
  BY <1>2 DEF SkipRequirement, AtGuard
<1>3. ASSUME NEW q \in Requests, VerifyAccepts(q) PROVE TypeOK'
  BY <1>3 DEF VerifyAccepts, AtGuard, Presented, Requirement, Accepted,
     SecuredRouteValid
<1>4. ASSUME NEW q \in Requests, VerifyFails(q) PROVE TypeOK'
  BY <1>4 DEF VerifyFails, AtGuard
<1>5. ASSUME NEW q \in Requests, MiddlewarePasses(q) PROVE TypeOK'
  BY <1>5 DEF MiddlewarePasses, AtMiddleware
<1>6. ASSUME NEW q \in Requests, HandlerSucceeds(q) PROVE TypeOK'
  BY <1>6 DEF HandlerSucceeds
<1>7. ASSUME NEW q \in Requests, Fill(q) PROVE TypeOK'
  BY <1>7 DEF Fill
<1>8. ASSUME NEW q \in Requests, Marshal(q) PROVE TypeOK'
  BY <1>8 DEF Marshal
<1>9. ASSUME NEW q \in Requests, AccessLog(q) PROVE TypeOK'
  BY <1>9 DEF AccessLog
<1>10. ASSUME NEW q \in Requests, Panic(q) PROVE TypeOK'
  BY <1>10 DEF Panic, AtGuard, AtMiddleware
<1>11. ASSUME NEW q \in Requests, ErrorHandler(q) PROVE TypeOK'
  BY <1>11 DEF ErrorHandler
<1>12. ASSUME NEW q \in Requests, NEW err, Fails(q, err) PROVE TypeOK'
  <2>1. pc' = [pc EXCEPT ![q] = "log"]
    BY <1>12, FailsResp
  <2>2. ASSUME NEW status, NEW codes,
               resp' = [resp EXCEPT ![q] = Envelope(q, status, codes)],
               \A i \in DOMAIN codes : codes[i] \in Public,
               bubbled' = bubbled
        PROVE  TypeOK'
    BY <1>12, <2>1, <2>2 DEF Fails
  <2>3. CASE resp' = resp /\ bubbled' = [bubbled EXCEPT ![q] = err]
    BY <1>12, <2>1, <2>3 DEF Fails
  <2> QED
    BY <1>12, <2>2, <2>3, FailsResp
<1>13. ASSUME NEW q \in Requests, BindRequest(q) PROVE TypeOK'
  BY <1>13, <1>12, BindEnds
<1>14. CASE UNCHANGED vars
  BY <1>14 DEF vars
<1> QED
  BY <1>1, <1>2, <1>3, <1>4, <1>5, <1>6, <1>7, <1>8, <1>9, <1>10, <1>11,
     <1>12, <1>13, <1>14, FailingActions DEF Next

\* Every variable keeps its type; an accepted request's identity is a registered
\* scheme, since registration accepts no route that names another.
THEOREM TypeCorrect == Spec => []TypeOK
  BY TypeInit, TypeStep, PTL DEF Spec

LEMMA PublicStep ==
    TypeOK /\ OnlyPublicOnWire /\ [Next]_vars
      => OnlyPublicOnWire'
<1> SUFFICES ASSUME TypeOK /\ OnlyPublicOnWire,
                    [Next]_vars
             PROVE  OnlyPublicOnWire'
  OBVIOUS
<1> USE DEF TypeOK, OnlyPublicOnWire, Envelope, Running
<1>1. ASSUME NEW q \in Requests, Arrive(q) PROVE OnlyPublicOnWire'
  BY <1>1 DEF Arrive
<1>2. ASSUME NEW q \in Requests, SkipRequirement(q) PROVE OnlyPublicOnWire'
  BY <1>2 DEF SkipRequirement, AtGuard
<1>3. ASSUME NEW q \in Requests, VerifyAccepts(q) PROVE OnlyPublicOnWire'
  BY <1>3 DEF VerifyAccepts, AtGuard, Presented, Requirement
<1>4. ASSUME NEW q \in Requests, VerifyFails(q) PROVE OnlyPublicOnWire'
  BY <1>4 DEF VerifyFails, AtGuard
<1>5. ASSUME NEW q \in Requests, MiddlewarePasses(q) PROVE OnlyPublicOnWire'
  BY <1>5 DEF MiddlewarePasses, AtMiddleware
<1>6. ASSUME NEW q \in Requests, HandlerSucceeds(q) PROVE OnlyPublicOnWire'
  BY <1>6 DEF HandlerSucceeds
<1>7. ASSUME NEW q \in Requests, Fill(q) PROVE OnlyPublicOnWire'
  BY <1>7 DEF Fill
<1>8. ASSUME NEW q \in Requests, Marshal(q) PROVE OnlyPublicOnWire'
  BY <1>8 DEF Marshal
<1>9. ASSUME NEW q \in Requests, AccessLog(q) PROVE OnlyPublicOnWire'
  BY <1>9 DEF AccessLog
<1>10. ASSUME NEW q \in Requests, Panic(q) PROVE OnlyPublicOnWire'
  BY <1>10 DEF Panic, AtGuard, AtMiddleware
<1>11. ASSUME NEW q \in Requests, ErrorHandler(q) PROVE OnlyPublicOnWire'
  <2>1. PICK codes :
          /\ resp' = [resp EXCEPT ![q] = Envelope(q, SentStatus(bubbled[q]), codes)]
          /\ \A i \in DOMAIN codes : codes[i] \in Public
    BY <1>11, HandlerSends
  <2>2. /\ pc[q] = "errorHandler" /\ pc' = [pc EXCEPT ![q] = "done"]
        /\ UNCHANGED <<route, req, identity, bubbled, logged>>
    BY <1>11 DEF ErrorHandler
  <2> QED
    BY <1>11, <2>1, <2>2
<1>12. ASSUME NEW q \in Requests, NEW err, Fails(q, err) PROVE OnlyPublicOnWire'
  <2>1. pc' = [pc EXCEPT ![q] = "log"]
    BY <1>12, FailsResp
  <2>2. ASSUME NEW status, NEW codes,
               resp' = [resp EXCEPT ![q] = Envelope(q, status, codes)],
               \A i \in DOMAIN codes : codes[i] \in Public,
               bubbled' = bubbled
        PROVE  OnlyPublicOnWire'
    BY <1>12, <2>1, <2>2 DEF Fails
  <2>3. CASE resp' = resp /\ bubbled' = [bubbled EXCEPT ![q] = err]
    BY <1>12, <2>1, <2>3 DEF Fails
  <2> QED
    BY <1>12, <2>2, <2>3, FailsResp
<1>13. ASSUME NEW q \in Requests, BindRequest(q) PROVE OnlyPublicOnWire'
  BY <1>13, <1>12, BindEnds
<1>14. CASE UNCHANGED vars
  BY <1>14 DEF vars
<1> QED
  BY <1>1, <1>2, <1>3, <1>4, <1>5, <1>6, <1>7, <1>8, <1>9, <1>10, <1>11,
     <1>12, <1>13, <1>14, FailingActions DEF Next

\* Whatever a Verify, a middleware or a handler returns, and whatever the catalogs
\* are, no entry that is not public reaches a client.
THEOREM PublicCorrect == Spec => []OnlyPublicOnWire
<1>1. Init => OnlyPublicOnWire
  BY DEF Init, OnlyPublicOnWire, NoResp
<1> QED
  BY <1>1, PublicStep, TypeCorrect, PTL DEF Spec

LEMMA AuthorizedStep ==
    TypeOK /\ HandlerAuthorized /\ [Next]_vars
      => HandlerAuthorized'
<1> SUFFICES ASSUME TypeOK /\ HandlerAuthorized,
                    [Next]_vars
             PROVE  HandlerAuthorized'
  OBVIOUS
<1> USE DEF TypeOK, HandlerAuthorized, Envelope, Running
<1>1. ASSUME NEW q \in Requests, Arrive(q) PROVE HandlerAuthorized'
  BY <1>1 DEF Arrive
<1>2. ASSUME NEW q \in Requests, SkipRequirement(q) PROVE HandlerAuthorized'
  BY <1>2 DEF SkipRequirement, AtGuard
<1>3. ASSUME NEW q \in Requests, VerifyAccepts(q) PROVE HandlerAuthorized'
  BY <1>3 DEF VerifyAccepts, AtGuard, Presented, Requirement
<1>4. ASSUME NEW q \in Requests, VerifyFails(q) PROVE HandlerAuthorized'
  BY <1>4 DEF VerifyFails, AtGuard
<1>5. ASSUME NEW q \in Requests, MiddlewarePasses(q) PROVE HandlerAuthorized'
  BY <1>5 DEF MiddlewarePasses, AtMiddleware
<1>6. ASSUME NEW q \in Requests, HandlerSucceeds(q) PROVE HandlerAuthorized'
  BY <1>6 DEF HandlerSucceeds
<1>7. ASSUME NEW q \in Requests, Fill(q) PROVE HandlerAuthorized'
  BY <1>7 DEF Fill
<1>8. ASSUME NEW q \in Requests, Marshal(q) PROVE HandlerAuthorized'
  BY <1>8 DEF Marshal
<1>9. ASSUME NEW q \in Requests, AccessLog(q) PROVE HandlerAuthorized'
  BY <1>9 DEF AccessLog
<1>10. ASSUME NEW q \in Requests, Panic(q) PROVE HandlerAuthorized'
  BY <1>10 DEF Panic, AtGuard, AtMiddleware
<1>11. ASSUME NEW q \in Requests, ErrorHandler(q) PROVE HandlerAuthorized'
  <2>1. PICK codes :
          /\ resp' = [resp EXCEPT ![q] = Envelope(q, SentStatus(bubbled[q]), codes)]
          /\ \A i \in DOMAIN codes : codes[i] \in Public
    BY <1>11, HandlerSends
  <2>2. /\ pc[q] = "errorHandler" /\ pc' = [pc EXCEPT ![q] = "done"]
        /\ UNCHANGED <<route, req, identity, bubbled, logged>>
    BY <1>11 DEF ErrorHandler
  <2> QED
    BY <1>11, <2>1, <2>2
<1>12. ASSUME NEW q \in Requests, NEW err, Fails(q, err)
       PROVE  HandlerAuthorized'
  <2>1. pc' = [pc EXCEPT ![q] = "log"]
    BY <1>12, FailsResp
  <2>2. ASSUME NEW status, NEW codes,
               resp' = [resp EXCEPT ![q] = Envelope(q, status, codes)],
               \A i \in DOMAIN codes : codes[i] \in Public,
               bubbled' = bubbled
        PROVE  HandlerAuthorized'
    BY <1>12, <2>1, <2>2 DEF Fails
  <2>3. CASE resp' = resp /\ bubbled' = [bubbled EXCEPT ![q] = err]
    BY <1>12, <2>1, <2>3 DEF Fails
  <2> QED
    BY <1>12, <2>2, <2>3, FailsResp
<1>13. ASSUME NEW q \in Requests, BindRequest(q) PROVE HandlerAuthorized'
  BY <1>13, <1>12, BindEnds
<1>14. CASE UNCHANGED vars
  BY <1>14 DEF vars
<1> QED
  BY <1>1, <1>2, <1>3, <1>4, <1>5, <1>6, <1>7, <1>8, <1>9, <1>10, <1>11,
     <1>12, <1>13, <1>14, FailingActions DEF Next

\* No middleware, binder or handler of a secured route ever runs for a request
\* that none of its alternatives accepted.
THEOREM AuthorizedCorrect == Spec => []HandlerAuthorized
<1>1. Init => HandlerAuthorized
  BY DEF Init, HandlerAuthorized, Running
<1> QED
  BY <1>1, AuthorizedStep, TypeCorrect, PTL DEF Spec

LEMMA AppendToEmpty == ASSUME NEW x PROVE Append(<<>>, x) = <<x>>
  OBVIOUS

\* The status the access log writes for an error that was returned to Fiber.
Foreseen(err) ==
  IF FiberLinks(err) # <<>> THEN FiberCode(err) ELSE 500

\* Nothing is answered or logged for a request under way; what was answered is
\* not returned to Fiber as well; when the error handler's turn comes, the log is
\* what it would send with DefaultStatus 500, or empty after a panic.
Quiet ==
  \A q \in Requests :
    /\ pc[q] \in Underway => bubbled[q] = Nil /\ resp[q] = NoResp
    /\ pc[q] \in Underway \cup {"log"} => logged[q] = <<>>
    /\ pc[q] = "log" => resp[q] = NoResp \/ bubbled[q] = Nil
    /\ pc[q] = "errorHandler" =>
         resp[q] = NoResp /\ logged[q] \in {<<>>, <<Foreseen(bubbled[q])>>}

LEMMA QuietStep ==
    TypeOK /\ Quiet /\ [Next]_vars
      => Quiet'
<1> SUFFICES ASSUME TypeOK /\ Quiet,
                    [Next]_vars
             PROVE  Quiet'
  OBVIOUS
<1> USE DEF TypeOK, Quiet, Envelope, Running, Underway
<1>1. ASSUME NEW q \in Requests, Arrive(q) PROVE Quiet'
  BY <1>1 DEF Arrive
<1>2. ASSUME NEW q \in Requests, SkipRequirement(q) PROVE Quiet'
  BY <1>2 DEF SkipRequirement, AtGuard
<1>3. ASSUME NEW q \in Requests, VerifyAccepts(q) PROVE Quiet'
  BY <1>3 DEF VerifyAccepts, AtGuard, Presented, Requirement
<1>4. ASSUME NEW q \in Requests, VerifyFails(q) PROVE Quiet'
  BY <1>4 DEF VerifyFails, AtGuard
<1>5. ASSUME NEW q \in Requests, MiddlewarePasses(q) PROVE Quiet'
  BY <1>5 DEF MiddlewarePasses, AtMiddleware
<1>6. ASSUME NEW q \in Requests, HandlerSucceeds(q) PROVE Quiet'
  BY <1>6 DEF HandlerSucceeds
<1>7. ASSUME NEW q \in Requests, Fill(q) PROVE Quiet'
  BY <1>7 DEF Fill
<1>8. ASSUME NEW q \in Requests, Marshal(q) PROVE Quiet'
  BY <1>8 DEF Marshal
<1>9. ASSUME NEW q \in Requests, AccessLog(q) PROVE Quiet'
  <2>1. pc[q] = "log" /\ logged[q] = <<>>
    BY <1>9 DEF AccessLog
  <2>2. CASE bubbled[q] = Nil
    BY <1>9, <2>1, <2>2 DEF AccessLog
  <2>3. CASE bubbled[q] # Nil
    <3>1. resp[q] = NoResp /\ resp[q].status < 400
      BY <2>1, <2>3 DEF NoResp
    <3>2. logged' = [logged EXCEPT ![q] = <<Foreseen(bubbled[q])>>]
      BY <1>9, <2>1, <2>3, <3>1, AppendToEmpty DEF AccessLog, Foreseen
    <3>3. /\ pc' = [pc EXCEPT ![q] = "errorHandler"]
          /\ UNCHANGED <<bubbled, resp>>
      BY <1>9, <2>3 DEF AccessLog
    <3> QED
      BY <1>9, <2>3, <3>1, <3>2, <3>3
  <2> QED
    BY <2>2, <2>3
<1>10. ASSUME NEW q \in Requests, Panic(q) PROVE Quiet'
  BY <1>10 DEF Panic, AtGuard, AtMiddleware
<1>11. ASSUME NEW q \in Requests, ErrorHandler(q) PROVE Quiet'
  <2>1. PICK codes :
          /\ resp' = [resp EXCEPT ![q] = Envelope(q, SentStatus(bubbled[q]), codes)]
          /\ \A i \in DOMAIN codes : codes[i] \in Public
    BY <1>11, HandlerSends
  <2>2. /\ pc[q] = "errorHandler" /\ pc' = [pc EXCEPT ![q] = "done"]
        /\ UNCHANGED <<route, req, identity, bubbled, logged>>
    BY <1>11 DEF ErrorHandler
  <2> QED
    BY <1>11, <2>1, <2>2
<1>12. ASSUME NEW q \in Requests, NEW err, Fails(q, err) PROVE Quiet'
  <2>1. pc' = [pc EXCEPT ![q] = "log"]
    BY <1>12, FailsResp
  <2>2. ASSUME NEW status, NEW codes,
               resp' = [resp EXCEPT ![q] = Envelope(q, status, codes)],
               \A i \in DOMAIN codes : codes[i] \in Public,
               bubbled' = bubbled
        PROVE  Quiet'
    BY <1>12, <2>1, <2>2 DEF Fails
  <2>3. CASE resp' = resp /\ bubbled' = [bubbled EXCEPT ![q] = err]
    BY <1>12, <2>1, <2>3 DEF Fails
  <2> QED
    BY <1>12, <2>2, <2>3, FailsResp
<1>13. ASSUME NEW q \in Requests, BindRequest(q) PROVE Quiet'
  BY <1>13, <1>12, BindEnds
<1>14. CASE UNCHANGED vars
  BY <1>14 DEF vars
<1> QED
  BY <1>1, <1>2, <1>3, <1>4, <1>5, <1>6, <1>7, <1>8, <1>9, <1>10, <1>11,
     <1>12, <1>13, <1>14, FailingActions DEF Next

LEMMA QuietCorrect == Spec => []Quiet
<1>1. Init => Quiet
  BY DEF Init, Quiet, Underway, Running
<1> QED
  BY <1>1, QuietStep, TypeCorrect, PTL DEF Spec

KeepsAnswers == \A q \in Requests : resp[q] # NoResp => resp'[q] = resp[q]

LEMMA OnceStep ==
    TypeOK /\ Quiet /\ [Next]_vars
      => KeepsAnswers
<1> SUFFICES ASSUME TypeOK /\ Quiet,
                    [Next]_vars
             PROVE  KeepsAnswers
  OBVIOUS
<1> USE DEF KeepsAnswers, TypeOK, Quiet, Envelope, Running, Underway
<1>1. ASSUME NEW q \in Requests, Arrive(q) PROVE KeepsAnswers
  BY <1>1 DEF Arrive
<1>2. ASSUME NEW q \in Requests, SkipRequirement(q) PROVE KeepsAnswers
  BY <1>2 DEF SkipRequirement, AtGuard
<1>3. ASSUME NEW q \in Requests, VerifyAccepts(q) PROVE KeepsAnswers
  BY <1>3 DEF VerifyAccepts, AtGuard, Presented, Requirement
<1>4. ASSUME NEW q \in Requests, VerifyFails(q) PROVE KeepsAnswers
  BY <1>4 DEF VerifyFails, AtGuard
<1>5. ASSUME NEW q \in Requests, MiddlewarePasses(q) PROVE KeepsAnswers
  BY <1>5 DEF MiddlewarePasses, AtMiddleware
<1>6. ASSUME NEW q \in Requests, HandlerSucceeds(q) PROVE KeepsAnswers
  BY <1>6 DEF HandlerSucceeds
<1>7. ASSUME NEW q \in Requests, Fill(q) PROVE KeepsAnswers
  BY <1>7 DEF Fill
<1>8. ASSUME NEW q \in Requests, Marshal(q) PROVE KeepsAnswers
  BY <1>8 DEF Marshal
<1>9. ASSUME NEW q \in Requests, AccessLog(q) PROVE KeepsAnswers
  BY <1>9 DEF AccessLog
<1>10. ASSUME NEW q \in Requests, Panic(q) PROVE KeepsAnswers
  BY <1>10 DEF Panic, AtGuard, AtMiddleware
<1>11. ASSUME NEW q \in Requests, ErrorHandler(q) PROVE KeepsAnswers
  <2>1. PICK codes :
          /\ resp' = [resp EXCEPT ![q] = Envelope(q, SentStatus(bubbled[q]), codes)]
          /\ \A i \in DOMAIN codes : codes[i] \in Public
    BY <1>11, HandlerSends
  <2>2. /\ pc[q] = "errorHandler" /\ pc' = [pc EXCEPT ![q] = "done"]
        /\ UNCHANGED <<route, req, identity, bubbled, logged>>
    BY <1>11 DEF ErrorHandler
  <2> QED
    BY <1>11, <2>1, <2>2
<1>12. ASSUME NEW q \in Requests, NEW err, Fails(q, err) PROVE KeepsAnswers
  <2>1. pc' = [pc EXCEPT ![q] = "log"]
    BY <1>12, FailsResp
  <2>2. ASSUME NEW status, NEW codes,
               resp' = [resp EXCEPT ![q] = Envelope(q, status, codes)],
               \A i \in DOMAIN codes : codes[i] \in Public,
               bubbled' = bubbled
        PROVE  KeepsAnswers
    BY <1>12, <2>1, <2>2 DEF Fails
  <2>3. CASE resp' = resp /\ bubbled' = [bubbled EXCEPT ![q] = err]
    BY <1>12, <2>1, <2>3 DEF Fails
  <2> QED
    BY <1>12, <2>2, <2>3, FailsResp
<1>13. ASSUME NEW q \in Requests, BindRequest(q) PROVE KeepsAnswers
  BY <1>13, <1>12, BindEnds
<1>14. CASE UNCHANGED vars
  BY <1>14 DEF vars
<1> QED
  BY <1>1, <1>2, <1>3, <1>4, <1>5, <1>6, <1>7, <1>8, <1>9, <1>10, <1>11,
     <1>12, <1>13, <1>14, FailingActions DEF Next

\* Whichever stage answers a request, no later one answers it again.
THEOREM AnsweredCorrect == Spec => AnsweredOnce
<1>1. TypeOK /\ Quiet /\ [Next]_vars =>
        [\A q \in Requests : resp[q] # NoResp => resp'[q] = resp[q]]_vars
  BY OnceStep DEF KeepsAnswers
<1> QED
  BY <1>1, QuietCorrect, TypeCorrect, PTL DEF Spec, AnsweredOnce

LEMMA LoggedStep ==
    DefaultStatus = 500 /\ TypeOK /\ Quiet /\ LoggedStatusIsSent /\ [Next]_vars
      => LoggedStatusIsSent'
<1> SUFFICES ASSUME DefaultStatus = 500 /\ TypeOK /\ Quiet /\ LoggedStatusIsSent,
                    [Next]_vars
             PROVE  LoggedStatusIsSent'
  OBVIOUS
<1> USE DEF TypeOK, Quiet, LoggedStatusIsSent, Done, Envelope, Running, Underway
<1>1. ASSUME NEW q \in Requests, Arrive(q) PROVE LoggedStatusIsSent'
  BY <1>1 DEF Arrive
<1>2. ASSUME NEW q \in Requests, SkipRequirement(q) PROVE LoggedStatusIsSent'
  BY <1>2 DEF SkipRequirement, AtGuard
<1>3. ASSUME NEW q \in Requests, VerifyAccepts(q) PROVE LoggedStatusIsSent'
  BY <1>3 DEF VerifyAccepts, AtGuard, Presented, Requirement
<1>4. ASSUME NEW q \in Requests, VerifyFails(q) PROVE LoggedStatusIsSent'
  BY <1>4 DEF VerifyFails, AtGuard
<1>5. ASSUME NEW q \in Requests, MiddlewarePasses(q) PROVE LoggedStatusIsSent'
  BY <1>5 DEF MiddlewarePasses, AtMiddleware
<1>6. ASSUME NEW q \in Requests, HandlerSucceeds(q) PROVE LoggedStatusIsSent'
  BY <1>6 DEF HandlerSucceeds
<1>7. ASSUME NEW q \in Requests, Fill(q) PROVE LoggedStatusIsSent'
  BY <1>7 DEF Fill
<1>8. ASSUME NEW q \in Requests, Marshal(q) PROVE LoggedStatusIsSent'
  BY <1>8 DEF Marshal
<1>9. ASSUME NEW q \in Requests, AccessLog(q) PROVE LoggedStatusIsSent'
  <2>1. CASE bubbled[q] = Nil
    <3>1. logged' = [logged EXCEPT ![q] = <<resp[q].status>>]
      BY <1>9, <2>1, AppendToEmpty DEF AccessLog
    <3> QED
      BY <1>9, <3>1 DEF AccessLog
  <2>2. CASE bubbled[q] # Nil
    BY <1>9, <2>2 DEF AccessLog
  <2> QED
    BY <2>1, <2>2
<1>10. ASSUME NEW q \in Requests, Panic(q) PROVE LoggedStatusIsSent'
  BY <1>10 DEF Panic, AtGuard, AtMiddleware
<1>11. ASSUME NEW q \in Requests, ErrorHandler(q) PROVE LoggedStatusIsSent'
  <2>1. PICK codes :
          /\ resp' = [resp EXCEPT ![q] = Envelope(q, SentStatus(bubbled[q]), codes)]
          /\ \A i \in DOMAIN codes : codes[i] \in Public
    BY <1>11, HandlerSends
  <2>2. /\ pc[q] = "errorHandler" /\ pc' = [pc EXCEPT ![q] = "done"]
        /\ UNCHANGED <<route, req, identity, bubbled, logged>>
    BY <1>11 DEF ErrorHandler
  <2>3. SentStatus(bubbled[q]) = Foreseen(bubbled[q])
    BY DEF SentStatus, Foreseen
  <2>4. resp'[q].status = Foreseen(bubbled[q])
    BY <2>1, <2>3
  <2>5. logged'[q] # <<>> => logged'[q] = <<resp'[q].status>>
    BY <2>2, <2>4
  <2> QED
    BY <2>1, <2>2, <2>5
<1>12. ASSUME NEW q \in Requests, NEW err, Fails(q, err)
       PROVE  LoggedStatusIsSent'
  <2>1. pc' = [pc EXCEPT ![q] = "log"]
    BY <1>12, FailsResp
  <2>2. ASSUME NEW status, NEW codes,
               resp' = [resp EXCEPT ![q] = Envelope(q, status, codes)],
               \A i \in DOMAIN codes : codes[i] \in Public,
               bubbled' = bubbled
        PROVE  LoggedStatusIsSent'
    BY <1>12, <2>1, <2>2 DEF Fails
  <2>3. CASE resp' = resp /\ bubbled' = [bubbled EXCEPT ![q] = err]
    BY <1>12, <2>1, <2>3 DEF Fails
  <2> QED
    BY <1>12, <2>2, <2>3, FailsResp
<1>13. ASSUME NEW q \in Requests, BindRequest(q) PROVE LoggedStatusIsSent'
  BY <1>13, <1>12, BindEnds
<1>14. CASE UNCHANGED vars
  BY <1>14 DEF vars
<1> QED
  BY <1>1, <1>2, <1>3, <1>4, <1>5, <1>6, <1>7, <1>8, <1>9, <1>10, <1>11,
     <1>12, <1>13, <1>14, FailingActions DEF Next

\* As long as DefaultStatus keeps its default, the access log's guess is right for
\* every error and every request.
THEOREM LoggedCorrect ==
    ASSUME DefaultStatus = 500
    PROVE  Spec => []LoggedStatusIsSent
<1>1. Init => LoggedStatusIsSent
  BY DEF Init, LoggedStatusIsSent
<1>2. TypeOK /\ Quiet /\ LoggedStatusIsSent /\ [Next]_vars => LoggedStatusIsSent'
  BY LoggedStep
<1> QED
  BY <1>1, <1>2, QuietCorrect, TypeCorrect, PTL DEF Spec


-------------------------------------------------------------------------------
Cases == Seq([status : Nat, errors : Seq(Entry)])

LEMMA OneElement ==
    ASSUME NEW x
    PROVE  SubSeq(<<x>>, 1, 1) = <<x>> /\ Len(<<x>>) = 1 /\ <<x>>[1] = x
           /\ <<x>> # <<>> /\ DOMAIN <<x>> = {1}
<1>1. Len(<<x>>) = 1 /\ <<x>>[1] = x /\ <<x>> # <<>> /\ DOMAIN <<x>> = {1}
  OBVIOUS
<1>2. <<x>> \in Seq({x})
  OBVIOUS
<1>4. SubSeq(<<x>>, 1, 1) = <<x>>
  BY <1>1, <1>2, SubSeqFull, Zenon
<1> QED
  BY <1>1, <1>4

\* A canonical error is the one structured error As finds in it.
LEMMA CanonicalError ==
    ASSUME NEW e
    PROVE  /\ AsErrors(Canonical(e)) = <<Canonical(e)>>
           /\ Canonical(e)[1].k = "entry" /\ Canonical(e)[1].e = e
           /\ \A t : Is(Canonical(e), t) <=> t # Anonymous /\ t = e
<1> DEFINE l == [Link("entry") EXCEPT !.e = e]
<1>1. l = [k |-> "entry", e |-> e, code |-> 0, parts |-> <<>>]
  BY DEF Link
<1>2. l.k = "entry" /\ l.e = e
  BY <1>1
<1>3. Canonical(e) = <<l>>
  BY DEF Canonical
<1> HIDE DEF l
<1>4. {i \in DOMAIN Canonical(e) : Canonical(e)[i].k = "entry"} = {1}
  BY <1>2, <1>3, OneElement
<1>5. Min({1}) = 1
  BY MinOf
<1>6. FirstEntry(Canonical(e)) = <<l>>
  BY <1>3, <1>4, <1>5, OneElement DEF FirstEntry
<1>7. Canonical(e) # Nil /\ Canonical(e)[1] = l
  BY <1>3, OneElement DEF Nil
<1>8. AsErrors(Canonical(e)) = <<Canonical(e)>>
  BY <1>2, <1>3, <1>6, <1>7 DEF AsErrors
<1>9. Spine(Canonical(e)) = {e}
  BY <1>2, <1>3, <1>4, OneElement DEF Spine
<1>10. ASSUME NEW kind \in {"many", "join"} PROVE PartSpines(Canonical(e), kind) = {}
  <2>1. ~Ends(Canonical(e), kind)
    BY <1>2, <1>3, OneElement DEF Ends
  <2>2. Parts(Canonical(e), kind) = <<>>
    BY <2>1 DEF Parts
  <2>3. DOMAIN Parts(Canonical(e), kind) = {}
    BY <2>2
  <2> QED
    BY <2>3 DEF PartSpines
<1>11. \A t : Is(Canonical(e), t) <=> t # Anonymous /\ t = e
  BY <1>9, <1>10 DEF Is
<1> QED
  BY <1>2, <1>7, <1>8, <1>11

\* The entries declared at a status: those of the cases of that status.
LEMMA DeclaredElements ==
    ASSUME NEW cases \in Cases, NEW status
    PROVE  /\ DeclaredAt(cases, status) \in Seq(Entry)
           /\ \A t \in ToSet(DeclaredAt(cases, status)) :
                \E i \in DOMAIN cases :
                  cases[i].status = status /\ t \in ToSet(cases[i].errors)
           /\ HasStatus(cases, status) => DeclaredAt(cases, status) # <<>>
<1> DEFINE parts == [i \in DOMAIN cases |->
                       IF cases[i].status = status THEN cases[i].errors ELSE <<>>]
<1>1. cases \in Seq([status : Nat, errors : Seq(Entry)])
  BY DEF Cases
<1>2. \A i \in DOMAIN cases : cases[i].errors \in Seq(Entry)
  <2>1. \A i \in 1..Len(cases) : cases[i] \in [status : Nat, errors : Seq(Entry)]
    BY <1>1, ElementOfSeq
  <2>2. DOMAIN cases = 1..Len(cases)
    BY <1>1
  <2> QED
    BY <2>1, <2>2
<1>3. DOMAIN cases = 1..Len(cases) /\ Len(cases) \in Nat
  BY <1>1
<1>4. parts \in Seq(Seq(Entry))
  <2>1. \A i \in DOMAIN cases : parts[i] \in Seq(Entry)
    BY <1>2
  <2> QED
    BY <1>3, <2>1
<1>5. DOMAIN parts = DOMAIN cases
  OBVIOUS
<1>6. DeclaredAt(cases, status) = FlattenSeq(parts)
  BY DEF DeclaredAt
<1>7. \A i \in DOMAIN cases :
        parts[i] = IF cases[i].status = status THEN cases[i].errors ELSE <<>>
  OBVIOUS
<1> HIDE DEF parts
<1>8. /\ FlattenSeq(parts) \in Seq(Entry)
      /\ ToSet(FlattenSeq(parts)) = UNION {ToSet(parts[i]) : i \in DOMAIN parts}
  BY <1>4, FlattenElements
<1>9. ToSet(<<>>) = {}
  BY DEF ToSet
<1>10. \A t \in ToSet(DeclaredAt(cases, status)) :
         \E i \in DOMAIN cases :
           cases[i].status = status /\ t \in ToSet(cases[i].errors)
  BY <1>5, <1>6, <1>7, <1>8, <1>9
<1>11. HasStatus(cases, status) => DeclaredAt(cases, status) # <<>>
  <2> SUFFICES ASSUME HasStatus(cases, status)
               PROVE  ToSet(DeclaredAt(cases, status)) # {}
    BY <1>9
  <2>1. PICK i \in DOMAIN cases :
          cases[i].status = status /\ cases[i].errors # <<>>
    BY DEF HasStatus
  <2>2. cases[i].errors[1] \in ToSet(parts[i])
    BY <1>2, <1>7, <2>1 DEF ToSet
  <2> QED
    BY <1>5, <1>6, <1>8, <2>1, <2>2
<1> QED
  BY <1>6, <1>8, <1>10, <1>11

\* On an accepted route an entry is declared at the status of its kind only.
LEMMA CanonicalStatus ==
    ASSUME NEW cases \in Cases, ErrCasesValid(cases),
           NEW n \in DOMAIN cases, NEW t \in ToSet(cases[n].errors)
    PROVE  /\ t \in Public /\ StatusOf[t] = cases[n].status
           /\ Declared(cases, Canonical(t))
           /\ DeclaredStatus(cases, Canonical(t)) = StatusOf[t]
<1>1. cases \in Seq([status : Nat, errors : Seq(Entry)])
  BY DEF Cases
<1>2. PICK j \in DOMAIN cases[n].errors : cases[n].errors[j] = t
  BY DEF ToSet
<1>3. t \in Public /\ StatusOf[t] = cases[n].status
  BY <1>2 DEF ErrCasesValid
<1>4. t \in Entry /\ t # Anonymous
  BY <1>3, CatalogAssumption, AnonymousAssumption
<1> DEFINE hits == {i \in DOMAIN cases : DeclaresIn(cases[i], Canonical(t))}
<1>5. DeclaresIn(cases[n], Canonical(t))
  BY <1>2, <1>4, CanonicalError DEF DeclaresIn
<1>6. hits # {} /\ hits \subseteq Nat
  BY <1>1, <1>5
<1>7. Min(hits) \in hits
  BY <1>6, MinOf
<1>8. ASSUME NEW i \in hits PROVE cases[i].status = StatusOf[t]
  <2>1. PICK k \in DOMAIN cases[i].errors : Is(Canonical(t), cases[i].errors[k])
    BY DEF DeclaresIn
  <2>2. cases[i].errors[k] = t
    BY <2>1, CanonicalError
  <2> QED
    BY <2>2 DEF ErrCasesValid
<1>9. DeclaredStatus(cases, Canonical(t)) = StatusOf[t]
  BY <1>7, <1>8 DEF DeclaredStatus
<1> QED
  BY <1>3, <1>5, <1>9 DEF Declared

\* The template a failure is a clone of is one of the templates.
LEMMA TemplateFound ==
    ASSUME NEW templates \in Seq(Entry), templates # <<>>, NEW source
    PROVE  MatchTemplate(templates, source) \in ToSet(templates)
<1>1. ASSUME NEW S \in SUBSET DOMAIN templates, S # {}
      PROVE  templates[Min(S)] \in ToSet(templates)
  <2>1. S \subseteq Nat
    OBVIOUS
  <2>2. Min(S) \in DOMAIN templates
    BY <1>1, <2>1, MinOf
  <2> QED
    BY <2>2 DEF ToSet
<1>2. templates[1] \in ToSet(templates)
  BY DEF ToSet
<1> QED
  BY <1>1, <1>2 DEF MatchTemplate

\* Whatever the struct, the request and the body, the binder's failures are clones
\* of the templates it is given.
LEMMA BindErrors ==
    ASSUME NEW fields, IsSequence(fields),
           NEW templates \in Seq(Entry), templates # <<>>, NEW bodied, NEW input
    PROVE  Bind(fields, templates, bodied, input).errs
             \in Seq({Canonical(t) : t \in ToSet(templates)})
<1> DEFINE E == {Canonical(t) : t \in ToSet(templates)}
<1>1. \A source : ValidationErr(templates, source) \in Seq(E)
  BY TemplateFound DEF ValidationErr
<1>2. <<>> \in Seq(E)
  OBVIOUS
<1>3. Len(fields) \in Nat /\ DOMAIN fields = 1..Len(fields)
  BY DEF IsSequence
<1> HIDE DEF E
<1>4. ASSUME NEW parts, DOMAIN parts = DOMAIN fields,
             parts = [i \in DOMAIN fields |-> parts[i]],
             \A i \in DOMAIN fields : parts[i] \in Seq(E)
      PROVE  FlattenSeq(parts) \in Seq(E)
  <2>1. parts \in Seq(Seq(E))
    BY <1>3, <1>4
  <2> QED
    BY <2>1, FlattenElements
<1>5. ASSUME NEW sent PROVE BindStruct(fields, sent, templates) \in Seq(E)
  BY <1>1, <1>2, <1>4 DEF BindStruct
<1>6. ASSUME NEW values PROVE ValidateStruct(fields, values, templates) \in Seq(E)
  BY <1>1, <1>2, <1>4 DEF ValidateStruct
<1>7. ASSUME NEW sent, NEW body PROVE BindBody(fields, sent, body, templates) \in Seq(E)
  BY <1>1, <1>2 DEF BindBody
<1>8. Bind(fields, templates, bodied, input).errs \in Seq(E)
  BY <1>2, <1>5, <1>6, <1>7 DEF Bind
<1> QED
  BY <1>8 DEF E

-------------------------------------------------------------------------------
\* A suffix of a chain shows nothing the chain does not.
LEMMA SuffixShows ==
    ASSUME NEW err, IsSequence(err), NEW m \in 1..Len(err)
    PROVE  /\ Spine(SubSeq(err, m, Len(err))) \subseteq Spine(err)
           /\ \A kind : Parts(SubSeq(err, m, Len(err)), kind) = Parts(err, kind)
<1> DEFINE S == {err[i] : i \in DOMAIN err}
           s == SubSeq(err, m, Len(err))
<1>1. err \in Seq(S) /\ Len(err) \in Nat /\ DOMAIN err = 1..Len(err)
  BY DEF IsSequence
<1> HIDE DEF S
<1>2. \A i \in m..Len(err) : err[i] \in S
  BY <1>1
<1>3. /\ s \in Seq(S) /\ Len(s) = Len(err) - m + 1
      /\ \A i \in 1..(Len(err) - m + 1) : s[i] = err[m + i - 1]
  BY <1>1, <1>2, SubSeqProperties
<1>4. DOMAIN s = 1..(Len(err) - m + 1)
  BY <1>1, <1>3
<1> HIDE DEF s
<1>5. Spine(s) \subseteq Spine(err)
  <2> SUFFICES ASSUME NEW i \in DOMAIN s, s[i].k = "entry"
               PROVE  s[i].e \in Spine(err)
    BY DEF Spine
  <2>1. m + i - 1 \in DOMAIN err /\ s[i] = err[m + i - 1]
    BY <1>1, <1>3, <1>4
  <2> QED
    BY <2>1 DEF Spine
<1>6. s # Nil /\ err # Nil /\ s[Len(s)] = err[Len(err)]
  BY <1>1, <1>3, <1>4 DEF Nil
<1>7. \A kind : Parts(s, kind) = Parts(err, kind)
  BY <1>6 DEF Parts, Ends
<1> QED
  BY <1>5, <1>7 DEF s

LEMMA SameParts ==
    ASSUME NEW a, NEW b, \A kind : Parts(a, kind) = Parts(b, kind)
    PROVE  \A kind : PartSpines(a, kind) = PartSpines(b, kind)
  BY DEF PartSpines

LEMMA ChainShows ==
    ASSUME NEW err, IsChain(err)
    PROVE  \A kind \in Collections : Parts(err, kind) = <<>> /\ PartSpines(err, kind) = {}
<1>1. IsSequence(err) /\ \A i \in DOMAIN err : err[i].k \notin Collections
  BY DEF IsChain
<1>2. Len(err) \in Nat /\ DOMAIN err = 1..Len(err) /\ (err # Nil => Len(err) # 0)
  BY <1>1 DEF IsSequence, Nil
<1>3. ASSUME NEW kind \in Collections PROVE Parts(err, kind) = <<>>
  BY <1>1, <1>2 DEF Parts, Ends
<1>4. \A kind \in Collections : DOMAIN Parts(err, kind) = {}
  BY <1>3
<1> QED
  BY <1>3, <1>4 DEF PartSpines

\* What errors.Is finds in an error that AsErrors returns, it finds in the error.
LEMMA AsErrorsShow ==
    ASSUME NEW err, IsError(err), NEW i \in DOMAIN AsErrors(err), NEW t,
           Is(AsErrors(err)[i], t)
    PROVE  Is(err, t)
<1> DEFINE es == AsErrors(err)
           At(chain) == {j \in DOMAIN chain : chain[j].k = "entry"}
           Suffix(chain) == SubSeq(chain, Min(At(chain)), Len(chain))
           parts == Parts(err, "join")
           hits == {j \in DOMAIN parts : At(parts[j]) # {}}
<1>1. /\ IsSequence(err) /\ Len(err) \in Nat /\ DOMAIN err = 1..Len(err)
      /\ err # Nil => Len(err) # 0
  BY DEF IsError, IsSequence, Nil
<1>2. ASSUME NEW kind \in Collections, Ends(err, kind)
      PROVE  /\ Parts(err, kind) = err[Len(err)].parts
             /\ IsSequence(Parts(err, kind))
             /\ \A j \in DOMAIN Parts(err, kind) : IsChain(Parts(err, kind)[j])
  <2>1. err # Nil /\ err[Len(err)].k = kind
    BY <1>2 DEF Ends
  <2>2. Len(err) \in DOMAIN err
    BY <1>1, <2>1
  <2>3. Parts(err, kind) = err[Len(err)].parts
    BY <1>2 DEF Parts
  <2>4. err[Len(err)].k \in Collections
    BY <2>1
  <2> QED
    BY <2>2, <2>3, <2>4 DEF IsError
<1>3. ASSUME NEW chain, IsSequence(chain), At(chain) # {}
      PROVE  Min(At(chain)) \in 1..Len(chain)
  <2>1. DOMAIN chain = 1..Len(chain) /\ Len(chain) \in Nat
    BY <1>3 DEF IsSequence
  <2>2. At(chain) \in SUBSET Nat
    BY <2>1
  <2>3. Min(At(chain)) \in At(chain)
    BY <1>3, <2>2, MinOf
  <2> QED
    BY <2>1, <2>3
<1>4. t # Anonymous
  BY DEF Is
<1>5. CASE err # Nil /\ err[1].k = "many" /\ err[1].parts # <<>>
  <2>1. es = err[1].parts
    BY <1>5 DEF AsErrors
  <2>2. 1 \in DOMAIN err
    BY <1>1, <1>5
  <2>3. Len(err) = 1
    BY <1>5, <2>2 DEF IsError, Collections
  <2>4. Ends(err, "many") /\ "many" \in Collections
    BY <1>5, <2>3 DEF Ends, Collections
  <2>5. es = Parts(err, "many") /\ IsChain(es[i])
    BY <1>2, <2>1, <2>3, <2>4
  <2>6. t \in Spine(es[i])
    BY <2>5, ChainShows DEF Is, Collections
  <2>7. t \in PartSpines(err, "many")
    BY <2>5, <2>6 DEF PartSpines
  <2> QED
    BY <1>4, <2>7 DEF Is
<1>6. CASE ~(err # Nil /\ err[1].k = "many" /\ err[1].parts # <<>>)
  <2>1. es = IF FirstEntry(err) = Nil THEN <<>> ELSE <<FirstEntry(err)>>
    BY <1>6 DEF AsErrors
  <2>2. FirstEntry(err) # Nil /\ es[i] = FirstEntry(err)
    BY <2>1
  <2>3. CASE At(err) # {}
    <3>1. FirstEntry(err) = Suffix(err)
      BY <2>3 DEF FirstEntry
    <3>2. Min(At(err)) \in 1..Len(err)
      BY <1>1, <1>3, <2>3
    <3>3. /\ Spine(Suffix(err)) \subseteq Spine(err)
          /\ \A kind : Parts(Suffix(err), kind) = Parts(err, kind)
      BY <1>1, <3>2, SuffixShows
    <3>4. \A kind : PartSpines(Suffix(err), kind) = PartSpines(err, kind)
      BY <3>3, SameParts
    <3>5. Is(Suffix(err), t)
      BY <2>2, <3>1
    <3> HIDE DEF Suffix
    <3> QED
      BY <3>3, <3>4, <3>5 DEF Is
  <2>4. CASE At(err) = {}
    <3>1. hits # {} /\ FirstEntry(err) = Suffix(parts[Min(hits)])
      BY <2>2, <2>4 DEF FirstEntry
    <3>2. Ends(err, "join") /\ "join" \in Collections
      <4>1. ASSUME parts = <<>> PROVE FALSE
        <5>1. DOMAIN parts = {}
          BY <4>1
        <5>2. hits = {}
          BY <5>1
        <5> QED
          BY <3>1, <5>2
      <4> QED
        BY <4>1 DEF Parts, Collections
    <3>3. IsSequence(parts) /\ \A j \in DOMAIN parts : IsChain(parts[j])
      BY <1>2, <3>2
    <3>4. hits \in SUBSET Nat
      BY <3>3 DEF IsSequence
    <3>5. Min(hits) \in hits
      BY <3>1, <3>4, MinOf
    <3> DEFINE part == parts[Min(hits)]
    <3>6. IsChain(part) /\ IsSequence(part) /\ At(part) # {} /\ Min(hits) \in DOMAIN parts
      BY <3>3, <3>5 DEF IsChain
    <3>7. Min(At(part)) \in 1..Len(part)
      BY <1>3, <3>6
    <3>8. /\ Spine(Suffix(part)) \subseteq Spine(part)
          /\ \A kind : Parts(Suffix(part), kind) = Parts(part, kind)
      BY <3>6, <3>7, SuffixShows
    <3>9. Is(Suffix(part), t)
      BY <2>2, <3>1
    <3>10. \A kind : PartSpines(Suffix(part), kind) = PartSpines(part, kind)
      BY <3>8, SameParts
    <3>11. \A kind \in {"many", "join"} : PartSpines(part, kind) = {}
      BY <3>6, ChainShows DEF Collections
    <3> HIDE DEF Suffix
    <3>12. t \in Spine(part)
      BY <3>8, <3>9, <3>10, <3>11 DEF Is
    <3>13. t \in PartSpines(err, "join")
      BY <3>6, <3>12 DEF PartSpines
    <3> QED
      BY <1>4, <3>13 DEF Is
  <2> QED
    BY <2>3, <2>4
<1> QED
  BY <1>5, <1>6

\* An error with a resolved status is declared.
LEMMA ResolvedIsDeclared ==
    ASSUME NEW cases, NEW err, IsError(err), ResolveStatus(cases, err) # 0
    PROVE  Declared(cases, err)
<1>1. AsErrors(err) # <<>> /\ \A i \in DOMAIN AsErrors(err) : Declared(cases, AsErrors(err)[i])
  BY DEF ResolveStatus
<1>2. 1 \in DOMAIN AsErrors(err)
  <2>1. CASE err # Nil /\ err[1].k = "many" /\ err[1].parts # <<>>
    <3>1. 1 \in DOMAIN err
      BY <2>1 DEF IsError, IsSequence, Nil
    <3>2. IsSequence(err[1].parts)
      BY <2>1, <3>1 DEF IsError, Collections
    <3> QED
      BY <2>1, <3>2 DEF AsErrors, IsSequence
  <2>2. CASE ~(err # Nil /\ err[1].k = "many" /\ err[1].parts # <<>>)
    <3>1. AsErrors(err) = <<FirstEntry(err)>>
      BY <1>1, <2>2 DEF AsErrors
    <3> QED
      BY <3>1
  <2> QED
    BY <2>1, <2>2
<1>3. PICK i \in DOMAIN cases : DeclaresIn(cases[i], AsErrors(err)[1])
  BY <1>1, <1>2 DEF Declared
<1>4. PICK j \in DOMAIN cases[i].errors : Is(AsErrors(err)[1], cases[i].errors[j])
  BY <1>3 DEF DeclaresIn
<1>5. Is(err, cases[i].errors[j])
  BY <1>2, <1>4, AsErrorsShow
<1> QED
  BY <1>5 DEF Declared, DeclaresIn

-------------------------------------------------------------------------------
Answerable(cases, err) ==
  /\ ResolveStatus(cases, err) # 0
  /\ \A i \in DOMAIN AsErrors(err) : Defines(Public, AsErrors(err)[i])

LEMMA WriteEffect ==
    ASSUME NEW q \in Requests, NEW stage, NEW err, WriteHandlerError(q, stage, err)
    PROVE  /\ pc' = [pc EXCEPT ![q] = "log"]
           /\ failedAt' = [failedAt EXCEPT ![q] = stage]
           /\ cause' = [cause EXCEPT ![q] = err]
           /\ \/ /\ Answerable(route.cases, err)
                 /\ resp' = [resp EXCEPT ![q] =
                      Envelope(q, ResolveStatus(route.cases, err), Codes(err))]
                 /\ bubbled' = bubbled
              \/ /\ ~Answerable(route.cases, err)
                 /\ resp' = resp /\ bubbled' = [bubbled EXCEPT ![q] = err]
<1>1. Answers(err) <=> Answerable(route.cases, err)
  BY DEF Answers, Answerable
<1> QED
  BY <1>1 DEF WriteHandlerError

\* A step leaves the history of failures alone, keeps a Verify error, or fails a
\* request under way.
Steady == UNCHANGED <<route, forbidden, unauthorized, failedAt, cause>>
FailsAt(q, stage, err) ==
  /\ pc[q] \in Underway
  /\ WriteHandlerError(q, stage, err)
  /\ UNCHANGED <<route, forbidden, unauthorized>>
BindErr(q) ==
  Many(Bind(route.fields, DeclaredAt(route.cases, 422), route.bodied, req[q].input).errs)

LEMMA HistoryStep ==
    ASSUME [Next]_vars
    PROVE  \/ Steady
           \/ \E q \in Requests :
                \/ VerifyFails(q)
                \/ Refuse(q)
                \/ \E err : FailsAt(q, "afterAuth", err) \/ FailsAt(q, "handler", err)
                \/ BindErr(q) # Many(<<>>) /\ FailsAt(q, "bind", BindErr(q))
<1>1. CASE UNCHANGED vars
  BY <1>1 DEF vars, Steady
<1>2. ASSUME NEW q \in Requests,
             \/ Arrive(q) \/ SkipRequirement(q) \/ VerifyAccepts(q)
             \/ MiddlewarePasses(q) \/ HandlerSucceeds(q) \/ Fill(q) \/ Marshal(q)
             \/ AccessLog(q) \/ Panic(q) \/ ErrorHandler(q)
      PROVE  Steady
  BY <1>2 DEF Steady, Arrive, SkipRequirement, VerifyAccepts, MiddlewarePasses,
     HandlerSucceeds, Fill, Marshal, AccessLog, Panic, ErrorHandler
<1>3. ASSUME NEW q \in Requests, MiddlewareStops(q)
      PROVE  \E err : FailsAt(q, "afterAuth", err)
  BY <1>3 DEF MiddlewareStops, AtMiddleware, FailsAt, Underway
<1>4. ASSUME NEW q \in Requests, HandlerFails(q)
      PROVE  \E err : FailsAt(q, "handler", err)
  BY <1>4 DEF HandlerFails, FailsAt, Underway, Running
<1>5. ASSUME NEW q \in Requests, BindRequest(q)
      PROVE  Steady \/ (BindErr(q) # Many(<<>>) /\ FailsAt(q, "bind", BindErr(q)))
  <2> DEFINE b == Bind(route.fields, DeclaredAt(route.cases, 422), route.bodied,
                       req[q].input)
  <2>1. /\ pc[q] = "afterAuth"
        /\ UNCHANGED <<route, forbidden, unauthorized>>
        /\ IF b.errs = <<>> THEN UNCHANGED <<failedAt, cause>>
           ELSE WriteHandlerError(q, "bind", Many(b.errs))
    BY <1>5 DEF BindRequest
  <2>2. BindErr(q) = Many(b.errs)
    BY DEF BindErr
  <2> HIDE DEF b
  <2>3. b.errs # <<>> => Many(b.errs) # Many(<<>>)
    BY DEF Many, Link
  <2> QED
    BY <2>1, <2>2, <2>3 DEF Steady, FailsAt, Underway
<1> QED
  BY <1>1, <1>2, <1>3, <1>4, <1>5 DEF Next

\* What handleHandlerError answered with stands: nothing is returned to Fiber as
\* well, and the global error handler's turn never comes.
ErrorStands ==
  /\ DOMAIN failedAt = Requests /\ DOMAIN cause = Requests
  /\ \A q \in Requests : failedAt[q] # None =>
       /\ pc[q] \in {"log", "errorHandler", "done"}
       /\ Answerable(route.cases, cause[q]) =>
            /\ pc[q] # "errorHandler" /\ bubbled[q] = Nil
            /\ resp[q] = Envelope(q, ResolveStatus(route.cases, cause[q]),
                                  Codes(cause[q]))

LEMMA StandsStep ==
    TypeOK /\ Quiet /\ ErrorStands /\ [Next]_vars => ErrorStands'
<1> SUFFICES ASSUME TypeOK, Quiet, ErrorStands, [Next]_vars PROVE ErrorStands'
  OBVIOUS
<1> USE DEF TypeOK, ErrorStands, Running
<1>1. ASSUME NEW q \in Requests, Arrive(q) PROVE ErrorStands'
  BY <1>1 DEF Arrive
<1>2. ASSUME NEW q \in Requests, SkipRequirement(q) PROVE ErrorStands'
  BY <1>2 DEF SkipRequirement, AtGuard
<1>3. ASSUME NEW q \in Requests, VerifyAccepts(q) PROVE ErrorStands'
  BY <1>3 DEF VerifyAccepts, AtGuard
<1>4. ASSUME NEW q \in Requests, VerifyFails(q) PROVE ErrorStands'
  BY <1>4 DEF VerifyFails, AtGuard
<1>5. ASSUME NEW q \in Requests, MiddlewarePasses(q) PROVE ErrorStands'
  BY <1>5 DEF MiddlewarePasses, AtMiddleware
<1>6. ASSUME NEW q \in Requests, HandlerSucceeds(q) PROVE ErrorStands'
  BY <1>6 DEF HandlerSucceeds
<1>7. ASSUME NEW q \in Requests, Fill(q) PROVE ErrorStands'
  BY <1>7 DEF Fill
<1>8. ASSUME NEW q \in Requests, Marshal(q) PROVE ErrorStands'
  BY <1>8 DEF Marshal
<1>9. ASSUME NEW q \in Requests, AccessLog(q) PROVE ErrorStands'
  <2>1. /\ pc[q] = "log"
        /\ pc' = [pc EXCEPT ![q] = IF bubbled[q] = Nil THEN "done" ELSE "errorHandler"]
        /\ UNCHANGED <<route, bubbled, resp, failedAt, cause>>
    BY <1>9 DEF AccessLog
  <2> QED
    BY <2>1
<1>10. ASSUME NEW q \in Requests, Panic(q) PROVE ErrorStands'
  <2>1. /\ failedAt[q] = None
        /\ pc' = [pc EXCEPT ![q] = "errorHandler"]
        /\ bubbled' = [bubbled EXCEPT ![q] = Plain]
        /\ UNCHANGED <<route, resp, failedAt, cause>>
    BY <1>10 DEF Panic, AtGuard, AtMiddleware
  <2> QED
    BY <2>1
<1>11. ASSUME NEW q \in Requests, ErrorHandler(q) PROVE ErrorStands'
  <2>1. PICK codes :
          resp' = [resp EXCEPT ![q] = Envelope(q, SentStatus(bubbled[q]), codes)]
    BY <1>11, HandlerSends
  <2>2. /\ pc[q] = "errorHandler" /\ pc' = [pc EXCEPT ![q] = "done"]
        /\ UNCHANGED <<route, bubbled, failedAt, cause>>
    BY <1>11 DEF ErrorHandler
  <2> QED
    BY <2>1, <2>2
<1>12. ASSUME NEW q \in Requests, NEW stage, NEW err,
              WriteHandlerError(q, stage, err), pc[q] \in Underway, route' = route
       PROVE  ErrorStands'
  <2>1. bubbled[q] = Nil
    BY <1>12 DEF Quiet
  <2> QED
    BY <1>12, <2>1, WriteEffect DEF Envelope
<1>13. ASSUME NEW q \in Requests, Refuse(q) PROVE ErrorStands'
  BY <1>12, <1>13 DEF Refuse, Underway
<1>14. ASSUME NEW q \in Requests, MiddlewareStops(q) PROVE ErrorStands'
  BY <1>12, <1>14 DEF MiddlewareStops, AtMiddleware, Underway
<1>15. ASSUME NEW q \in Requests, HandlerFails(q) PROVE ErrorStands'
  BY <1>12, <1>15 DEF HandlerFails, Underway
<1>16. ASSUME NEW q \in Requests, BindRequest(q) PROVE ErrorStands'
  <2> DEFINE b == Bind(route.fields, DeclaredAt(route.cases, 422), route.bodied,
                       req[q].input)
  <2>1. /\ pc[q] = "afterAuth" /\ route' = route
        /\ IF b.errs = <<>>
           THEN /\ pc' = [pc EXCEPT ![q] = "call"]
                /\ UNCHANGED <<failedAt, cause, resp, bubbled>>
           ELSE WriteHandlerError(q, "bind", Many(b.errs))
    BY <1>16 DEF BindRequest
  <2> HIDE DEF b
  <2>2. CASE b.errs = <<>>
    BY <2>1, <2>2
  <2>3. CASE b.errs # <<>>
    BY <1>12, <2>1, <2>3 DEF Underway
  <2> QED
    BY <2>2, <2>3
<1>17. CASE UNCHANGED vars
  BY <1>17 DEF vars
<1> QED
  BY <1>1, <1>2, <1>3, <1>4, <1>5, <1>6, <1>7, <1>8, <1>9, <1>10, <1>11,
     <1>13, <1>14, <1>15, <1>16, <1>17 DEF Next

LEMMA StandsCorrect == Spec => []ErrorStands
<1>1. Init => ErrorStands
  BY DEF Init, ErrorStands
<1> QED
  BY <1>1, StandsStep, QuietCorrect, TypeCorrect, PTL DEF Spec

-------------------------------------------------------------------------------
LEMMA RouteTypes ==
    ASSUME TypeOK
    PROVE  /\ route \in Routes /\ Accepted(route)
           /\ route.cases \in Cases /\ ErrCasesValid(route.cases)
           /\ IsSequence(route.fields) /\ IsSequence(route.security)
  BY RouteAssumption DEF TypeOK, Accepted, Cases

\* What one entry the route declares is resolved to.
LEMMA DeclaredEntry ==
    ASSUME TypeOK, NEW status \in Nat, NEW t \in ToSet(DeclaredAt(route.cases, status))
    PROVE  /\ t \in Public
           /\ Declared(route.cases, Canonical(t))
           /\ DeclaredStatus(route.cases, Canonical(t)) = status
<1>1. PICK i \in DOMAIN route.cases :
        route.cases[i].status = status /\ t \in ToSet(route.cases[i].errors)
  BY RouteTypes, DeclaredElements
<1> QED
  BY <1>1, RouteTypes, CanonicalStatus

\* The entry the guard falls back on: the first that the route declares at 401.
LEMMA Fallback ==
    ASSUME TypeOK, route.security # <<>>
    PROVE  LET err == Canonical(DeclaredAt(route.cases, 401)[1]) IN
           /\ ResolveStatus(route.cases, err) = 401
           /\ Declared(route.cases, err)
<1> DEFINE t == DeclaredAt(route.cases, 401)[1]
<1>1. HasStatus(route.cases, 401)
  BY RouteTypes DEF Accepted, SecuredRouteValid
<1>2. /\ DeclaredAt(route.cases, 401) \in Seq(Entry)
      /\ DeclaredAt(route.cases, 401) # <<>>
  BY <1>1, RouteTypes, DeclaredElements
<1>3. t \in ToSet(DeclaredAt(route.cases, 401))
  <2> DEFINE d == DeclaredAt(route.cases, 401)
  <2>1. d \in Seq(Entry) /\ d # <<>>
    BY <1>2
  <2> HIDE DEF d
  <2>2. 1 \in DOMAIN d
    BY <2>1
  <2>3. d[1] \in ToSet(d)
    BY <2>2 DEF ToSet
  <2> QED
    BY <2>3 DEF d
<1>4. /\ Declared(route.cases, Canonical(t))
      /\ DeclaredStatus(route.cases, Canonical(t)) = 401
  BY <1>3, DeclaredEntry
<1>5. /\ AsErrors(Canonical(t)) = <<Canonical(t)>>
      /\ DOMAIN <<Canonical(t)>> = {1} /\ <<Canonical(t)>>[1] = Canonical(t)
      /\ <<Canonical(t)>> # <<>>
  BY CanonicalError
<1> HIDE DEF t
<1>6. {DeclaredStatus(route.cases, AsErrors(Canonical(t))[i]) :
         i \in DOMAIN AsErrors(Canonical(t))} = {401}
  BY <1>4, <1>5
<1>7. ResolveStatus(route.cases, Canonical(t)) = 401
  BY <1>4, <1>5, <1>6, MaxOfOne DEF ResolveStatus
<1> QED
  BY <1>4, <1>7 DEF t

\* The errors the guard keeps are declared at 403 and at 401, and it turns a
\* request away with one that is.
RefusalCause ==
  /\ DOMAIN failedAt = Requests /\ DOMAIN cause = Requests
  /\ DOMAIN forbidden = Requests /\ DOMAIN unauthorized = Requests
  /\ \A q \in Requests :
       /\ pc[q] = "guard" => route.security # <<>>
       /\ forbidden[q] # Nil =>
            IsError(forbidden[q]) /\ ResolveStatus(route.cases, forbidden[q]) = 403
       /\ unauthorized[q] # Nil =>
            IsError(unauthorized[q]) /\ ResolveStatus(route.cases, unauthorized[q]) = 401
       /\ failedAt[q] = "guard" =>
            /\ ResolveStatus(route.cases, cause[q]) \in {401, 403}
            /\ ResolveStatus(route.cases, cause[q]) = 403 => forbidden[q] # Nil
            /\ Declared(route.cases, cause[q])

LEMMA GuardStep ==
    ASSUME TypeOK, [Next]_vars,
           \A q \in Requests : pc[q] = "guard" => route.security # <<>>
    PROVE  /\ route' = route
           /\ \A q \in Requests : pc'[q] = "guard" => route.security # <<>>
<1> USE DEF TypeOK, Running
<1> DEFINE Kept == /\ route' = route
                   /\ \A q \in Requests : pc'[q] = "guard" => route.security # <<>>
<1>1. ASSUME NEW q \in Requests, Arrive(q) PROVE Kept
  BY <1>1 DEF Arrive
<1>2. ASSUME NEW q \in Requests,
             \/ SkipRequirement(q) \/ VerifyAccepts(q) \/ VerifyFails(q)
             \/ MiddlewarePasses(q) \/ HandlerSucceeds(q) \/ Fill(q) \/ Marshal(q)
      PROVE  Kept
  BY <1>2 DEF SkipRequirement, VerifyAccepts, VerifyFails, MiddlewarePasses,
     HandlerSucceeds, Fill, Marshal
<1>3. ASSUME NEW q \in Requests, AccessLog(q) \/ Panic(q) \/ ErrorHandler(q)
      PROVE  Kept
  BY <1>3 DEF AccessLog, Panic, ErrorHandler
<1>4. ASSUME NEW q \in Requests, NEW err, Fails(q, err) PROVE Kept
  BY <1>4, FailsResp DEF Fails
<1>5. ASSUME NEW q \in Requests, BindRequest(q) PROVE Kept
  BY <1>4, <1>5, BindEnds
<1>6. CASE UNCHANGED vars
  BY <1>6 DEF vars
<1> QED
  BY <1>1, <1>2, <1>3, <1>4, <1>5, <1>6, FailingActions DEF Next

LEMMA RefusalStep ==
    TypeOK /\ RefusalCause /\ [Next]_vars => RefusalCause'
<1> SUFFICES ASSUME TypeOK, RefusalCause, [Next]_vars PROVE RefusalCause'
  OBVIOUS
<1>1. route' = route /\ \A q \in Requests : pc'[q] = "guard" => route'.security # <<>>
  BY GuardStep DEF RefusalCause
<1>2. CASE Steady
  BY <1>1, <1>2 DEF RefusalCause, Steady
<1>3. ASSUME NEW q \in Requests, VerifyFails(q) PROVE RefusalCause'
  <2>1. PICK err \in VerifyErrors :
          LET status == ResolveStatus(route.cases, err) IN
          /\ forbidden' = [forbidden EXCEPT ![q] = IF status = 403 THEN err ELSE @]
          /\ unauthorized' = [unauthorized EXCEPT ![q] = IF status = 401 THEN err ELSE @]
    BY <1>3 DEF VerifyFails
  <2>2. IsError(err)
    BY ErrorAssumption
  <2>3. UNCHANGED <<failedAt, cause>> /\ pc[q] = "guard" /\ route' = route
    BY <1>3 DEF VerifyFails, AtGuard
  <2>4. ResolveStatus(route.cases, err) = 403 => err # Nil
    <3>1. FirstEntry(Nil) = Nil
      <4>1. Parts(Nil, "join") = <<>> /\ DOMAIN Nil = {}
        BY DEF Parts, Ends, Nil
      <4>2. DOMAIN Parts(Nil, "join") = {}
        BY <4>1
      <4> QED
        BY <4>1, <4>2 DEF FirstEntry
    <3>2. AsErrors(Nil) = <<>>
      BY <3>1 DEF AsErrors
    <3> QED
      BY <3>2 DEF ResolveStatus
  <2> QED
    BY <1>1, <2>1, <2>2, <2>3, <2>4 DEF RefusalCause
<1>4. ASSUME NEW q \in Requests, NEW stage \in {"afterAuth", "handler", "bind"}, NEW err,
             FailsAt(q, stage, err)
      PROVE  RefusalCause'
  <2>1. /\ failedAt' = [failedAt EXCEPT ![q] = stage]
        /\ cause' = [cause EXCEPT ![q] = err]
        /\ UNCHANGED <<route, forbidden, unauthorized>>
    BY <1>4, WriteEffect DEF FailsAt
  <2> QED
    BY <1>1, <2>1 DEF RefusalCause
<1>5. ASSUME NEW q \in Requests, Refuse(q) PROVE RefusalCause'
  <2> DEFINE err == IF forbidden[q] # Nil THEN forbidden[q]
                    ELSE IF unauthorized[q] # Nil THEN unauthorized[q]
                    ELSE Canonical(DeclaredAt(route.cases, 401)[1])
  <2>1. /\ failedAt' = [failedAt EXCEPT ![q] = "guard"]
        /\ cause' = [cause EXCEPT ![q] = err]
        /\ UNCHANGED <<route, forbidden, unauthorized>>
        /\ pc[q] = "guard"
    BY <1>5, WriteEffect DEF Refuse
  <2>2. /\ ResolveStatus(route.cases, err) \in {401, 403}
        /\ ResolveStatus(route.cases, err) = 403 => forbidden[q] # Nil
        /\ Declared(route.cases, err)
    <3>1. CASE forbidden[q] # Nil
      BY <3>1, ResolvedIsDeclared DEF RefusalCause
    <3>2. CASE forbidden[q] = Nil /\ unauthorized[q] # Nil
      BY <3>2, ResolvedIsDeclared DEF RefusalCause
    <3>3. CASE forbidden[q] = Nil /\ unauthorized[q] = Nil
      <4>1. route.security # <<>>
        BY <2>1 DEF RefusalCause
      <4> QED
        BY <3>3, <4>1, Fallback
    <3> QED
      BY <3>1, <3>2, <3>3
  <2> HIDE DEF err
  <2> QED
    BY <1>1, <2>1, <2>2 DEF RefusalCause
<1> QED
  BY <1>2, <1>3, <1>4, <1>5, HistoryStep

LEMMA CatalogAnswers ==
    ASSUME NEW err, NEW cases, InCatalog(err), ResolveStatus(cases, err) # 0
    PROVE  Answerable(cases, err)
  BY DEF InCatalog, Answerable

\* Whatever the alternatives and their Verify functions return, a request that is
\* turned away is answered 401 or 403, with what the route declares.
THEOREM RefusalCorrect == Spec => []RefusalIsDeclared
<1>1. Init => RefusalCause
  BY DEF Init, RefusalCause, None, Nil
<1>2. TypeOK /\ ErrorStands /\ RefusalCause => RefusalIsDeclared
  <2> SUFFICES ASSUME TypeOK, ErrorStands, RefusalCause,
                      NEW q \in Requests, failedAt[q] = "guard", InCatalog(cause[q])
               PROVE  /\ resp[q].status \in {401, 403}
                      /\ resp[q].status = 403 => forbidden[q] # Nil
                      /\ Declared(route.cases, cause[q])
    BY DEF RefusalIsDeclared
  <2>1. Answerable(route.cases, cause[q])
    BY CatalogAnswers DEF RefusalCause
  <2>2. resp[q] = Envelope(q, ResolveStatus(route.cases, cause[q]), Codes(cause[q]))
    BY <2>1 DEF ErrorStands, None
  <2>3. resp[q].status = ResolveStatus(route.cases, cause[q])
    BY <2>2 DEF Envelope
  <2> QED
    BY <2>3 DEF RefusalCause
<1> QED
  BY <1>1, <1>2, RefusalStep, StandsCorrect, TypeCorrect, PTL DEF Spec

\* A binding failure collects clones of the templates the route declares at 422.
BindCause ==
  /\ DOMAIN failedAt = Requests /\ DOMAIN cause = Requests
  /\ \A q \in Requests : failedAt[q] = "bind" /\ route.fields # <<>> =>
       \E errs \in Seq({Canonical(t) : t \in ToSet(DeclaredAt(route.cases, 422))}) :
         errs # <<>> /\ cause[q] = Many(errs)

LEMMA BindStep ==
    TypeOK /\ BindCause /\ [Next]_vars => BindCause'
<1> SUFFICES ASSUME TypeOK, BindCause, [Next]_vars PROVE BindCause'
  OBVIOUS
<1>1. CASE Steady
  BY <1>1 DEF BindCause, Steady
<1>2. ASSUME NEW q \in Requests, VerifyFails(q) PROVE BindCause'
  BY <1>2 DEF VerifyFails, BindCause
<1>3. ASSUME NEW q \in Requests, NEW stage, stage # "bind", NEW err,
             WriteHandlerError(q, stage, err), route' = route
      PROVE  BindCause'
  <2>1. /\ failedAt' = [failedAt EXCEPT ![q] = stage]
        /\ cause' = [cause EXCEPT ![q] = err]
    BY <1>3, WriteEffect
  <2> QED
    BY <1>3, <2>1 DEF BindCause
<1>4. ASSUME NEW q \in Requests, Refuse(q) PROVE BindCause'
  BY <1>3, <1>4 DEF Refuse
<1>5. ASSUME NEW q \in Requests, NEW stage \in {"afterAuth", "handler"}, NEW err,
             FailsAt(q, stage, err)
      PROVE  BindCause'
  BY <1>3, <1>5 DEF FailsAt
<1>6. ASSUME NEW q \in Requests, BindErr(q) # Many(<<>>), FailsAt(q, "bind", BindErr(q))
      PROVE  BindCause'
  <2> DEFINE templates == DeclaredAt(route.cases, 422)
             errs == Bind(route.fields, templates, route.bodied, req[q].input).errs
             E == {Canonical(t) : t \in ToSet(templates)}
  <2>1. /\ failedAt' = [failedAt EXCEPT ![q] = "bind"]
        /\ cause' = [cause EXCEPT ![q] = Many(errs)]
        /\ route' = route
    BY <1>6, WriteEffect DEF FailsAt, BindErr
  <2>2. templates \in Seq(Entry)
    BY RouteTypes, DeclaredElements
  <2>3. route.fields # <<>> => templates # <<>>
    BY RouteTypes DEF Accepted
  <2>4. route.fields # <<>> => errs \in Seq(E)
    BY <2>2, <2>3, RouteTypes, BindErrors
  <2>5. errs # <<>>
    BY <1>6 DEF BindErr
  <2> HIDE DEF errs
  <2> QED
    BY <2>1, <2>4, <2>5 DEF BindCause
<1> QED
  BY <1>1, <1>2, <1>4, <1>5, <1>6, HistoryStep

\* A collection of clones of what the route declares at 422 is answered 422.
LEMMA CollectionAnswers ==
    ASSUME TypeOK, NEW errs, errs # <<>>,
           errs \in Seq({Canonical(t) : t \in ToSet(DeclaredAt(route.cases, 422))})
    PROVE  /\ Answerable(route.cases, Many(errs))
           /\ ResolveStatus(route.cases, Many(errs)) = 422
           /\ \A i \in DOMAIN Codes(Many(errs)) :
                Codes(Many(errs))[i] \in ToSet(DeclaredAt(route.cases, 422))
<1> DEFINE E == {Canonical(t) : t \in ToSet(DeclaredAt(route.cases, 422))}
<1>1. AsErrors(Many(errs)) = errs
  <2>1. Many(errs) = <<[k |-> "many", e |-> Anonymous, code |-> 0, parts |-> errs]>>
    BY DEF Many, Link
  <2>2. Many(errs) # Nil /\ Many(errs)[1].k = "many" /\ Many(errs)[1].parts = errs
    BY <2>1 DEF Nil
  <2> QED
    BY <2>2 DEF AsErrors
<1>2. errs \in Seq(E)
  OBVIOUS
<1>3. /\ Len(errs) \in Nat /\ DOMAIN errs = 1..Len(errs) /\ 1 \in DOMAIN errs
      /\ \A i \in DOMAIN errs : errs[i] \in E
  BY <1>2, ElementOfSeq
<1>4. ASSUME NEW i \in DOMAIN errs
      PROVE  /\ Declared(route.cases, errs[i]) /\ DeclaredStatus(route.cases, errs[i]) = 422
             /\ errs[i][1].e \in ToSet(DeclaredAt(route.cases, 422))
             /\ Defines(Public, errs[i])
  <2>1. PICK t \in ToSet(DeclaredAt(route.cases, 422)) : errs[i] = Canonical(t)
    BY <1>3
  <2>2. errs[i][1].e = t /\ errs[i][1].k = "entry" /\ errs[i] # Nil
    <3>1. Canonical(t) # Nil
      BY DEF Canonical, Nil
    <3> QED
      BY <2>1, <3>1, CanonicalError
  <2>3. t \in Public
    BY DeclaredEntry
  <2> QED
    BY <2>1, <2>2, <2>3, DeclaredEntry DEF Defines
<1> DEFINE statuses == {DeclaredStatus(route.cases, errs[i]) : i \in DOMAIN errs}
<1>5. statuses = {422}
  BY <1>3, <1>4
<1>6. ResolveStatus(route.cases, Many(errs)) = 422
  <2>1. \A i \in DOMAIN errs : Declared(route.cases, errs[i])
    BY <1>4
  <2>2. ResolveStatus(route.cases, Many(errs)) = Max(statuses)
    BY <1>1, <2>1 DEF ResolveStatus
  <2> HIDE DEF statuses
  <2> QED
    BY <1>5, <2>2, MaxOfOne
<1>7. Answerable(route.cases, Many(errs))
  BY <1>1, <1>4, <1>6 DEF Answerable
<1>8. \A i \in DOMAIN Codes(Many(errs)) :
        Codes(Many(errs))[i] \in ToSet(DeclaredAt(route.cases, 422))
  BY <1>1, <1>4 DEF Codes
<1> QED
  BY <1>6, <1>7, <1>8

\* Whatever a struct's fields and a request, what cannot be bound is answered 422
\* with entries the route declares there.
THEOREM BindFailureCorrect == Spec => []BindFailureIs422
<1>1. Init => BindCause
  BY DEF Init, BindCause, None
<1>2. TypeOK /\ ErrorStands /\ BindCause => BindFailureIs422
  <2> SUFFICES ASSUME TypeOK, ErrorStands, BindCause,
                      NEW q \in Requests, failedAt[q] = "bind", route.fields # <<>>
               PROVE  /\ resp[q].status = 422
                      /\ \A i \in DOMAIN resp[q].codes :
                           resp[q].codes[i] \in ToSet(DeclaredAt(route.cases, 422))
    BY DEF BindFailureIs422
  <2>1. PICK errs \in Seq({Canonical(t) : t \in ToSet(DeclaredAt(route.cases, 422))}) :
          errs # <<>> /\ cause[q] = Many(errs)
    BY DEF BindCause
  <2>2. /\ Answerable(route.cases, cause[q])
        /\ ResolveStatus(route.cases, cause[q]) = 422
        /\ \A i \in DOMAIN Codes(cause[q]) :
             Codes(cause[q])[i] \in ToSet(DeclaredAt(route.cases, 422))
    BY <2>1, CollectionAnswers
  <2>3. resp[q] = Envelope(q, 422, Codes(cause[q]))
    BY <2>2 DEF ErrorStands, None
  <2> QED
    BY <2>2, <2>3 DEF Envelope
<1> QED
  BY <1>1, <1>2, BindStep, StandsCorrect, TypeCorrect, PTL DEF Spec
=============================================================================
