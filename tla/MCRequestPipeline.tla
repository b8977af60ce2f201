------------------------- MODULE MCRequestPipeline -------------------------
(* A public and an internal catalog, and the shapes of route and error that *)
(* the properties tell apart.                                              *)
EXTENDS RequestPipeline
MCStatusOf ==
  [unauthorized |-> 401, expired |-> 401, forbidden |-> 403, limited |-> 429,
   missing |-> 404, conflict |-> 409, invalid |-> 422, nameRequired |-> 422,
   emailInvalid |-> 422, unhandled |-> 500, notFound |-> 404, storeMissing |-> 404]
MCEntry == DOMAIN MCStatusOf
MCPublic == MCEntry \ {"storeMissing"}
MCSource ==
  [e \in MCEntry |-> IF e = "nameRequired" THEN <<"body", "name">>
                     ELSE IF e = "emailInvalid" THEN <<"body", "email">> ELSE <<>>]
MCPairs == <<<<"storeMissing", "missing">>>>
MCSchemes ==
  [token |-> [type |-> "bearer", verifies |-> TRUE],
   key |-> [type |-> "apiKeyQuery", verifies |-> TRUE],
   docs |-> [type |-> "basic", verifies |-> FALSE]]

Case(status, errors) == [status |-> status, errors |-> errors]
Auth == <<Case(401, <<"unauthorized", "expired">>), Case(403, <<"forbidden">>)>>
Text(in, name, required) ==
  [in |-> in, name |-> name, kind |-> "string", bits |-> 0, required |-> required,
   default |-> <<>>, minimum |-> <<>>, minLength |-> <<>>, embedded |-> FALSE]
Number(in, name, bits) == [Text(in, name, FALSE) EXCEPT !.kind = "int", !.bits = bits]

Sent(n) == [s |-> "sent", n |-> n]
Absent == [s |-> "absent", n |-> 0]
Bad == [s |-> "bad", n |-> 0]
Inputs(sents, bodies) == [sent : sents, body : bodies]
Plainly == [cases |-> <<>>, security |-> <<>>, mws |-> 0, fields |-> <<>>,
            bodied |-> FALSE, out |-> "raw", inputs |-> Inputs({<<>>}, {"empty"})]

\* Two alternatives, one with scopes, a middleware, and contracts in which an
\* entry's status comes before or after that of the entry it may wrap.
Guarded ==
  [Plainly EXCEPT
     !.security = <<[scheme |-> "token", scopes |-> {"write"}],
                    [scheme |-> "key", scopes |-> {}]>>,
     !.cases = Auth \o <<Case(404, <<"missing">>), Case(409, <<"conflict">>)>>,
     !.mws = 1, !.out = "shared"]
\* The showcase's demo route: two body fields, an entry declared for each.
Body ==
  [Plainly EXCEPT
     !.cases = <<Case(422, <<"nameRequired", "emailInvalid">>)>>,
     !.fields = <<Text("json", "name", TRUE), Text("json", "email", TRUE)>>,
     !.bodied = TRUE, !.out = "value",
     !.inputs = Inputs({Absent, Sent(0), Sent(3), Bad} \X {Absent, Sent(3)},
                       {"empty", "bad", "object"})]
\* Parameters of every kind beside body fields, one of them embedded.
Mixed ==
  [Plainly EXCEPT
     !.cases = <<Case(422, <<"nameRequired", "invalid">>)>>,
     !.fields = <<[Number("query", "page", 3) EXCEPT !.minimum = <<1>>],
                  [Number("header", "limit", 3) EXCEPT !.default = <<2>>],
                  [Text("path", "id", TRUE) EXCEPT !.minLength = <<2>>],
                  Text("json", "name", TRUE),
                  [Number("json", "size", 3) EXCEPT !.embedded = TRUE,
                                                    !.minimum = <<0>>]>>,
     !.bodied = TRUE, !.out = "fresh",
     !.inputs = Inputs({Absent, Bad, Sent(1), Sent(6)} \X {Absent, Sent(1)}
                         \X {Absent, Sent(1), Sent(2)} \X {Absent, Sent(2)}
                         \X {Absent, Sent(6)},
                       {"empty", "object"})]
Upload ==
  [Plainly EXCEPT
     !.cases = <<Case(422, <<"invalid">>)>>,
     !.fields = <<[Text("form", "file", FALSE) EXCEPT !.kind = "file"],
                  [Text("form", "more", FALSE) EXCEPT !.kind = "files"],
                  Text("form", "title", TRUE)>>,
     !.bodied = TRUE,
     !.inputs = Inputs({Absent, Sent(1)} \X {Absent, Bad} \X {Absent, Sent(2)},
                       {"object"})]
\* No input fields, and a method with a body.
Bare == [Plainly EXCEPT !.bodied = TRUE, !.inputs = Inputs({<<>>}, {"empty", "bad"})]
\* Refused at registration: no 403, a scheme that cannot verify, an entry at
\* another status than its kind's, an internal entry, fields without a 422.
Refused ==
  {[Guarded EXCEPT !.cases = <<Auth[1]>>],
   [Guarded EXCEPT !.security[2].scheme = "docs"],
   [Plainly EXCEPT !.cases = <<Case(409, <<"missing">>)>>],
   [Plainly EXCEPT !.cases = <<Case(404, <<"storeMissing">>)>>],
   [Body EXCEPT !.cases = <<Case(404, <<"missing">>)>>]}
MCRoutes == {Guarded, Body, Mixed, Upload, Bare} \cup Refused
MCDemoRoutes == {Body}
MCGuarded == {Guarded}

C(e) == Canonical(e)
MCVerifyErrors ==
  {C("expired"), C("forbidden"), C("limited"), Foreign(C("expired")), Plain,
   C("storeMissing"), Wrap(C("expired"), C("storeMissing"))}
MCStepErrors == {C("forbidden"), C("conflict"), Fiber(503), C("limited")}
MCHandlerErrors ==
  {C("missing"), C("storeMissing"), Plain, Fiber(404), Foreign(Fiber(413)),
   Wrap(C("storeMissing"), C("conflict")), Wrap(C("missing"), C("storeMissing")),
   Wrap(C("missing"), C("conflict")), Wrap(C("missing"), C("limited")),
   Many(<<C("missing"), C("conflict")>>), Many(<<C("missing"), C("storeMissing")>>),
   Foreign(Many(<<C("missing")>>)), Join(<<Plain, C("conflict")>>),
   Join(<<C("missing"), Fiber(409)>>)}
=============================================================================
