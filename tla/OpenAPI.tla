------------------------------ MODULE OpenAPI ------------------------------
(***************************************************************************)
(* pkg/http/openapi: routes register on the engine, and each document it   *)
(* serves is generated from the manifest by the first request for it, on   *)
(* that request's goroutine, under a sync.Once whose outcome every later   *)
(* request is answered with.  Registration may go on meanwhile.            *)
(*                                                                         *)
(* A declaration is a Route on a path of nested groups: a record [groups,  *)
(* method, path, id, says, docs, specs, hidden, security, responses,       *)
(* handler, request, requests, extra] (module Router, Compile).  extra is  *)
(* a sequence of [status, default, body, item, ct, example, examples] (a   *)
(* default one has status 0), requests one of [structure, ct, encoding,    *)
(* example, examples].  A Spec is a record [prefix, specs, meta, schemas,  *)
(* schemes, security, webhooks]: meta is the part of the document it gives *)
(* as it stands, webhooks a sequence of [name, method, id, docs, hidden,   *)
(* security, request, requests, body, extra].                              *)
(***************************************************************************)
EXTENDS Router, Validator

CONSTANTS Declarations,     \* the routes a program may register, in any order
          Specs,            \* Config.Specs: name -> Spec
          DefaultSecurity,  \* Config.Security
          Readers,          \* requests for documents
          MaxRoutes         \* bound: the routes a program registers
\* The segments of a registered path; a webhook's name is none of them.
IsPath(path) ==
  /\ IsSequence(path)
  /\ \A i \in DOMAIN path : path[i][1] \in {"lit", "dash", "par", "opt"}
ASSUME PathAssumption ==
  \A d \in Declarations :
    /\ IsPath(d.path)
    /\ IsSequence(d.groups) /\ \A i \in DOMAIN d.groups : IsPath(d.groups[i].prefix)
ASSUME SpecAssumption == \A s \in DOMAIN Specs : IsSequence(Specs[s].prefix)
\* A policy is what one of its four constructors returns.  Only structs have
\* fields, and a name ends in decimal digits.
IsPolicy(policy) == policy.public => policy.reqs = <<>>
ASSUME PolicyAssumption ==
  /\ IsPolicy(DefaultSecurity)
  /\ \A d \in Declarations :
       IsPolicy(d.security) /\ \A i \in DOMAIN d.groups : IsPolicy(d.groups[i].security)
ASSUME TypesAssumption ==
  /\ IsFiniteSet(DOMAIN Types)
  /\ \A t \in DOMAIN Types :
       /\ IsSequence(Types[t].fields)
       /\ \A f \in ToSet(Types[t].fields) : f.type \in DOMAIN Types
       /\ ~IsStruct(t) => Types[t].fields = <<>>
       /\ Types[t].base = <<Types[t].base[1], Types[t].base[2]>>
       /\ Types[t].base[2] \in Seq(0..9)
  /\ \A d \in Declarations : d.handler # <<>> => d.handler[1].in \in DOMAIN Types

VARIABLES routes,  \* the recorder: manifest entries in registration order
          once,    \* spec -> "idle", "building" or "done"
          snap,    \* spec -> the routes its last build saw (history)
          result,  \* spec -> body and err, what every reply is made from
          reader,  \* reader -> [pc, spec]
          build,   \* reader -> the build on its goroutine
          reply,   \* reader -> what it was answered
          alive    \* FALSE once the stack of the process has overflowed
vars == <<routes, once, snap, result, reader, build, reply, alive>>

(***************************************************************************)
(* Operations.                                                             *)
(***************************************************************************)
SchemasFor(value) == IF value = <<>> THEN <<>> ELSE <<SchemaOf[value[1]]>>
Ref(name) == [Open EXCEPT !.isRef = TRUE, !.refs = {<<name, <<>>>>}]
Media == [schema |-> <<>>, item |-> <<>>, encoding |-> {},
          example |-> FALSE, examples |-> {}]

\* operationID: the method and the words of the path; "users/:id" and "users/id"
\* make the same one.
OperationID(method, target) ==
  <<method>> \o
    (IF target = <<>> THEN <<"root">>
     ELSE FlattenSeq([i \in DOMAIN target |->
            IF target[i][1] = "opt" THEN Append(target[i][2], "?") ELSE target[i][2]]))

\* OneOf: the alternatives of responses with the same status and content type.
OneOf(schemas) ==
  <<[Open EXCEPT !.nodes = UNION {s.nodes : s \in schemas},
                 !.types = UNION {s.types : s \in schemas},
                 !.refs  = UNION {s.refs : s \in schemas}]>>

IsSuccess(x) == x.default \/ x.status \in 200..299
Streams(extra) == SelectSeq(extra, LAMBDA x : x.item # <<>>)
Unit(status, schemas, ct) ==
  [status |-> status, default |-> FALSE, schemas |-> schemas, ct |-> ct,
   media |-> TRUE, example |-> FALSE, examples |-> {}]
\* A unit with nothing to show has no content; with a content type alone it is
\* a string.
ResponseUnit(x) ==
  [Unit(x.status,
        IF x.body = <<>> /\ x.ct # "" THEN <<Open>> ELSE SchemasFor(x.body),
        ContentType(x.ct, x.body))
    EXCEPT !.default = x.default,
           !.media = x.body # <<>> \/ x.ct # "" \/ x.example \/ x.examples # {},
           !.example = x.example, !.examples = x.examples]

\* applyResponses: the success body, the declared responses that do not stream,
\* and the open envelope when none of them succeeds.
SuccessBody(success, extra) ==
  IF \E i \in DOMAIN extra : extra[i].item # <<>> /\ extra[i].status \in 200..299
  THEN <<>> ELSE success
ResponseUnits(success, extra) ==
  LET body == SuccessBody(success, extra)
      plain == SelectSeq(extra, LAMBDA x : x.item = <<>>)
      succeeds == body # <<>> \/ \E i \in DOMAIN extra : IsSuccess(extra[i])
  IN (IF body = <<>> THEN <<>>
      ELSE <<Unit(200, SchemasFor(body), ContentType("", body))>>)
     \o [i \in DOMAIN plain |-> ResponseUnit(plain[i])]
     \o (IF succeeds THEN <<>> ELSE <<Unit(200, <<Ref("Envelope")>>, "json")>>)

\* MergeResponses and AddResponse: one media type per status and content type,
\* a oneOf as soon as two units share it.
Responses(units) ==
  LET at(key) == {i \in DOMAIN units : units[i].status = key /\ units[i].media}
      media(these) ==
        LET first == units[Min(these)]
        IN [Media EXCEPT !.schema = IF these = {Min(these)} THEN first.schemas
                                    ELSE OneOf(UNION {ToSet(units[i].schemas) : i \in these}),
                         !.example = first.example, !.examples = first.examples]
  IN [key \in {units[i].status : i \in DOMAIN units} |->
       [errors  |-> {},
        content |-> [ct \in {units[i].ct : i \in at(key)} |->
                       media({i \in at(key) : units[i].ct = ct})]]]

\* AddOperationTo, without a path item to put the operation in.
RequestPartsOf(e) ==
  IF e.request = <<>> THEN [params |-> <<>>, body |-> <<>>]
  ELSE RequestOf[e.request[1]]
\* ensurePathParameters: a parameter of the path that the request does not have.
WithPathParameters(params, path) ==
  LET has(name) == \E k \in DOMAIN params : params[k].in = "path" /\ params[k].name = name
      parts == {i \in DOMAIN path : path[i][1] \in {"par", "opt"}}
      first(i) == \A j \in parts : path[j][2][1] = path[i][2][1] => i <= j
  IN params \o
       FlattenSeq([i \in DOMAIN path |->
         IF i \in parts /\ first(i) /\ ~has(path[i][2][1])
         THEN <<[in |-> "path", name |-> path[i][2][1], required |-> TRUE, schema |-> Open]>>
         ELSE <<>>])
Operation(e, parts) ==
  [id        |-> IF e.id = <<>> THEN OperationID(e.method, e.path) ELSE e.id,
   docs      |-> e.docs,
   security  |-> IF e.public THEN <<>> ELSE e.security,
   params    |-> WithPathParameters(parts.params, e.path),
   body      |-> IF parts.body = <<>> THEN <<>>
                 ELSE Put(<<>>, ContentType("", e.request),
                          [Media EXCEPT !.schema = parts.body]),
   responses |-> Responses(ResponseUnits(e.success, e.extra))]

\* addExplicitRequest, addStreamingResponse and injectCatalogErrors, on the
\* operation that is found at the route's method and path.
WithRequests(op, requests) ==
  LET ct(i) == IF requests[i].ct = "" THEN "json" ELSE requests[i].ct
      last(type) == requests[Max({i \in DOMAIN requests : ct(i) = type})]
      media(cu) == [Media EXCEPT !.schema = SchemasFor(cu.structure),
                                 !.encoding = cu.encoding, !.example = cu.example,
                                 !.examples = cu.examples]
  IN [op EXCEPT !.body =
       Over([type \in {ct(i) : i \in DOMAIN requests} |-> media(last(type))], @)]
WithStreams(op, streams) ==
  LET ct(i) == IF streams[i].ct = "" THEN "event-stream" ELSE streams[i].ct
      at(key) == {i \in DOMAIN streams : streams[i].status = key}
      media(x) == [Media EXCEPT !.item = SchemasFor(x.item), !.example = x.example,
                                !.examples = x.examples]
      had(key) == IF key \in DOMAIN op.responses THEN op.responses[key]
                  ELSE [errors |-> {}, content |-> <<>>]
      streamed(key) == [type \in {ct(i) : i \in at(key)} |->
                          media(streams[Max({i \in at(key) : ct(i) = type})])]
  IN [op EXCEPT !.responses =
       Over([key \in {streams[i].status : i \in DOMAIN streams} |->
               [had(key) EXCEPT !.content = Over(streamed(key), @)]], @)]
\* Faulty: a status keeps the response it already has.
FaultWithErrors(op, errors) ==
  LET envelope == Put(<<>>, "json", [Media EXCEPT !.schema = <<Ref("ErrorEnvelope")>>])
      at(status) == {e \in DOMAIN errors : errors[e] = status}
  IN [op EXCEPT !.responses =
       Over(@, [status \in {errors[e] : e \in DOMAIN errors} \cup {0} |->
                  [errors |-> at(status), content |-> envelope]])]
\* Whatever was declared at one of these statuses, and the default response, is
\* replaced by the error envelope.
WithErrors(op, errors) ==
  LET envelope == Put(<<>>, "json", [Media EXCEPT !.schema = <<Ref("ErrorEnvelope")>>])
      at(status) == {e \in DOMAIN errors : errors[e] = status}
  IN [op EXCEPT !.responses =
       Over([status \in {errors[e] : e \in DOMAIN errors} \cup {0} |->
               [errors |-> at(status), content |-> envelope]], @)]
Extended(op, e) ==
  WithStreams(WithRequests(op, e.requests), Streams(e.extra))

(***************************************************************************)
(* Documents under construction: the reflector's names and components      *)
(* beside the document's own schemas.                                      *)
(***************************************************************************)
EnvelopeComponents ==
  LET of(required, optional, refs) ==
        [Open EXCEPT !.props = required \cup optional, !.required = required,
                     !.refs = {<<r, <<>>>> : r \in refs}]
      ids == {"request_id", "client_request_id"}
  IN <<"Envelope", <<>>>> :>
         of({"status"}, {"message", "data", "cursor", "pagination"} \cup ids,
            {"Cursor", "Pagination"})
  @@ <<"ErrorEnvelope", <<>>>> :>
         of({"status", "errors"}, {"message"} \cup ids, {"ErrorDetail"})
  @@ <<"ErrorDetail", <<>>>> :> of({"kind", "code", "message"}, {"source", "cause"}, {})
  @@ <<"Pagination", <<>>>> :>
         of({"first", "last"}, {"total_count", "total_pages", "max_page", "page", "size"}, {})
  @@ <<"Cursor", <<>>>> :> of({}, {"next", "previous"}, {})

\* DocumentSecurity and MergeSecuritySchemes.
DocumentSecurity(own) ==
  IF own # <<>> THEN own
  ELSE IF DefaultSecurity.explicit /\ ~DefaultSecurity.public
       THEN DefaultSecurity.reqs ELSE <<>>
MergeSecuritySchemes(base) == Over([name \in DOMAIN Schemes |-> Schemes[name].spec], base)

\* specConfig and newDocument.
NewDocument(spec) ==
  [self     |-> spec.meta.self,
   dialect  |-> IF spec.meta.dialect = "" THEN "https" ELSE spec.meta.dialect,
   docs     |-> spec.meta.docs,
   info     |-> spec.meta.info,
   servers  |-> spec.meta.servers,
   tags     |-> spec.meta.tags,
   security |-> DocumentSecurity(spec.security),
   schemes  |-> MergeSecuritySchemes(spec.schemes),
   schemas  |-> Over(spec.schemas, EnvelopeComponents),
   names    |-> <<>>,
   ops      |-> <<>>]

\* Finish: a component takes its name even from the envelope and from the
\* spec's own schemas.
Finished(doc, refl) ==
  [doc EXCEPT !.names = refl.names,
              !.schemas = Over([name \in DOMAIN refl.comps |->
                                  ComponentOf[refl.comps[name]]], @)]

TypesIn(op) == TypesOf(SchemasIn(op))

\* The Go types a route hands to the reflector, whatever becomes of them.  Of one
\* that is hidden these are what addRoute adds to an operation that is there
\* already, and no webhook streams.
RouteTypes(e) ==
  (IF e.hidden THEN {}
   ELSE ToSet(e.request) \cup ToSet(SuccessBody(e.success, e.extra))
          \cup UNION {ToSet(e.extra[i].body) :
                        i \in {j \in DOMAIN e.extra : e.extra[j].item = <<>>}})
    \cup (IF IsWebhook(e.path) THEN {}
          ELSE UNION {ToSet(e.extra[i].item) : i \in DOMAIN e.extra}
                 \cup UNION {ToSet(e.requests[i].structure) : i \in DOMAIN e.requests})
\* A webhook, as the entry of a route without a handler; it declares no errors,
\* and what only addRoute does is not done for it.
Webhook(wh) ==
  LET policy == ResolveSecurity(wh.security, <<>>, InheritSecurity)
      good   == SelectSeq(wh.extra, IsSuccess)
  IN [method   |-> IF wh.method = "" THEN "POST" ELSE wh.method,
      path     |-> <<<<"hook", wh.name>>>>,
      id       |-> wh.id,
      docs     |-> wh.docs,
      hidden   |-> wh.hidden,
      security |-> policy.reqs,
      public   |-> policy.public,
      request  |-> wh.request,
      requests |-> <<>>,
      success  |-> IF wh.body # <<>> THEN wh.body
                   ELSE IF good # <<>> THEN good[1].body ELSE <<>>,
      extra    |-> wh.extra]

\* The manifest's entries, and what each of them and each webhook comes to
\* whatever the rest of its document.
EntryOf == [d \in Declarations |->
              Compile(Grouped(NewRouter(<<>>), d.groups), d, DefaultSecurity)]
Entries == {EntryOf[d] : d \in Declarations}
Hooks == {Webhook(wh) : wh \in UNION {ToSet(Specs[s].webhooks) : s \in DOMAIN Specs}}
PlanOf ==
  [e \in Entries \cup Hooks |->
    [entry     |-> e,
     op        |-> Operation(e, RequestPartsOf(e)),
     panics    |-> \E t \in Met(RouteTypes(e)) : Types[t].kind = "broken",
     overflows |-> ~(RouteTypes(e) \subseteq Finite)]]

\* A hidden route changes a document only where it meets an operation.
At(e) == <<e.path, e.method>>
Shown(e, doc) == ~e.hidden \/ At(e) \in DOMAIN doc.ops

\* AddResponse wants a status, SetOperation an operation nobody has set.
Refuses(e, doc) ==
  /\ ~e.hidden
  /\ \/ At(e) \in DOMAIN doc.ops
     \/ \E i \in DOMAIN e.extra :
          e.extra[i].item = <<>> /\ ~e.extra[i].default /\ e.extra[i].status = 0

(***************************************************************************)
(* Actions.                                                                *)
(***************************************************************************)
NoBuild == [todo |-> <<>>, hooks |-> {}, types |-> {}, refl |-> NewReflector, doc |-> <<>>]
NoResult == [kind |-> "empty", doc |-> <<>>]
Failed == [kind |-> "error", doc |-> <<>>]
Panicked == [kind |-> "panic", doc |-> <<>>]

Init ==
  /\ routes = <<>>
  /\ once = [s \in DOMAIN Specs |-> "idle"]
  /\ snap = [s \in DOMAIN Specs |-> <<>>]
  /\ result = [s \in DOMAIN Specs |-> NoResult]
  /\ reader = [r \in Readers |-> [pc |-> "idle", spec |-> CHOOSE s \in DOMAIN Specs : TRUE]]
  /\ build = [r \in Readers |-> NoBuild]
  /\ reply = [r \in Readers |-> NoResult]
  /\ alive = TRUE

\* Routes(...), a Router method: a route that registration refuses panics before
\* the program serves anything.
Register(d) ==
  /\ alive
  /\ Len(routes) < MaxRoutes
  /\ Registrable(d, EntryOf[d])
  /\ routes' = Append(routes, EntryOf[d])
  /\ UNCHANGED <<once, snap, result, reader, build, reply, alive>>

Ask(r, s) ==
  /\ alive
  /\ reader[r].pc = "idle"
  /\ reader' = [reader EXCEPT ![r] = [pc |-> "asked", spec |-> s]]
  /\ UNCHANGED <<routes, once, snap, result, build, reply, alive>>

\* Faulty: a mutex in place of the Once.
FaultMayBuild(s) == once[s] # "building"
MayBuild(s) == once[s] = "idle"
\* The first request into once.Do takes the manifest as it is now.
EnterOnce(r) ==
  LET s == reader[r].spec
  IN /\ alive
     /\ reader[r].pc = "asked"
     /\ MayBuild(s)
     /\ once' = [once EXCEPT ![s] = "building"]
     /\ snap' = [snap EXCEPT ![s] = routes]
     /\ reader' = [reader EXCEPT ![r].pc = "building"]
     /\ \E plan \in {PlanOf} :
          build' = [build EXCEPT ![r] =
            [todo  |-> LET shown == ForSpec(routes, Specs[s])
                       IN [i \in DOMAIN shown |-> plan[shown[i]]],
             hooks |-> {plan[Webhook(wh)] : wh \in ToSet(Specs[s].webhooks)},
             types |-> {},
             refl  |-> NewReflector,
             doc   |-> NewDocument(Specs[s])]]
     /\ UNCHANGED <<routes, result, reply, alive>>

\* Leaving once.Do, with the outcome that is kept.
Leave(r, outcome) ==
  /\ once' = [once EXCEPT ![reader[r].spec] = "done"]
  /\ result' = [result EXCEPT ![reader[r].spec] = outcome]
  /\ build' = [build EXCEPT ![r] = NoBuild]

Building(r) == alive /\ reader[r].pc = "building"
Refused(r) ==
  /\ Leave(r, Failed)
  /\ reader' = [reader EXCEPT ![r].pc = "asked"]
  /\ UNCHANGED <<routes, snap, reply, alive>>
Built == UNCHANGED <<routes, once, snap, result, reader, reply, alive>>

\* A struct that the route or webhook just added leads to.  Their order, which
\* only decides which of two namesakes keeps the bare name, is left open.
Reflect(r) ==
  /\ Building(r)
  /\ \E t \in build[r].types : \E name \in TypeNames(build[r].refl.names, t) :
       build' = [build EXCEPT
         ![r].refl = RefSchema(@, t, name).refl,
         ![r].types = (@ \cup RefSchema(build[r].refl, t, name).more) \ {t}]
  /\ Built

\* The next route, in registration order, or any webhook once they are through.
Due(r) ==
  IF ~Building(r) \/ build[r].types # {} THEN {}
  ELSE IF build[r].todo # <<>> THEN {Head(build[r].todo)} ELSE build[r].hooks
Sound(plan, doc) == Shown(plan.entry, doc) => ~plan.panics /\ ~plan.overflows

\* addRoute.
AddRoute(r) ==
  /\ Building(r) /\ build[r].todo # <<>>
  /\ \E plan \in Due(r) :
       LET e == plan.entry
           doc == build[r].doc
       IN /\ Sound(plan, doc)
          /\ \/ Refuses(e, doc) /\ Refused(r)
             \/ /\ ~Shown(e, doc)
                /\ build' = [build EXCEPT ![r].todo = Tail(@)]
                /\ Built
             \/ /\ ~Refuses(e, doc) /\ Shown(e, doc)
                /\ \E op \in {IF e.hidden THEN doc.ops[At(e)] ELSE plan.op} :
                     build' = [build EXCEPT
                       ![r].todo = Tail(@),
                       ![r].types = TypesIn(op) \cup TypesIn(Extended(op, e)),
                       ![r].doc.ops = Put(@, At(e), WithErrors(Extended(op, e), e.errors))]
                /\ Built

\* addWebhook, in the order of a map.
AddWebhook(r) ==
  /\ Building(r) /\ build[r].todo = <<>>
  /\ \E plan \in Due(r) :
       LET e == plan.entry
           doc == build[r].doc
       IN /\ Sound(plan, doc)
          /\ \/ Refuses(e, doc) /\ Refused(r)
             \/ /\ e.hidden
                /\ build' = [build EXCEPT ![r].hooks = @ \ {plan}]
                /\ Built
             \/ /\ ~Refuses(e, doc) /\ ~e.hidden
                /\ build' = [build EXCEPT
                     ![r].hooks = @ \ {plan},
                     ![r].types = TypesIn(plan.op),
                     ![r].doc.ops = Put(@, At(e), plan.op)]
                /\ Built

\* A SchemaExposer panics: the Once counts as done, body and err are still zero,
\* and recovery answers this request alone.
PanicIn(r) ==
  /\ \E plan \in Due(r) : Shown(plan.entry, build[r].doc) /\ plan.panics
  /\ Leave(r, NoResult)
  /\ reader' = [reader EXCEPT ![r].pc = "replied"]
  /\ reply' = [reply EXCEPT ![r] = Panicked]
  /\ UNCHANGED <<routes, snap, alive>>

\* A struct written out inside itself exhausts the stack, which no recover stops.
Overflow(r) ==
  /\ \E plan \in Due(r) : Shown(plan.entry, build[r].doc) /\ plan.overflows
  /\ alive' = FALSE
  /\ UNCHANGED <<routes, once, snap, result, reader, build, reply>>

\* Finish, validateDocument and MarshalJSON.
Finish(r) ==
  LET doc == Finished(build[r].doc, build[r].refl)
  IN /\ Building(r)
     /\ build[r].types = {} /\ build[r].todo = <<>> /\ build[r].hooks = {}
     /\ Leave(r, IF ValidateDocument(doc)
                 THEN [kind |-> "document", doc |-> doc] ELSE Failed)
     /\ reader' = [reader EXCEPT ![r].pc = "asked"]
     /\ UNCHANGED <<routes, snap, reply, alive>>

Reply(r) ==
  /\ alive
  /\ reader[r].pc = "asked"
  /\ once[reader[r].spec] = "done"
  /\ reply' = [reply EXCEPT ![r] = result[reader[r].spec]]
  /\ reader' = [reader EXCEPT ![r].pc = "replied"]
  /\ UNCHANGED <<routes, once, snap, result, build, alive>>

Next ==
  \/ \E d \in Declarations : Register(d)
  \/ \E r \in Readers :
       \/ \E s \in DOMAIN Specs : Ask(r, s)
       \/ EnterOnce(r) \/ Reflect(r) \/ AddRoute(r) \/ AddWebhook(r) \/ Finish(r)
       \/ PanicIn(r) \/ Overflow(r) \/ Reply(r)
Spec == Init /\ [][Next]_vars

(***************************************************************************)
(* Properties.                                                             *)
(***************************************************************************)
Documents == {s \in DOMAIN Specs : once[s] = "done" /\ result[s].kind = "document"}
Served == {result[s].doc : s \in Documents}
\* What the filter of a Spec promises, over the routes registered by the time its
\* document was first asked for.
Belongs(e, spec) ==
  /\ e.documented /\ ~e.hidden
  /\ \A i \in DOMAIN spec.prefix : i \in DOMAIN e.path /\ e.path[i] = spec.prefix[i]
  /\ spec.specs = {} \/ \E i \in DOMAIN e.specs : e.specs[i] \in spec.specs
Alone(e, s) == \A i, j \in DOMAIN snap[s] :
  At(snap[s][i]) = At(e) /\ At(snap[s][j]) = At(e) => i = j

\* A document that is served has exactly the operations of the documented,
\* visible routes its Spec asks for, of all those registered before its first
\* request: none of another document, none hidden, none lost to a route whose
\* path or operation ID clashes (buildDocument, ForSpec, SetOperation).
ShowsItsRoutes ==
  \A s \in Documents :
    {p \in DOMAIN result[s].doc.ops : ~IsWebhook(p[1])}
      = {At(snap[s][i]) : i \in {j \in DOMAIN snap[s] : Belongs(snap[s][j], Specs[s])}}

\* Every struct that a served document refers to is described by the component
\* that carries the name it was given, also when a second struct would take that
\* name or others end in a number, however many routes brought them, in whatever
\* order they registered (TypeName, RefSchema, Finish).  It is about types whose
\* kin, the types of the same stem, are never three of one base name and never
\* have for their own base the name that the second of two namesakes is given.
Described(doc, t) == doc.schemas[doc.names[t]] = ComponentOf[t]
KinIn(names, t) == {u \in DOMAIN names : Types[u].base[1] = Types[t].base[1]}
NamesakesIn(names, t) == {u \in DOMAIN names : Types[u].base = Types[t].base}
ToldApart(names, t) ==
  \A u \in KinIn(names, t) :
    /\ Cardinality(NamesakesIn(names, u)) <= 2
    /\ Cardinality(NamesakesIn(names, u)) = 2 =>
         \A v \in KinIn(names, t) : Types[v].base # Numbered(Types[u].base, 2)
RefsMeanTheirTypes ==
  \A doc \in Served :
    \A t \in DOMAIN doc.names : Described(doc, t) \/ ~ToldApart(doc.names, t)

\* The fields the binder reads for a type, those of structs it embeds in place
\* among them.  Those embedded by $ref are bound too, but documented elsewhere.
ReadIn(read, t) ==
  UNION {IF ~(f.embedded /\ IsStruct(f.type)) THEN {f}
         ELSE IF f.refer THEN {} ELSE read[f.type] : f \in ToSet(Types[t].fields)}
ReadTo[n \in 0..Depth] ==
  [t \in DOMAIN Types |-> IF n = 0 THEN {} ELSE ReadIn(ReadTo[n - 1], t)]
Bound == ReadTo[Depth]
\* How a body comes: as a form as soon as a field is read from one, else as JSON.
ContentTaken ==
  [t \in DOMAIN Types |->
    LET forms == {f \in Bound[t] : f.in = "form"}
    IN IF forms = {} THEN {"json"}
       ELSE IF \E f \in forms : Types[f.type].kind = "file" THEN {"multipart"}
       ELSE {"multipart", "urlencoded"}]
ReadFromBody ==
  [t \in DOMAIN Types |->
    {f \in Bound[t] : f.in = IF ContentTaken[t] = {"json"} THEN "json" ELSE "form"}]

Effective(op, doc) == IF op.security = <<>> THEN doc.security ELSE op.security
\* What a body is documented as: its schema, or the component that is a $ref to.
BodySchemas(media, doc) ==
  UNION {IF schema.isRef THEN {doc.schemas[name] : name \in RefsOf(schema, doc)}
         ELSE {schema} : schema \in ToSet(media.schema)}
Tells(op, doc, cts, f) ==
  \E ct \in cts \cap DOMAIN op.body : \E schema \in BodySchemas(op.body[ct], doc) :
    /\ f.name \in schema.props
    /\ f.required => f.name \in schema.required
\* A route whose handler runs is documented as it is enforced.  A client that
\* follows the served document meets the alternatives its guard accepts; it sends
\* every parameter its binder reads where the binder reads it, and every field
\* read from the body, JSON or form, under the name the binder looks for and in a
\* content type it takes; it knows which of them are tagged required; and it is
\* told every error declared for a status at that status and no other
\* (operationConfig, RequestParts, StructSchema, injectCatalogErrors, against
\* wrapWithSecurity, bindStruct, BindWithBody, declaredStatus).
\*   It is about routes that share their method and path with no other and whose
\* request type is not overridden, and about fields that have a tag and are not
\* embedded by $ref.  As to the body it leaves out routes with explicit requests,
\* request types whose component is not told apart from that of their kin, the
\* JSON fields of a form, which are documented although nobody reads them, and
\* forms without a parameter, which are documented under other names
\* (FormFieldsDocumented).  A single file is demanded whatever its tag says.
DocumentedAsEnforced ==
  \A s \in Documents :
    \A i \in {j \in DOMAIN snap[s] :
                /\ Belongs(snap[s][j], Specs[s]) /\ snap[s][j].enforced
                /\ Alone(snap[s][j], s) /\ snap[s][j].request = snap[s][j].input} :
      LET e   == snap[s][i]
          doc == result[s].doc
          op  == doc.ops[At(e)]
      IN /\ e.security # <<>> => ToSet(Effective(op, doc)) = ToSet(e.security)
         /\ \A t \in ToSet(e.input) :
              /\ \A f \in Bound[t] : f.in \in {"path", "query", "header", "cookie"} =>
                   \E k \in DOMAIN op.params :
                     /\ op.params[k].in = f.in /\ op.params[k].name = f.name
                     /\ op.params[k].required = (f.in = "path" \/ f.required)
              /\ \A f \in ReadFromBody[t] :
                   /\ e.requests = <<>>
                   /\ t \in DOMAIN doc.names => ToldApart(doc.names, t)
                   /\ f.in = "form" => \E g \in Bound[t] : g.in \in ParameterTags
                   => Tells(op, doc, ContentTaken[t], f)
         /\ \A status \in DOMAIN op.responses :
              op.responses[status].errors =
                {x \in DOMAIN e.errors : e.errors[x] = status}
         /\ {e.errors[x] : x \in DOMAIN e.errors} \subseteq DOMAIN op.responses

\* Two requests for one document are answered alike, whatever was registered
\* between them and whichever of them built it, unless building it panicked
\* under one of them (handler, sync.Once).
RepliesAgree ==
  \A r, q \in Readers :
    /\ reader[r].pc = "replied" /\ reader[q].pc = "replied"
    /\ reader[r].spec = reader[q].spec
    /\ reply[r] # Panicked /\ reply[q] # Panicked
    => reply[r] = reply[q]

(***************************************************************************)
(* What does not hold; the other Document*.cfg show how.                   *)
(***************************************************************************)
\* Structs are kept apart, whatever they are called.  With three of one name the
\* walk over the names may end on a number that is in use, and with two the number
\* of the second may make the name of another type (TypeName).
NamesakesKeptApart ==
  \A doc \in Served : \A t \in DOMAIN doc.names : Described(doc, t)

\* A field that is read from a form is documented under the name it is read by.
\* An input without parameters is described like any other type, by the names of
\* its json tags or of its Go fields (RequestParts, StructSchema, bindField).
FormFieldsDocumented ==
  \A s \in Documents :
    \A i \in {j \in DOMAIN snap[s] :
                /\ Belongs(snap[s][j], Specs[s]) /\ snap[s][j].enforced
                /\ Alone(snap[s][j], s) /\ snap[s][j].request = snap[s][j].input
                /\ snap[s][j].requests = <<>>} :
      \A t \in ToSet(snap[s][i].input) : \A f \in {g \in Bound[t] : g.in = "form"} :
        Tells(result[s].doc.ops[At(snap[s][i])], result[s].doc, ContentTaken[t], f)

\* A route that is public although the engine has a default requirement is
\* documented as public.  Its empty security list does not survive omitempty
\* (AddOperationTo, spec.Operation).
PublicIsDocumented ==
  \A s \in Documents :
    \A i \in {j \in DOMAIN snap[s] :
                Belongs(snap[s][j], Specs[s]) /\ Alone(snap[s][j], s)} :
      snap[s][i].public => Effective(result[s].doc.ops[At(snap[s][i])], result[s].doc) = <<>>

\* A request for a document is answered with a document or with an error.  After
\* a panic inside the Once it is answered with an empty body (handler).
EmptyNeverServed == \A r \in Readers : reader[r].pc = "replied" => reply[r].kind # "empty"
=============================================================================
