----------------------------- MODULE MCOpenAPI -----------------------------
(* A small service: users behind a token, public uploads and a stream; two  *)
(* types called User and one called User3, three documents.                 *)
EXTENDS OpenAPI
MCStatusOf ==
  [unauthorized |-> 401, forbidden |-> 403, missing |-> 404, conflict |-> 409,
   invalid |-> 422, storeMissing |-> 404]
MCEntry == DOMAIN MCStatusOf
MCPublic == MCEntry \ {"storeMissing"}
MCSource == [e \in MCEntry |-> <<>>]
BearerScheme ==
  [type |-> "http", name |-> "", in |-> "", scheme |-> "bearer", flows |-> <<>>,
   url |-> "", metadata |-> ""]
MCSchemes ==
  [token |-> [type |-> "bearer", verifies |-> TRUE, spec |-> BearerScheme],
   key   |-> [type |-> "apiKeyQuery", verifies |-> TRUE,
              spec |-> [BearerScheme EXCEPT !.type = "apiKey", !.name = "key",
                                            !.in = "query"]]]
MCDefaultSecurity == RequireSecurity("token", {})

(* Types. *)
Field(in, name, type) ==
  [in |-> in, name |-> name, go |-> name, wrap |-> <<>>, type |-> type,
   embedded |-> FALSE, refer |-> FALSE, required |-> FALSE, xml |-> {}]
Embedded(type) == [Field("none", "", type) EXCEPT !.embedded = TRUE]
Needed(f) == [f EXCEPT !.required = TRUE]
Wrapped(f, wrap) == [f EXCEPT !.wrap = wrap]
Named(go, f) == [f EXCEPT !.go = go]
Typed(base, fields) == [kind |-> "struct", base |-> base, fields |-> fields, schema |-> Open]
Struct(stem, fields) == Typed(<<stem, <<>>>>, fields)
Other(kind) == [Struct("", <<>>) EXCEPT !.kind = kind]
MCTypes ==
  [string  |-> Other("leaf"), file |-> Other("file"), broken |-> Other("broken"),
   event   |-> [Other("given") EXCEPT !.schema = [Open EXCEPT !.props = {"kind"}]],
   Audit   |-> Struct("Audit", <<Field("json", "at", "string"),
                                 Field("query", "trace", "string")>>),
   Link    |-> Typed(<<"User", <<3>>>>, <<Wrapped(Field("json", "of", "User"), <<"ptr">>)>>),
   User    |-> Struct("User", <<Embedded("Audit"), Field("json", "name", "string"),
                                Wrapped(Field("json", "links", "Link"), <<"slice">>)>>),
   OldUser |-> Struct("User", <<Field("json", "login", "string")>>),
   GetUser |-> Struct("GetUser", <<Needed(Field("path", "id", "string")),
                                   Needed(Field("header", "Tenant", "string"))>>),
   PutUser |-> Struct("PutUser", <<Field("path", "id", "string"),
                                   Embedded("Audit"),
                                   Needed(Field("json", "name", "string"))>>),
   Upload  |-> Struct("Upload", <<Needed(Named("data", Field("form", "file", "file"))),
                                  Field("query", "dir", "string")>>),
   Node    |-> Struct("Node", <<Wrapped(Field("json", "next", "Node"), <<"ptr">>)>>),
   Bad     |-> Struct("Bad", <<Field("json", "broken", "broken")>>)]

\* A third User, for DocumentNames.cfg, and a type named like the second one, for
\* DocumentNumbers.cfg.
MCNamesakeTypes ==
  MCTypes @@ [AnyUser |-> Struct("User", <<Field("json", "id", "string")>>)]
MCNumberTypes ==
  MCTypes @@ [AnyUser |-> Typed(<<"User", <<2>>>>, <<Field("json", "id", "string")>>)]
\* A form and no parameter, for DocumentForm.cfg.
MCFormTypes ==
  MCTypes @@ [Title |-> Struct("Title",
                          <<Named("title", Field("form", "doc_title", "string"))>>)]

(* Routes. *)
Lit(word) == <<"lit", <<word>>>>
Par(word) == <<"par", <<word>>>>
Case(status, errors) == [status |-> status, errors |-> errors]
Auth == <<Case(401, <<"unauthorized">>), Case(403, <<"forbidden">>)>>
Responds(cases) == <<[body |-> <<>>, cases |-> cases]>>
Handles(in, out) ==
  <<[in |-> in, out |-> out, fields |-> ForEachField(in)]>>
Api ==
  [prefix |-> <<Lit("api")>>, says |-> FALSE, specs |-> <<"mobile">>, hidden |-> FALSE,
   responses |-> <<Auth>>, security |-> RequireSecurity("token", {"read"}),
   mws |-> 0]
Plainly ==
  [groups |-> <<>>, method |-> "GET", path |-> <<Lit("users")>>, id |-> <<>>,
   says |-> TRUE, docs |-> "", specs |-> <<>>, hidden |-> FALSE,
   security |-> PublicSecurity, responses |-> <<>>,
   handler |-> Handles("OldUser", "OldUser"), request |-> <<>>, requests |-> <<>>,
   extra |-> <<>>]
Extra(status) ==
  [status |-> status, default |-> FALSE, body |-> <<>>, item |-> <<>>, ct |-> "",
   example |-> FALSE, examples |-> {}]
InvalidToo == Responds(<<Case(422, <<"invalid">>)>>)

GetUserRoute ==
  [Plainly EXCEPT !.groups = <<Api>>, !.path = <<Lit("users"), Par("id")>>,
                  !.security = InheritSecurity, !.handler = Handles("GetUser", "User"),
                  !.responses = Responds(<<Case(404, <<"missing">>),
                                           Case(422, <<"invalid">>)>>)]
\* The same operation ID.
UsersID ==
  [Plainly EXCEPT !.groups = <<Api>>, !.path = <<Lit("users"), Lit("id")>>,
                  !.security = RequireAnySecurity(<<"key", "token">>),
                  !.handler = Handles("Link", "OldUser"), !.responses = InvalidToo]
PutUserRoute ==
  [GetUserRoute EXCEPT !.method = "PUT", !.handler = Handles("PutUser", "OldUser"),
     !.extra = <<[Extra(409) EXCEPT !.body = <<"OldUser">>],
                 [Extra(200) EXCEPT !.body = <<"User">>]>>,
     !.responses[1].cases = <<Case(409, <<"conflict">>)>> \o @]
UploadRoute ==
  [Plainly EXCEPT !.method = "POST", !.path = <<Lit("files"), Par("name")>>,
                  !.handler = Handles("Upload", "event"), !.responses = InvalidToo]
Stream ==
  [Plainly EXCEPT !.groups = <<Api>>, !.method = "POST", !.path = <<Lit("events")>>,
                  !.handler = <<>>,
                  !.requests = <<[structure |-> <<"event">>, ct |-> "", encoding |-> {"kind"},
                                  example |-> FALSE, examples |-> {}]>>,
                  !.extra = <<[Extra(200) EXCEPT !.item = <<"event">>],
                              [Extra(0) EXCEPT !.default = TRUE, !.ct = "text"]>>]
\* Registered and served, but in no document; and a Describe nothing answers.
Hidden == [Plainly EXCEPT !.hidden = TRUE, !.path = <<Lit("admin")>>,
                          !.responses = InvalidToo]
HiddenStream == [Hidden EXCEPT !.groups = <<Api>>, !.method = "POST", !.path = <<Lit("events")>>]
Bare == [Plainly EXCEPT !.says = FALSE, !.path = <<Lit("health")>>,
                        !.handler = <<[in |-> "string", out |-> "string", fields |-> <<>>]>>]
Unknown == [Plainly EXCEPT !.handler = <<>>, !.extra = <<Extra(0)>>]
Unguarded == [GetUserRoute EXCEPT !.groups[1].responses = <<>>]
Breaks == [Stream EXCEPT !.path = <<Lit("bad")>>, !.extra[1].item = <<"Bad">>]
Recurs == [Stream EXCEPT !.path = <<Lit("tree")>>, !.extra[1].item = <<"Node">>]
MCDeclarations ==
  {GetUserRoute, UsersID, PutUserRoute, UploadRoute, Stream, Hidden, HiddenStream,
   Bare, Unknown, Unguarded, Breaks, Recurs}
MCNamesakes ==
  {GetUserRoute,
   [Bare EXCEPT !.says = TRUE, !.handler = Handles("AnyUser", "OldUser"),
                !.method = "POST", !.responses = InvalidToo]}
MCForms == {[Plainly EXCEPT !.method = "POST", !.handler = Handles("Title", "OldUser"),
                            !.responses = InvalidToo]}

(* Documents. *)
Meta ==
  [self |-> "", dialect |-> "", docs |-> "",
   info |-> [terms |-> "", contact |-> "", email |-> "", license |-> <<>>],
   servers |-> <<[name |-> "", url |-> "https", inURL |-> <<"port">>,
                  variables |-> {[default |-> "80", enum |-> <<{"80", "81"}>>]}]>>,
   tags |-> <<[name |-> "users", parent |-> "", docs |-> ""],
              [name |-> "links", parent |-> "users", docs |-> ""]>>]
Everything ==
  [prefix |-> <<>>, specs |-> {}, meta |-> Meta, schemas |-> <<>>, schemes |-> <<>>,
   security |-> <<>>, webhooks |-> <<>>]
Created(name) ==
  [name |-> <<name>>, method |-> "", id |-> <<>>, docs |-> "", hidden |-> FALSE,
   security |-> InheritSecurity, request |-> <<"OldUser">>, requests |-> <<>>,
   body |-> <<>>, extra |-> <<>>]
MCSpecs ==
  [all    |-> [Everything EXCEPT !.webhooks = <<Created("created")>>],
   mobile |-> [Everything EXCEPT !.prefix = <<Lit("api")>>, !.specs = {"mobile"},
                 !.schemas = <<"Shared", <<>>>> :> [Open EXCEPT !.props = {"x"}],
                 !.webhooks = <<[Created("hidden") EXCEPT !.hidden = TRUE]>>],
   files  |-> [Everything EXCEPT !.prefix = <<Lit("files")>>,
                 !.security = RequireSecurity("https://id.example/token", {}).reqs,
                 !.webhooks = <<[Created("moved") EXCEPT !.extra = <<Extra(0)>>]>>]]
=============================================================================
