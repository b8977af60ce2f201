------------------------------ MODULE Validator ------------------------------
(***************************************************************************)
(* pkg/http/openapi/internal/validate: what makes buildDocument refuse a   *)
(* document, at the one version it is given, 3.2.0; findings below an      *)
(* error change nothing and are left out.  A document is a record          *)
(*   self, dialect, docs     URIs, "" when absent                          *)
(*   info      [terms, contact, email, license], license <<>> or           *)
(*             <<[named, url, identifier]>>                                *)
(*   servers   [name, url, inURL, variables]: the variables its URL names, *)
(*             one after the other, and those it declares, records         *)
(*             [default, enum], enum <<>> or <<the values>>                *)
(*   tags      [name, parent, docs]                                        *)
(*   security  the requirements [scheme, scopes] of every operation        *)
(*             without its own                                             *)
(*   schemes   name -> [type, name, in, scheme, flows, url, metadata]      *)
(*   schemas   component name -> schema (module Reflector)                 *)
(*   names     type -> component name                                      *)
(*   ops       <<target, method>> -> operation, those of webhooks too: the *)
(*             target of a webhook is its name, <<<<"hook", words>>>>      *)
(* and an operation [id, docs, security, params, body, responses],         *)
(* a response [errors, content], its entries and content; a content is a   *)
(* function from content types to media types [schema, item, encoding,     *)
(* example, examples].  A URI is "relative", "http", "https", "query"      *)
(* (with a query) or "garbage" (it does not parse).                        *)
(***************************************************************************)
EXTENDS Reflector

CONSTANTS BadKeys,   \* component names with a character componentRe refuses
          URINames   \* scheme names with one of the characters :/.#?

IsURIReference(u) == u # "garbage"
IsNonRelativeURI(u) == u \in {"http", "https", "query"}
IsHTTPSURI(u) == u = "https"
IsServerURL(u) == u \notin {"garbage", "query"}
DocsValid(u) == u \notin {"garbage", "empty"}  \* "" is none, "empty" has no URL
Given(option) == option # <<>>

(***************************************************************************)
(* Document metadata.                                                      *)
(***************************************************************************)
ValidInfo(info) ==
  /\ IsURIReference(info.terms) /\ IsURIReference(info.contact)
  /\ info.email # "garbage"
  /\ Given(info.license) =>
       /\ info.license[1].named
       /\ IsURIReference(info.license[1].url)
       /\ ~(info.license[1].identifier /\ info.license[1].url # "")

ValidServer(s) ==
  /\ s.url # "" /\ IsServerURL(s.url)
  /\ IsInjective(s.inURL)
  /\ \A v \in s.variables :
       /\ v.default # ""
       /\ Given(v.enum) => v.default \in v.enum[1]
ValidServers(servers) ==
  /\ \A i \in DOMAIN servers : ValidServer(servers[i])
  /\ \A i, j \in DOMAIN servers :
       servers[i].name = servers[j].name /\ servers[i].name # "" => i = j

\* ValidateTagParents follows the parents of each tag until it meets one again.
TagNamed(tags, name) == CHOOSE i \in DOMAIN tags : tags[i].name = name
ParentOf(tags, names) ==
  {tags[TagNamed(tags, n)].parent : n \in names} \ {""}
TagNames(tags) == {tags[i].name : i \in DOMAIN tags}
Ancestors(tags, name) ==
  LET up[n \in 0..Len(tags)] ==
        IF n = 0 THEN ParentOf(tags, {name})
        ELSE up[n - 1] \cup ParentOf(tags, up[n - 1] \cap TagNames(tags))
  IN up[Len(tags)]
ValidTags(tags) ==
  /\ \A i \in DOMAIN tags : tags[i].name # "" /\ DocsValid(tags[i].docs)
  /\ \A i, j \in DOMAIN tags : tags[i].name = tags[j].name => i = j
  /\ \A i \in DOMAIN tags :
       /\ tags[i].parent \in TagNames(tags) \cup {""}
       /\ tags[i].name \notin Ancestors(tags, tags[i].name)

(***************************************************************************)
(* Schemas, by the keywords of their nodes: [nullable, bounds, docs,       *)
(* discriminator, xml], bounds "none", "number" or "other", discriminator  *)
(* <<>> or <<[property, required, union, mapping]>>, xml <<>> or           *)
(* <<[namespace, nodeType, attribute, wrapped]>>.                          *)
(***************************************************************************)
ValidDiscriminator(d) ==
  /\ d.property # "" /\ d.union
  /\ d.required \/ d.mapping
ValidXML(x) ==
  /\ x.namespace # "" => IsNonRelativeURI(x.namespace)
  /\ x.nodeType # "" =>
       /\ x.nodeType \in {"element", "attribute", "text", "cdata", "none"}
       /\ ~x.attribute /\ ~x.wrapped
ValidNode(n) ==
  /\ ~n.nullable
  /\ n.bounds # "other"
  /\ DocsValid(n.docs)
  /\ Given(n.discriminator) => ValidDiscriminator(n.discriminator[1])
  /\ Given(n.xml) => ValidXML(n.xml[1])
ValidSchema(schema) == \A n \in schema.nodes : ValidNode(n)

(***************************************************************************)
(* Operations.                                                             *)
(***************************************************************************)
ValidExample(e) ==
  /\ ~(e.value /\ e.external # "")
  /\ IsURIReference(e.external)
  /\ ~(e.data /\ e.value)
  /\ ~(e.serialized /\ (e.value \/ e.external # ""))
ValidMedia(m) ==
  /\ ~(m.example /\ m.examples # {})
  /\ \A e \in m.examples : ValidExample(e)
  /\ Given(m.schema) =>
       /\ ValidSchema(m.schema[1])
       /\ ~m.schema[1].isRef => m.encoding \subseteq m.schema[1].props
  /\ Given(m.item) => ValidSchema(m.item[1])
ValidContent(content) == \A ct \in DOMAIN content : ValidMedia(content[ct])

ReservedHeaders == {"Accept", "Content-Type", "Authorization"}
\* The first conjunct is the uniqueness of a parameter by name and location, the
\* last ValidateQueryParameterMix.
ValidParameters(params) ==
  /\ IsInjective([i \in DOMAIN params |-> <<params[i].in, params[i].name>>])
  /\ \A i \in DOMAIN params :
       /\ params[i].in = "path" => params[i].required
       /\ params[i].in = "header" => params[i].name \notin ReservedHeaders
       /\ ValidSchema(params[i].schema)
  /\ LET strings == {i \in DOMAIN params : params[i].in = "querystring"}
     IN /\ Cardinality(strings) <= 1
        /\ strings # {} => \A i \in DOMAIN params : params[i].in # "query"

TemplateNames(target) ==
  {target[i][2][1] : i \in {j \in DOMAIN target : target[j][1] \in {"par", "opt"}}}
\* ValidatePathParams, which a webhook's name is not subject to.
PathParamsMatch(target, params) ==
  {params[i].name : i \in {j \in DOMAIN params : params[j].in = "path"}}
    = TemplateNames(target)

\* A response is keyed by its status, 0 for the default response.
ValidStatus(key) == key = 0 \/ key \in 100..599
\* A name that may be a URI stands for a scheme declared elsewhere.
ValidRequirements(reqs, schemes) ==
  \A i \in DOMAIN reqs : reqs[i].scheme \in DOMAIN schemes \cup URINames
ValidOperation(op, schemes) ==
  /\ DocsValid(op.docs)
  /\ ValidParameters(op.params)
  /\ ValidContent(op.body)
  /\ \A key \in DOMAIN op.responses :
       ValidStatus(key) /\ ValidContent(op.responses[key].content)
  /\ ValidRequirements(op.security, schemes)

(***************************************************************************)
(* Security schemes.  A flow is a record [auth, token, device, refresh,    *)
(* scopes], scopes whether the map is there.                               *)
(***************************************************************************)
NeedsAuthorizationURL == {"implicit", "authorizationCode"}
NeedsTokenURL ==
  {"password", "clientCredentials", "authorizationCode", "deviceAuthorization"}
Required(url) == url # "" /\ IsURIReference(url)
ValidOAuthFlow(name, flow) ==
  /\ name \in NeedsAuthorizationURL => Required(flow.auth)
  /\ name \in NeedsTokenURL => Required(flow.token)
  /\ name = "deviceAuthorization" => Required(flow.device)
  /\ IsURIReference(flow.refresh)
  /\ flow.scopes
ValidSecurityScheme(s) ==
  /\ s.type \in {"apiKey", "http", "mutualTLS", "oauth2", "openIdConnect"}
  /\ s.metadata # "" => s.type = "oauth2" /\ IsHTTPSURI(s.metadata)
  /\ s.type = "apiKey" => s.name # "" /\ s.in \in {"query", "header", "cookie"}
  /\ s.type = "http" => s.scheme # ""
  /\ s.type = "oauth2" =>
       /\ DOMAIN s.flows # {}
       /\ \A name \in DOMAIN s.flows : ValidOAuthFlow(name, s.flows[name])
  /\ s.type = "openIdConnect" => IsHTTPSURI(s.url)

(***************************************************************************)
(* The document as a whole.                                                *)
(***************************************************************************)
IsWebhook(target) == target # <<>> /\ target[1][1] = "hook"
\* NormalizeTemplatedPath: every template reads the same.
Normalized(target) ==
  [i \in DOMAIN target |-> IF target[i][1] \in {"par", "opt"}
                           THEN <<target[i][1], <<>>>> ELSE target[i]]

DistinctPaths(ops) ==
  \A p, q \in DOMAIN ops : Normalized(p[1]) = Normalized(q[1]) => p[1] = q[1]
DistinctOperationIDs(ops) == \A p, q \in DOMAIN ops : ops[p].id = ops[q].id => p = q

\* ValidateReferenceTargets: every $ref of the document, wherever it stands.
SchemasOf(content) ==
  UNION {ToSet(content[ct].schema) \cup ToSet(content[ct].item) :
           ct \in DOMAIN content}
SchemasIn(op) ==
  {op.params[i].schema : i \in DOMAIN op.params} \cup SchemasOf(op.body)
    \cup UNION {SchemasOf(op.responses[key].content) : key \in DOMAIN op.responses}
SchemasOfDocument(doc) ==
  UNION {SchemasIn(doc.ops[p]) : p \in DOMAIN doc.ops}
    \cup {doc.schemas[name] : name \in DOMAIN doc.schemas}
ReferenceTargetsExist(doc) ==
  \A s \in SchemasOfDocument(doc) : RefsOf(s, doc) \subseteq DOMAIN doc.schemas

ValidComponents(doc) ==
  /\ \A name \in DOMAIN doc.schemas :
       name[1] \notin BadKeys /\ ValidSchema(doc.schemas[name])
  /\ \A name \in DOMAIN doc.schemes :
       name \notin BadKeys /\ ValidSecurityScheme(doc.schemes[name])

ValidateDocument(doc) ==
  /\ IsURIReference(doc.self) /\ IsURIReference(doc.dialect) /\ DocsValid(doc.docs)
  /\ ValidInfo(doc.info) /\ ValidServers(doc.servers) /\ ValidTags(doc.tags)
  /\ ValidRequirements(doc.security, doc.schemes)
  /\ DistinctPaths(doc.ops)
  /\ DistinctOperationIDs(doc.ops)
  /\ \A p \in DOMAIN doc.ops :
       /\ ValidOperation(doc.ops[p], doc.schemes)
       /\ ~IsWebhook(p[1]) => PathParamsMatch(p[1], doc.ops[p].params)
  /\ ValidComponents(doc)
  /\ ReferenceTargetsExist(doc)
=============================================================================
