------------------------------- MODULE Router -------------------------------
(***************************************************************************)
(* pkg/http/openapi, registration: routers and groups, the contract a      *)
(* route inherits from them, what registration refuses, and the manifest   *)
(* a document is filtered from.                                            *)
(*                                                                         *)
(* A path is the sequence of its segments <<kind, words>>: kind is "lit",  *)
(* "dash" (a literal whose words are joined by dashes), "par" (:id) or     *)
(* "opt" (:id?); words are the words of its name, which an operation ID    *)
(* joins with underscores; a parameter is one word.  An optional value is  *)
(* a sequence of at most one element.  Cases are a sequence of records     *)
(* [status, errors], errors a sequence of catalog entries.                 *)
(***************************************************************************)
EXTENDS Binder

CONSTANTS Public,         \* the entries of the public catalog
          StatusOf,       \* the status KindStatuses gives an entry's kind
          DefaultStatus,  \* for the kinds it does not know
          Schemes         \* the registered schemes: name -> [type, verifies]
ASSUME CatalogAssumption == Public \subseteq Entry
ASSUME StatusAssumption == StatusOf \in [Entry -> Nat] /\ DefaultStatus \in Nat

(***************************************************************************)
(* Security: InheritSecurity, PublicSecurity, RequireSecurity and          *)
(* RequireAnySecurity; a requirement is a record [scheme, scopes].         *)
(***************************************************************************)
InheritSecurity == [explicit |-> FALSE, public |-> FALSE, reqs |-> <<>>]
PublicSecurity  == [explicit |-> TRUE, public |-> TRUE, reqs |-> <<>>]
RequireSecurity(scheme, scopes) ==
  [explicit |-> TRUE, public |-> FALSE,
   reqs |-> <<[scheme |-> scheme, scopes |-> scopes]>>]
RequireAnySecurity(schemes) ==
  [explicit |-> TRUE, public |-> FALSE,
   reqs |-> [i \in DOMAIN schemes |-> [scheme |-> schemes[i], scopes |-> {}]]]

\* The route decides, else its innermost group that says something, else the
\* engine's default.
ResolveSecurity(own, groups, default) ==
  LET chain == <<own>> \o Reverse(groups) \o <<default>>
      said  == {i \in DOMAIN chain : chain[i].explicit}
  IN IF said = {} THEN InheritSecurity ELSE chain[Min(said)]

(***************************************************************************)
(* What registration refuses, by a panic.                                  *)
(***************************************************************************)
HasStatus(cases, status) ==
  \E i \in DOMAIN cases : cases[i].status = status /\ cases[i].errors # <<>>

\* A secured route names registered schemes that can verify, declares 401, and
\* 403 as soon as one alternative asks for scopes.
SecuredRouteValid(r) ==
  /\ \A i \in DOMAIN r.security :
       /\ r.security[i].scheme \in DOMAIN Schemes
       /\ Schemes[r.security[i].scheme].verifies
  /\ r.security # <<>> => HasStatus(r.cases, 401)
  /\ (\E i \in DOMAIN r.security : r.security[i].scopes # {})
       => HasStatus(r.cases, 403)

\* validateErrCases: public entries only, each at the status of its kind.
ErrCasesValid(cases) ==
  \A i \in DOMAIN cases : \A j \in DOMAIN cases[i].errors :
    LET e == cases[i].errors[j]
    IN e \in Public /\ StatusOf[e] = cases[i].status

\* The entries declared at one status, in order: the binder's templates at 422,
\* and at 401 the fallback for a missing credential first.
DeclaredAt(cases, status) ==
  FlattenSeq([i \in DOMAIN cases |->
    IF cases[i].status = status THEN cases[i].errors ELSE <<>>])

\* A route with a handler.
Accepted(r) ==
  /\ SecuredRouteValid(r)
  /\ ErrCasesValid(r.cases)
  /\ r.fields # <<>> => DeclaredAt(r.cases, 422) # <<>>

\* A Describe route has no handler to infer a response from, and its security is
\* not enforced, so it is not checked either.
AcceptedDescription(r) ==
  /\ r.success # <<>> \/ r.extra # <<>>
  /\ ErrCasesValid(r.cases)

(***************************************************************************)
(* A router is a record [prefix, says, specs, hidden, responses, security, *)
(* mws]: the contract its groups add up to, outermost first.               *)
(***************************************************************************)
NewRouter(prefix) ==
  [prefix |-> prefix, says |-> FALSE, specs |-> <<>>, hidden |-> FALSE,
   responses |-> <<>>, security |-> <<>>, mws |-> 0]

AppendDedupe(base, add) ==
  base \o SelectSeq(add, LAMBDA x : x \notin ToSet(base))

\* A group's own response set replaces the one it inherits.
Group(r, g) ==
  [prefix    |-> r.prefix \o g.prefix,
   says      |-> r.says \/ g.says,
   specs     |-> AppendDedupe(r.specs, g.specs),
   hidden    |-> r.hidden \/ g.hidden,
   responses |-> IF g.responses = <<>> THEN r.responses ELSE g.responses,
   security  |-> IF g.security.explicit THEN Append(r.security, g.security)
                 ELSE r.security,
   mws       |-> r.mws + g.mws]
Grouped(r, groups) ==
  LET within[n \in 0..Len(groups)] ==
        IF n = 0 THEN r ELSE Group(within[n - 1], groups[n])
  IN within[Len(groups)]

\* The cases of the group come first.  Cases() copies: that append may write
\* into the spare room of the group's slice concerns no one.
MergeResponseSets(group, own) ==
  (IF group = <<>> THEN <<>> ELSE group[1])
    \o (IF own = <<>> THEN <<>> ELSE own[1].cases)

\* The entries a manifest route lists, each with the status of its first case.
ErrorSpecs(cases) ==
  [e \in UNION {ToSet(cases[i].errors) : i \in DOMAIN cases} |->
     cases[Min({i \in DOMAIN cases : e \in ToSet(cases[i].errors)})].status]

\* compileRoute and record: the manifest's entry for the declaration d on a
\* router.  d.handler is <<[in, out, fields]>>, or <<>> for Describe; d.responses
\* is <<[body, cases]>>, body the type Returns was given, if any.
Compile(r, d, default) ==
  LET policy  == ResolveSecurity(d.security, r.security, default)
      cases   == MergeResponseSets(r.responses, d.responses)
      body    == IF d.responses = <<>> THEN <<>> ELSE d.responses[1].body
      success == IF body = <<>> /\ d.handler # <<>> THEN <<d.handler[1].out>>
                 ELSE body
      in      == IF d.request # <<>> \/ d.handler = <<>> THEN d.request
                 ELSE <<d.handler[1].in>>
  IN [method   |-> d.method,
      path     |-> r.prefix \o d.path,
      id       |-> d.id,
      specs    |-> AppendDedupe(r.specs, d.specs),
      hidden   |-> r.hidden \/ d.hidden,
      security |-> policy.reqs,
      public   |-> policy.public,
      cases    |-> cases,
      errors   |-> ErrorSpecs(cases),
      docs     |-> d.docs,
      input    |-> IF d.handler = <<>> THEN <<>> ELSE <<d.handler[1].in>>,
      fields   |-> IF d.handler = <<>> THEN <<>> ELSE d.handler[1].fields,
      request  |-> in,
      requests |-> d.requests,
      success  |-> success,
      extra    |-> d.extra,
      enforced |-> d.handler # <<>>,
      documented |->
        \/ r.says \/ d.says \/ d.id # <<>> \/ d.request # <<>>
        \/ d.requests # <<>> \/ d.extra # <<>> \/ body # <<>> \/ cases # <<>>]

\* Returns(T{}) has to name what the handler returns.
Registrable(d, entry) ==
  IF entry.enforced
  THEN Accepted(entry) /\ entry.success = <<d.handler[1].out>>
  ELSE AcceptedDescription(entry)

(***************************************************************************)
(* The manifest, narrowed to one document.                                 *)
(***************************************************************************)
MatchesTags(specs, want) == want = {} \/ ToSet(specs) \cap want # {}

\* Faulty: routes of every document match.
FaultForSpec(routes, spec) == SelectSeq(routes, LAMBDA r : r.documented)
ForSpec(routes, spec) ==
  LET wanted(r) == /\ r.documented
                   /\ IsPrefix(spec.prefix, r.path)
                   /\ MatchesTags(r.specs, spec.specs)
  IN FlattenSeq([i \in DOMAIN routes |->
       IF wanted(routes[i]) THEN <<routes[i]>> ELSE <<>>])
=============================================================================
