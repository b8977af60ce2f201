---------------------------- MODULE OpenAPIProofs ----------------------------
(***************************************************************************)
(* Theorems about OpenAPI, for every router that registration can build,   *)
(* every set of types, any number of documents, readers and webhooks: what *)
(* a document shows of the routes, what its references mean, that it is    *)
(* built once, and that it tells of a route what is enforced.              *)
(***************************************************************************)
EXTENDS OpenAPI, SequenceLemmas, FiniteSetTheorems, TLAPS

-------------------------------------------------------------------------------
(* What a document is built from *)

LEMMA PathConcat ==
    ASSUME NEW p, IsPath(p), NEW q, IsPath(q)
    PROVE  IsPath(p \o q)
<1> DEFINE S == {p[i] : i \in DOMAIN p} \cup {q[i] : i \in DOMAIN q}
<1>1. p \in Seq(S) /\ q \in Seq(S)
  <2>1. p \in Seq({p[i] : i \in DOMAIN p}) /\ q \in Seq({q[i] : i \in DOMAIN q})
    BY DEF IsPath, IsSequence
  <2>2. \A T : \A U : \A s \in Seq(T) : T \subseteq U => s \in Seq(U)
    OBVIOUS
  <2> QED
    BY <2>1, <2>2
<1> HIDE DEF S
<1>2. p \o q \in Seq(S) /\ DOMAIN p = 1..Len(p) /\ DOMAIN q = 1..Len(q)
      /\ DOMAIN (p \o q) = 1..Len(p \o q)
  BY <1>1
<1>3. ASSUME NEW i \in DOMAIN (p \o q)
      PROVE  \/ i \in DOMAIN p /\ (p \o q)[i] = p[i]
             \/ i - Len(p) \in DOMAIN q /\ (p \o q)[i] = q[i - Len(p)]
  BY <1>1, <1>2
<1>4. \A i \in DOMAIN (p \o q) : (p \o q)[i][1] \in {"lit", "dash", "par", "opt"}
  BY <1>3 DEF IsPath
<1>5. p \o q \in Seq({(p \o q)[i] : i \in DOMAIN (p \o q)})
  <2> DEFINE r == p \o q
  <2>1. r \in Seq(S)
    BY <1>2
  <2> HIDE DEF r
  <2>2. r \in Seq({r[i] : i \in DOMAIN r})
    BY <2>1
  <2> QED
    BY <2>2 DEF r
<1> QED
  BY <1>4, <1>5 DEF IsPath, IsSequence

\* w is, up to n, the recursion by which Grouped adds the groups to a router.
Within(w, r, groups, n) ==
    w = [k \in 0..n |-> IF k = 0 THEN r ELSE Group(w[k - 1], groups[k])]

LEMMA WithinExtends ==
    ASSUME NEW r, NEW groups, NEW n \in Nat, NEW w, Within(w, r, groups, n)
    PROVE  \E v : Within(v, r, groups, n + 1)
<1> DEFINE next == Group(w[n], groups[n + 1])
           v == [k \in 0..(n + 1) |-> IF k = n + 1 THEN next ELSE w[k]]
<1>1. \A k \in 0..n : w[k] = IF k = 0 THEN r ELSE Group(w[k - 1], groups[k])
  <2> DEFINE f == [k \in 0..n |-> IF k = 0 THEN r ELSE Group(w[k - 1], groups[k])]
  <2>1. \A k \in 0..n : f[k] = IF k = 0 THEN r ELSE Group(w[k - 1], groups[k])
    OBVIOUS
  <2> HIDE DEF f
  <2>2. w = f
    BY DEF Within, f
  <2> QED
    BY <2>1, <2>2
<1> HIDE DEF next
<1>2. \A k \in 0..n : v[k] = w[k]
  OBVIOUS
<1>3. v[n + 1] = next
  OBVIOUS
<1>4. \A k \in 0..(n + 1) : k \in 0..n \/ k = n + 1
  OBVIOUS
<1>5. v = [k \in 0..(n + 1) |-> v[k]]
  OBVIOUS
<1> HIDE DEF v
<1>6. ASSUME NEW k \in 0..(n + 1)
      PROVE  v[k] = IF k = 0 THEN r ELSE Group(v[k - 1], groups[k])
  <2>1. CASE k \in 0..n
    <3>1. k # 0 => k - 1 \in 0..n
      BY <2>1
    <3>2. k # 0 => v[k - 1] = w[k - 1]
      BY <1>2, <3>1
    <3> QED
      BY <1>1, <1>2, <2>1, <3>2
  <2>2. CASE k = n + 1
    <3>1. k # 0 /\ k - 1 = n /\ n \in 0..n
      BY <2>2
    <3>2. v[k - 1] = w[n] /\ groups[k] = groups[n + 1]
      BY <1>2, <2>2, <3>1
    <3> QED
      BY <1>3, <2>2, <3>1, <3>2 DEF next
  <2> QED
    BY <1>4, <2>1, <2>2
<1>7. Within(v, r, groups, n + 1)
  BY <1>5, <1>6 DEF Within
<1> QED
  BY <1>7

LEMMA WithinExists ==
    ASSUME NEW r, NEW groups PROVE \A n \in Nat : \E w : Within(w, r, groups, n)
<1> DEFINE S == {n \in Nat : \E w : Within(w, r, groups, n)}
<1>1. 0 \in S
  <2> DEFINE w == [k \in {0} |-> r]
  <2>1. 0..0 = {0}
    OBVIOUS
  <2>2. w = [k \in 0..0 |-> IF k = 0 THEN r ELSE Group(w[k - 1], groups[k])]
    BY <2>1
  <2>3. Within(w, r, groups, 0)
    BY <2>2 DEF Within
  <2> QED
    BY <2>3
<1>2. \A n \in Nat : n \in S => n + 1 \in S
  BY WithinExtends
<1>3. \A n \in Nat : n \in S
  <2> HIDE DEF S
  <2> QED
    BY <1>1, <1>2, Induction
<1> QED
  BY <1>3

LEMMA GroupPrefix ==
    ASSUME NEW r, NEW g PROVE Group(r, g).prefix = r.prefix \o g.prefix
  BY DEF Group

\* The routers of a route's groups, one inside the other.
LEMMA GroupedSteps ==
    ASSUME NEW r, NEW groups, IsSequence(groups)
    PROVE  \E w : /\ Grouped(r, groups) = w[Len(groups)]
                  /\ \A k \in 0..Len(groups) :
                       w[k] = IF k = 0 THEN r ELSE Group(w[k - 1], groups[k])
<1> DEFINE n == Len(groups)
           w == CHOOSE f : Within(f, r, groups, n)
<1>1. n \in Nat
  BY DEF IsSequence
<1>2. Within(w, r, groups, n)
  BY <1>1, WithinExists
<1>3. Grouped(r, groups) = w[n]
  BY DEF Grouped, Within
<1> HIDE DEF w, n
<1>4. \A k \in 0..n : w[k] = IF k = 0 THEN r ELSE Group(w[k - 1], groups[k])
  <2> DEFINE f == [k \in 0..n |-> IF k = 0 THEN r ELSE Group(w[k - 1], groups[k])]
  <2>1. \A k \in 0..n : f[k] = IF k = 0 THEN r ELSE Group(w[k - 1], groups[k])
    OBVIOUS
  <2> HIDE DEF f
  <2>2. w = f
    BY <1>2 DEF Within, f
  <2> QED
    BY <2>1, <2>2
<1> QED
  BY <1>3, <1>4 DEF n

\* The groups of a router only ever lengthen its prefix by theirs.
LEMMA GroupedPath ==
    ASSUME NEW r, IsPath(r.prefix), NEW groups, IsSequence(groups),
           \A i \in DOMAIN groups : IsPath(groups[i].prefix)
    PROVE  IsPath(Grouped(r, groups).prefix)
<1> DEFINE n == Len(groups)
<1>1. n \in Nat /\ DOMAIN groups = 1..n
  BY DEF IsSequence
<1>2. PICK w : /\ Grouped(r, groups) = w[n]
               /\ \A k \in 0..n : w[k] = IF k = 0 THEN r ELSE Group(w[k - 1], groups[k])
  BY GroupedSteps
<1> HIDE DEF n
<1> DEFINE Good == {k \in Nat : k \in 0..n => IsPath(w[k].prefix)}
<1>5. 0 \in Good
  <2>1. 0 \in 0..n
    BY <1>1
  <2> QED
    BY <1>2, <2>1
<1>6. ASSUME NEW k \in Nat, k \in Good PROVE k + 1 \in Good
  <2> SUFFICES ASSUME k + 1 \in 0..n PROVE IsPath(w[k + 1].prefix)
    OBVIOUS
  <2>1. k \in 0..n /\ k + 1 \in 1..n /\ (k + 1) - 1 = k /\ k + 1 # 0
    BY <1>1
  <2>2. w[k + 1] = Group(w[(k + 1) - 1], groups[k + 1])
    BY <1>2, <2>1
  <2>3. w[k + 1].prefix = w[k].prefix \o groups[k + 1].prefix
    <3>1. w[k + 1] = Group(w[k], groups[k + 1])
      BY <2>1, <2>2
    <3> QED
      BY <3>1, GroupPrefix, Zenon
  <2>4. IsPath(w[k].prefix) /\ IsPath(groups[k + 1].prefix)
    BY <1>1, <1>6, <2>1
  <2> QED
    BY <2>3, <2>4, PathConcat
<1>7. \A k \in Nat : k \in Good
  <2> HIDE DEF Good
  <2> QED
    BY <1>5, <1>6, Induction
<1>8. n \in 0..n
  BY <1>1
<1> QED
  BY <1>1, <1>2, <1>7, <1>8

\* A registered path is made of such segments, so it is no webhook's name.
LEMMA EntryPath == ASSUME NEW e \in Entries PROVE IsPath(e.path) /\ ~IsWebhook(e.path)
<1>1. PICK d \in Declarations : e = EntryOf[d]
  BY DEF Entries
<1> DEFINE router == Grouped(NewRouter(<<>>), d.groups)
<1>2. e = Compile(router, d, DefaultSecurity)
  BY <1>1 DEF EntryOf
<1>3. IsPath(NewRouter(<<>>).prefix)
  <2>1. NewRouter(<<>>).prefix = <<>>
    BY DEF NewRouter
  <2>2. IsPath(<<>>)
    BY DEF IsPath, IsSequence
  <2> QED
    BY <2>1, <2>2
<1>4. IsPath(router.prefix) /\ IsPath(d.path)
  BY <1>3, GroupedPath, PathAssumption
<1> HIDE DEF router
<1>5. e.path = router.prefix \o d.path
  BY <1>2 DEF Compile
<1>6. IsPath(e.path)
  BY <1>4, <1>5, PathConcat
<1>7. e.path # <<>> => 1 \in DOMAIN e.path
  BY <1>6 DEF IsPath, IsSequence
<1> QED
  BY <1>6, <1>7 DEF IsPath, IsWebhook

LEMMA HookPath == ASSUME NEW h \in Hooks PROVE IsWebhook(h.path)
<1>1. PICK wh : h = Webhook(wh)
  BY DEF Hooks
<1>2. h.path = <<<<"hook", wh.name>>>>
  BY <1>1 DEF Webhook
<1> QED
  BY <1>2 DEF IsWebhook

LEMMA PrefixElements ==
    ASSUME NEW S, NEW s \in Seq(S), NEW T, NEW t \in Seq(T)
    PROVE  IsPrefix(s, t) <=> \A i \in DOMAIN s : i \in DOMAIN t /\ t[i] = s[i]
<1>1. DOMAIN s = 1..Len(s) /\ DOMAIN t = 1..Len(t) /\ Len(s) \in Nat /\ Len(t) \in Nat
  OBVIOUS
<1>2. SubSeq(s, 1, Len(s)) = s
  OBVIOUS
<1>3. ASSUME Len(s) <= Len(t)
      PROVE  SubSeq(s, 1, Len(s)) = SubSeq(t, 1, Len(s)) <=> \A i \in DOMAIN s : t[i] = s[i]
  <2>1. SubSeq(t, 1, Len(s)) \in Seq(T) /\ Len(SubSeq(t, 1, Len(s))) = Len(s)
        /\ \A i \in 1..Len(s) : SubSeq(t, 1, Len(s))[i] = t[i]
    BY <1>3
  <2> QED
    BY <1>1, <1>2, <2>1
<1>4. (\A i \in DOMAIN s : i \in DOMAIN t) <=> Len(s) <= Len(t)
  BY <1>1
<1> QED
  BY <1>3, <1>4 DEF IsPrefix

\* ForSpec keeps the entries its Spec asks for, and no other.
LEMMA ForSpecElements ==
    ASSUME NEW entries \in Seq(Entries), NEW spec, IsSequence(spec.prefix)
    PROVE  /\ ForSpec(entries, spec) \in Seq(Entries)
           /\ ToSet(ForSpec(entries, spec)) \subseteq ToSet(entries)
           /\ {e \in ToSet(ForSpec(entries, spec)) : ~e.hidden}
                = {e \in ToSet(entries) : Belongs(e, spec)}
<1> DEFINE wanted(e) == e.documented /\ IsPrefix(spec.prefix, e.path)
                        /\ MatchesTags(e.specs, spec.specs)
           part(i) == IF wanted(entries[i]) THEN <<entries[i]>> ELSE <<>>
           parts == [i \in DOMAIN entries |-> part(i)]
<1>1. DOMAIN entries = 1..Len(entries) /\ Len(entries) \in Nat
      /\ \A i \in DOMAIN entries : entries[i] \in Entries
  OBVIOUS
<1>2. ForSpec(entries, spec) = FlattenSeq(parts)
  BY DEF ForSpec
<1> HIDE DEF wanted
<1>3. \A i \in DOMAIN entries : part(i) \in Seq(Entries)
  BY <1>1
<1>4. parts \in Seq(Seq(Entries))
  BY <1>1, <1>3
<1>5. DOMAIN parts = DOMAIN entries /\ \A i \in DOMAIN entries : parts[i] = part(i)
  OBVIOUS
<1>6. ASSUME NEW i \in DOMAIN entries
      PROVE  ToSet(part(i)) = {e \in {entries[i]} : wanted(e)}
  BY DEF ToSet
<1> HIDE DEF parts, part
<1>7. /\ FlattenSeq(parts) \in Seq(Entries)
      /\ ToSet(FlattenSeq(parts)) = UNION {ToSet(parts[i]) : i \in DOMAIN parts}
  BY <1>4, FlattenElements
<1>8. ToSet(FlattenSeq(parts)) = {e \in ToSet(entries) : wanted(e)}
  <2>1. ASSUME NEW e \in ToSet(entries), wanted(e)
        PROVE  \E i \in DOMAIN parts : e \in ToSet(parts[i])
    <3>1. PICK i \in DOMAIN entries : entries[i] = e
      BY DEF ToSet
    <3> QED
      BY <1>5, <1>6, <2>1, <3>1
  <2>2. ASSUME NEW i \in DOMAIN parts, NEW e \in ToSet(parts[i])
        PROVE  e \in ToSet(entries) /\ wanted(e)
    BY <1>5, <1>6 DEF ToSet
  <2> QED
    BY <1>7, <2>1, <2>2
<1>9. ASSUME NEW e \in ToSet(entries) PROVE Belongs(e, spec) <=> wanted(e) /\ ~e.hidden
  <2>1. e \in Entries
    BY DEF ToSet
  <2>2. IsSequence(e.path) /\ IsSequence(spec.prefix)
    BY <2>1, EntryPath DEF IsPath
  <2>3. IsPrefix(spec.prefix, e.path)
          <=> \A i \in DOMAIN spec.prefix : i \in DOMAIN e.path /\ e.path[i] = spec.prefix[i]
    <3> DEFINE s == spec.prefix
               t == e.path
    <3>1. s \in Seq({s[i] : i \in DOMAIN s}) /\ t \in Seq({t[i] : i \in DOMAIN t})
      BY <2>2 DEF IsSequence
    <3> HIDE DEF s, t
    <3> QED
      BY <3>1, PrefixElements DEF s, t
  <2>4. MatchesTags(e.specs, spec.specs)
          <=> (spec.specs = {} \/ \E i \in DOMAIN e.specs : e.specs[i] \in spec.specs)
    BY DEF MatchesTags, ToSet
  <2> QED
    BY <2>3, <2>4 DEF Belongs, wanted
<1> QED
  BY <1>2, <1>7, <1>8, <1>9

-------------------------------------------------------------------------------
(* The shape of the state *)

Pcs == {"idle", "asked", "building", "replied"}

Shapes ==
    /\ routes \in Seq(Entries)
    /\ once \in [DOMAIN Specs -> {"idle", "building", "done"}]
    /\ snap \in [DOMAIN Specs -> Seq(Entries)]
    /\ DOMAIN result = DOMAIN Specs
    /\ DOMAIN reader = Readers
    /\ \A r \in Readers :
          /\ reader[r] = [pc |-> reader[r].pc, spec |-> reader[r].spec]
          /\ reader[r].pc \in Pcs
          /\ reader[r].pc # "idle" => reader[r].spec \in DOMAIN Specs
    /\ DOMAIN build = Readers
    /\ DOMAIN reply = Readers

IsDocument(doc) ==
    doc = [self |-> doc.self, dialect |-> doc.dialect, docs |-> doc.docs,
           info |-> doc.info, servers |-> doc.servers, tags |-> doc.tags,
           security |-> doc.security, schemes |-> doc.schemes,
           schemas |-> doc.schemas, names |-> doc.names, ops |-> doc.ops]

\* Routes are added from a list of manifest entries, webhooks from a set.
IsBuild(b) ==
    /\ b = [todo |-> b.todo, hooks |-> b.hooks, types |-> b.types, refl |-> b.refl,
            doc |-> b.doc]
    /\ b.todo \in Seq({PlanOf[e] : e \in Entries})
    /\ b.hooks \subseteq {PlanOf[h] : h \in Hooks}
    /\ b.types \subseteq DOMAIN Types
    /\ b.refl = [names |-> b.refl.names, comps |-> b.refl.comps]
    /\ IsDocument(b.doc)
InBuild(r) == reader[r].pc = "building"
Builds == \A r \in Readers : InBuild(r) => IsBuild(build[r])

LEMMA PlanEntry == ASSUME NEW e \in Entries \cup Hooks PROVE PlanOf[e].entry = e
  BY DEF PlanOf

(***************************************************************************)
(* What a step comes to for the readers of a document: nothing, or one of  *)
(* them asks, enters the Once, adds to its document, leaves the Once, or   *)
(* is answered.                                                            *)
(***************************************************************************)
Quiet ==
    /\ routes' \in Seq(Entries)
    /\ UNCHANGED <<once, snap, result, reader, build, reply>>
Adds(r, b) ==
    /\ InBuild(r)
    /\ build' = [build EXCEPT ![r] = b]
    /\ UNCHANGED <<routes, once, snap, result, reader, reply>>
Leaves(r, pc, outcome) ==
    /\ InBuild(r)
    /\ Leave(r, outcome)
    /\ reader' = [reader EXCEPT ![r].pc = pc]
    /\ \/ pc = "asked" /\ reply' = reply
       \/ pc = "replied" /\ reply' = [reply EXCEPT ![r] = Panicked]
    /\ UNCHANGED <<routes, snap>>
    /\ outcome.kind = "document" =>
         /\ build[r].todo = <<>> /\ build[r].types = {}
         /\ outcome.doc = Finished(build[r].doc, build[r].refl)

\* The next route is passed over, or its operation is added.
Route(r) == Head(build[r].todo).entry
Skipped(b) == [b EXCEPT !.todo = Tail(@)]
WithRoute(b, e, types, op) ==
    [b EXCEPT !.todo = Tail(@), !.types = types, !.doc.ops = Put(@, At(e), op)]
\* A visible route's operation and the types it brings depend on its plan alone.
Drawn(plan, types, op) ==
    ~plan.entry.hidden =>
       /\ ~plan.overflows
       /\ types = TypesIn(plan.op) \cup TypesIn(Extended(plan.op, plan.entry))
       /\ op = WithErrors(Extended(plan.op, plan.entry), plan.entry.errors)
Hooked(b, plan) == [b EXCEPT !.hooks = @ \ {plan}]
WithHook(b, plan, types) ==
    [b EXCEPT !.hooks = @ \ {plan}, !.types = types,
              !.doc.ops = Put(@, At(plan.entry), plan.op)]
Named(b, t, name) ==
    [b EXCEPT !.refl = RefSchema(@, t, name).refl,
              !.types = (@ \cup RefSchema(b.refl, t, name).more) \ {t}]

Step ==
    \/ Quiet
    \/ \E r \in Readers : \E s \in DOMAIN Specs : Ask(r, s)
    \/ \E r \in Readers : EnterOnce(r)
    \/ \E r \in Readers : \E t \in build[r].types :
         \E name \in TypeNames(build[r].refl.names, t) :
         Adds(r, Named(build[r], t, name))
    \/ \E r \in Readers :
         /\ build[r].todo # <<>> /\ ~Shown(Route(r), build[r].doc)
         /\ Adds(r, Skipped(build[r]))
    \/ \E r \in Readers : \E types \in SUBSET DOMAIN Types : \E op :
         /\ build[r].todo # <<>> /\ build[r].types = {} /\ Shown(Route(r), build[r].doc)
         /\ Drawn(Head(build[r].todo), types, op)
         /\ Adds(r, WithRoute(build[r], Route(r), types, op))
    \/ \E r \in Readers : \E plan \in build[r].hooks : Adds(r, Hooked(build[r], plan))
    \/ \E r \in Readers : \E plan \in build[r].hooks :
       \E types \in SUBSET DOMAIN Types :
         build[r].types = {} /\ Adds(r, WithHook(build[r], plan, types))
    \/ \E r \in Readers : \E pc, outcome : Leaves(r, pc, outcome)
    \/ \E r \in Readers : Reply(r)

LEMMA TypesKnown ==
    ASSUME NEW schemas PROVE TypesOf(schemas) \subseteq DOMAIN Types
  BY DEF TypesOf

LEMMA Steps == ASSUME Shapes, Builds, [Next]_vars PROVE Step
<1>1. CASE UNCHANGED vars
  BY <1>1 DEF vars, Step, Quiet, Shapes
<1>2. ASSUME NEW d \in Declarations, Register(d) PROVE Step
  <2>1. EntryOf[d] \in Entries
    BY DEF Entries
  <2>2. routes' \in Seq(Entries)
    BY <1>2, <2>1 DEF Register, Shapes
  <2> QED
    BY <1>2, <2>2 DEF Register, Step, Quiet
<1>3. ASSUME NEW r \in Readers, Reflect(r) PROVE Step
  <2>1. PICK t \in build[r].types : \E name \in TypeNames(build[r].refl.names, t) :
          build' = [build EXCEPT
            ![r].refl = RefSchema(@, t, name).refl,
            ![r].types = (@ \cup RefSchema(build[r].refl, t, name).more) \ {t}]
    BY <1>3 DEF Reflect
  <2>2. PICK name \in TypeNames(build[r].refl.names, t) :
          build' = [build EXCEPT
            ![r].refl = RefSchema(@, t, name).refl,
            ![r].types = (@ \cup RefSchema(build[r].refl, t, name).more) \ {t}]
    BY <2>1
  <2>3. build' = [build EXCEPT ![r] = Named(build[r], t, name)]
    BY <2>2 DEF Named
  <2>4. Adds(r, Named(build[r], t, name))
    BY <1>3, <2>3 DEF Adds, Reflect, Built, Building, InBuild
  <2> QED
    BY <2>4 DEF Step
<1>4. ASSUME NEW r \in Readers, AddRoute(r) PROVE Step
  <2>1. InBuild(r) /\ build[r].todo # <<>>
    BY <1>4 DEF AddRoute, Building, InBuild
  <2>2. PICK plan \in Due(r) :
          \/ Refuses(plan.entry, build[r].doc) /\ Refused(r)
          \/ /\ ~Shown(plan.entry, build[r].doc)
             /\ build' = [build EXCEPT ![r].todo = Tail(@)]
             /\ Built
          \/ /\ Shown(plan.entry, build[r].doc) /\ ~plan.overflows
             /\ \E op \in {IF plan.entry.hidden
                           THEN build[r].doc.ops[At(plan.entry)] ELSE plan.op} :
                  build' = [build EXCEPT
                    ![r].todo = Tail(@),
                    ![r].types = TypesIn(op) \cup TypesIn(Extended(op, plan.entry)),
                    ![r].doc.ops = Put(@, At(plan.entry),
                                          WithErrors(Extended(op, plan.entry),
                                                     plan.entry.errors))]
             /\ Built
    BY <1>4 DEF AddRoute, Sound
  <2>3. plan = Head(build[r].todo) /\ plan.entry = Route(r) /\ build[r].types = {}
    BY <2>1, <2>2 DEF Due, Route
  <2>4. CASE Refused(r)
    <3>1. Leaves(r, "asked", Failed)
      BY <2>1, <2>4 DEF Refused, Leaves, Failed
    <3> QED
      BY <3>1 DEF Step
  <2>5. CASE /\ ~Shown(plan.entry, build[r].doc)
             /\ build' = [build EXCEPT ![r].todo = Tail(@)]
             /\ Built
    <3>1. build' = [build EXCEPT ![r] = Skipped(build[r])]
      BY <2>5 DEF Skipped
    <3>2. Adds(r, Skipped(build[r]))
      BY <2>1, <2>5, <3>1 DEF Adds, Built
    <3> QED
      BY <2>1, <2>3, <2>5, <3>2 DEF Step
  <2>6. CASE /\ Shown(plan.entry, build[r].doc) /\ ~plan.overflows
             /\ \E op \in {IF plan.entry.hidden
                           THEN build[r].doc.ops[At(plan.entry)] ELSE plan.op} :
                  build' = [build EXCEPT
                    ![r].todo = Tail(@),
                    ![r].types = TypesIn(op) \cup TypesIn(Extended(op, plan.entry)),
                    ![r].doc.ops = Put(@, At(plan.entry),
                                          WithErrors(Extended(op, plan.entry),
                                                     plan.entry.errors))]
             /\ Built
    <3> DEFINE was == IF plan.entry.hidden THEN build[r].doc.ops[At(plan.entry)]
                      ELSE plan.op
               types == TypesIn(was) \cup TypesIn(Extended(was, plan.entry))
               op == WithErrors(Extended(was, plan.entry), plan.entry.errors)
    <3>0. Drawn(plan, types, op) /\ types \in SUBSET DOMAIN Types
      BY <2>6, TypesKnown DEF Drawn, TypesIn
    <3>1. build' = [build EXCEPT ![r].todo = Tail(@), ![r].types = types,
                                 ![r].doc.ops = Put(@, At(plan.entry), op)]
      BY <2>6
    <3> HIDE DEF types, op
    <3>2. build' = [build EXCEPT ![r] = WithRoute(build[r], plan.entry, types, op)]
      BY <3>1 DEF WithRoute
    <3>3. Adds(r, WithRoute(build[r], plan.entry, types, op))
      BY <2>1, <2>6, <3>2 DEF Adds, Built
    <3> QED
      BY <2>1, <2>3, <2>6, <3>0, <3>3 DEF Step
  <2> QED
    BY <2>2, <2>4, <2>5, <2>6
<1>5. ASSUME NEW r \in Readers, AddWebhook(r) PROVE Step
  <2>1. InBuild(r) /\ build[r].todo = <<>>
    BY <1>5 DEF AddWebhook, Building, InBuild
  <2>2. PICK plan \in Due(r) :
          \/ Refuses(plan.entry, build[r].doc) /\ Refused(r)
          \/ /\ build' = [build EXCEPT ![r].hooks = @ \ {plan}]
             /\ Built
          \/ /\ build' = [build EXCEPT
                  ![r].hooks = @ \ {plan},
                  ![r].types = TypesIn(plan.op),
                  ![r].doc.ops = Put(@, At(plan.entry), plan.op)]
             /\ Built
    BY <1>5 DEF AddWebhook
  <2>3. plan \in build[r].hooks /\ build[r].types = {}
    BY <2>1, <2>2 DEF Due
  <2>4. CASE Refused(r)
    <3>1. Leaves(r, "asked", Failed)
      BY <2>1, <2>4 DEF Refused, Leaves, Failed
    <3> QED
      BY <3>1 DEF Step
  <2>5. CASE build' = [build EXCEPT ![r].hooks = @ \ {plan}] /\ Built
    <3>1. build' = [build EXCEPT ![r] = Hooked(build[r], plan)]
      BY <2>5 DEF Hooked
    <3>2. Adds(r, Hooked(build[r], plan))
      BY <2>1, <2>5, <3>1 DEF Adds, Built
    <3> QED
      BY <2>3, <3>2 DEF Step
  <2>6. CASE /\ build' = [build EXCEPT
                  ![r].hooks = @ \ {plan},
                  ![r].types = TypesIn(plan.op),
                  ![r].doc.ops = Put(@, At(plan.entry), plan.op)]
             /\ Built
    <3>1. build' = [build EXCEPT ![r] = WithHook(build[r], plan, TypesIn(plan.op))]
      BY <2>6 DEF WithHook
    <3>2. Adds(r, WithHook(build[r], plan, TypesIn(plan.op)))
      BY <2>1, <2>6, <3>1 DEF Adds, Built
    <3>3. TypesIn(plan.op) \in SUBSET DOMAIN Types
      BY TypesKnown DEF TypesIn
    <3> QED
      BY <2>3, <3>2, <3>3 DEF Step
  <2> QED
    BY <2>2, <2>4, <2>5, <2>6
<1>6. ASSUME NEW r \in Readers, PanicIn(r) PROVE Step
  <2>1. InBuild(r)
    BY <1>6 DEF PanicIn, Due, Building, InBuild
  <2>2. Leaves(r, "replied", NoResult)
    BY <1>6, <2>1 DEF PanicIn, Leaves, NoResult
  <2> QED
    BY <2>2 DEF Step
<1>7. ASSUME NEW r \in Readers, Overflow(r) PROVE Step
  BY <1>7 DEF Overflow, Step, Quiet, Shapes
<1>8. ASSUME NEW r \in Readers, Finish(r) PROVE Step
  <2> DEFINE doc == Finished(build[r].doc, build[r].refl)
             outcome == IF ValidateDocument(doc)
                        THEN [kind |-> "document", doc |-> doc] ELSE Failed
  <2>1. /\ InBuild(r) /\ build[r].todo = <<>> /\ build[r].types = {}
        /\ Leave(r, outcome)
        /\ reader' = [reader EXCEPT ![r].pc = "asked"]
        /\ UNCHANGED <<routes, snap, reply>>
    BY <1>8 DEF Finish, Building, InBuild
  <2>2. outcome.kind = "document" => outcome.doc = doc
    BY DEF Failed
  <2> HIDE DEF outcome
  <2>3. Leaves(r, "asked", outcome)
    BY <2>1, <2>2 DEF Leaves
  <2> QED
    BY <2>3 DEF Step
<1>9. ASSUME NEW r \in Readers, NEW s \in DOMAIN Specs, Ask(r, s) PROVE Step
  BY <1>9 DEF Step
<1>10. ASSUME NEW r \in Readers, EnterOnce(r) PROVE Step
  BY <1>10 DEF Step
<1>11. ASSUME NEW r \in Readers, Reply(r) PROVE Step
  BY <1>11 DEF Step
<1> QED
  BY <1>1, <1>2, <1>3, <1>4, <1>5, <1>6, <1>7, <1>8, <1>9, <1>10, <1>11 DEF Next

-------------------------------------------------------------------------------
(* Builds stay builds *)

\* What a route or a webhook comes to carries its own entry.
LEMMA TodoEntries ==
    ASSUME NEW todo \in Seq({PlanOf[e] : e \in Entries})
    PROVE  \A p \in ToSet(todo) : p.entry \in Entries /\ p = PlanOf[p.entry]
<1> TAKE p \in ToSet(todo)
<1>1. p \in {PlanOf[e] : e \in Entries}
  BY DEF ToSet
<1>2. PICK e \in Entries : p = PlanOf[e]
  BY <1>1
<1> QED
  BY <1>2, PlanEntry

\* The build a goroutine begins: the routes its Spec asks for, and nothing yet.
NewBuild(r, b) ==
    LET s == reader[r].spec
    IN /\ IsBuild(b)
       /\ b.refl = NewReflector /\ b.doc.ops = <<>>
       /\ {p.entry : p \in ToSet(b.todo)} = ToSet(ForSpec(routes, Specs[s]))
       /\ b.types = {}

LEMMA EnterBuild ==
    ASSUME Shapes, NEW r \in Readers, EnterOnce(r)
    PROVE  \E b : NewBuild(r, b) /\ build' = [build EXCEPT ![r] = b]
<1> DEFINE s == reader[r].spec
           shown == ForSpec(routes, Specs[s])
           todo == [i \in DOMAIN shown |-> PlanOf[shown[i]]]
           hooks == {PlanOf[Webhook(wh)] : wh \in ToSet(Specs[s].webhooks)}
           b == [todo |-> todo, hooks |-> hooks, types |-> {}, refl |-> NewReflector,
                 doc |-> NewDocument(Specs[s])]
<1>1. s \in DOMAIN Specs
  BY DEF EnterOnce, Shapes
<1>2. build' = [build EXCEPT ![r] = b]
  BY DEF EnterOnce
<1>3. shown \in Seq(Entries)
  BY <1>1, ForSpecElements, SpecAssumption DEF Shapes
<1> HIDE DEF shown, s
<1>4. todo \in Seq({PlanOf[e] : e \in Entries}) /\ DOMAIN todo = DOMAIN shown
      /\ \A i \in DOMAIN shown : todo[i] = PlanOf[shown[i]] /\ shown[i] \in Entries
  <2>1. DOMAIN shown = 1..Len(shown) /\ Len(shown) \in Nat
        /\ \A i \in DOMAIN shown : shown[i] \in Entries
    BY <1>3
  <2>2. todo \in [1..Len(shown) -> {PlanOf[e] : e \in Entries}]
    BY <2>1
  <2>3. \A S : \A n \in Nat : \A f \in [1..n -> S] : f \in Seq(S)
    OBVIOUS
  <2> QED
    BY <2>1, <2>2, <2>3
<1>5. {p.entry : p \in ToSet(todo)} = ToSet(shown)
  <2>1. \A i \in DOMAIN shown : todo[i].entry = shown[i]
    BY <1>4, PlanEntry
  <2> HIDE DEF todo
  <2> QED
    BY <1>4, <2>1 DEF ToSet
<1>6. hooks \subseteq {PlanOf[h] : h \in Hooks}
  <2> SUFFICES ASSUME NEW wh \in ToSet(Specs[s].webhooks) PROVE Webhook(wh) \in Hooks
    OBVIOUS
  <2>1. wh \in UNION {ToSet(Specs[t].webhooks) : t \in DOMAIN Specs}
    BY <1>1
  <2> QED
    BY <2>1 DEF Hooks
<1>7. IsDocument(NewDocument(Specs[s])) /\ NewDocument(Specs[s]).ops = <<>>
  BY DEF IsDocument, NewDocument
<1>8. NewReflector = [names |-> NewReflector.names, comps |-> NewReflector.comps]
  BY DEF NewReflector
<1> HIDE DEF todo, hooks
<1>9. NewBuild(r, b)
  BY <1>4, <1>5, <1>6, <1>7, <1>8 DEF NewBuild, IsBuild, s, shown
<1> QED
  BY <1>2, <1>9

\* RefSchema names the type, and keeps its schema under the name if it is new.
LEMMA RefSchemaShape ==
    ASSUME NEW refl, refl = [names |-> refl.names, comps |-> refl.comps], NEW t, NEW name
    PROVE  LET new == RefSchema(refl, t, name).refl
           IN new = [names |-> Put(refl.names, t, name),
                     comps |-> IF name \in DOMAIN refl.comps THEN refl.comps
                               ELSE Put(refl.comps, name, t)]
<1> DEFINE names == Put(refl.names, t, name)
           comps == Put(refl.comps, name, t)
           named == [refl EXCEPT !.names = names]
<1>1. RefSchema(refl, t, name).refl
        = IF name \in DOMAIN refl.comps THEN named ELSE [named EXCEPT !.comps = comps]
  <2>1. named.comps = refl.comps
    <3> HIDE DEF names
    <3> QED
      OBVIOUS
  <2> QED
    BY <2>1 DEF RefSchema
<1> HIDE DEF names, comps
<1>2. named = [names |-> names, comps |-> refl.comps]
  <2>1. PICK n, c : refl = [names |-> n, comps |-> c]
    OBVIOUS
  <2>2. refl.comps = c
    BY <2>1
  <2> QED
    BY <2>1, <2>2
<1>3. [named EXCEPT !.comps = comps] = [names |-> names, comps |-> comps]
  <2> HIDE DEF named
  <2> QED
    BY <1>2
<1> QED
  BY <1>1, <1>2, <1>3 DEF names, comps

\* A build with some of its fields replaced.
LEMMA TodoExcept ==
    ASSUME NEW b, IsBuild(b), NEW u
    PROVE  [b EXCEPT !.todo = u]
             = [todo |-> u, hooks |-> b.hooks, types |-> b.types, refl |-> b.refl,
                doc |-> b.doc]
<1>1. PICK t, h, y, f, d :
        b = [todo |-> t, hooks |-> h, types |-> y, refl |-> f, doc |-> d]
  BY DEF IsBuild
<1>2. b.todo = t /\ b.hooks = h /\ b.types = y /\ b.refl = f /\ b.doc = d
  BY <1>1
<1>3. [b EXCEPT !.todo = u]
        = [x \in DOMAIN b |-> IF x = "todo" THEN u ELSE b[x]]
  OBVIOUS
<1> QED
  BY <1>1, <1>2, <1>3

LEMMA HooksExcept ==
    ASSUME NEW b, IsBuild(b), NEW u
    PROVE  [b EXCEPT !.hooks = u]
             = [todo |-> b.todo, hooks |-> u, types |-> b.types, refl |-> b.refl,
                doc |-> b.doc]
<1>1. PICK t, h, y, f, d :
        b = [todo |-> t, hooks |-> h, types |-> y, refl |-> f, doc |-> d]
  BY DEF IsBuild
<1>2. b.todo = t /\ b.hooks = h /\ b.types = y /\ b.refl = f /\ b.doc = d
  BY <1>1
<1>3. [b EXCEPT !.hooks = u]
        = [x \in DOMAIN b |-> IF x = "hooks" THEN u ELSE b[x]]
  OBVIOUS
<1> QED
  BY <1>1, <1>2, <1>3

LEMMA NameExcept ==
    ASSUME NEW b, IsBuild(b), NEW u, NEW v
    PROVE  [b EXCEPT !.refl = u, !.types = v]
             = [todo |-> b.todo, hooks |-> b.hooks, types |-> v, refl |-> u,
                doc |-> b.doc]
<1>1. PICK t, h, y, f, d :
        b = [todo |-> t, hooks |-> h, types |-> y, refl |-> f, doc |-> d]
  BY DEF IsBuild
<1>2. b.todo = t /\ b.hooks = h /\ b.types = y /\ b.refl = f /\ b.doc = d
  BY <1>1
<1>3. [b EXCEPT !.refl = u, !.types = v]
        = [x \in DOMAIN b |-> IF x = "types" THEN v ELSE IF x = "refl" THEN u ELSE b[x]]
  OBVIOUS
<1> QED
  BY <1>1, <1>2, <1>3

\* A document with one more operation.
LEMMA DocumentPut ==
    ASSUME NEW doc, IsDocument(doc), NEW at, NEW op
    PROVE  LET d == [doc EXCEPT !.ops = Put(@, at, op)]
           IN /\ IsDocument(d) /\ d.ops = Put(doc.ops, at, op)
              /\ DOMAIN d.ops = DOMAIN doc.ops \cup {at}
<1> DEFINE ops == Put(doc.ops, at, op)
           d == [doc EXCEPT !.ops = ops]
<1>1. DOMAIN ops = DOMAIN doc.ops \cup {at}
  BY DEF Put
<1> HIDE DEF ops
<1>2. IsDocument(d) /\ d.ops = ops
  BY DEF IsDocument
<1> QED
  BY <1>1, <1>2 DEF ops

LEMMA SkippedBuild ==
    ASSUME NEW b, IsBuild(b), b.todo # <<>>
    PROVE  /\ IsBuild(Skipped(b))
           /\ Skipped(b).todo = Tail(b.todo) /\ Skipped(b).doc = b.doc
           /\ Skipped(b).refl = b.refl /\ Skipped(b).types = b.types
<1> DEFINE rest == Tail(b.todo)
<1>1. rest \in Seq({PlanOf[e] : e \in Entries})
  BY DEF IsBuild
<1>2. Skipped(b) = [b EXCEPT !.todo = rest]
  BY DEF Skipped
<1> HIDE DEF rest
<1>3. Skipped(b) = [todo |-> rest, hooks |-> b.hooks, types |-> b.types, refl |-> b.refl,
                    doc |-> b.doc]
  BY <1>2, TodoExcept
<1> QED
  BY <1>1, <1>3 DEF IsBuild, rest

LEMMA WithRouteBuild ==
    ASSUME NEW b, IsBuild(b), b.todo # <<>>, NEW e,
           NEW types \in SUBSET DOMAIN Types, NEW op
    PROVE  LET c == WithRoute(b, e, types, op)
           IN /\ IsBuild(c)
              /\ c.todo = Tail(b.todo) /\ DOMAIN c.doc.ops = DOMAIN b.doc.ops \cup {At(e)}
              /\ c.refl = b.refl /\ c.types = types /\ c.doc.ops = Put(b.doc.ops, At(e), op)
<1> DEFINE rest == Tail(b.todo)
           doc == [b.doc EXCEPT !.ops = Put(@, At(e), op)]
           c == WithRoute(b, e, types, op)
<1>1. rest \in Seq({PlanOf[x] : x \in Entries})
  BY DEF IsBuild
<1>2. /\ IsDocument(doc) /\ DOMAIN doc.ops = DOMAIN b.doc.ops \cup {At(e)}
      /\ doc.ops = Put(b.doc.ops, At(e), op)
  <2> DEFINE was == b.doc
  <2>1. IsDocument(was)
    BY DEF IsBuild
  <2> HIDE DEF was
  <2>2. LET d == [was EXCEPT !.ops = Put(@, At(e), op)]
        IN /\ IsDocument(d) /\ d.ops = Put(was.ops, At(e), op)
           /\ DOMAIN d.ops = DOMAIN was.ops \cup {At(e)}
    BY <2>1, DocumentPut
  <2> QED
    BY <2>2 DEF was
<1>3. c = [b EXCEPT !.todo = rest, !.types = types, !.doc = doc]
  BY DEF WithRoute
<1> HIDE DEF rest, doc
<1>4. c = [todo |-> rest, hooks |-> b.hooks, types |-> types, refl |-> b.refl, doc |-> doc]
  <2>1. PICK t, h, y, f, d :
          b = [todo |-> t, hooks |-> h, types |-> y, refl |-> f, doc |-> d]
    BY DEF IsBuild
  <2>2. b.todo = t /\ b.hooks = h /\ b.types = y /\ b.refl = f /\ b.doc = d
    BY <2>1
  <2> HIDE DEF c
  <2>3. c = [x \in DOMAIN b |-> IF x = "doc" THEN doc ELSE IF x = "types" THEN types
                              ELSE IF x = "todo" THEN rest ELSE b[x]]
    BY <1>3
  <2> QED
    BY <2>1, <2>2, <2>3
<1> HIDE DEF c
<1>5. IsBuild(c) /\ c.todo = rest /\ c.doc = doc /\ c.refl = b.refl /\ c.types = types
  BY <1>1, <1>2, <1>4 DEF IsBuild
<1> QED
  BY <1>2, <1>5 DEF c, rest

LEMMA HookedBuild ==
    ASSUME NEW b, IsBuild(b), NEW plan
    PROVE  /\ IsBuild(Hooked(b, plan))
           /\ Hooked(b, plan).todo = b.todo /\ Hooked(b, plan).doc = b.doc
           /\ Hooked(b, plan).refl = b.refl /\ Hooked(b, plan).types = b.types
<1> DEFINE rest == b.hooks \ {plan}
<1>1. rest \subseteq {PlanOf[h] : h \in Hooks}
  BY DEF IsBuild
<1>2. Hooked(b, plan) = [b EXCEPT !.hooks = rest]
  BY DEF Hooked
<1> HIDE DEF rest
<1>3. Hooked(b, plan) = [todo |-> b.todo, hooks |-> rest, types |-> b.types,
                         refl |-> b.refl, doc |-> b.doc]
  BY <1>2, HooksExcept
<1> QED
  BY <1>1, <1>3 DEF IsBuild

LEMMA WithHookBuild ==
    ASSUME NEW b, IsBuild(b), NEW plan, NEW types \in SUBSET DOMAIN Types
    PROVE  LET c == WithHook(b, plan, types)
           IN /\ IsBuild(c)
              /\ c.todo = b.todo /\ DOMAIN c.doc.ops = DOMAIN b.doc.ops \cup {At(plan.entry)}
              /\ c.refl = b.refl /\ c.types = types
              /\ c.doc.ops = Put(b.doc.ops, At(plan.entry), plan.op)
<1> DEFINE rest == b.hooks \ {plan}
           doc == [b.doc EXCEPT !.ops = Put(@, At(plan.entry), plan.op)]
           c == WithHook(b, plan, types)
<1>1. rest \subseteq {PlanOf[h] : h \in Hooks}
  BY DEF IsBuild
<1>2. /\ IsDocument(doc) /\ DOMAIN doc.ops = DOMAIN b.doc.ops \cup {At(plan.entry)}
      /\ doc.ops = Put(b.doc.ops, At(plan.entry), plan.op)
  <2> DEFINE was == b.doc
  <2>1. IsDocument(was)
    BY DEF IsBuild
  <2> HIDE DEF was
  <2>2. LET d == [was EXCEPT !.ops = Put(@, At(plan.entry), plan.op)]
        IN /\ IsDocument(d) /\ d.ops = Put(was.ops, At(plan.entry), plan.op)
           /\ DOMAIN d.ops = DOMAIN was.ops \cup {At(plan.entry)}
    BY <2>1, DocumentPut
  <2> QED
    BY <2>2 DEF was
<1>3. c = [b EXCEPT !.hooks = rest, !.types = types, !.doc = doc]
  BY DEF WithHook
<1> HIDE DEF rest, doc
<1>4. c = [todo |-> b.todo, hooks |-> rest, types |-> types, refl |-> b.refl, doc |-> doc]
  <2>1. PICK t, h, y, f, d :
          b = [todo |-> t, hooks |-> h, types |-> y, refl |-> f, doc |-> d]
    BY DEF IsBuild
  <2>2. b.todo = t /\ b.hooks = h /\ b.types = y /\ b.refl = f /\ b.doc = d
    BY <2>1
  <2> HIDE DEF c
  <2>3. c = [x \in DOMAIN b |-> IF x = "doc" THEN doc ELSE IF x = "types" THEN types
                              ELSE IF x = "hooks" THEN rest ELSE b[x]]
    BY <1>3
  <2> QED
    BY <2>1, <2>2, <2>3
<1> HIDE DEF c
<1>5. IsBuild(c) /\ c.todo = b.todo /\ c.doc = doc /\ c.refl = b.refl /\ c.types = types
  BY <1>1, <1>2, <1>4 DEF IsBuild
<1> QED
  BY <1>2, <1>5 DEF c

LEMMA NamedBuild ==
    ASSUME NEW b, IsBuild(b), NEW t, NEW name
    PROVE  LET c == Named(b, t, name)
           IN /\ IsBuild(c)
              /\ c.todo = b.todo /\ c.doc = b.doc
              /\ c.refl = RefSchema(b.refl, t, name).refl
              /\ c.types = (b.types \cup RefSchema(b.refl, t, name).more) \ {t}
<1> DEFINE refl == RefSchema(b.refl, t, name).refl
           types == (b.types \cup RefSchema(b.refl, t, name).more) \ {t}
           c == Named(b, t, name)
<1>1. refl = [names |-> refl.names, comps |-> refl.comps]
  <2>1. b.refl = [names |-> b.refl.names, comps |-> b.refl.comps]
    BY DEF IsBuild
  <2>2. refl = [names |-> Put(b.refl.names, t, name),
                comps |-> IF name \in DOMAIN b.refl.comps THEN b.refl.comps
                          ELSE Put(b.refl.comps, name, t)]
    BY <2>1, RefSchemaShape
  <2> HIDE DEF refl
  <2> QED
    BY <2>2
<1>2. c = [b EXCEPT !.refl = refl, !.types = types]
  BY DEF Named
<1>5. types \subseteq DOMAIN Types
  <2>1. RefSchema(b.refl, t, name).more \in {{}, TypesOf({ComponentOf[t]})}
    BY DEF RefSchema
  <2> QED
    BY <2>1, TypesKnown DEF IsBuild
<1> HIDE DEF refl, types
<1>3. c = [todo |-> b.todo, hooks |-> b.hooks, types |-> types, refl |-> refl,
           doc |-> b.doc]
  <2>1. [b EXCEPT !.refl = refl, !.types = types]
          = [todo |-> b.todo, hooks |-> b.hooks, types |-> types, refl |-> refl,
             doc |-> b.doc]
    BY NameExcept
  <2> HIDE DEF c
  <2> QED
    BY <1>2, <2>1, Zenon
<1> HIDE DEF c
<1>4. IsBuild(c) /\ c.todo = b.todo /\ c.doc = b.doc /\ c.refl = refl /\ c.types = types
  BY <1>1, <1>3, <1>5 DEF IsBuild
<1> QED
  BY <1>4 DEF c, refl, types

-------------------------------------------------------------------------------
(* Shapes and builds are kept *)

LEMMA ShapesInit == Init => Shapes /\ Builds
<1> SUFFICES ASSUME Init PROVE Shapes /\ Builds
  OBVIOUS
<1>1. Shapes
  <2>1. routes \in Seq(Entries) /\ snap \in [DOMAIN Specs -> Seq(Entries)]
    BY DEF Init
  <2> DEFINE any == CHOOSE s \in DOMAIN Specs : TRUE
  <2>2. \A r \in Readers : reader[r] = [pc |-> "idle", spec |-> any]
    BY DEF Init
  <2> HIDE DEF any
  <2>3. \A r \in Readers :
          /\ reader[r] = [pc |-> reader[r].pc, spec |-> reader[r].spec]
          /\ reader[r].pc = "idle"
    BY <2>2
  <2> QED
    BY <2>1, <2>3 DEF Init, Shapes, Pcs
<1>2. Builds
  BY DEF Init, Builds, InBuild
<1> QED
  BY <1>1, <1>2

\* A step on one build, of the same shape.
LEMMA AddsKept ==
    ASSUME Shapes, Builds, NEW r \in Readers, NEW b, Adds(r, b), IsBuild(b)
    PROVE  Shapes' /\ Builds'
<1>1. Shapes'
  BY DEF Adds, Shapes
<1>2. Builds'
  BY DEF Adds, Shapes, Builds, InBuild
<1> QED
  BY <1>1, <1>2

LEMMA LeavesKept ==
    ASSUME Shapes, Builds, NEW r \in Readers, NEW pc, NEW outcome, Leaves(r, pc, outcome)
    PROVE  Shapes' /\ Builds'
<1>1. reader[r].spec \in DOMAIN Specs
  BY DEF Leaves, InBuild, Shapes
<1>2. once' \in [DOMAIN Specs -> {"idle", "building", "done"}]
  BY <1>1 DEF Leaves, Leave, Shapes
<1>3. /\ DOMAIN reader' = Readers
      /\ \A q \in Readers :
            /\ reader'[q] = [pc |-> reader'[q].pc, spec |-> reader'[q].spec]
            /\ reader'[q].spec = reader[q].spec
            /\ reader'[q].pc = IF q = r THEN pc ELSE reader[q].pc
  BY DEF Leaves, Shapes
<1>4. pc \in Pcs /\ pc # "building"
  BY DEF Leaves, Pcs
<1>5. Shapes'
  BY <1>1, <1>2, <1>3, <1>4 DEF Leaves, Leave, Shapes, InBuild
<1>6. Builds'
  BY <1>3, <1>4 DEF Leaves, Leave, Shapes, Builds, InBuild
<1> QED
  BY <1>5, <1>6

LEMMA EnterKept ==
    ASSUME Shapes, Builds, NEW r \in Readers, EnterOnce(r)
    PROVE  Shapes' /\ Builds'
<1>1. PICK b : NewBuild(r, b) /\ build' = [build EXCEPT ![r] = b]
  BY EnterBuild
<1>2. IsBuild(b)
  BY <1>1 DEF NewBuild
<1>3. /\ reader[r].pc = "asked" /\ reader[r].spec \in DOMAIN Specs
      /\ once' = [once EXCEPT ![reader[r].spec] = "building"]
      /\ snap' = [snap EXCEPT ![reader[r].spec] = routes]
      /\ reader' = [reader EXCEPT ![r].pc = "building"]
      /\ UNCHANGED <<routes, result, reply>>
  BY DEF EnterOnce, Shapes
<1>4. Shapes'
  BY <1>1, <1>3 DEF Shapes, Pcs
<1>5. Builds'
  BY <1>1, <1>2, <1>3 DEF Shapes, Builds, InBuild
<1> QED
  BY <1>4, <1>5

LEMMA ShapesNext == ASSUME Shapes, Builds, Step PROVE Shapes' /\ Builds'
<1>1. CASE Quiet
  BY <1>1 DEF Quiet, Shapes, Builds, InBuild
<1>2. ASSUME NEW r \in Readers, NEW s \in DOMAIN Specs, Ask(r, s) PROVE Shapes' /\ Builds'
  <2>1. Shapes'
    BY <1>2 DEF Ask, Shapes, Pcs
  <2>2. Builds'
    BY <1>2 DEF Ask, Shapes, Builds, InBuild
  <2> QED
    BY <2>1, <2>2
<1>3. ASSUME NEW r \in Readers, EnterOnce(r) PROVE Shapes' /\ Builds'
  BY <1>3, EnterKept
<1>4. ASSUME NEW r \in Readers, NEW t, NEW name, Adds(r, Named(build[r], t, name))
      PROVE  Shapes' /\ Builds'
  BY <1>4, AddsKept, NamedBuild DEF Adds, Builds
<1>5. ASSUME NEW r \in Readers, build[r].todo # <<>>, Adds(r, Skipped(build[r]))
      PROVE  Shapes' /\ Builds'
  BY <1>5, AddsKept, SkippedBuild DEF Adds, Builds
<1>6. ASSUME NEW r \in Readers, NEW types \in SUBSET DOMAIN Types, NEW op,
             build[r].todo # <<>>,
             Adds(r, WithRoute(build[r], Route(r), types, op))
      PROVE  Shapes' /\ Builds'
  BY <1>6, AddsKept, WithRouteBuild DEF Adds, Builds
<1>7. ASSUME NEW r \in Readers, NEW plan, Adds(r, Hooked(build[r], plan))
      PROVE  Shapes' /\ Builds'
  BY <1>7, AddsKept, HookedBuild DEF Adds, Builds
<1>8. ASSUME NEW r \in Readers, NEW plan, NEW types \in SUBSET DOMAIN Types,
             Adds(r, WithHook(build[r], plan, types))
      PROVE  Shapes' /\ Builds'
  BY <1>8, AddsKept, WithHookBuild DEF Adds, Builds
<1>9. ASSUME NEW r \in Readers, NEW pc, NEW outcome, Leaves(r, pc, outcome)
      PROVE  Shapes' /\ Builds'
  BY <1>9, LeavesKept
<1>10. ASSUME NEW r \in Readers, Reply(r) PROVE Shapes' /\ Builds'
  <2>1. Shapes'
    BY <1>10 DEF Reply, Shapes, Pcs
  <2>2. Builds'
    BY <1>10 DEF Reply, Shapes, Builds, InBuild
  <2> QED
    BY <2>1, <2>2
<1> QED
  BY <1>1, <1>2, <1>3, <1>4, <1>5, <1>6, <1>7, <1>8, <1>9, <1>10 DEF Step

-------------------------------------------------------------------------------
(* One build of a document, one answer *)

\* One goroutine at a time is inside the once.Do of a document, and none once it
\* is done.
OneBuilder ==
    /\ \A r \in Readers : InBuild(r) => once[reader[r].spec] = "building"
    /\ \A r, q \in Readers :
          InBuild(r) /\ InBuild(q) /\ reader[r].spec = reader[q].spec => r = q
\* What a request was answered is the outcome the Once keeps.
Answered ==
    \A r \in Readers :
      reader[r].pc = "replied" /\ reply[r] # Panicked =>
        once[reader[r].spec] = "done" /\ reply[r] = result[reader[r].spec]
OnceInv == OneBuilder /\ Answered

LEMMA OnceInit == Init => OnceInv
<1> SUFFICES ASSUME Init PROVE OnceInv
  OBVIOUS
<1> DEFINE any == CHOOSE s \in DOMAIN Specs : TRUE
<1>1. \A r \in Readers : reader[r] = [pc |-> "idle", spec |-> any]
  BY DEF Init
<1> HIDE DEF any
<1>2. \A r \in Readers : reader[r].pc = "idle"
  BY <1>1
<1> QED
  BY <1>2 DEF OnceInv, OneBuilder, Answered, InBuild

LEMMA OnceSame ==
    ASSUME OnceInv, UNCHANGED <<once, result, reader, reply>> PROVE OnceInv'
  BY DEF OnceInv, OneBuilder, Answered, InBuild

LEMMA OnceNext == ASSUME Shapes, Builds, OnceInv, Step PROVE OnceInv'
<1>1. CASE Quiet
  BY <1>1, OnceSame DEF Quiet
<1>2. ASSUME NEW r \in Readers, NEW b, Adds(r, b) PROVE OnceInv'
  BY <1>2, OnceSame DEF Adds
<1>3. ASSUME NEW r \in Readers, NEW s \in DOMAIN Specs, Ask(r, s) PROVE OnceInv'
  <2>1. /\ reader'[r] = [pc |-> "asked", spec |-> s]
        /\ \A q \in Readers : q # r => reader'[q] = reader[q]
        /\ UNCHANGED <<once, result, reply>>
    BY <1>3 DEF Ask, Shapes
  <2>2. reader'[r].pc = "asked"
    BY <2>1
  <2> QED
    BY <2>1, <2>2 DEF OnceInv, OneBuilder, Answered, InBuild
<1>4. ASSUME NEW r \in Readers, EnterOnce(r) PROVE OnceInv'
  <2> DEFINE s == reader[r].spec
  <2>1. /\ s \in DOMAIN Specs /\ once[s] = "idle"
        /\ once' = [once EXCEPT ![s] = "building"]
        /\ reader' = [reader EXCEPT ![r].pc = "building"]
        /\ UNCHANGED <<result, reply>>
    BY <1>4 DEF EnterOnce, MayBuild, Shapes
  <2>2. /\ \A q \in Readers : reader'[q].spec = reader[q].spec
        /\ \A q \in Readers : reader'[q].pc = IF q = r THEN "building" ELSE reader[q].pc
    BY <2>1 DEF Shapes
  <2>3. \A t \in DOMAIN Specs : once'[t] = IF t = s THEN "building" ELSE once[t]
    BY <2>1 DEF Shapes
  <2> HIDE DEF s
  <2>4. \A q \in Readers : InBuild(q) => reader[q].spec # s
    BY <2>1 DEF OnceInv, OneBuilder
  <2>5. \A q \in Readers : reader[q].pc # "idle" => reader[q].spec \in DOMAIN Specs
    BY DEF Shapes
  <2>6. OneBuilder'
    <3>1. ASSUME NEW q \in Readers, InBuild(q)' PROVE once'[reader'[q].spec] = "building"
      <4>1. CASE q = r
        BY <2>1, <2>2, <2>3, <4>1 DEF s
      <4>2. CASE q # r
        BY <2>2, <2>3, <2>5, <3>1, <4>2 DEF OnceInv, OneBuilder, InBuild
      <4> QED
        BY <4>1, <4>2
    <3>2. ASSUME NEW p \in Readers, NEW q \in Readers, InBuild(p)', InBuild(q)',
                 reader'[p].spec = reader'[q].spec
          PROVE  p = q
      <4>1. \A x \in Readers : InBuild(x)' => x = r \/ InBuild(x)
        BY <2>2 DEF InBuild
      <4> QED
        BY <2>2, <2>4, <3>2, <4>1 DEF OnceInv, OneBuilder, s
    <3> QED
      BY <3>1, <3>2 DEF OneBuilder
  <2>7. Answered'
    <3> SUFFICES ASSUME NEW q \in Readers, reader'[q].pc = "replied", reply'[q] # Panicked
                 PROVE  once'[reader'[q].spec] = "done"
                        /\ reply'[q] = result'[reader'[q].spec]
      BY DEF Answered
    <3>1. q # r /\ reader[q].pc = "replied" /\ reply[q] # Panicked
      BY <2>1, <2>2
    <3>2. once[reader[q].spec] = "done" /\ reply[q] = result[reader[q].spec]
      BY <3>1 DEF OnceInv, Answered
    <3> QED
      BY <2>1, <2>2, <2>3, <2>5, <3>1, <3>2
  <2> QED
    BY <2>6, <2>7 DEF OnceInv
<1>5. ASSUME NEW r \in Readers, NEW pc, NEW outcome, Leaves(r, pc, outcome) PROVE OnceInv'
  <2> DEFINE s == reader[r].spec
  <2>1. /\ InBuild(r) /\ s \in DOMAIN Specs /\ once[s] = "building"
        /\ once' = [once EXCEPT ![s] = "done"]
        /\ result' = [result EXCEPT ![s] = outcome]
        /\ reader' = [reader EXCEPT ![r].pc = pc]
        /\ pc \in {"asked", "replied"}
        /\ \A q \in Readers : q # r => reply'[q] = reply[q]
        /\ pc = "replied" => reply'[r] = Panicked
    BY <1>5 DEF Leaves, Leave, InBuild, Shapes, OnceInv, OneBuilder
  <2>2. /\ \A q \in Readers : reader'[q].spec = reader[q].spec
        /\ \A q \in Readers : reader'[q].pc = IF q = r THEN pc ELSE reader[q].pc
    BY <2>1 DEF Shapes
  <2>3. \A t \in DOMAIN Specs : t # s => once'[t] = once[t] /\ result'[t] = result[t]
    BY <2>1 DEF Shapes
  <2>4. \A q \in Readers : InBuild(q) /\ q # r => reader[q].spec # s
    BY <2>1 DEF OnceInv, OneBuilder
  <2>5. \A q \in Readers : reader[q].pc # "idle" => reader[q].spec \in DOMAIN Specs
    BY DEF Shapes
  <2> HIDE DEF s
  <2>6. OneBuilder'
    <3>1. \A q \in Readers : InBuild(q)' => q # r /\ InBuild(q)
      BY <2>1, <2>2 DEF InBuild
    <3>2. \A q \in Readers : InBuild(q)' => once'[reader'[q].spec] = "building"
      BY <2>2, <2>3, <2>4, <2>5, <3>1 DEF OnceInv, OneBuilder, InBuild
    <3>3. \A p, q \in Readers :
            InBuild(p)' /\ InBuild(q)' /\ reader'[p].spec = reader'[q].spec => p = q
      BY <2>2, <3>1 DEF OnceInv, OneBuilder
    <3> QED
      BY <3>2, <3>3 DEF OneBuilder
  <2>7. Answered'
    <3> SUFFICES ASSUME NEW q \in Readers, reader'[q].pc = "replied", reply'[q] # Panicked
                 PROVE  once'[reader'[q].spec] = "done"
                        /\ reply'[q] = result'[reader'[q].spec]
      BY DEF Answered
    <3>1. q # r /\ reader[q].pc = "replied" /\ reply[q] # Panicked /\ reply'[q] = reply[q]
      BY <2>1, <2>2
    <3>2. once[reader[q].spec] = "done" /\ reply[q] = result[reader[q].spec]
      BY <3>1 DEF OnceInv, Answered
    <3>3. reader[q].spec # s /\ reader[q].spec \in DOMAIN Specs
      BY <2>1, <2>5, <3>1, <3>2
    <3> QED
      BY <2>2, <2>3, <3>1, <3>2, <3>3
  <2> QED
    BY <2>6, <2>7 DEF OnceInv
<1>6. ASSUME NEW r \in Readers, Reply(r) PROVE OnceInv'
  <2>1. /\ reader[r].pc = "asked" /\ once[reader[r].spec] = "done"
        /\ reply'[r] = result[reader[r].spec]
        /\ \A q \in Readers : q # r => reply'[q] = reply[q]
        /\ reader' = [reader EXCEPT ![r].pc = "replied"]
        /\ UNCHANGED <<once, result>>
    BY <1>6 DEF Reply, Shapes
  <2>2. /\ \A q \in Readers : reader'[q].spec = reader[q].spec
        /\ \A q \in Readers : reader'[q].pc = IF q = r THEN "replied" ELSE reader[q].pc
    BY <2>1 DEF Shapes
  <2>3. OneBuilder'
    BY <2>1, <2>2 DEF OnceInv, OneBuilder, InBuild
  <2>4. Answered'
    BY <2>1, <2>2 DEF OnceInv, Answered
  <2> QED
    BY <2>3, <2>4 DEF OnceInv
<1> QED
  BY <1>1, <1>2, <1>3, <1>4, <1>5, <1>6 DEF Step

Base == Shapes /\ Builds /\ OnceInv

LEMMA BaseInvariant == Spec => []Base
<1>1. Init => Base
  BY ShapesInit, OnceInit DEF Base
<1>2. Base /\ [Next]_vars => Base'
  <2> SUFFICES ASSUME Base, [Next]_vars PROVE Base'
    OBVIOUS
  <2>1. Step
    BY Steps DEF Base
  <2> QED
    BY <2>1, ShapesNext, OnceNext DEF Base
<1> QED
  BY <1>1, <1>2, PTL DEF Spec

\* handler, sync.Once: all requests for one document are answered alike, except
\* the one under which building it panicked.
THEOREM RepliesCorrect == Spec => []RepliesAgree
<1>1. Base => RepliesAgree
  BY DEF Base, OnceInv, Answered, RepliesAgree
<1> QED
  BY <1>1, BaseInvariant, PTL

-------------------------------------------------------------------------------
(* The operations of a document *)

OpsOf(doc) == {p \in DOMAIN doc.ops : ~IsWebhook(p[1])}
\* Where the routes stand that a Spec asks for.
Asked(entries, spec) ==
    {At(entries[i]) : i \in {j \in DOMAIN entries : Belongs(entries[j], spec)}}
\* Where the routes stand that a build is still to add.
Ahead(b) == {At(p.entry) : p \in {q \in ToSet(b.todo) : ~q.entry.hidden}}
\* What a build has added and what it is to add are the routes asked for.
Underway ==
    \A r \in Readers : InBuild(r) =>
       OpsOf(build[r].doc) \cup Ahead(build[r])
         = Asked(snap[reader[r].spec], Specs[reader[r].spec])
ShowsInv == Underway /\ ShowsItsRoutes

LEMMA FinishedFields ==
    ASSUME NEW doc, IsDocument(doc), NEW refl
    PROVE  LET d == Finished(doc, refl)
           IN /\ d.ops = doc.ops /\ d.names = refl.names
              /\ d.schemas = Over([name \in DOMAIN refl.comps |->
                                     ComponentOf[refl.comps[name]]], doc.schemas)
<1> DEFINE d == Finished(doc, refl)
           schemas == Over([name \in DOMAIN refl.comps |-> ComponentOf[refl.comps[name]]],
                           doc.schemas)
           names == refl.names
<1>1. d = [doc EXCEPT !.names = names, !.schemas = schemas]
  BY DEF Finished
<1> HIDE DEF schemas, names, d
<1>2. d = [x \in DOMAIN doc |-> IF x = "schemas" THEN schemas
                                ELSE IF x = "names" THEN names ELSE doc[x]]
  BY <1>1
<1>3. {"ops", "names", "schemas"} \subseteq DOMAIN doc
  BY DEF IsDocument
<1>4. d.ops = doc.ops /\ d.names = names /\ d.schemas = schemas
  BY <1>2, <1>3
<1> QED
  BY <1>4 DEF d, names, schemas

LEMMA AskedElements ==
    ASSUME NEW entries \in Seq(Entries), NEW spec
    PROVE  Asked(entries, spec) = {At(e) : e \in {x \in ToSet(entries) : Belongs(x, spec)}}
  BY DEF ToSet, Asked

LEMMA ShowsInit == Init => ShowsInv
<1> SUFFICES ASSUME Init PROVE ShowsInv
  OBVIOUS
<1>1. Documents = {}
  BY DEF Init, Documents, NoResult
<1>2. ShowsItsRoutes
  BY <1>1 DEF ShowsItsRoutes
<1> DEFINE any == CHOOSE s \in DOMAIN Specs : TRUE
<1>3. \A r \in Readers : reader[r] = [pc |-> "idle", spec |-> any]
  BY DEF Init
<1> HIDE DEF any
<1>4. \A r \in Readers : reader[r].pc = "idle"
  BY <1>3
<1> QED
  BY <1>2, <1>4 DEF ShowsInv, Underway, InBuild

\* A step that leaves documents and builds alone.
LEMMA ShowsSame ==
    ASSUME ShowsInv, UNCHANGED <<once, snap, result, build>>,
           \A r \in Readers : InBuild(r)' => InBuild(r) /\ reader'[r].spec = reader[r].spec
    PROVE  ShowsInv'
<1>1. ShowsItsRoutes'
  BY DEF ShowsInv, ShowsItsRoutes, Documents
<1>2. Underway'
  <2> SUFFICES ASSUME NEW r \in Readers, InBuild(r)'
               PROVE  OpsOf(build'[r].doc) \cup Ahead(build'[r])
                        = Asked(snap'[reader'[r].spec], Specs[reader'[r].spec])
    BY DEF Underway
  <2>1. InBuild(r) /\ reader'[r].spec = reader[r].spec /\ build'[r] = build[r]
    OBVIOUS
  <2> QED
    BY <2>1 DEF ShowsInv, Underway
<1> QED
  BY <1>1, <1>2 DEF ShowsInv

\* A step of one build that neither adds nor drops a route.
LEMMA ShowsAdds ==
    ASSUME Base, ShowsInv, NEW r \in Readers, NEW b, Adds(r, b),
           OpsOf(b.doc) \cup Ahead(b) = OpsOf(build[r].doc) \cup Ahead(build[r])
    PROVE  ShowsInv'
<1>1. /\ UNCHANGED <<once, snap, result, reader>>
      /\ build'[r] = b /\ \A q \in Readers : q # r => build'[q] = build[q]
  BY DEF Adds, Base, Shapes
<1>2. ShowsItsRoutes'
  BY <1>1 DEF ShowsInv, ShowsItsRoutes, Documents
<1>3. Underway'
  <2> SUFFICES ASSUME NEW q \in Readers, InBuild(q)
               PROVE  OpsOf(build'[q].doc) \cup Ahead(build'[q])
                        = Asked(snap[reader[q].spec], Specs[reader[q].spec])
    BY <1>1 DEF Underway, InBuild
  <2>1. OpsOf(build[q].doc) \cup Ahead(build[q])
          = Asked(snap[reader[q].spec], Specs[reader[q].spec])
    BY DEF ShowsInv, Underway
  <2> QED
    BY <1>1, <2>1
<1> QED
  BY <1>2, <1>3 DEF ShowsInv

\* The head of the list is one of the routes ahead, unless it is hidden.
LEMMA AheadTail ==
    ASSUME NEW b, IsBuild(b), b.todo # <<>>, NEW c, c.todo = Tail(b.todo)
    PROVE  /\ Head(b.todo).entry \in Entries
           /\ Ahead(c) \subseteq Ahead(b)
           /\ Ahead(b) = IF Head(b.todo).entry.hidden THEN Ahead(c)
                         ELSE Ahead(c) \cup {At(Head(b.todo).entry)}
<1> DEFINE S == {PlanOf[e] : e \in Entries}
           todo == b.todo
<1>1. todo \in Seq(S) /\ todo # <<>> /\ c.todo = Tail(todo)
  BY DEF IsBuild
<1>2. \A p \in ToSet(todo) : p.entry \in Entries
  BY <1>1, TodoEntries
<1> HIDE DEF S, todo
<1>3. /\ Head(todo) \in ToSet(todo) /\ ToSet(Tail(todo)) \subseteq ToSet(todo)
      /\ \A x \in ToSet(todo) : x = Head(todo) \/ x \in ToSet(Tail(todo))
  <2>1. /\ DOMAIN todo = 1..Len(todo) /\ Len(todo) \in Nat /\ Len(todo) # 0
        /\ DOMAIN Tail(todo) = 1..(Len(todo) - 1) /\ Head(todo) = todo[1]
        /\ \A i \in 1..(Len(todo) - 1) : Tail(todo)[i] = todo[i + 1]
    BY <1>1
  <2>2. 1 \in DOMAIN todo /\ \A i \in 1..(Len(todo) - 1) : i + 1 \in DOMAIN todo
    BY <2>1
  <2>3. \A i \in DOMAIN todo : i = 1 \/ (i - 1 \in 1..(Len(todo) - 1) /\ (i - 1) + 1 = i)
    BY <2>1
  <2>4. \A i \in DOMAIN todo : todo[i] = Head(todo) \/ todo[i] \in ToSet(Tail(todo))
    <3> TAKE i \in DOMAIN todo
    <3>1. CASE i = 1
      BY <2>1, <3>1
    <3>2. CASE i - 1 \in 1..(Len(todo) - 1) /\ (i - 1) + 1 = i
      <4>1. Tail(todo)[i - 1] = todo[i]
        BY <2>1, <3>2
      <4> QED
        BY <2>1, <3>2, <4>1 DEF ToSet
    <3> QED
      BY <2>3, <3>1, <3>2
  <2>5. ToSet(Tail(todo)) \subseteq ToSet(todo)
    BY <2>1, <2>2 DEF ToSet
  <2> QED
    BY <2>1, <2>2, <2>4, <2>5 DEF ToSet
<1>4. Ahead(b) = {At(p.entry) : p \in {q \in ToSet(todo) : ~q.entry.hidden}}
  BY DEF Ahead, todo
<1>5. Ahead(c) = {At(p.entry) : p \in {q \in ToSet(Tail(todo)) : ~q.entry.hidden}}
  BY <1>1 DEF Ahead
<1>6. Head(todo).entry \in Entries
  BY <1>2, <1>3
<1>7. Ahead(c) \subseteq Ahead(b)
  BY <1>3, <1>4, <1>5
<1>8. Head(todo).entry.hidden => Ahead(b) \subseteq Ahead(c)
  BY <1>3, <1>4, <1>5
<1>9. ~Head(todo).entry.hidden =>
        /\ At(Head(todo).entry) \in Ahead(b)
        /\ Ahead(b) \subseteq Ahead(c) \cup {At(Head(todo).entry)}
  BY <1>3, <1>4, <1>5
<1> QED
  BY <1>6, <1>7, <1>8, <1>9 DEF todo

LEMMA ShowsEnter ==
    ASSUME Base, ShowsInv, NEW r \in Readers, EnterOnce(r)
    PROVE  ShowsInv'
<1> DEFINE s == reader[r].spec
<1>1. PICK b : NewBuild(r, b) /\ build' = [build EXCEPT ![r] = b]
  BY EnterBuild DEF Base
<1>2. /\ s \in DOMAIN Specs /\ once[s] = "idle"
      /\ once' = [once EXCEPT ![s] = "building"]
      /\ snap' = [snap EXCEPT ![s] = routes]
      /\ reader' = [reader EXCEPT ![r].pc = "building"]
      /\ result' = result
  BY DEF EnterOnce, MayBuild, Base, Shapes
<1>3. /\ \A q \in Readers : reader'[q].spec = reader[q].spec
      /\ \A q \in Readers : reader'[q].pc = IF q = r THEN "building" ELSE reader[q].pc
  BY <1>2 DEF Base, Shapes
<1>4. /\ snap'[s] = routes /\ routes \in Seq(Entries)
      /\ \A t : t # s => (t \in DOMAIN Specs => snap'[t] = snap[t] /\ once'[t] = once[t])
      /\ once'[s] = "building"
  BY <1>2 DEF Base, Shapes
<1>5. b.doc.ops = <<>> /\ {p.entry : p \in ToSet(b.todo)} = ToSet(ForSpec(routes, Specs[s]))
  BY <1>1 DEF NewBuild
<1>6. {e \in ToSet(ForSpec(routes, Specs[s])) : ~e.hidden}
        = {e \in ToSet(routes) : Belongs(e, Specs[s])}
  BY <1>2, <1>4, ForSpecElements, SpecAssumption
<1> HIDE DEF s
<1>7. Ahead(b) = {At(e) : e \in {x \in ToSet(routes) : Belongs(x, Specs[s])}}
  <2>1. Ahead(b) = {At(e) : e \in {x \in {p.entry : p \in ToSet(b.todo)} : ~x.hidden}}
    BY DEF Ahead
  <2> QED
    BY <1>5, <1>6, <2>1
<1>8. Asked(routes, Specs[s]) = Ahead(b)
  BY <1>4, <1>7, AskedElements
<1>9. OpsOf(b.doc) = {}
  BY <1>5 DEF OpsOf
<1>10. Underway'
  <2> SUFFICES ASSUME NEW q \in Readers, InBuild(q)'
               PROVE  OpsOf(build'[q].doc) \cup Ahead(build'[q])
                        = Asked(snap'[reader'[q].spec], Specs[reader'[q].spec])
    BY DEF Underway
  <2>1. CASE q = r
    <3>1. build'[q] = b /\ reader'[q].spec = s
      BY <1>1, <1>3, <2>1 DEF Base, Shapes, s
    <3> QED
      BY <1>4, <1>8, <1>9, <3>1
  <2>2. CASE q # r
    <3>1. InBuild(q) /\ build'[q] = build[q] /\ reader'[q].spec = reader[q].spec
      BY <1>1, <1>3, <2>2 DEF Base, Shapes, InBuild
    <3>2. reader[q].spec # s /\ reader[q].spec \in DOMAIN Specs
      BY <1>2, <3>1 DEF Base, OnceInv, OneBuilder, Shapes, InBuild
    <3>3. snap'[reader[q].spec] = snap[reader[q].spec]
      BY <1>4, <3>2
    <3>4. OpsOf(build[q].doc) \cup Ahead(build[q])
            = Asked(snap[reader[q].spec], Specs[reader[q].spec])
      BY <3>1 DEF ShowsInv, Underway
    <3> QED
      BY <3>1, <3>3, <3>4
  <2> QED
    BY <2>1, <2>2
<1>11. ShowsItsRoutes'
  <2>1. \A t \in Documents' : t \in Documents /\ t # s /\ t \in DOMAIN Specs
    BY <1>2, <1>4 DEF Documents
  <2>2. \A t \in Documents' : result'[t] = result[t] /\ snap'[t] = snap[t]
    BY <1>2, <1>4, <2>1
  <2> QED
    BY <2>1, <2>2 DEF ShowsInv, ShowsItsRoutes
<1> QED
  BY <1>10, <1>11 DEF ShowsInv

LEMMA ShowsLeaves ==
    ASSUME Base, ShowsInv, NEW r \in Readers, NEW pc, NEW outcome, Leaves(r, pc, outcome)
    PROVE  ShowsInv'
<1> DEFINE s == reader[r].spec
<1>1. /\ InBuild(r) /\ s \in DOMAIN Specs
      /\ once' = [once EXCEPT ![s] = "done"]
      /\ result' = [result EXCEPT ![s] = outcome]
      /\ reader' = [reader EXCEPT ![r].pc = pc]
      /\ pc # "building"
      /\ snap' = snap
      /\ \A q \in Readers : q # r => build'[q] = build[q]
  BY DEF Leaves, Leave, InBuild, Base, Shapes
<1>2. /\ \A q \in Readers : reader'[q].spec = reader[q].spec
      /\ \A q \in Readers : reader'[q].pc = IF q = r THEN pc ELSE reader[q].pc
  BY <1>1 DEF Base, Shapes
<1>3. /\ result'[s] = outcome
      /\ \A t \in DOMAIN Specs : t # s => once'[t] = once[t] /\ result'[t] = result[t]
  BY <1>1 DEF Base, Shapes
<1> HIDE DEF s
<1>4. Underway'
  <2> SUFFICES ASSUME NEW q \in Readers, InBuild(q)'
               PROVE  OpsOf(build'[q].doc) \cup Ahead(build'[q])
                        = Asked(snap'[reader'[q].spec], Specs[reader'[q].spec])
    BY DEF Underway
  <2>1. q # r /\ InBuild(q) /\ build'[q] = build[q] /\ reader'[q].spec = reader[q].spec
    BY <1>1, <1>2 DEF InBuild
  <2>2. OpsOf(build[q].doc) \cup Ahead(build[q])
          = Asked(snap[reader[q].spec], Specs[reader[q].spec])
    BY <2>1 DEF ShowsInv, Underway
  <2> QED
    BY <1>1, <2>1, <2>2
<1>5. ShowsItsRoutes'
  <2> SUFFICES ASSUME NEW t \in Documents'
               PROVE  OpsOf(result'[t].doc) = Asked(snap[t], Specs[t])
    BY <1>1 DEF ShowsItsRoutes, OpsOf, Asked
  <2>1. t \in DOMAIN Specs
    BY DEF Documents
  <2>2. CASE t # s
    <3>1. t \in Documents /\ result'[t] = result[t]
      BY <1>3, <2>1, <2>2 DEF Documents
    <3> QED
      BY <3>1 DEF ShowsInv, ShowsItsRoutes, OpsOf, Asked
  <2>3. CASE t = s
    <3>1. outcome.kind = "document"
      BY <1>3, <2>3 DEF Documents
    <3>2. build[r].todo = <<>> /\ outcome.doc = Finished(build[r].doc, build[r].refl)
      BY <3>1 DEF Leaves
    <3>3. IsDocument(build[r].doc)
      BY <1>1 DEF Base, Builds, IsBuild
    <3>4. outcome.doc.ops = build[r].doc.ops
      <4>1. Finished(build[r].doc, build[r].refl).ops = build[r].doc.ops
        BY <3>3, FinishedFields
      <4> QED
        BY <3>2, <4>1
    <3>5. Ahead(build[r]) = {}
      BY <3>2 DEF Ahead, ToSet
    <3>6. OpsOf(build[r].doc) \cup Ahead(build[r]) = Asked(snap[s], Specs[s])
      BY <1>1 DEF ShowsInv, Underway, s
    <3> QED
      BY <1>3, <2>3, <3>4, <3>5, <3>6 DEF OpsOf
  <2> QED
    BY <2>2, <2>3
<1> QED
  BY <1>4, <1>5 DEF ShowsInv

LEMMA ShowsNext == ASSUME Base, ShowsInv, Step PROVE ShowsInv'
<1>1. CASE Quiet
  BY <1>1, ShowsSame DEF Quiet, InBuild
<1>2. ASSUME NEW r \in Readers, NEW s \in DOMAIN Specs, Ask(r, s) PROVE ShowsInv'
  <2>1. /\ reader'[r] = [pc |-> "asked", spec |-> s]
        /\ \A q \in Readers : q # r => reader'[q] = reader[q]
        /\ UNCHANGED <<once, snap, result, build>>
    BY <1>2 DEF Ask, Base, Shapes
  <2>2. reader'[r].pc = "asked"
    BY <2>1
  <2>3. \A q \in Readers : InBuild(q)' => InBuild(q) /\ reader'[q].spec = reader[q].spec
    BY <2>1, <2>2 DEF InBuild
  <2> QED
    BY <2>1, <2>3, ShowsSame
<1>3. ASSUME NEW r \in Readers, EnterOnce(r) PROVE ShowsInv'
  BY <1>3, ShowsEnter
<1>4. ASSUME NEW r \in Readers, NEW t, NEW name, Adds(r, Named(build[r], t, name))
      PROVE  ShowsInv'
  <2>1. IsBuild(build[r])
    BY <1>4 DEF Adds, Base, Builds
  <2> DEFINE c == Named(build[r], t, name)
  <2>2. c.todo = build[r].todo /\ c.doc = build[r].doc
    BY <2>1, NamedBuild
  <2> HIDE DEF c
  <2>3. OpsOf(c.doc) \cup Ahead(c) = OpsOf(build[r].doc) \cup Ahead(build[r])
    BY <2>2 DEF Ahead
  <2> QED
    BY <1>4, <2>3, ShowsAdds DEF c
<1>5. ASSUME NEW r \in Readers, build[r].todo # <<>>, ~Shown(Route(r), build[r].doc),
             Adds(r, Skipped(build[r]))
      PROVE  ShowsInv'
  <2>1. IsBuild(build[r])
    BY <1>5 DEF Adds, Base, Builds
  <2> DEFINE c == Skipped(build[r])
  <2>2. c.todo = Tail(build[r].todo) /\ c.doc = build[r].doc
    BY <1>5, <2>1, SkippedBuild
  <2>3. Head(build[r].todo).entry.hidden
    BY <1>5 DEF Shown, Route
  <2> HIDE DEF c
  <2>4. Ahead(build[r]) = Ahead(c)
    BY <1>5, <2>1, <2>2, <2>3, AheadTail
  <2> QED
    BY <1>5, <2>2, <2>4, ShowsAdds DEF c
<1>6. ASSUME NEW r \in Readers, NEW types \in SUBSET DOMAIN Types, NEW op,
             build[r].todo # <<>>,
             Shown(Route(r), build[r].doc),
             Adds(r, WithRoute(build[r], Route(r), types, op))
      PROVE  ShowsInv'
  <2> DEFINE e == Route(r)
             c == WithRoute(build[r], e, types, op)
  <2>1. IsBuild(build[r])
    BY <1>6 DEF Adds, Base, Builds
  <2>2. c.todo = Tail(build[r].todo) /\ DOMAIN c.doc.ops = DOMAIN build[r].doc.ops \cup {At(e)}
    BY <1>6, <2>1, WithRouteBuild
  <2>3. e = Head(build[r].todo).entry /\ (e.hidden => At(e) \in DOMAIN build[r].doc.ops)
    BY <1>6 DEF Shown, Route
  <2> HIDE DEF c, e
  <2>4. /\ e \in Entries
        /\ Ahead(build[r]) = IF e.hidden THEN Ahead(c) ELSE Ahead(c) \cup {At(e)}
    BY <1>6, <2>1, <2>2, <2>3, AheadTail
  <2>5. ~IsWebhook(At(e)[1])
    BY <2>4, EntryPath DEF At
  <2>6. OpsOf(c.doc) = OpsOf(build[r].doc) \cup {At(e)}
    BY <2>2, <2>5 DEF OpsOf
  <2>7. e.hidden => At(e) \in OpsOf(build[r].doc)
    BY <2>3, <2>5 DEF OpsOf
  <2>8. OpsOf(c.doc) \cup Ahead(c) = OpsOf(build[r].doc) \cup Ahead(build[r])
    BY <2>4, <2>6, <2>7
  <2> QED
    BY <1>6, <2>8, ShowsAdds DEF c, e
<1>7. ASSUME NEW r \in Readers, NEW plan, Adds(r, Hooked(build[r], plan))
      PROVE  ShowsInv'
  <2>1. IsBuild(build[r])
    BY <1>7 DEF Adds, Base, Builds
  <2> DEFINE c == Hooked(build[r], plan)
  <2>2. c.todo = build[r].todo /\ c.doc = build[r].doc
    BY <2>1, HookedBuild
  <2> HIDE DEF c
  <2>3. OpsOf(c.doc) \cup Ahead(c) = OpsOf(build[r].doc) \cup Ahead(build[r])
    BY <2>2 DEF Ahead
  <2> QED
    BY <1>7, <2>3, ShowsAdds DEF c
<1>8. ASSUME NEW r \in Readers, NEW plan \in build[r].hooks,
             NEW types \in SUBSET DOMAIN Types,
             Adds(r, WithHook(build[r], plan, types))
      PROVE  ShowsInv'
  <2>1. IsBuild(build[r])
    BY <1>8 DEF Adds, Base, Builds
  <2> DEFINE c == WithHook(build[r], plan, types)
  <2>2. c.todo = build[r].todo
        /\ DOMAIN c.doc.ops = DOMAIN build[r].doc.ops \cup {At(plan.entry)}
    BY <2>1, WithHookBuild
  <2>3. PICK h \in Hooks : plan = PlanOf[h]
    BY <2>1 DEF IsBuild
  <2>4. plan.entry = h /\ IsWebhook(h.path)
    BY <2>3, PlanEntry, HookPath
  <2>5. IsWebhook(At(plan.entry)[1])
    BY <2>4 DEF At
  <2> HIDE DEF c
  <2>6. OpsOf(c.doc) = OpsOf(build[r].doc)
    BY <2>2, <2>5 DEF OpsOf
  <2>7. OpsOf(c.doc) \cup Ahead(c) = OpsOf(build[r].doc) \cup Ahead(build[r])
    BY <2>2, <2>6 DEF Ahead
  <2> QED
    BY <1>8, <2>7, ShowsAdds DEF c
<1>9. ASSUME NEW r \in Readers, NEW pc, NEW outcome, Leaves(r, pc, outcome)
      PROVE  ShowsInv'
  BY <1>9, ShowsLeaves
<1>10. ASSUME NEW r \in Readers, Reply(r) PROVE ShowsInv'
  <2>1. UNCHANGED <<once, snap, result, build>>
    BY <1>10 DEF Reply
  <2>2. \A q \in Readers : InBuild(q)' => InBuild(q) /\ reader'[q].spec = reader[q].spec
    BY <1>10 DEF Reply, Base, Shapes, InBuild
  <2> QED
    BY <2>1, <2>2, ShowsSame
<1> QED
  BY <1>1, <1>2, <1>3, <1>4, <1>5, <1>6, <1>7, <1>8, <1>9, <1>10 DEF Step

\* A document that is served has the operations of the routes its Spec asks for,
\* of all those registered by its first request, and of no other (buildDocument,
\* ForSpec, SetOperation).
THEOREM RoutesShown == Spec => []ShowsItsRoutes
<1>1. Init => ShowsInv
  BY ShowsInit
<1>2. Base /\ ShowsInv /\ [Next]_vars => ShowsInv'
  BY Steps, ShowsNext DEF Base
<1>3. ShowsInv => ShowsItsRoutes
  BY DEF ShowsInv
<1> QED
  BY <1>1, <1>2, <1>3, BaseInvariant, PTL DEF Spec

-------------------------------------------------------------------------------
(* The names of components *)

\* Every name that was given has the stem of its type's own and holds a component.
\* While the type is told apart, the name is that of its base, or the second one
\* when another type has that, and holds the component of the type.
Naming(refl) ==
    /\ IsFiniteSet(DOMAIN refl.names) /\ DOMAIN refl.names \subseteq DOMAIN Types
    /\ DOMAIN refl.comps = {refl.names[t] : t \in DOMAIN refl.names}
    /\ \A t \in DOMAIN refl.names :
          /\ refl.names[t][1] = Types[t].base[1]
          /\ ToldApart(refl.names, t) =>
               /\ \/ refl.names[t] = Types[t].base
                  \/ /\ refl.names[t] = Numbered(Types[t].base, 2)
                     /\ \E u \in NamesakesIn(refl.names, t) \ {t} :
                          refl.names[u] = Types[t].base
               /\ refl.comps[refl.names[t]] = t
NamesInv ==
    /\ \A r \in Readers : InBuild(r) => Naming(build[r].refl)
    /\ RefsMeanTheirTypes

LEMMA AtMostTwo ==
    ASSUME NEW S, IsFiniteSet(S), Cardinality(S) <= 2, NEW x \in S, NEW y \in S, NEW z \in S
    PROVE  x = y \/ y = z \/ x = z
<1> SUFFICES ASSUME x # y, y # z, x # z PROVE FALSE
  OBVIOUS
<1>1. IsFiniteSet({z}) /\ Cardinality({z}) = 1
  BY FS_Singleton
<1>2. IsFiniteSet({z} \cup {y}) /\ Cardinality({z} \cup {y}) = 2
  BY <1>1, FS_AddElement
<1>3. /\ IsFiniteSet(({z} \cup {y}) \cup {x})
      /\ Cardinality(({z} \cup {y}) \cup {x}) = 3
  BY <1>2, FS_AddElement
<1>4. ({z} \cup {y}) \cup {x} \subseteq S
  OBVIOUS
<1>5. Cardinality(({z} \cup {y}) \cup {x}) <= Cardinality(S)
  BY <1>4, FS_Subset
<1>6. Cardinality(S) \in Nat
  BY FS_CardinalityType
<1> QED
  BY <1>3, <1>5, <1>6

LEMMA NamesakesFinite ==
    ASSUME NEW names, IsFiniteSet(DOMAIN names), NEW t
    PROVE  /\ IsFiniteSet(NamesakesIn(names, t))
           /\ Cardinality(NamesakesIn(names, t)) \in Nat
  BY FS_Subset, FS_CardinalityType DEF NamesakesIn

LEMMA NumberedStem ==
    ASSUME NEW base, base = <<base[1], base[2]>>, NEW n
    PROVE  Numbered(base, n)[1] = base[1]
  BY DEF Numbered

\* The name of a second type tells which base it is for, and is no base's own.
LEMMA NumberedTwo ==
    ASSUME NEW t \in DOMAIN Types, NEW u \in DOMAIN Types
    PROVE  /\ Numbered(Types[t].base, 1) = Types[t].base
           /\ Numbered(Types[t].base, 2) # Types[t].base
           /\ Numbered(Types[t].base, 2) = Numbered(Types[u].base, 2) =>
                Types[t].base = Types[u].base
<1> DEFINE b == Types[t].base
           c == Types[u].base
<1>1. /\ b = <<b[1], b[2]>> /\ b[2] \in Seq(0..9)
      /\ c = <<c[1], c[2]>> /\ c[2] \in Seq(0..9)
  BY TypesAssumption
<1>2. Decimal(2) = <<2>>
  BY DEF Decimal
<1> HIDE DEF b, c
<1>3. Numbered(b, 1) = b
  BY DEF Numbered
<1>4. /\ Numbered(b, 2) = <<b[1], Append(b[2], 2)>>
      /\ Numbered(c, 2) = <<c[1], Append(c[2], 2)>>
  <2>1. \A d \in Seq(0..9) : d \o <<2>> = Append(d, 2)
    OBVIOUS
  <2>2. 2 # 1
    OBVIOUS
  <2> QED
    BY <1>1, <1>2, <2>1, <2>2 DEF Numbered
<1>5. ASSUME NEW d \in Seq(0..9), NEW e \in Seq(0..9)
      PROVE  /\ Append(d, 2) # d
             /\ Append(d, 2) = Append(e, 2) => d = e
  <2>1. Len(Append(d, 2)) = Len(d) + 1 /\ Len(d) \in Nat
    OBVIOUS
  <2>2. ASSUME Append(d, 2) = Append(e, 2) PROVE d = e
    <3>1. Len(d) = Len(e)
      BY <2>2, <2>1
    <3>2. \A i \in 1..Len(d) : d[i] = Append(d, 2)[i] /\ e[i] = Append(e, 2)[i]
      BY <3>1
    <3> QED
      BY <2>2, <3>1, <3>2
  <2> QED
    BY <2>1, <2>2
<1>6. Numbered(b, 2) # b
  <2>1. Numbered(b, 2)[2] = Append(b[2], 2)
    BY <1>4
  <2> QED
    BY <1>1, <1>5, <2>1
<1>7. Numbered(b, 2) = Numbered(c, 2) => b = c
  <2> SUFFICES ASSUME Numbered(b, 2) = Numbered(c, 2) PROVE b = c
    OBVIOUS
  <2>1. b[1] = c[1] /\ Append(b[2], 2) = Append(c[2], 2)
    BY <1>4
  <2> QED
    BY <1>1, <1>5, <2>1
<1> QED
  BY <1>3, <1>6, <1>7 DEF b, c

\* What TypeName returns: the name a type has, or one of its own stem.
LEMMA TypeNamesShape ==
    ASSUME NEW names, NEW t \in DOMAIN Types, NEW name \in TypeNames(names, t)
    PROVE  \/ t \in DOMAIN names /\ name = names[t]
           \/ t \notin DOMAIN names /\ name[1] = Types[t].base[1]
<1>1. CASE t \in DOMAIN names
  BY <1>1 DEF TypeNames
<1>2. CASE t \notin DOMAIN names
  <2> DEFINE base == Types[t].base
             used == {names[u] : u \in DOMAIN names}
             free == Min({n \in 1..(Cardinality(used) + 1) : Numbered(base, n) \notin used})
  <2>1. name \in (IF free = 1 THEN {base} ELSE {Numbered(base, n) : n \in 2..free})
    BY <1>2 DEF TypeNames
  <2> HIDE DEF free
  <2>2. base = <<base[1], base[2]>>
    BY TypesAssumption
  <2> HIDE DEF base
  <2>3. name = base \/ \E n : name = Numbered(base, n)
    BY <2>1
  <2>4. name[1] = base[1]
    BY <2>2, <2>3, NumberedStem
  <2> QED
    BY <1>2, <2>4 DEF base
<1> QED
  BY <1>1, <1>2

\* Types that are told apart are told apart among fewer, and so are their kin.
LEMMA FewerToldApart ==
    ASSUME NEW names, NEW more, IsFiniteSet(DOMAIN more),
           DOMAIN names \subseteq DOMAIN more, NEW t, ToldApart(more, t)
    PROVE  ToldApart(names, t)
<1> SUFFICES ASSUME NEW u \in KinIn(names, t)
             PROVE  /\ Cardinality(NamesakesIn(names, u)) <= 2
                    /\ Cardinality(NamesakesIn(names, u)) = 2 =>
                         \A v \in KinIn(names, t) :
                            Types[v].base # Numbered(Types[u].base, 2)
  BY DEF ToldApart
<1>1. KinIn(names, t) \subseteq KinIn(more, t)
  BY DEF KinIn
<1>2. NamesakesIn(names, u) \subseteq NamesakesIn(more, u)
  BY DEF NamesakesIn
<1>3. IsFiniteSet(NamesakesIn(more, u)) /\ Cardinality(NamesakesIn(more, u)) \in Nat
  BY NamesakesFinite
<1>4. /\ Cardinality(NamesakesIn(names, u)) <= Cardinality(NamesakesIn(more, u))
      /\ Cardinality(NamesakesIn(names, u)) \in Nat
  BY <1>2, <1>3, FS_Subset, FS_CardinalityType
<1>5. Cardinality(NamesakesIn(more, u)) <= 2
  BY <1>1 DEF ToldApart
<1>6. ASSUME Cardinality(NamesakesIn(names, u)) = 2, NEW v \in KinIn(names, t)
      PROVE  Types[v].base # Numbered(Types[u].base, 2)
  <2>1. Cardinality(NamesakesIn(more, u)) = 2
    BY <1>3, <1>4, <1>5, <1>6
  <2> QED
    BY <1>1, <2>1 DEF ToldApart
<1> QED
  BY <1>3, <1>4, <1>5, <1>6

LEMMA KinToldApart ==
    ASSUME NEW names, NEW t, NEW u, Types[u].base[1] = Types[t].base[1], ToldApart(names, t)
    PROVE  ToldApart(names, u)
  BY DEF ToldApart, KinIn

LEMMA TwoNamesakes ==
    ASSUME NEW names, IsFiniteSet(DOMAIN names), NEW u \in DOMAIN names,
           NEW v \in NamesakesIn(names, u), v # u, ToldApart(names, u)
    PROVE  /\ \A w \in NamesakesIn(names, u) : w = u \/ w = v
           /\ \A w \in KinIn(names, u) : Types[w].base # Numbered(Types[u].base, 2)
<1> DEFINE all == NamesakesIn(names, u)
<1>1. IsFiniteSet(all) /\ Cardinality(all) \in Nat
  BY NamesakesFinite
<1>2. u \in all /\ v \in all
  BY DEF NamesakesIn
<1>3. u \in KinIn(names, u)
  BY DEF KinIn
<1>4. Cardinality(all) <= 2
  BY <1>3 DEF ToldApart
<1>5. Cardinality(all) # 0 /\ Cardinality(all) # 1
  <2> HIDE DEF all
  <2>1. Cardinality(all) # 0
    BY <1>1, <1>2, FS_EmptySet
  <2>2. ASSUME Cardinality(all) = 1 PROVE FALSE
    <3>1. PICK x : all = {x}
      BY <1>1, <2>2, FS_Singleton
    <3> QED
      BY <1>2, <3>1
  <2> QED
    BY <2>1, <2>2
<1>6. Cardinality(all) = 2
  BY <1>1, <1>4, <1>5
<1>7. ASSUME NEW w \in all PROVE w = u \/ w = v
  <2> HIDE DEF all
  <2> QED
    BY <1>1, <1>2, <1>4, <1>7, AtMostTwo
<1> QED
  BY <1>3, <1>6, <1>7 DEF ToldApart

\* A type that is told apart takes its base when that is free, and otherwise the
\* name of a second, which nobody has.
LEMMA SecondName ==
    ASSUME NEW refl, Naming(refl), NEW t \in DOMAIN Types, t \notin DOMAIN refl.names,
           NEW more, DOMAIN more = DOMAIN refl.names \cup {t}, ToldApart(more, t),
           NEW name \in TypeNames(refl.names, t)
    PROVE  /\ name \notin DOMAIN refl.comps
           /\ \/ name = Types[t].base
              \/ /\ name = Numbered(Types[t].base, 2)
                 /\ \E u \in DOMAIN refl.names :
                      Types[u].base = Types[t].base /\ refl.names[u] = Types[t].base
<1> DEFINE names == refl.names
           base == Types[t].base
           used == {names[u] : u \in DOMAIN names}
           S == {n \in 1..(Cardinality(used) + 1) : Numbered(base, n) \notin used}
           free == Min(S)
<1>1. name \in (IF free = 1 THEN {base} ELSE {Numbered(base, n) : n \in 2..free})
  BY DEF TypeNames
<1>2. IsFiniteSet(used) /\ Cardinality(used) \in Nat
  <2>1. IsFiniteSet(DOMAIN names)
    BY DEF Naming
  <2>2. IsFiniteSet(used)
    <3> DEFINE given == [u \in DOMAIN names |-> names[u]]
    <3>1. given \in Surjection(DOMAIN names, used)
      BY DEF Surjection
    <3> HIDE DEF given, names, used
    <3> QED
      BY <2>1, <3>1, FS_Surjection
  <2> QED
    BY <2>2, FS_CardinalityType
<1>3. IsFiniteSet(DOMAIN more) /\ DOMAIN names \subseteq DOMAIN more
      /\ DOMAIN names \subseteq DOMAIN Types
  BY FS_AddElement DEF Naming
<1>4. Numbered(base, 1) = base
  BY NumberedTwo
<1>5. DOMAIN refl.comps = used
  BY DEF Naming
\* What another type of this stem is called.
<1>6. ASSUME NEW u \in DOMAIN names, names[u][1] = base[1]
      PROVE  /\ Types[u].base[1] = base[1] /\ ToldApart(more, u)
             /\ \/ names[u] = Types[u].base
                \/ /\ names[u] = Numbered(Types[u].base, 2)
                   /\ \E v \in NamesakesIn(more, u) \ {u} :
                        v \in DOMAIN names /\ names[v] = Types[u].base
  <2>1. Types[u].base[1] = base[1]
    BY <1>6 DEF Naming
  <2>2. ToldApart(more, u)
    BY <2>1, KinToldApart
  <2>3. ToldApart(names, u)
    BY <1>3, <2>2, FewerToldApart
  <2>4. NamesakesIn(names, u) \subseteq NamesakesIn(more, u)
        /\ NamesakesIn(names, u) \subseteq DOMAIN names
    BY <1>3 DEF NamesakesIn
  <2> QED
    BY <2>1, <2>2, <2>3, <2>4 DEF Naming
<1>7. CASE base \notin used
  <2>1. 1 \in S
    BY <1>2, <1>4, <1>7
  <2>2. S \in SUBSET Nat /\ S # {}
    <3>1. S \subseteq 1..(Cardinality(used) + 1)
      OBVIOUS
    <3> HIDE DEF S, used
    <3> QED
      BY <2>1, <3>1
  <2> HIDE DEF S
  <2>3. free \in S /\ \A n \in S : free <= n
    BY <2>2, MinOf
  <2>4. free \in 1..(Cardinality(used) + 1)
    BY <2>3 DEF S
  <2> HIDE DEF free
  <2>5. free = 1
    BY <1>2, <2>1, <2>3, <2>4
  <2>6. name = base
    BY <1>1, <2>5
  <2> QED
    BY <1>5, <1>7, <2>6
<1>8. CASE base \in used
  <2>1. PICK u \in DOMAIN names : names[u] = base
    BY <1>8
  <2>2. /\ ToldApart(more, u)
        /\ \/ names[u] = Types[u].base
           \/ /\ names[u] = Numbered(Types[u].base, 2)
              /\ \E v \in NamesakesIn(more, u) \ {u} :
                   v \in DOMAIN names /\ names[v] = Types[u].base
        /\ Types[u].base[1] = base[1]
    BY <1>6, <2>1
  \* It is of the same base.
  <2>3. Types[u].base = base
    <3> SUFFICES ASSUME names[u] = Numbered(Types[u].base, 2),
                        NEW v \in NamesakesIn(more, u) \ {u}
                 PROVE  FALSE
      BY <2>1, <2>2
    <3>1. t \in KinIn(more, u)
      BY <2>2 DEF KinIn
    <3>2. Types[t].base # Numbered(Types[u].base, 2)
      BY <1>3, <2>1, <2>2, <3>1, TwoNamesakes
    <3> QED
      BY <2>1, <3>2
  <2>4. u \in NamesakesIn(more, t) /\ u # t /\ t \in DOMAIN more
    BY <1>3, <2>3 DEF NamesakesIn
  <2>5. /\ \A w \in NamesakesIn(more, t) : w = t \/ w = u
        /\ \A w \in KinIn(more, t) : Types[w].base # Numbered(base, 2)
    BY <1>3, <2>4, TwoNamesakes
  <2>6. Numbered(base, 2) \notin used
    <3> SUFFICES ASSUME NEW w \in DOMAIN names, names[w] = Numbered(base, 2) PROVE FALSE
      OBVIOUS
    <3>1. names[w][1] = base[1]
      <4>1. base = <<base[1], base[2]>>
        BY TypesAssumption
      <4> HIDE DEF base
      <4> QED
        BY <4>1, NumberedStem
    <3>2. w \in KinIn(more, t)
      BY <1>3, <1>6, <3>1 DEF KinIn
    <3>3. Types[w].base # Numbered(base, 2)
      BY <2>5, <3>2
    <3>4. /\ names[w] = Numbered(Types[w].base, 2)
          /\ \E v \in NamesakesIn(more, w) \ {w} : v \in DOMAIN names
      BY <1>6, <3>1, <3>3
    <3>5. Types[w].base = base
      BY <1>3, <3>4, NumberedTwo
    <3>6. PICK v \in NamesakesIn(more, w) \ {w} : v \in DOMAIN names
      BY <3>4
    <3>7. v \in NamesakesIn(more, t) /\ w \in NamesakesIn(more, t)
      BY <1>3, <3>5, <3>6 DEF NamesakesIn
    <3>8. v # t /\ w # t /\ v # w
      BY <3>6
    <3> QED
      BY <2>5, <3>7, <3>8
  <2>7. 2 \in S /\ 1 \notin S
    <3>1. Cardinality(used) # 0
      <4> HIDE DEF used
      <4> QED
        BY <1>2, <1>8, FS_EmptySet
    <3>2. 2 \in 1..(Cardinality(used) + 1)
      BY <1>2, <3>1
    <3> QED
      BY <1>4, <1>8, <2>6, <3>2
  <2>8. S \in SUBSET Nat /\ S # {}
    <3>1. S \subseteq 1..(Cardinality(used) + 1)
      OBVIOUS
    <3> HIDE DEF S, used
    <3> QED
      BY <2>7, <3>1
  <2> HIDE DEF S
  <2>9. free \in S /\ \A n \in S : free <= n
    BY <2>8, MinOf
  <2>10. free \in 1..(Cardinality(used) + 1)
    BY <2>9 DEF S
  <2> HIDE DEF free
  <2>11. free = 2
    <3>1. free <= 2 /\ free # 1
      BY <2>7, <2>9
    <3> QED
      BY <1>2, <2>10, <3>1
  <2>12. name = Numbered(base, 2)
    BY <1>1, <2>11
  <2> QED
    BY <1>5, <2>1, <2>3, <2>6, <2>12
<1> QED
  BY <1>7, <1>8

LEMMA NamingKept ==
    ASSUME NEW refl, refl = [names |-> refl.names, comps |-> refl.comps], Naming(refl),
           NEW t \in DOMAIN Types, NEW name \in TypeNames(refl.names, t)
    PROVE  Naming(RefSchema(refl, t, name).refl)
<1> DEFINE names == Put(refl.names, t, name)
           comps == IF name \in DOMAIN refl.comps THEN refl.comps
                    ELSE Put(refl.comps, name, t)
           new == RefSchema(refl, t, name).refl
<1>1. new = [names |-> names, comps |-> comps]
  BY RefSchemaShape
<1> HIDE DEF new
<1>2. new.names = names /\ new.comps = comps
  <2> HIDE DEF names, comps
  <2> QED
    BY <1>1
<1>3. /\ DOMAIN names = DOMAIN refl.names \cup {t}
      /\ names[t] = name
      /\ \A u \in DOMAIN refl.names : names[u] = refl.names[u]
  <2>1. /\ DOMAIN names = DOMAIN refl.names \cup {t}
        /\ names[t] = name
        /\ \A u \in DOMAIN refl.names : u # t => names[u] = refl.names[u]
    BY DEF Put
  <2>2. t \in DOMAIN refl.names => name = refl.names[t]
    BY TypeNamesShape
  <2> HIDE DEF names
  <2> QED
    BY <2>1, <2>2
<1>4. /\ DOMAIN comps = DOMAIN refl.comps \cup {name}
      /\ \A n \in DOMAIN refl.comps : comps[n] = refl.comps[n]
      /\ name \notin DOMAIN refl.comps => comps[name] = t
  BY DEF Put
<1> HIDE DEF names, comps
<1>5. IsFiniteSet(DOMAIN names) /\ DOMAIN names \subseteq DOMAIN Types
  BY <1>3, FS_AddElement DEF Naming
<1>6. DOMAIN comps = {names[u] : u \in DOMAIN names}
  <2>1. DOMAIN refl.comps = {refl.names[u] : u \in DOMAIN refl.names}
    BY DEF Naming
  <2> QED
    BY <1>3, <1>4, <2>1
<1>7. ASSUME NEW u \in DOMAIN names
      PROVE  names[u][1] = Types[u].base[1]
  <2>1. CASE u \in DOMAIN refl.names
    BY <1>3, <2>1 DEF Naming
  <2>2. CASE u \notin DOMAIN refl.names
    BY <1>3, <2>2, TypeNamesShape
  <2> QED
    BY <2>1, <2>2
<1>8. ASSUME NEW u \in DOMAIN names, ToldApart(names, u)
      PROVE  /\ \/ names[u] = Types[u].base
                \/ /\ names[u] = Numbered(Types[u].base, 2)
                   /\ \E v \in NamesakesIn(names, u) \ {u} : names[v] = Types[u].base
             /\ comps[names[u]] = u
  <2>1. CASE u \in DOMAIN refl.names
    <3>1. ToldApart(refl.names, u)
      BY <1>3, <1>5, <1>8, FewerToldApart
    <3>2. NamesakesIn(refl.names, u) \subseteq NamesakesIn(names, u)
          /\ NamesakesIn(refl.names, u) \subseteq DOMAIN refl.names
      BY <1>3 DEF NamesakesIn
    <3>3. /\ \/ refl.names[u] = Types[u].base
             \/ /\ refl.names[u] = Numbered(Types[u].base, 2)
                /\ \E v \in NamesakesIn(refl.names, u) \ {u} :
                     refl.names[v] = Types[u].base
          /\ refl.comps[refl.names[u]] = u /\ refl.names[u] \in DOMAIN refl.comps
      BY <2>1, <3>1 DEF Naming
    <3>4. comps[names[u]] = u
      BY <1>3, <1>4, <2>1, <3>3
    <3> QED
      BY <1>3, <2>1, <3>2, <3>3, <3>4
  <2>2. CASE u \notin DOMAIN refl.names
    <3>1. u = t /\ names[u] = name
      BY <1>3, <2>2
    <3>2. /\ name \notin DOMAIN refl.comps
          /\ \/ name = Types[t].base
             \/ /\ name = Numbered(Types[t].base, 2)
                /\ \E v \in DOMAIN refl.names :
                     Types[v].base = Types[t].base /\ refl.names[v] = Types[t].base
      BY <1>3, <1>8, <2>2, <3>1, SecondName
    <3>3. \A v \in DOMAIN refl.names :
            Types[v].base = Types[t].base =>
              v \in NamesakesIn(names, t) \ {t} /\ names[v] = refl.names[v]
      BY <1>3, <2>2, <3>1 DEF NamesakesIn
    <3> QED
      BY <1>4, <3>1, <3>2, <3>3
  <2> QED
    BY <2>1, <2>2
<1> QED
  BY <1>2, <1>5, <1>6, <1>7, <1>8 DEF Naming, new

\* A step that leaves documents alone, and each build's reflector in order.
LEMMA NamesSame ==
    ASSUME NamesInv, UNCHANGED <<once, result>>,
           \A r \in Readers : InBuild(r)' => Naming(build'[r].refl)
    PROVE  NamesInv'
<1>1. RefsMeanTheirTypes'
  BY DEF NamesInv, RefsMeanTheirTypes, Served, Documents
<1> QED
  BY <1>1 DEF NamesInv

LEMMA NamesAdds ==
    ASSUME Base, NamesInv, NEW r \in Readers, NEW b, Adds(r, b), Naming(b.refl)
    PROVE  NamesInv'
<1>1. /\ UNCHANGED <<once, result, reader>>
      /\ build'[r] = b /\ \A q \in Readers : q # r => build'[q] = build[q]
  BY DEF Adds, Base, Shapes
<1>2. ASSUME NEW q \in Readers, InBuild(q)' PROVE Naming(build'[q].refl)
  BY <1>1, <1>2 DEF NamesInv, InBuild
<1> QED
  BY <1>1, <1>2, NamesSame

LEMMA NamesEnter ==
    ASSUME Base, NamesInv, NEW r \in Readers, EnterOnce(r)
    PROVE  NamesInv'
<1> DEFINE s == reader[r].spec
<1>1. PICK b : NewBuild(r, b) /\ build' = [build EXCEPT ![r] = b]
  BY EnterBuild DEF Base
<1>2. /\ s \in DOMAIN Specs /\ once[s] = "idle"
      /\ once' = [once EXCEPT ![s] = "building"]
      /\ reader' = [reader EXCEPT ![r].pc = "building"]
      /\ result' = result
  BY DEF EnterOnce, MayBuild, Base, Shapes
<1>3. Naming(b.refl)
  <2>1. b.refl.names = <<>> /\ b.refl.comps = <<>>
    BY <1>1 DEF NewBuild, NewReflector
  <2>2. DOMAIN b.refl.names = {} /\ DOMAIN b.refl.comps = {}
    BY <2>1
  <2>3. {b.refl.names[t] : t \in DOMAIN b.refl.names} = {}
    BY <2>2
  <2> QED
    BY <2>2, <2>3, FS_EmptySet DEF Naming
<1>4. ASSUME NEW q \in Readers, InBuild(q)' PROVE Naming(build'[q].refl)
  <2>1. CASE q = r
    BY <1>1, <1>3, <2>1 DEF Base, Shapes
  <2>2. CASE q # r
    BY <1>1, <1>2, <1>4, <2>2 DEF Base, Shapes, NamesInv, InBuild
  <2> QED
    BY <2>1, <2>2
<1> HIDE DEF s
<1>5. RefsMeanTheirTypes'
  <2>1. \A t \in Documents' : t \in Documents
    BY <1>2 DEF Documents, Base, Shapes
  <2> QED
    BY <1>2, <2>1 DEF NamesInv, RefsMeanTheirTypes, Served
<1> QED
  BY <1>4, <1>5 DEF NamesInv

LEMMA NamesLeaves ==
    ASSUME Base, NamesInv, NEW r \in Readers, NEW pc, NEW outcome, Leaves(r, pc, outcome)
    PROVE  NamesInv'
<1> DEFINE s == reader[r].spec
<1>1. /\ InBuild(r) /\ s \in DOMAIN Specs
      /\ once' = [once EXCEPT ![s] = "done"]
      /\ result' = [result EXCEPT ![s] = outcome]
      /\ reader' = [reader EXCEPT ![r].pc = pc]
      /\ pc # "building"
      /\ \A q \in Readers : q # r => build'[q] = build[q]
  BY DEF Leaves, Leave, InBuild, Base, Shapes
<1>2. \A q \in Readers : reader'[q].pc = IF q = r THEN pc ELSE reader[q].pc
  BY <1>1 DEF Base, Shapes
<1>3. /\ result'[s] = outcome
      /\ \A t \in DOMAIN Specs : t # s => once'[t] = once[t] /\ result'[t] = result[t]
  BY <1>1 DEF Base, Shapes
<1> HIDE DEF s
<1>4. ASSUME NEW q \in Readers, InBuild(q)' PROVE Naming(build'[q].refl)
  BY <1>1, <1>2, <1>4 DEF NamesInv, InBuild
<1>5. ASSUME NEW x \in Documents', NEW t \in DOMAIN result'[x].doc.names,
             ToldApart(result'[x].doc.names, t)
      PROVE  Described(result'[x].doc, t)
  <2>1. x \in DOMAIN Specs
    BY DEF Documents
  <2>2. CASE x # s
    <3>1. x \in Documents /\ result'[x] = result[x]
      BY <1>3, <2>1, <2>2 DEF Documents
    <3> QED
      BY <1>5, <3>1 DEF NamesInv, RefsMeanTheirTypes, Served
  <2>3. CASE x = s
    <3> DEFINE doc == build[r].doc
               refl == build[r].refl
               d == Finished(doc, refl)
    <3>1. outcome.kind = "document"
      BY <1>3, <2>3 DEF Documents
    <3>2. result'[x].doc = d
      BY <1>3, <2>3, <3>1 DEF Leaves
    <3>3. IsDocument(doc) /\ Naming(refl)
      BY <1>1 DEF Base, Builds, IsBuild, NamesInv
    <3> HIDE DEF d, doc, refl
    <3>4. /\ d.names = refl.names
          /\ d.schemas = Over([name \in DOMAIN refl.comps |->
                                 ComponentOf[refl.comps[name]]], doc.schemas)
      <4>1. Finished(doc, refl).names = refl.names
            /\ Finished(doc, refl).schemas
                 = Over([name \in DOMAIN refl.comps |-> ComponentOf[refl.comps[name]]],
                        doc.schemas)
        BY <3>3, FinishedFields
      <4> QED
        BY <4>1 DEF d
    <3>5. t \in DOMAIN refl.names /\ ToldApart(refl.names, t)
      BY <1>5, <3>2, <3>4
    <3>6. refl.names[t] \in DOMAIN refl.comps /\ refl.comps[refl.names[t]] = t
      BY <1>5, <3>2, <3>3, <3>5 DEF Naming
    <3>7. d.schemas[refl.names[t]] = ComponentOf[t]
      BY <3>4, <3>6 DEF Over
    <3> QED
      BY <3>2, <3>4, <3>7 DEF Described
  <2> QED
    BY <2>2, <2>3
<1>6. RefsMeanTheirTypes'
  BY <1>5 DEF RefsMeanTheirTypes, Served
<1> QED
  BY <1>4, <1>6 DEF NamesInv

LEMMA NamesInit == Init => NamesInv
<1> SUFFICES ASSUME Init PROVE NamesInv
  OBVIOUS
<1>1. Documents = {}
  BY DEF Init, Documents, NoResult
<1>2. RefsMeanTheirTypes
  BY <1>1 DEF RefsMeanTheirTypes, Served
<1> DEFINE any == CHOOSE s \in DOMAIN Specs : TRUE
<1>3. \A r \in Readers : reader[r] = [pc |-> "idle", spec |-> any]
  BY DEF Init
<1> HIDE DEF any
<1>4. \A r \in Readers : reader[r].pc = "idle"
  BY <1>3
<1> QED
  BY <1>2, <1>4 DEF NamesInv, InBuild

LEMMA NamesNext == ASSUME Base, NamesInv, Step PROVE NamesInv'
<1>1. CASE Quiet
  <2>1. \A r \in Readers : InBuild(r)' => Naming(build'[r].refl)
    BY <1>1 DEF Quiet, InBuild, NamesInv
  <2> QED
    BY <1>1, <2>1, NamesSame DEF Quiet
<1>2. ASSUME NEW r \in Readers, NEW s \in DOMAIN Specs, Ask(r, s) PROVE NamesInv'
  <2>1. /\ reader'[r] = [pc |-> "asked", spec |-> s]
        /\ \A q \in Readers : q # r => reader'[q] = reader[q]
        /\ UNCHANGED <<once, result, build>>
    BY <1>2 DEF Ask, Base, Shapes
  <2>2. reader'[r].pc = "asked"
    BY <2>1
  <2>3. \A q \in Readers : InBuild(q)' => Naming(build'[q].refl)
    BY <2>1, <2>2 DEF InBuild, NamesInv
  <2> QED
    BY <2>1, <2>3, NamesSame
<1>3. ASSUME NEW r \in Readers, EnterOnce(r) PROVE NamesInv'
  BY <1>3, NamesEnter
<1>4. ASSUME NEW r \in Readers, NEW t \in build[r].types,
             NEW name \in TypeNames(build[r].refl.names, t),
             Adds(r, Named(build[r], t, name))
      PROVE  NamesInv'
  <2>1. IsBuild(build[r]) /\ Naming(build[r].refl)
    BY <1>4 DEF Adds, Base, Builds, NamesInv
  <2>2. Naming(RefSchema(build[r].refl, t, name).refl)
    <3>1. build[r].refl = [names |-> build[r].refl.names, comps |-> build[r].refl.comps]
      BY <2>1 DEF IsBuild
    <3>2. t \in DOMAIN Types
      BY <2>1 DEF IsBuild
    <3> QED
      BY <1>4, <2>1, <3>1, <3>2, NamingKept
  <2> DEFINE c == Named(build[r], t, name)
  <2>3. c.refl = RefSchema(build[r].refl, t, name).refl
    BY <2>1, NamedBuild
  <2> HIDE DEF c
  <2>4. Naming(c.refl)
    BY <2>2, <2>3
  <2> QED
    BY <1>4, <2>4, NamesAdds DEF c
<1>5. ASSUME NEW r \in Readers, build[r].todo # <<>>, Adds(r, Skipped(build[r]))
      PROVE  NamesInv'
  <2>1. IsBuild(build[r]) /\ Naming(build[r].refl)
    BY <1>5 DEF Adds, Base, Builds, NamesInv
  <2>2. Skipped(build[r]).refl = build[r].refl
    BY <1>5, <2>1, SkippedBuild
  <2> QED
    BY <1>5, <2>1, <2>2, NamesAdds
<1>6. ASSUME NEW r \in Readers, NEW types \in SUBSET DOMAIN Types, NEW op,
             build[r].todo # <<>>,
             Adds(r, WithRoute(build[r], Route(r), types, op))
      PROVE  NamesInv'
  <2>1. IsBuild(build[r]) /\ Naming(build[r].refl)
    BY <1>6 DEF Adds, Base, Builds, NamesInv
  <2>2. WithRoute(build[r], Route(r), types, op).refl = build[r].refl
    BY <1>6, <2>1, WithRouteBuild
  <2> QED
    BY <1>6, <2>1, <2>2, NamesAdds
<1>7. ASSUME NEW r \in Readers, NEW plan, Adds(r, Hooked(build[r], plan))
      PROVE  NamesInv'
  <2>1. IsBuild(build[r]) /\ Naming(build[r].refl)
    BY <1>7 DEF Adds, Base, Builds, NamesInv
  <2>2. Hooked(build[r], plan).refl = build[r].refl
    BY <2>1, HookedBuild
  <2> QED
    BY <1>7, <2>1, <2>2, NamesAdds
<1>8. ASSUME NEW r \in Readers, NEW plan, NEW types \in SUBSET DOMAIN Types,
             Adds(r, WithHook(build[r], plan, types))
      PROVE  NamesInv'
  <2>1. IsBuild(build[r]) /\ Naming(build[r].refl)
    BY <1>8 DEF Adds, Base, Builds, NamesInv
  <2>2. WithHook(build[r], plan, types).refl = build[r].refl
    BY <2>1, WithHookBuild
  <2> QED
    BY <1>8, <2>1, <2>2, NamesAdds
<1>9. ASSUME NEW r \in Readers, NEW pc, NEW outcome, Leaves(r, pc, outcome)
      PROVE  NamesInv'
  BY <1>9, NamesLeaves
<1>10. ASSUME NEW r \in Readers, Reply(r) PROVE NamesInv'
  <2>1. UNCHANGED <<once, result, build>>
    BY <1>10 DEF Reply
  <2>2. \A q \in Readers : InBuild(q)' => InBuild(q)
    BY <1>10 DEF Reply, Base, Shapes, InBuild
  <2>3. \A q \in Readers : InBuild(q)' => Naming(build'[q].refl)
    BY <2>1, <2>2 DEF NamesInv
  <2> QED
    BY <2>1, <2>3, NamesSame
<1> QED
  BY <1>1, <1>2, <1>3, <1>4, <1>5, <1>6, <1>7, <1>8, <1>9, <1>10 DEF Step

\* Every struct that a served document refers to is described by the component
\* of the name it was given, unless three of its kin share a base name, or the
\* name of the second of two namesakes is the base name of another (TypeName,
\* RefSchema, Finish).
THEOREM TypesDescribed == Spec => []RefsMeanTheirTypes
<1>1. Init => NamesInv
  BY NamesInit
<1>2. Base /\ NamesInv /\ [Next]_vars => NamesInv'
  BY Steps, NamesNext DEF Base
<1>3. NamesInv => RefsMeanTheirTypes
  BY DEF NamesInv
<1> QED
  BY <1>1, <1>2, <1>3, BaseInvariant, PTL DEF Spec

-------------------------------------------------------------------------------
(* The operation of a route that stands alone *)

\* What an entry comes to when nothing else is at its method and path.
Final(e) == WithErrors(Extended(PlanOf[e].op, e), e.errors)
BodyTypes(op) == TypesOf(SchemasOf(op.body))
\* The entries that a document is to show, and shares with no other.
Solo(entries, spec) ==
    {e \in ToSet(entries) :
       /\ Belongs(e, spec)
       /\ \A i, j \in DOMAIN entries :
            At(entries[i]) = At(e) /\ At(entries[j]) = At(e) => i = j}
\* Such an entry's operation is its own, and the types of its body have names or
\* are about to get them.
Exact(entries, spec, ops, types) ==
    \A e \in Solo(entries, spec) : At(e) \in DOMAIN ops =>
       /\ ops[At(e)] = Final(e)
       /\ ~PlanOf[e].overflows
       /\ BodyTypes(Final(e)) \subseteq types
ExactInv ==
    /\ \A r \in Readers : InBuild(r) =>
          /\ \A p \in ToSet(build[r].todo) : p.entry \in ToSet(snap[reader[r].spec])
          /\ Exact(snap[reader[r].spec], Specs[reader[r].spec], build[r].doc.ops,
                   DOMAIN build[r].refl.names \cup build[r].types)
    /\ \A s \in Documents :
          Exact(snap[s], Specs[s], result[s].doc.ops, DOMAIN result[s].doc.names)

LEMMA ExactInit == Init => ExactInv
<1> SUFFICES ASSUME Init PROVE ExactInv
  OBVIOUS
<1>1. Documents = {}
  BY DEF Init, Documents, NoResult
<1> DEFINE any == CHOOSE s \in DOMAIN Specs : TRUE
<1>2. \A r \in Readers : reader[r] = [pc |-> "idle", spec |-> any]
  BY DEF Init
<1> HIDE DEF any
<1>3. \A r \in Readers : reader[r].pc = "idle"
  BY <1>2
<1> QED
  BY <1>1, <1>3 DEF ExactInv, InBuild

\* A step that leaves documents and builds alone.
LEMMA ExactSame ==
    ASSUME ExactInv, UNCHANGED <<once, snap, result, build>>,
           \A r \in Readers : InBuild(r)' => InBuild(r) /\ reader'[r].spec = reader[r].spec
    PROVE  ExactInv'
<1>1. Documents' = Documents
  BY DEF Documents
<1>2. ASSUME NEW r \in Readers, InBuild(r)'
      PROVE  /\ \A p \in ToSet(build'[r].todo) : p.entry \in ToSet(snap'[reader'[r].spec])
             /\ Exact(snap'[reader'[r].spec], Specs[reader'[r].spec], build'[r].doc.ops,
                      DOMAIN build'[r].refl.names \cup build'[r].types)
  <2>1. InBuild(r) /\ reader'[r].spec = reader[r].spec /\ build'[r] = build[r]
    BY <1>2
  <2> QED
    BY <2>1 DEF ExactInv
<1>3. \A s \in Documents' :
         Exact(snap'[s], Specs[s], result'[s].doc.ops, DOMAIN result'[s].doc.names)
  BY <1>1 DEF ExactInv
<1> QED
  BY <1>2, <1>3 DEF ExactInv

\* A step of one build.
LEMMA ExactAdds ==
    ASSUME Base, ExactInv, NEW r \in Readers, NEW b, Adds(r, b),
           \A p \in ToSet(b.todo) : p.entry \in ToSet(snap[reader[r].spec]),
           Exact(snap[reader[r].spec], Specs[reader[r].spec], b.doc.ops,
                 DOMAIN b.refl.names \cup b.types)
    PROVE  ExactInv'
<1>1. /\ UNCHANGED <<once, snap, result, reader>>
      /\ build'[r] = b /\ \A q \in Readers : q # r => build'[q] = build[q]
  BY DEF Adds, Base, Shapes
<1>2. Documents' = Documents
  BY <1>1 DEF Documents
<1>3. ASSUME NEW q \in Readers, InBuild(q)'
      PROVE  /\ \A p \in ToSet(build'[q].todo) : p.entry \in ToSet(snap'[reader'[q].spec])
             /\ Exact(snap'[reader'[q].spec], Specs[reader'[q].spec], build'[q].doc.ops,
                      DOMAIN build'[q].refl.names \cup build'[q].types)
  <2>1. CASE q = r
    BY <1>1, <2>1
  <2>2. CASE q # r
    <3>1. InBuild(q) /\ build'[q] = build[q]
      BY <1>1, <1>3, <2>2 DEF InBuild
    <3> QED
      BY <1>1, <3>1 DEF ExactInv
  <2> QED
    BY <2>1, <2>2
<1>4. \A s \in Documents' :
         Exact(snap'[s], Specs[s], result'[s].doc.ops, DOMAIN result'[s].doc.names)
  BY <1>1, <1>2 DEF ExactInv
<1> QED
  BY <1>3, <1>4 DEF ExactInv

\* An operation that is put elsewhere, or is the entry's own, keeps the rest.
LEMMA ExactPut ==
    ASSUME NEW entries, NEW spec, NEW ops, NEW had, Exact(entries, spec, ops, had),
           NEW at, NEW op, NEW types, had \subseteq types,
           \A e \in Solo(entries, spec) : At(e) = at =>
              op = Final(e) /\ ~PlanOf[e].overflows /\ BodyTypes(Final(e)) \subseteq types
    PROVE  Exact(entries, spec, Put(ops, at, op), types)
<1> SUFFICES ASSUME NEW e \in Solo(entries, spec), At(e) \in DOMAIN Put(ops, at, op)
             PROVE  /\ Put(ops, at, op)[At(e)] = Final(e)
                    /\ ~PlanOf[e].overflows
                    /\ BodyTypes(Final(e)) \subseteq types
  BY DEF Exact
<1>1. CASE At(e) = at
  <2>1. Put(ops, at, op)[At(e)] = op
    BY <1>1 DEF Put
  <2> QED
    BY <1>1, <2>1
<1>2. CASE At(e) # at
  <2>1. At(e) \in DOMAIN ops /\ Put(ops, at, op)[At(e)] = ops[At(e)]
    BY <1>2 DEF Put
  <2>2. ops[At(e)] = Final(e) /\ ~PlanOf[e].overflows /\ BodyTypes(Final(e)) \subseteq had
    BY <2>1 DEF Exact
  <2> QED
    BY <2>1, <2>2
<1> QED
  BY <1>1, <1>2

\* Of the entries at the method and path of one that stands alone, it is the only
\* one.
LEMMA SoloOnly ==
    ASSUME NEW entries, NEW spec, NEW e \in Solo(entries, spec),
           NEW d \in ToSet(entries), At(d) = At(e)
    PROVE  d = e
<1>1. PICK i \in DOMAIN entries : entries[i] = e
  BY DEF Solo, ToSet
<1>2. PICK j \in DOMAIN entries : entries[j] = d
  BY DEF ToSet
<1>3. i = j
  BY <1>1, <1>2 DEF Solo
<1> QED
  BY <1>1, <1>2, <1>3

LEMMA ErrorsKeepBody == ASSUME NEW op, NEW errors PROVE WithErrors(op, errors).body = op.body
  BY DEF WithErrors

\* The types a route brings are those of its own operation's body, among others.
LEMMA DrawnBody ==
    ASSUME NEW e \in Entries, NEW types, NEW op, Drawn(PlanOf[e], types, op), ~e.hidden
    PROVE  op = Final(e) /\ ~PlanOf[e].overflows /\ BodyTypes(Final(e)) \subseteq types
<1> DEFINE x == Extended(PlanOf[e].op, e)
<1>1. PlanOf[e].entry = e
  BY PlanEntry
<1>2. /\ ~PlanOf[e].overflows
      /\ types = TypesIn(PlanOf[e].op) \cup TypesIn(x)
      /\ op = WithErrors(x, e.errors)
  BY <1>1 DEF Drawn
<1>3. op = Final(e)
  BY <1>2 DEF Final
<1> HIDE DEF x
<1>4. BodyTypes(WithErrors(x, e.errors)) = BodyTypes(x)
  BY ErrorsKeepBody DEF BodyTypes
<1>5. BodyTypes(x) \subseteq TypesIn(x)
  BY DEF BodyTypes, TypesIn, TypesOf, SchemasIn
<1> QED
  BY <1>2, <1>3, <1>4, <1>5

LEMMA ExactEnter ==
    ASSUME Base, ExactInv, NEW r \in Readers, EnterOnce(r)
    PROVE  ExactInv'
<1> DEFINE s == reader[r].spec
<1>1. PICK b : NewBuild(r, b) /\ build' = [build EXCEPT ![r] = b]
  BY EnterBuild DEF Base
<1>2. /\ s \in DOMAIN Specs /\ once[s] = "idle"
      /\ once' = [once EXCEPT ![s] = "building"]
      /\ snap' = [snap EXCEPT ![s] = routes]
      /\ reader' = [reader EXCEPT ![r].pc = "building"]
      /\ result' = result
  BY DEF EnterOnce, MayBuild, Base, Shapes
<1>3. /\ \A q \in Readers : reader'[q].spec = reader[q].spec
      /\ \A q \in Readers : reader'[q].pc = IF q = r THEN "building" ELSE reader[q].pc
  BY <1>2 DEF Base, Shapes
<1>4. /\ snap'[s] = routes /\ routes \in Seq(Entries)
      /\ \A t : t # s => (t \in DOMAIN Specs => snap'[t] = snap[t] /\ once'[t] = once[t])
      /\ once'[s] = "building"
  BY <1>2 DEF Base, Shapes
<1>5. /\ b.doc.ops = <<>>
      /\ {p.entry : p \in ToSet(b.todo)} = ToSet(ForSpec(routes, Specs[s]))
  BY <1>1 DEF NewBuild
<1>6. ToSet(ForSpec(routes, Specs[s])) \subseteq ToSet(routes)
  BY <1>2, <1>4, ForSpecElements, SpecAssumption
<1> HIDE DEF s
<1>7. ASSUME NEW q \in Readers, InBuild(q)'
      PROVE  /\ \A p \in ToSet(build'[q].todo) : p.entry \in ToSet(snap'[reader'[q].spec])
             /\ Exact(snap'[reader'[q].spec], Specs[reader'[q].spec], build'[q].doc.ops,
                      DOMAIN build'[q].refl.names \cup build'[q].types)
  <2>1. CASE q = r
    <3>1. build'[q] = b /\ reader'[q].spec = s
      BY <1>1, <1>3, <2>1 DEF Base, Shapes, s
    <3>2. \A p \in ToSet(b.todo) : p.entry \in ToSet(routes)
      BY <1>5, <1>6
    <3>3. DOMAIN b.doc.ops = {}
      BY <1>5
    <3>4. Exact(routes, Specs[s], b.doc.ops, DOMAIN b.refl.names \cup b.types)
      BY <3>3 DEF Exact
    <3> QED
      BY <1>4, <3>1, <3>2, <3>4
  <2>2. CASE q # r
    <3>1. InBuild(q) /\ build'[q] = build[q] /\ reader'[q].spec = reader[q].spec
      BY <1>1, <1>3, <1>7, <2>2 DEF Base, Shapes, InBuild
    <3>2. reader[q].spec # s /\ reader[q].spec \in DOMAIN Specs
      BY <1>2, <3>1 DEF Base, OnceInv, OneBuilder, Shapes, InBuild
    <3>3. snap'[reader[q].spec] = snap[reader[q].spec]
      BY <1>4, <3>2
    <3> QED
      BY <3>1, <3>3 DEF ExactInv
  <2> QED
    BY <2>1, <2>2
<1>8. ASSUME NEW t \in Documents'
      PROVE  Exact(snap'[t], Specs[t], result'[t].doc.ops, DOMAIN result'[t].doc.names)
  <2>1. t \in Documents /\ t # s /\ t \in DOMAIN Specs
    BY <1>2, <1>4 DEF Documents
  <2>2. result'[t] = result[t] /\ snap'[t] = snap[t]
    BY <1>2, <1>4, <2>1
  <2> QED
    BY <2>1, <2>2 DEF ExactInv
<1> QED
  BY <1>7, <1>8 DEF ExactInv

LEMMA ExactLeaves ==
    ASSUME Base, ExactInv, NEW r \in Readers, NEW pc, NEW outcome, Leaves(r, pc, outcome)
    PROVE  ExactInv'
<1> DEFINE s == reader[r].spec
<1>1. /\ InBuild(r) /\ s \in DOMAIN Specs
      /\ once' = [once EXCEPT ![s] = "done"]
      /\ result' = [result EXCEPT ![s] = outcome]
      /\ reader' = [reader EXCEPT ![r].pc = pc]
      /\ pc # "building"
      /\ snap' = snap
      /\ \A q \in Readers : q # r => build'[q] = build[q]
  BY DEF Leaves, Leave, InBuild, Base, Shapes
<1>2. /\ \A q \in Readers : reader'[q].spec = reader[q].spec
      /\ \A q \in Readers : reader'[q].pc = IF q = r THEN pc ELSE reader[q].pc
  BY <1>1 DEF Base, Shapes
<1>3. /\ result'[s] = outcome
      /\ \A t \in DOMAIN Specs : t # s => once'[t] = once[t] /\ result'[t] = result[t]
  BY <1>1 DEF Base, Shapes
<1> HIDE DEF s
<1>4. ASSUME NEW q \in Readers, InBuild(q)'
      PROVE  /\ \A p \in ToSet(build'[q].todo) : p.entry \in ToSet(snap'[reader'[q].spec])
             /\ Exact(snap'[reader'[q].spec], Specs[reader'[q].spec], build'[q].doc.ops,
                      DOMAIN build'[q].refl.names \cup build'[q].types)
  <2>1. q # r /\ InBuild(q) /\ build'[q] = build[q] /\ reader'[q].spec = reader[q].spec
    BY <1>1, <1>2, <1>4 DEF InBuild
  <2> QED
    BY <1>1, <2>1 DEF ExactInv
<1>5. ASSUME NEW t \in Documents'
      PROVE  Exact(snap'[t], Specs[t], result'[t].doc.ops, DOMAIN result'[t].doc.names)
  <2>1. t \in DOMAIN Specs
    BY DEF Documents
  <2>2. CASE t # s
    <3>1. t \in Documents /\ result'[t] = result[t]
      BY <1>3, <2>1, <2>2 DEF Documents
    <3> QED
      BY <1>1, <3>1 DEF ExactInv
  <2>3. CASE t = s
    <3>1. outcome.kind = "document"
      BY <1>3, <2>3 DEF Documents
    <3>2. build[r].types = {} /\ outcome.doc = Finished(build[r].doc, build[r].refl)
      BY <3>1 DEF Leaves
    <3>3. IsDocument(build[r].doc)
      BY <1>1 DEF Base, Builds, IsBuild
    <3>4. outcome.doc.ops = build[r].doc.ops /\ outcome.doc.names = build[r].refl.names
      <4>1. /\ Finished(build[r].doc, build[r].refl).ops = build[r].doc.ops
            /\ Finished(build[r].doc, build[r].refl).names = build[r].refl.names
        BY <3>3, FinishedFields
      <4> QED
        BY <3>2, <4>1
    <3>5. Exact(snap[s], Specs[s], build[r].doc.ops,
                DOMAIN build[r].refl.names \cup build[r].types)
      BY <1>1 DEF ExactInv, s
    <3>6. DOMAIN build[r].refl.names \cup build[r].types = DOMAIN build[r].refl.names
      BY <3>2
    <3>7. /\ snap'[t] = snap[s] /\ result'[t].doc.ops = build[r].doc.ops
          /\ DOMAIN result'[t].doc.names
               = DOMAIN build[r].refl.names \cup build[r].types
      BY <1>1, <1>3, <2>3, <3>4, <3>6
    <3> QED
      BY <2>3, <3>5, <3>7
  <2> QED
    BY <2>2, <2>3
<1> QED
  BY <1>4, <1>5 DEF ExactInv

\* What is left to do was in the snapshot.
LEMMA RestOfTodo ==
    ASSUME NEW b, IsBuild(b), b.todo # <<>>, NEW rest, rest = Tail(b.todo), NEW entries,
           \A p \in ToSet(b.todo) : p.entry \in ToSet(entries)
    PROVE  /\ \A p \in ToSet(rest) : p.entry \in ToSet(entries)
           /\ Head(b.todo).entry \in Entries \cap ToSet(entries)
           /\ Head(b.todo) = PlanOf[Head(b.todo).entry]
<1> DEFINE S == {PlanOf[e] : e \in Entries}
           todo == b.todo
<1>1. todo \in Seq(S) /\ todo # <<>>
  BY DEF IsBuild
<1>2. \A p \in ToSet(todo) : p.entry \in Entries /\ p = PlanOf[p.entry]
  BY <1>1, TodoEntries
<1> HIDE DEF S, todo
<1>3. Head(todo) \in ToSet(todo) /\ ToSet(Tail(todo)) \subseteq ToSet(todo)
  <2>1. /\ DOMAIN todo = 1..Len(todo) /\ Len(todo) \in Nat /\ Len(todo) # 0
        /\ DOMAIN Tail(todo) = 1..(Len(todo) - 1) /\ Head(todo) = todo[1]
        /\ \A i \in 1..(Len(todo) - 1) : Tail(todo)[i] = todo[i + 1]
    BY <1>1
  <2>2. 1 \in DOMAIN todo /\ \A i \in 1..(Len(todo) - 1) : i + 1 \in DOMAIN todo
    BY <2>1
  <2> QED
    BY <2>1, <2>2 DEF ToSet
<1> QED
  BY <1>2, <1>3 DEF todo

LEMMA ExactNext == ASSUME Base, ExactInv, Step PROVE ExactInv'
<1>0. ASSUME NEW r \in Readers, InBuild(r)
      PROVE  /\ IsBuild(build[r])
             /\ snap[reader[r].spec] \in Seq(Entries)
             /\ \A p \in ToSet(build[r].todo) : p.entry \in ToSet(snap[reader[r].spec])
             /\ Exact(snap[reader[r].spec], Specs[reader[r].spec], build[r].doc.ops,
                      DOMAIN build[r].refl.names \cup build[r].types)
  BY <1>0 DEF Base, Shapes, Builds, InBuild, ExactInv
<1>1. CASE Quiet
  BY <1>1, ExactSame DEF Quiet, InBuild
<1>2. ASSUME NEW r \in Readers, NEW s \in DOMAIN Specs, Ask(r, s) PROVE ExactInv'
  <2>1. /\ reader'[r] = [pc |-> "asked", spec |-> s]
        /\ \A q \in Readers : q # r => reader'[q] = reader[q]
        /\ UNCHANGED <<once, snap, result, build>>
    BY <1>2 DEF Ask, Base, Shapes
  <2>2. reader'[r].pc = "asked"
    BY <2>1
  <2>3. \A q \in Readers : InBuild(q)' => InBuild(q) /\ reader'[q].spec = reader[q].spec
    BY <2>1, <2>2 DEF InBuild
  <2> QED
    BY <2>1, <2>3, ExactSame
<1>3. ASSUME NEW r \in Readers, EnterOnce(r) PROVE ExactInv'
  BY <1>3, ExactEnter
<1>4. ASSUME NEW r \in Readers, NEW t, NEW name, Adds(r, Named(build[r], t, name))
      PROVE  ExactInv'
  <2> DEFINE b == build[r]
             c == Named(b, t, name)
             entries == snap[reader[r].spec]
             spec == Specs[reader[r].spec]
  <2>1. /\ IsBuild(b) /\ \A p \in ToSet(b.todo) : p.entry \in ToSet(entries)
        /\ Exact(entries, spec, b.doc.ops, DOMAIN b.refl.names \cup b.types)
    BY <1>0, <1>4 DEF Adds
  <2> HIDE DEF b, entries, spec
  <2>2. /\ c.todo = b.todo /\ c.doc = b.doc /\ c.refl = RefSchema(b.refl, t, name).refl
        /\ c.types = (b.types \cup RefSchema(b.refl, t, name).more) \ {t}
    BY <2>1, NamedBuild
  <2>3. DOMAIN RefSchema(b.refl, t, name).refl.names = DOMAIN b.refl.names \cup {t}
    <3> DEFINE names == Put(b.refl.names, t, name)
               comps == IF name \in DOMAIN b.refl.comps THEN b.refl.comps
                        ELSE Put(b.refl.comps, name, t)
    <3>1. b.refl = [names |-> b.refl.names, comps |-> b.refl.comps]
      BY <2>1 DEF IsBuild
    <3>2. RefSchema(b.refl, t, name).refl = [names |-> names, comps |-> comps]
      BY <3>1, RefSchemaShape
    <3>3. DOMAIN names = DOMAIN b.refl.names \cup {t}
      BY DEF Put
    <3> HIDE DEF names, comps
    <3> QED
      BY <3>2, <3>3
  <2> HIDE DEF c
  <2>4. DOMAIN b.refl.names \cup b.types \subseteq DOMAIN c.refl.names \cup c.types
    BY <2>2, <2>3
  <2>5. Exact(entries, spec, c.doc.ops, DOMAIN c.refl.names \cup c.types)
    BY <2>1, <2>2, <2>4 DEF Exact
  <2>6. \A p \in ToSet(c.todo) : p.entry \in ToSet(entries)
    BY <2>1, <2>2
  <2> QED
    BY <1>4, <2>5, <2>6, ExactAdds DEF b, c, entries, spec
<1>5. ASSUME NEW r \in Readers, build[r].todo # <<>>, Adds(r, Skipped(build[r]))
      PROVE  ExactInv'
  <2> DEFINE b == build[r]
             c == Skipped(b)
             entries == snap[reader[r].spec]
             spec == Specs[reader[r].spec]
  <2>1. /\ IsBuild(b) /\ \A p \in ToSet(b.todo) : p.entry \in ToSet(entries)
        /\ Exact(entries, spec, b.doc.ops, DOMAIN b.refl.names \cup b.types)
        /\ b.todo # <<>>
    BY <1>0, <1>5 DEF Adds
  <2> HIDE DEF b, entries, spec
  <2>2. c.todo = Tail(b.todo) /\ c.doc = b.doc /\ c.refl = b.refl /\ c.types = b.types
    BY <2>1, SkippedBuild
  <2> HIDE DEF c
  <2>3. Exact(entries, spec, c.doc.ops, DOMAIN c.refl.names \cup c.types)
    BY <2>1, <2>2
  <2>4. \A p \in ToSet(c.todo) : p.entry \in ToSet(entries)
    BY <2>1, <2>2, RestOfTodo
  <2> QED
    BY <1>5, <2>3, <2>4, ExactAdds DEF b, c, entries, spec
<1>6. ASSUME NEW r \in Readers, NEW types \in SUBSET DOMAIN Types, NEW op,
             build[r].todo # <<>>,
             build[r].types = {}, Drawn(Head(build[r].todo), types, op),
             Adds(r, WithRoute(build[r], Route(r), types, op))
      PROVE  ExactInv'
  <2> DEFINE b == build[r]
             e == Head(b.todo).entry
             c == WithRoute(b, e, types, op)
             entries == snap[reader[r].spec]
             spec == Specs[reader[r].spec]
  <2>1. /\ IsBuild(b) /\ \A p \in ToSet(b.todo) : p.entry \in ToSet(entries)
        /\ Exact(entries, spec, b.doc.ops, DOMAIN b.refl.names \cup b.types)
        /\ b.todo # <<>> /\ b.types = {}
    BY <1>0, <1>6 DEF Adds
  <2>2. Drawn(Head(b.todo), types, op) /\ Route(r) = e /\ types \in SUBSET DOMAIN Types
    BY <1>6 DEF Route
  <2> HIDE DEF b, entries, spec
  <2>3. /\ c.todo = Tail(b.todo) /\ c.refl = b.refl /\ c.types = types
        /\ c.doc.ops = Put(b.doc.ops, At(e), op)
    <3> HIDE DEF e
    <3> QED
      BY <2>1, <2>2, WithRouteBuild
  <2> HIDE DEF c
  <2>4. /\ \A p \in ToSet(c.todo) : p.entry \in ToSet(entries)
        /\ e \in Entries /\ e \in ToSet(entries) /\ Head(b.todo) = PlanOf[e]
    BY <2>1, <2>3, RestOfTodo
  <2> HIDE DEF e
  <2>5. ASSUME NEW d \in Solo(entries, spec), At(d) = At(e)
        PROVE  /\ op = Final(d) /\ ~PlanOf[d].overflows
               /\ BodyTypes(Final(d)) \subseteq DOMAIN c.refl.names \cup c.types
    <3>1. d = e
      BY <2>4, <2>5, SoloOnly
    <3>2. ~e.hidden
      BY <2>5, <3>1 DEF Solo, Belongs
    <3>3. op = Final(e) /\ ~PlanOf[e].overflows /\ BodyTypes(Final(e)) \subseteq types
      BY <2>2, <2>4, <3>2, DrawnBody
    <3> QED
      BY <2>3, <3>1, <3>3
  <2>6. Exact(entries, spec, Put(b.doc.ops, At(e), op), DOMAIN c.refl.names \cup c.types)
    <3>1. DOMAIN b.refl.names \cup b.types \subseteq DOMAIN c.refl.names \cup c.types
      BY <2>1, <2>3
    <3> QED
      BY <2>1, <2>5, <3>1, ExactPut
  <2>7. Exact(entries, spec, c.doc.ops, DOMAIN c.refl.names \cup c.types)
    BY <2>3, <2>6
  <2> QED
    BY <1>6, <2>2, <2>4, <2>7, ExactAdds DEF b, c, entries, spec
<1>7. ASSUME NEW r \in Readers, NEW plan, Adds(r, Hooked(build[r], plan))
      PROVE  ExactInv'
  <2> DEFINE b == build[r]
             c == Hooked(b, plan)
             entries == snap[reader[r].spec]
             spec == Specs[reader[r].spec]
  <2>1. /\ IsBuild(b) /\ \A p \in ToSet(b.todo) : p.entry \in ToSet(entries)
        /\ Exact(entries, spec, b.doc.ops, DOMAIN b.refl.names \cup b.types)
    BY <1>0, <1>7 DEF Adds
  <2> HIDE DEF b, entries, spec
  <2>2. c.todo = b.todo /\ c.doc = b.doc /\ c.refl = b.refl /\ c.types = b.types
    BY <2>1, HookedBuild
  <2> HIDE DEF c
  <2>3. /\ Exact(entries, spec, c.doc.ops, DOMAIN c.refl.names \cup c.types)
        /\ \A p \in ToSet(c.todo) : p.entry \in ToSet(entries)
    BY <2>1, <2>2
  <2> QED
    BY <1>7, <2>3, ExactAdds DEF b, c, entries, spec
<1>8. ASSUME NEW r \in Readers, NEW plan \in build[r].hooks,
             NEW types \in SUBSET DOMAIN Types,
             build[r].types = {}, Adds(r, WithHook(build[r], plan, types))
      PROVE  ExactInv'
  <2> DEFINE b == build[r]
             c == WithHook(b, plan, types)
             entries == snap[reader[r].spec]
             spec == Specs[reader[r].spec]
  <2>1. /\ IsBuild(b) /\ \A p \in ToSet(b.todo) : p.entry \in ToSet(entries)
        /\ Exact(entries, spec, b.doc.ops, DOMAIN b.refl.names \cup b.types)
        /\ b.types = {} /\ entries \in Seq(Entries)
    BY <1>0, <1>8 DEF Adds
  <2>2. PICK h \in Hooks : plan = PlanOf[h]
    BY <1>8, <2>1 DEF IsBuild
  <2> HIDE DEF b, entries, spec
  <2>3. IsWebhook(At(plan.entry)[1])
    BY <2>2, PlanEntry, HookPath DEF At
  <2>4. /\ c.todo = b.todo /\ c.refl = b.refl /\ c.types = types
        /\ c.doc.ops = Put(b.doc.ops, At(plan.entry), plan.op)
    BY <2>1, WithHookBuild
  <2> HIDE DEF c
  <2>5. \A d \in Solo(entries, spec) : At(d) # At(plan.entry)
    <3> TAKE d \in Solo(entries, spec)
    <3>1. d \in Entries
      BY <2>1 DEF Solo, ToSet
    <3>2. ~IsWebhook(At(d)[1])
      BY <3>1, EntryPath DEF At
    <3> QED
      BY <2>3, <3>2
  <2>6. Exact(entries, spec, Put(b.doc.ops, At(plan.entry), plan.op),
              DOMAIN c.refl.names \cup c.types)
    <3>1. DOMAIN b.refl.names \cup b.types \subseteq DOMAIN c.refl.names \cup c.types
      BY <2>1, <2>4
    <3> QED
      BY <2>1, <2>5, <3>1, ExactPut
  <2>7. /\ Exact(entries, spec, c.doc.ops, DOMAIN c.refl.names \cup c.types)
        /\ \A p \in ToSet(c.todo) : p.entry \in ToSet(entries)
    BY <2>1, <2>4, <2>6
  <2> QED
    BY <1>8, <2>7, ExactAdds DEF b, c, entries, spec
<1>9. ASSUME NEW r \in Readers, NEW pc, NEW outcome, Leaves(r, pc, outcome)
      PROVE  ExactInv'
  BY <1>9, ExactLeaves
<1>10. ASSUME NEW r \in Readers, Reply(r) PROVE ExactInv'
  <2>1. UNCHANGED <<once, snap, result, build>>
    BY <1>10 DEF Reply
  <2>2. \A q \in Readers : InBuild(q)' => InBuild(q) /\ reader'[q].spec = reader[q].spec
    BY <1>10 DEF Reply, Base, Shapes, InBuild
  <2> QED
    BY <2>1, <2>2, ExactSame
<1> QED
  BY <1>1, <1>2, <1>3, <1>4, <1>5, <1>6, <1>7, <1>8, <1>9, <1>10 DEF Step

-------------------------------------------------------------------------------
(* The fields of a type: what the reflector walks and the binder reads *)

Fields == UNION {ToSet(Types[t].fields) : t \in DOMAIN Types}
FieldLists == [DOMAIN Types -> Seq(Fields)]
FieldSets == [DOMAIN Types -> SUBSET Fields]

LEMMA DepthType == Depth \in Nat
  BY TypesAssumption, FS_CardinalityType DEF Depth

LEMMA TypeFields ==
    ASSUME NEW t \in DOMAIN Types
    PROVE  /\ Types[t].fields \in Seq(Fields)
           /\ \A i \in DOMAIN Types[t].fields :
                Types[t].fields[i] \in Fields /\ Types[t].fields[i].type \in DOMAIN Types
           /\ ToSet(Types[t].fields) \subseteq Fields
<1> DEFINE fields == Types[t].fields
<1>1. IsSequence(fields) /\ \A f \in ToSet(fields) : f.type \in DOMAIN Types
  BY TypesAssumption
<1>2. ToSet(fields) \subseteq Fields
  BY DEF Fields
<1> HIDE DEF fields
<1>3. \A i \in DOMAIN fields : fields[i] \in ToSet(fields)
  BY DEF ToSet
<1>4. fields \in Seq(Fields)
  <2>1. DOMAIN fields = 1..Len(fields) /\ Len(fields) \in Nat
    BY <1>1 DEF IsSequence
  <2>2. fields \in Seq({fields[i] : i \in DOMAIN fields})
    BY <1>1 DEF IsSequence
  <2>3. {fields[i] : i \in DOMAIN fields} \subseteq Fields
    BY <1>2, <1>3
  <2>4. \A A : \A B : \A q \in Seq(A) : A \subseteq B => q \in Seq(B)
    OBVIOUS
  <2> QED
    BY <2>2, <2>3, <2>4
<1> QED
  BY <1>1, <1>2, <1>3, <1>4 DEF fields

\* What stands for a field when embedded structs are put in place.
Place(fields, f) ==
    IF ~(f.embedded /\ IsStruct(f.type)) THEN <<f>>
    ELSE IF f.refer THEN <<>> ELSE fields[f.type]

LEMMA InPlaceElements ==
    ASSUME NEW fields \in FieldLists, NEW t \in DOMAIN Types
    PROVE  /\ InPlace(fields, t) \in Seq(Fields)
           /\ ToSet(InPlace(fields, t))
                = UNION {ToSet(Place(fields, f)) : f \in ToSet(Types[t].fields)}
<1> DEFINE own == Types[t].fields
           parts == [i \in DOMAIN own |-> Place(fields, own[i])]
<1>1. InPlace(fields, t) = FlattenSeq(parts)
  BY DEF InPlace, Place
<1>2. /\ own \in Seq(Fields)
      /\ \A i \in DOMAIN own : own[i] \in Fields /\ own[i].type \in DOMAIN Types
  BY TypeFields
<1> HIDE DEF own
<1>3. \A i \in DOMAIN own : Place(fields, own[i]) \in Seq(Fields)
  <2> TAKE i \in DOMAIN own
  <2>1. <<own[i]>> \in Seq(Fields) /\ <<>> \in Seq(Fields)
    BY <1>2
  <2>2. fields[own[i].type] \in Seq(Fields)
    BY <1>2 DEF FieldLists
  <2> QED
    BY <2>1, <2>2 DEF Place
<1>4. parts \in Seq(Seq(Fields))
  <2>1. DOMAIN own = 1..Len(own) /\ Len(own) \in Nat
    BY <1>2
  <2> QED
    BY <1>3, <2>1
<1>5. DOMAIN parts = DOMAIN own /\ \A i \in DOMAIN own : parts[i] = Place(fields, own[i])
  OBVIOUS
<1> HIDE DEF parts
<1>6. /\ FlattenSeq(parts) \in Seq(Fields)
      /\ ToSet(FlattenSeq(parts)) = UNION {ToSet(parts[i]) : i \in DOMAIN parts}
  BY <1>4, FlattenElements
<1>7. ToSet(own) = {own[i] : i \in DOMAIN own}
  BY DEF ToSet
<1>8. ToSet(FlattenSeq(parts)) = UNION {ToSet(Place(fields, f)) : f \in ToSet(own)}
  <2>1. {ToSet(parts[i]) : i \in DOMAIN parts}
          = {ToSet(Place(fields, f)) : f \in ToSet(own)}
    BY <1>5, <1>7
  <2> QED
    BY <1>6, <2>1
<1> QED
  BY <1>1, <1>6, <1>8 DEF own

LEMMA FieldsToSteps ==
    /\ FieldsTo \in [0..Depth -> FieldLists]
    /\ \A n \in 0..Depth : \A t \in DOMAIN Types :
         FieldsTo[n][t] = IF n = 0 THEN <<>> ELSE InPlace(FieldsTo[n - 1], t)
<1> DEFINE base == [t \in DOMAIN Types |-> <<>>]
           step == [g \in FieldLists |-> [t \in DOMAIN Types |-> InPlace(g, t)]]
           body(f, n) == [t \in DOMAIN Types |-> IF n = 0 THEN <<>> ELSE InPlace(f[n - 1], t)]
           w == CHOOSE f : f = [n \in 0..Depth |-> body(f, n)]
<1>1. base \in FieldLists
  BY DEF FieldLists
<1>2. step \in [FieldLists -> FieldLists]
  BY InPlaceElements DEF FieldLists
<1>3. Depth \in Nat
  BY DepthType
<1> HIDE DEF base, step
<1>4. PICK f \in [0..Depth -> FieldLists] : Iterates(f, base, step, Depth)
  BY <1>1, <1>2, <1>3, Iteration
<1>5. ASSUME NEW n \in 0..Depth PROVE f[n] = body(f, n)
  <2>1. f[n] = IF n = 0 THEN base ELSE step[f[n - 1]]
    BY <1>4 DEF Iterates
  <2>2. n # 0 => n - 1 \in 0..Depth
    BY <1>3
  <2>3. n # 0 => f[n - 1] \in FieldLists
    BY <1>4, <2>2
  <2>4. CASE n = 0
    BY <2>1, <2>4 DEF base
  <2>5. CASE n # 0
    BY <2>1, <2>3, <2>5 DEF step
  <2> QED
    BY <2>4, <2>5
<1>6. f = [n \in 0..Depth |-> body(f, n)]
  <2> HIDE DEF body
  <2> QED
    BY <1>4, <1>5
<1>7. w = [n \in 0..Depth |-> body(w, n)]
  <2> HIDE DEF body
  <2> QED
    BY <1>6
<1>8. FieldsTo = w
  BY DEF FieldsTo
<1> HIDE DEF w
<1>9. DOMAIN w = 0..Depth /\ \A n \in 0..Depth : w[n] = body(w, n)
  <2> HIDE DEF body
  <2> DEFINE g == [n \in 0..Depth |-> body(w, n)]
  <2>1. DOMAIN g = 0..Depth /\ \A n \in 0..Depth : g[n] = body(w, n)
    OBVIOUS
  <2>2. w = g
    BY <1>7
  <2> HIDE DEF g
  <2> QED
    BY <2>1, <2>2
<1>10. \A n \in 0..Depth : \A t \in DOMAIN Types :
         w[n][t] = IF n = 0 THEN <<>> ELSE InPlace(w[n - 1], t)
  BY <1>9
<1>11. \A n \in 0..Depth : w[n] \in FieldLists
  <2> DEFINE Good == {n \in Nat : n \in 0..Depth => w[n] \in FieldLists}
  <2>1. 0 \in Good
    <3>1. 0 \in 0..Depth
      BY <1>3
    <3>2. w[0] = [t \in DOMAIN Types |-> <<>>]
      BY <1>9, <3>1
    <3>3. <<>> \in Seq(Fields)
      OBVIOUS
    <3> QED
      BY <3>2, <3>3 DEF FieldLists
  <2>2. ASSUME NEW n \in Nat, n \in Good PROVE n + 1 \in Good
    <3> SUFFICES ASSUME n + 1 \in 0..Depth PROVE w[n + 1] \in FieldLists
      OBVIOUS
    <3>1. n \in 0..Depth /\ n + 1 # 0 /\ (n + 1) - 1 = n
      BY <1>3
    <3>2. w[n] \in FieldLists
      BY <2>2, <3>1
    <3>3. w[n + 1] = [t \in DOMAIN Types |-> InPlace(w[n], t)]
      BY <1>9, <3>1
    <3>4. \A t \in DOMAIN Types : InPlace(w[n], t) \in Seq(Fields)
      BY <3>2, InPlaceElements
    <3> QED
      BY <3>3, <3>4 DEF FieldLists
  <2>3. \A n \in Nat : n \in Good
    <3> HIDE DEF Good
    <3> QED
      BY <2>1, <2>2, Induction
  <2> QED
    BY <1>3, <2>3
<1>12. w \in [0..Depth -> FieldLists]
  <2> DEFINE g == [n \in 0..Depth |-> body(w, n)]
  <2>1. w = g
    BY <1>7
  <2>2. g = [n \in 0..Depth |-> g[n]]
    OBVIOUS
  <2> HIDE DEF g
  <2> QED
    BY <1>11, <2>1, <2>2
<1> QED
  BY <1>8, <1>10, <1>12

LEMMA ReadInFields ==
    ASSUME NEW read \in FieldSets, NEW t \in DOMAIN Types
    PROVE  ReadIn(read, t) \in SUBSET Fields
<1> SUFFICES ASSUME NEW f \in ToSet(Types[t].fields)
             PROVE  (IF ~(f.embedded /\ IsStruct(f.type)) THEN {f}
                     ELSE IF f.refer THEN {} ELSE read[f.type]) \subseteq Fields
  BY DEF ReadIn
<1>1. f \in Fields /\ f.type \in DOMAIN Types
  BY TypeFields, TypesAssumption
<1>2. read[f.type] \in SUBSET Fields
  BY <1>1 DEF FieldSets
<1> QED
  BY <1>1, <1>2

LEMMA ReadToSteps ==
    \A n \in 0..Depth : \A t \in DOMAIN Types :
      ReadTo[n][t] = IF n = 0 THEN {} ELSE ReadIn(ReadTo[n - 1], t)
<1> DEFINE base == [t \in DOMAIN Types |-> {}]
           step == [g \in FieldSets |-> [t \in DOMAIN Types |-> ReadIn(g, t)]]
           body(f, n) == [t \in DOMAIN Types |-> IF n = 0 THEN {} ELSE ReadIn(f[n - 1], t)]
           w == CHOOSE f : f = [n \in 0..Depth |-> body(f, n)]
<1>1. base \in FieldSets
  BY DEF FieldSets
<1>2. step \in [FieldSets -> FieldSets]
  BY ReadInFields DEF FieldSets
<1>3. Depth \in Nat
  BY DepthType
<1> HIDE DEF base, step
<1>4. PICK f \in [0..Depth -> FieldSets] : Iterates(f, base, step, Depth)
  BY <1>1, <1>2, <1>3, Iteration
<1>5. ASSUME NEW n \in 0..Depth PROVE f[n] = body(f, n)
  <2>1. f[n] = IF n = 0 THEN base ELSE step[f[n - 1]]
    BY <1>4 DEF Iterates
  <2>2. n # 0 => n - 1 \in 0..Depth
    BY <1>3
  <2>3. n # 0 => f[n - 1] \in FieldSets
    BY <1>4, <2>2
  <2>4. CASE n = 0
    BY <2>1, <2>4 DEF base
  <2>5. CASE n # 0
    BY <2>1, <2>3, <2>5 DEF step
  <2> QED
    BY <2>4, <2>5
<1>6. f = [n \in 0..Depth |-> body(f, n)]
  <2> HIDE DEF body
  <2> QED
    BY <1>4, <1>5
<1>7. w = [n \in 0..Depth |-> body(w, n)]
  <2> HIDE DEF body
  <2> QED
    BY <1>6
<1>8. ReadTo = w
  BY DEF ReadTo
<1> HIDE DEF w
<1>9. \A n \in 0..Depth : w[n] = body(w, n)
  <2> HIDE DEF body
  <2> DEFINE g == [n \in 0..Depth |-> body(w, n)]
  <2>1. \A n \in 0..Depth : g[n] = body(w, n)
    OBVIOUS
  <2>2. w = g
    BY <1>7
  <2> HIDE DEF g
  <2> QED
    BY <2>1, <2>2
<1> QED
  BY <1>8, <1>9

\* The binder reads the fields that the reflector walks, none of a type that is
\* no struct.
LEMMA BoundWalked ==
    ASSUME NEW t \in DOMAIN Types
    PROVE  /\ Bound[t] = ToSet(ForEachField(t))
           /\ ~IsStruct(t) => Bound[t] = {}
           /\ ForEachField(t) \in Seq(Fields)
<1> DEFINE Walked(n) == \A u \in DOMAIN Types :
             /\ ReadTo[n][u] = ToSet(FieldsTo[n][u])
             /\ ~IsStruct(u) => ReadTo[n][u] = {}
           Good == {n \in Nat : n \in 0..Depth => Walked(n)}
<1>1. 0 \in Good
  <2> SUFFICES ASSUME 0 \in 0..Depth PROVE Walked(0)
    OBVIOUS
  <2>1. \A u \in DOMAIN Types : ReadTo[0][u] = {} /\ FieldsTo[0][u] = <<>>
    BY FieldsToSteps, ReadToSteps
  <2>2. ToSet(<<>>) = {}
    BY DEF ToSet
  <2> QED
    BY <2>1, <2>2
<1>2. ASSUME NEW n \in Nat, n \in Good PROVE n + 1 \in Good
  <2> SUFFICES ASSUME n + 1 \in 0..Depth PROVE Walked(n + 1)
    OBVIOUS
  <2>1. n \in 0..Depth /\ n + 1 # 0 /\ (n + 1) - 1 = n
    BY DepthType
  <2>2. Walked(n)
    BY <1>2, <2>1
  <2>3. FieldsTo[n] \in FieldLists
    BY <2>1, FieldsToSteps
  <2>4. ASSUME NEW u \in DOMAIN Types
        PROVE  /\ ReadTo[n + 1][u] = ReadIn(ReadTo[n], u)
               /\ FieldsTo[n + 1][u] = InPlace(FieldsTo[n], u)
    BY <2>1, FieldsToSteps, ReadToSteps
  <2>5. ASSUME NEW u \in DOMAIN Types
        PROVE  ReadIn(ReadTo[n], u) = ToSet(InPlace(FieldsTo[n], u))
    <3> DEFINE read(f) == IF ~(f.embedded /\ IsStruct(f.type)) THEN {f}
                          ELSE IF f.refer THEN {} ELSE ReadTo[n][f.type]
    <3>1. ASSUME NEW f \in ToSet(Types[u].fields)
          PROVE  read(f) = ToSet(Place(FieldsTo[n], f))
      <4>1. f.type \in DOMAIN Types
        BY TypesAssumption
      <4>2. ToSet(<<f>>) = {f} /\ ToSet(<<>>) = {}
        BY DEF ToSet
      <4> QED
        BY <2>2, <4>1, <4>2 DEF Place
    <3>2. ReadIn(ReadTo[n], u) = UNION {read(f) : f \in ToSet(Types[u].fields)}
      BY DEF ReadIn
    <3> HIDE DEF read
    <3>3. {read(f) : f \in ToSet(Types[u].fields)}
            = {ToSet(Place(FieldsTo[n], f)) : f \in ToSet(Types[u].fields)}
      BY <3>1
    <3> QED
      BY <2>3, <3>2, <3>3, InPlaceElements
  <2>6. ASSUME NEW u \in DOMAIN Types, ~IsStruct(u) PROVE ReadIn(ReadTo[n], u) = {}
    <3>1. ToSet(Types[u].fields) = {}
      BY <2>6, TypesAssumption DEF ToSet
    <3> QED
      BY <3>1 DEF ReadIn
  <2> QED
    BY <2>4, <2>5, <2>6
<1>3. \A n \in Nat : n \in Good
  <2> HIDE DEF Good
  <2> QED
    BY <1>1, <1>2, Induction
<1>4. Depth \in Nat /\ Depth \in 0..Depth
  BY DepthType
<1>5. Walked(Depth) /\ FieldsTo[Depth] \in FieldLists
  BY <1>3, <1>4, FieldsToSteps
<1> QED
  BY <1>5 DEF Bound, ForEachField, FieldLists

-------------------------------------------------------------------------------
(* What the operation of an entry is made of *)

\* The statuses of a route's declared errors, and the errors of one.
ErrorsAt(errors, status) == {x \in DOMAIN errors : errors[x] = status}

\* No response but the catalog's names an error.
Silent(responses) ==
    \A key \in DOMAIN responses :
      responses[key] = [errors |-> {}, content |-> responses[key].content]

LEMMA ResponsesSilent == ASSUME NEW units PROVE Silent(Responses(units))
  BY DEF Silent, Responses

LEMMA StreamsSilent ==
    ASSUME NEW op, "responses" \in DOMAIN op, Silent(op.responses), NEW streams
    PROVE  Silent(WithStreams(op, streams).responses)
<1> DEFINE ct(i) == IF streams[i].ct = "" THEN "event-stream" ELSE streams[i].ct
           at(key) == {i \in DOMAIN streams : streams[i].status = key}
           media(x) == [Media EXCEPT !.item = SchemasFor(x.item), !.example = x.example,
                                     !.examples = x.examples]
           had(key) == IF key \in DOMAIN op.responses THEN op.responses[key]
                       ELSE [errors |-> {}, content |-> <<>>]
           streamed(key) == [type \in {ct(i) : i \in at(key)} |->
                               media(streams[Max({i \in at(key) : ct(i) = type})])]
           new(key) == [had(key) EXCEPT !.content = Over(streamed(key), @)]
           keys == {streams[i].status : i \in DOMAIN streams}
<1>1. WithStreams(op, streams).responses
        = Over([key \in keys |-> new(key)], op.responses)
  BY DEF WithStreams
<1>2. \A key : had(key) = [errors |-> {}, content |-> had(key).content]
  BY DEF Silent
<1> HIDE DEF had, streamed
<1>3. ASSUME NEW key PROVE new(key) = [errors |-> {}, content |-> new(key).content]
  <2> DEFINE content == Over(streamed(key), had(key).content)
             was == had(key)
  <2>1. PICK c : was = [errors |-> {}, content |-> c]
    BY <1>2
  <2>2. new(key) = [was EXCEPT !.content = content]
    OBVIOUS
  <2> HIDE DEF content, was
  <2>3. new(key) = [errors |-> {}, content |-> content]
    BY <2>1, <2>2
  <2> QED
    BY <2>3
<1> HIDE DEF new, keys
<1>4. Silent(Over([key \in keys |-> new(key)], op.responses))
  BY <1>3 DEF Silent, Over
<1> QED
  BY <1>1, <1>4

\* Every declared error is told at its status, and nowhere else.
LEMMA ErrorsTold ==
    ASSUME NEW op, "responses" \in DOMAIN op, Silent(op.responses), NEW errors
    PROVE  LET responses == WithErrors(op, errors).responses
           IN /\ \A status \in DOMAIN responses :
                   responses[status].errors = ErrorsAt(errors, status)
              /\ {errors[x] : x \in DOMAIN errors} \subseteq DOMAIN responses
<1> DEFINE envelope == Put(<<>>, "json", [Media EXCEPT !.schema = <<Ref("ErrorEnvelope")>>])
           told(status) == [errors |-> ErrorsAt(errors, status), content |-> envelope]
           keys == {errors[x] : x \in DOMAIN errors} \cup {0}
           responses == Over([status \in keys |-> told(status)], op.responses)
<1>1. WithErrors(op, errors).responses = responses
  BY DEF WithErrors, ErrorsAt
<1>2. \A status : told(status).errors = ErrorsAt(errors, status)
  OBVIOUS
<1> HIDE DEF told
<1>3. ASSUME NEW status \in DOMAIN responses
      PROVE  responses[status].errors = ErrorsAt(errors, status)
  <2>1. CASE status \in keys
    <3>1. responses[status] = told(status)
      BY <2>1 DEF Over
    <3> QED
      BY <1>2, <3>1
  <2>2. CASE status \notin keys
    <3>1. status \in DOMAIN op.responses /\ responses[status] = op.responses[status]
      BY <2>2 DEF Over
    <3>2. responses[status].errors = {}
      BY <3>1 DEF Silent
    <3>3. ErrorsAt(errors, status) = {}
      BY <2>2 DEF ErrorsAt
    <3> QED
      BY <3>2, <3>3
  <2> QED
    BY <2>1, <2>2
<1>4. keys \subseteq DOMAIN responses
  BY DEF Over
<1> QED
  BY <1>1, <1>3, <1>4

IsOperation(op) ==
    op = [id |-> op.id, docs |-> op.docs, security |-> op.security, params |-> op.params,
          body |-> op.body, responses |-> op.responses]

LEMMA BodyExcept ==
    ASSUME NEW op, IsOperation(op), NEW body
    PROVE  LET new == [op EXCEPT !.body = body]
           IN /\ IsOperation(new) /\ new.security = op.security /\ new.params = op.params
              /\ new.responses = op.responses /\ new.body = body
  BY DEF IsOperation

LEMMA ResponsesExcept ==
    ASSUME NEW op, IsOperation(op), NEW responses
    PROVE  LET new == [op EXCEPT !.responses = responses]
           IN /\ IsOperation(new) /\ new.security = op.security /\ new.params = op.params
              /\ new.responses = responses /\ new.body = op.body
  BY DEF IsOperation

\* Without explicit requests the body stays what it is.
SameBody(new, old) ==
    DOMAIN new = DOMAIN old /\ \A ct \in DOMAIN old : new[ct] = old[ct]
Requested(op, requests, body) ==
    /\ WithRequests(op, requests) = [op EXCEPT !.body = body]
    /\ requests = <<>> => SameBody(body, op.body)

LEMMA RequestsBody == ASSUME NEW op, NEW requests PROVE \E body : Requested(op, requests, body)
<1> DEFINE ct(i) == IF requests[i].ct = "" THEN "json" ELSE requests[i].ct
           last(type) == requests[Max({i \in DOMAIN requests : ct(i) = type})]
           media(cu) == [Media EXCEPT !.schema = SchemasFor(cu.structure),
                                      !.encoding = cu.encoding, !.example = cu.example,
                                      !.examples = cu.examples]
           types == {ct(i) : i \in DOMAIN requests}
           body == Over([type \in types |-> media(last(type))], op.body)
<1>1. WithRequests(op, requests) = [op EXCEPT !.body = body]
  BY DEF WithRequests
<1> HIDE DEF media, last
<1>2. requests = <<>> => types = {}
  OBVIOUS
<1> HIDE DEF types
<1>3. requests = <<>> => SameBody(body, op.body)
  BY <1>2 DEF Over, SameBody
<1>4. Requested(op, requests, body)
  BY <1>1, <1>3 DEF Requested
<1> QED
  BY <1>4

\* What an entry's operation is before anything is added to it.
Own(e) == Operation(e, RequestPartsOf(e))

LEMMA FinalFields ==
    ASSUME NEW e \in Entries
    PROVE  /\ Final(e).security = Own(e).security
           /\ Final(e).params = Own(e).params
           /\ e.requests = <<>> => SameBody(Final(e).body, Own(e).body)
           /\ \A status \in DOMAIN Final(e).responses :
                Final(e).responses[status].errors = ErrorsAt(e.errors, status)
           /\ {e.errors[x] : x \in DOMAIN e.errors} \subseteq DOMAIN Final(e).responses
<1> DEFINE op == Own(e)
           asked == WithRequests(op, e.requests)
           streamed == WithStreams(asked, Streams(e.extra))
<1>1. Final(e) = WithErrors(streamed, e.errors)
  BY DEF Final, Extended, PlanOf, Own
<1>2. IsOperation(op) /\ Silent(op.responses)
  BY ResponsesSilent DEF Own, Operation, IsOperation
<1> HIDE DEF op
<1>3. /\ IsOperation(asked) /\ asked.security = op.security /\ asked.params = op.params
      /\ asked.responses = op.responses
      /\ e.requests = <<>> => SameBody(asked.body, op.body)
  <2>1. PICK body : Requested(op, e.requests, body)
    BY RequestsBody
  <2>2. asked = [op EXCEPT !.body = body] /\ (e.requests = <<>> => SameBody(body, op.body))
    BY <2>1 DEF Requested
  <2> HIDE DEF asked
  <2> QED
    BY <1>2, <2>2, BodyExcept
<1> HIDE DEF asked
<1>4. /\ IsOperation(streamed) /\ streamed.security = asked.security
      /\ streamed.params = asked.params /\ streamed.body = asked.body
  <2>1. PICK responses : streamed = [asked EXCEPT !.responses = responses]
    BY DEF WithStreams
  <2> QED
    BY <1>3, <2>1, ResponsesExcept
<1>5. Silent(streamed.responses)
  BY <1>2, <1>3, StreamsSilent DEF IsOperation
<1> HIDE DEF streamed
<1>6. LET last == WithErrors(streamed, e.errors)
      IN last.security = streamed.security /\ last.params = streamed.params
         /\ last.body = streamed.body
  <2>1. PICK responses :
          WithErrors(streamed, e.errors) = [streamed EXCEPT !.responses = responses]
    BY DEF WithErrors
  <2> QED
    BY <1>4, <2>1, ResponsesExcept
<1>7. LET responses == WithErrors(streamed, e.errors).responses
      IN /\ \A status \in DOMAIN responses :
              responses[status].errors = ErrorsAt(e.errors, status)
         /\ {e.errors[x] : x \in DOMAIN e.errors} \subseteq DOMAIN responses
  BY <1>4, <1>5, ErrorsTold DEF IsOperation
<1> QED
  BY <1>1, <1>3, <1>4, <1>6, <1>7 DEF op

-------------------------------------------------------------------------------
(* Routes are documented as they are enforced *)

\* The policies that the groups of a router add up to are policies of theirs.
LEMMA GroupedSecurity ==
    ASSUME NEW r, NEW P, r.security \in Seq(P), NEW groups, IsSequence(groups),
           \A i \in DOMAIN groups : groups[i].security \in P
    PROVE  Grouped(r, groups).security \in Seq(P)
<1> DEFINE n == Len(groups)
<1>1. n \in Nat /\ DOMAIN groups = 1..n
  BY DEF IsSequence
<1>2. PICK w : /\ Grouped(r, groups) = w[n]
               /\ \A k \in 0..n : w[k] = IF k = 0 THEN r ELSE Group(w[k - 1], groups[k])
  BY GroupedSteps
<1> HIDE DEF n
<1> DEFINE Good == {k \in Nat : k \in 0..n => w[k].security \in Seq(P)}
<1>3. 0 \in Good
  <2>1. 0 \in 0..n
    BY <1>1
  <2> QED
    BY <1>2, <2>1
<1>4. ASSUME NEW k \in Nat, k \in Good PROVE k + 1 \in Good
  <2> SUFFICES ASSUME k + 1 \in 0..n PROVE w[k + 1].security \in Seq(P)
    OBVIOUS
  <2>1. k \in 0..n /\ k + 1 \in 1..n /\ (k + 1) - 1 = k /\ k + 1 # 0
    BY <1>1
  <2>2. w[k + 1] = Group(w[k], groups[k + 1])
    BY <1>2, <2>1
  <2>3. w[k + 1].security = IF groups[k + 1].security.explicit
                            THEN Append(w[k].security, groups[k + 1].security)
                            ELSE w[k].security
    BY <2>2 DEF Group
  <2>4. w[k].security \in Seq(P) /\ groups[k + 1].security \in P
    BY <1>1, <1>4, <2>1
  <2> QED
    BY <2>3, <2>4
<1>5. \A k \in Nat : k \in Good
  <2> HIDE DEF Good
  <2> QED
    BY <1>3, <1>4, Induction
<1>6. n \in 0..n
  BY <1>1
<1> QED
  BY <1>1, <1>2, <1>5, <1>6

\* What resolves a policy is one of those it is resolved from, or none.
LEMMA ResolvedFrom ==
    ASSUME NEW P, NEW own \in P, NEW groups \in Seq(P), NEW default \in P
    PROVE  ResolveSecurity(own, groups, default) \in P \cup {InheritSecurity}
<1> DEFINE chain == <<own>> \o Reverse(groups) \o <<default>>
           said == {i \in DOMAIN chain : chain[i].explicit}
<1>1. chain \in Seq(P)
  <2>1. Reverse(groups) \in Seq(P)
    <3>1. \A j \in 1..Len(groups) : (Len(groups) - j) + 1 \in 1..Len(groups)
      OBVIOUS
    <3>2. \A j \in 1..Len(groups) : groups[(Len(groups) - j) + 1] \in P
      BY <3>1
    <3> QED
      BY <3>2 DEF Reverse
  <2>2. <<own>> \in Seq(P) /\ <<default>> \in Seq(P)
    OBVIOUS
  <2> QED
    BY <2>1, <2>2
<1>2. ResolveSecurity(own, groups, default)
        = IF said = {} THEN InheritSecurity ELSE chain[Min(said)]
  BY DEF ResolveSecurity
<1> HIDE DEF chain
<1>3. said # {} => Min(said) \in said
  <2>1. said \subseteq Nat
    BY <1>1
  <2> HIDE DEF said
  <2> QED
    BY <2>1, MinOf
<1>4. said # {} => chain[Min(said)] \in P
  BY <1>1, <1>3
<1> QED
  BY <1>2, <1>4

\* A route that is public asks for nothing.
LEMMA PublicAsksNothing == ASSUME NEW e \in Entries, e.public PROVE e.security = <<>>
<1>1. PICK d \in Declarations : e = EntryOf[d]
  BY DEF Entries
<1> DEFINE router == Grouped(NewRouter(<<>>), d.groups)
           P == {p \in {d.groups[i].security : i \in DOMAIN d.groups}
                         \cup {d.security, DefaultSecurity} : IsPolicy(p)}
           policy == ResolveSecurity(d.security, router.security, DefaultSecurity)
<1>2. e.public = policy.public /\ e.security = policy.reqs
  BY <1>1 DEF EntryOf, Compile
<1>3. /\ \A i \in DOMAIN d.groups : d.groups[i].security \in P
      /\ d.security \in P /\ DefaultSecurity \in P
  BY PolicyAssumption
<1>4. \A p \in P : IsPolicy(p)
  OBVIOUS
<1> HIDE DEF P
<1>5. router.security \in Seq(P)
  <2>1. NewRouter(<<>>).security \in Seq(P)
    BY DEF NewRouter
  <2>2. IsSequence(d.groups)
    BY PathAssumption
  <2> QED
    BY <1>3, <2>1, <2>2, GroupedSecurity
<1> HIDE DEF router
<1>6. policy \in P \cup {InheritSecurity}
  BY <1>3, <1>5, ResolvedFrom
<1>7. IsPolicy(InheritSecurity)
  BY DEF IsPolicy, InheritSecurity
<1> HIDE DEF policy
<1>8. IsPolicy(policy)
  BY <1>4, <1>6, <1>7
<1> QED
  BY <1>2, <1>8 DEF IsPolicy

\* A parameter the binder reads is among those of the request.
LEMMA ParameterWalked ==
    ASSUME NEW t \in DOMAIN Types, NEW f \in Bound[t], f.in \in ParameterTags
    PROVE  /\ Parameters(t) \in Seq({Parameter(x) : x \in Fields})
           /\ \E k \in DOMAIN Parameters(t) : Parameters(t)[k] = Parameter(f)
<1> DEFINE fields == ForEachField(t)
           P == {Parameter(x) : x \in Fields}
           part(x) == IF x.in \in ParameterTags THEN <<Parameter(x)>> ELSE <<>>
           parts == [i \in DOMAIN fields |-> part(fields[i])]
<1>1. IsStruct(t) /\ f \in ToSet(fields) /\ fields \in Seq(Fields)
  BY BoundWalked
<1>2. Parameters(t) = FlattenSeq(parts)
  BY <1>1 DEF Parameters
<1> HIDE DEF fields
<1>3. \A x \in Fields : Parameter(x) \in P
  OBVIOUS
<1> HIDE DEF P
<1>4. DOMAIN fields = 1..Len(fields) /\ Len(fields) \in Nat
      /\ \A i \in DOMAIN fields : fields[i] \in Fields
  BY <1>1
<1>5. \A i \in DOMAIN fields : part(fields[i]) \in Seq(P)
  BY <1>3, <1>4
<1>6. DOMAIN parts = DOMAIN fields /\ \A i \in DOMAIN fields : parts[i] = part(fields[i])
  OBVIOUS
<1>7. parts \in Seq(Seq(P))
  <2> HIDE DEF part
  <2> QED
    BY <1>4, <1>5
<1> HIDE DEF parts
<1>8. /\ FlattenSeq(parts) \in Seq(P)
      /\ ToSet(FlattenSeq(parts)) = UNION {ToSet(parts[i]) : i \in DOMAIN parts}
  BY <1>7, FlattenElements
<1>9. PICK i \in DOMAIN fields : fields[i] = f
  BY <1>1 DEF ToSet
<1>10. Parameter(f) \in ToSet(parts[i])
  <2>1. parts[i] = <<Parameter(f)>>
    BY <1>6, <1>9
  <2> QED
    BY <2>1 DEF ToSet
<1>11. Parameter(f) \in ToSet(FlattenSeq(parts))
  BY <1>6, <1>8, <1>9, <1>10
<1> QED
  BY <1>2, <1>8, <1>11 DEF ToSet, P

\* The parameters of the path are added after those of the request.
LEMMA PathParametersAfter ==
    ASSUME NEW P, NEW params \in Seq(P), NEW path, IsSequence(path),
           NEW k \in DOMAIN params
    PROVE  /\ k \in DOMAIN WithPathParameters(params, path)
           /\ WithPathParameters(params, path)[k] = params[k]
<1> DEFINE has(name) == \E j \in DOMAIN params : params[j].in = "path" /\ params[j].name = name
           at == {i \in DOMAIN path : path[i][1] \in {"par", "opt"}}
           first(i) == \A j \in at : path[j][2][1] = path[i][2][1] => i <= j
           new(i) == [in |-> "path", name |-> path[i][2][1], required |-> TRUE,
                      schema |-> Open]
           part(i) == IF i \in at /\ first(i) /\ ~has(path[i][2][1]) THEN <<new(i)>> ELSE <<>>
           parts == [i \in DOMAIN path |-> part(i)]
           Q == P \cup {new(i) : i \in DOMAIN path}
<1>1. WithPathParameters(params, path) = params \o FlattenSeq(parts)
  BY DEF WithPathParameters
<1>2. \A i \in DOMAIN path : new(i) \in Q
  OBVIOUS
<1>3. params \in Seq(Q)
  <2>1. P \subseteq Q
    OBVIOUS
  <2> HIDE DEF Q
  <2>2. \A A : \A B : \A q \in Seq(A) : A \subseteq B => q \in Seq(B)
    OBVIOUS
  <2> QED
    BY <2>1, <2>2
<1> HIDE DEF Q, new, first, has, at
<1>4. DOMAIN path = 1..Len(path) /\ Len(path) \in Nat
  BY DEF IsSequence
<1>5. \A i \in DOMAIN path : part(i) \in Seq(Q)
  BY <1>2
<1> HIDE DEF part
<1>6. parts \in Seq(Seq(Q))
  BY <1>4, <1>5
<1> HIDE DEF parts
<1>7. FlattenSeq(parts) \in Seq(Q)
  BY <1>6, FlattenElements
<1> DEFINE rest == FlattenSeq(parts)
<1> HIDE DEF rest
<1>8. rest \in Seq(Q)
  BY <1>7 DEF rest
<1>9. k \in DOMAIN (params \o rest) /\ (params \o rest)[k] = params[k]
  BY <1>3, <1>8
<1> QED
  BY <1>1, <1>9 DEF rest

\* A schema that tells of a field, and one that tells of it itself or leaves it to
\* the component of its type, where fields have the names of their json tags.
Lists(schema, f) ==
    /\ f.name \in schema.props
    /\ f.required => f.name \in schema.required
Holds(schema, t, f) ==
    IF schema.isRef THEN t \in schema.types /\ f.in = "json" ELSE Lists(schema, f)

LEMMA AroundShape ==
    ASSUME NEW fields, NEW tag, NEW schemas
    PROVE  \E nodes, types, refs :
             Around(fields, tag, schemas)
               = [isRef |-> FALSE, props |-> NamesOf(fields, tag),
                  required |-> NamesOf({f \in fields : f.required}, tag),
                  nodes |-> nodes, types |-> types, refs |-> refs]
<1> DEFINE props == NamesOf(fields, tag)
           required == NamesOf({f \in fields : f.required}, tag)
<1>1. PICK nodes, types, refs :
        Around(fields, tag, schemas)
          = [Open EXCEPT !.props = props, !.required = required, !.nodes = nodes,
                         !.types = types, !.refs = refs]
  BY DEF Around
<1> HIDE DEF props, required
<1>2. Around(fields, tag, schemas)
        = [isRef |-> FALSE, props |-> props, required |-> required, nodes |-> nodes,
           types |-> types, refs |-> refs]
  BY <1>1 DEF Open
<1>3. \E ns, ts, rs :
        Around(fields, tag, schemas)
          = [isRef |-> FALSE, props |-> props, required |-> required, nodes |-> ns,
             types |-> ts, refs |-> rs]
  BY <1>2
<1> QED
  BY <1>3 DEF props, required

LEMMA AroundFields ==
    ASSUME NEW fields, NEW tag, NEW schemas
    PROVE  LET schema == Around(fields, tag, schemas)
           IN /\ ~schema.isRef
              /\ schema.props = NamesOf(fields, tag)
              /\ schema.required = NamesOf({f \in fields : f.required}, tag)
<1> DEFINE props == NamesOf(fields, tag)
           required == NamesOf({f \in fields : f.required}, tag)
           schema == Around(fields, tag, schemas)
<1>1. PICK nodes, types, refs :
        schema = [isRef |-> FALSE, props |-> props, required |-> required,
                  nodes |-> nodes, types |-> types, refs |-> refs]
  BY AroundShape
<1> HIDE DEF props, required, schema
<1>2. ~schema.isRef /\ schema.props = props /\ schema.required = required
  BY <1>1
<1> QED
  BY <1>2 DEF props, required, schema

\* A struct that is written out shows the fields that are carried.
LEMMA StructFields ==
    ASSUME NEW t, NEW tag, NEW onlyTagged, NEW inline
    PROVE  LET schema == StructSchema(t, tag, onlyTagged, inline)
               fields == Carried(t, tag, onlyTagged)
           IN /\ ~schema.isRef
              /\ schema.props = NamesOf(fields, tag)
              /\ schema.required = NamesOf({f \in fields : f.required}, tag)
<1> DEFINE fields == Carried(t, tag, onlyTagged)
           around == Around(fields, tag, {SchemaWith(Written, f.wrap, f.type, inline) :
                                            f \in fields})
           xml == UNION {f.xml : f \in fields}
           with == FieldsWith(Written, fields, tag, inline)
           schema == StructSchema(t, tag, onlyTagged, inline)
           props == NamesOf(fields, tag)
           required == NamesOf({f \in fields : f.required}, tag)
<1>1. PICK nodes, types, refs :
        around = [isRef |-> FALSE, props |-> props, required |-> required,
                  nodes |-> nodes, types |-> types, refs |-> refs]
  BY AroundShape
<1>2. with = [around EXCEPT !.nodes = @ \cup xml]
  BY DEF FieldsWith
<1>3. schema = [with EXCEPT !.types = @ \cup EmbeddedRefs(t)]
  BY DEF StructSchema, StructWith
<1> HIDE DEF fields, around, xml, with, schema, props, required
<1>4. with = [isRef |-> FALSE, props |-> props, required |-> required,
              nodes |-> nodes \cup xml, types |-> types, refs |-> refs]
  BY <1>1, <1>2
<1>5. schema = [isRef |-> FALSE, props |-> props, required |-> required,
                nodes |-> nodes \cup xml, types |-> types \cup EmbeddedRefs(t),
                refs |-> refs]
  BY <1>3, <1>4
<1>6. ~schema.isRef /\ schema.props = props /\ schema.required = required
  BY <1>5
<1> QED
  BY <1>6 DEF fields, schema, props, required

\* Those that are shown under the name they are read by are told of.
LEMMA ListedByName ==
    ASSUME NEW fields, NEW tag, NEW f \in fields, BodyName(f, tag) = f.name,
           NEW schema, schema.props = NamesOf(fields, tag),
           schema.required = NamesOf({g \in fields : g.required}, tag)
    PROVE  Lists(schema, f)
<1>1. f.name \in NamesOf(fields, tag)
  BY DEF NamesOf
<1>2. f.required => f.name \in NamesOf({g \in fields : g.required}, tag)
  BY DEF NamesOf
<1> QED
  BY <1>1, <1>2 DEF Lists

\* The content type inferred for a request is one its binder takes, and its fields
\* are named by the tag the binder reads.
LEMMA ContentInferred ==
    ASSUME NEW t \in DOMAIN Types, NEW f \in ReadFromBody[t]
    PROVE  /\ f \in Bound[t] /\ f.in \in {"json", "form"}
           /\ ContentType("", <<t>>) \in ContentTaken[t]
           /\ BodyNameTag(ContentType("", <<t>>)) = f.in
<1> DEFINE forms == {g \in Bound[t] : g.in = "form"}
           file == \E g \in forms : Types[g.type].kind = "file"
           ct == ContentType("", <<t>>)
<1>1. /\ f \in Bound[t]
      /\ f.in = IF ContentTaken[t] = {"json"} THEN "json" ELSE "form"
  BY DEF ReadFromBody
<1>2. ContentTaken[t] = IF forms = {} THEN {"json"}
                        ELSE IF file THEN {"multipart"} ELSE {"multipart", "urlencoded"}
  BY DEF ContentTaken
<1>3. IsStruct(t) /\ Bound[t] = ToSet(ForEachField(t))
  BY <1>1, BoundWalked
<1>4. InferContentType(t) = IF file THEN "multipart"
                            ELSE IF forms # {} THEN "urlencoded" ELSE ""
  BY <1>3 DEF InferContentType
<1>5. ct = IF InferContentType(t) # "" THEN InferContentType(t) ELSE "json"
  BY DEF ContentType
<1>6. forms = {} => ~file
  OBVIOUS
<1> HIDE DEF forms, file, ct
<1>7. CASE forms = {}
  <2>1. ct = "json" /\ ContentTaken[t] = {"json"} /\ f.in = "json"
    BY <1>1, <1>2, <1>4, <1>5, <1>6, <1>7
  <2> QED
    BY <1>1, <2>1 DEF BodyNameTag, ct
<1>8. CASE forms # {} /\ file
  <2>1. ct = "multipart" /\ ContentTaken[t] = {"multipart"}
    BY <1>2, <1>4, <1>5, <1>8
  <2>2. f.in = "form"
    BY <1>1, <2>1
  <2> QED
    BY <1>1, <2>1, <2>2 DEF BodyNameTag, ct
<1>9. CASE forms # {} /\ ~file
  <2>1. ct = "urlencoded" /\ ContentTaken[t] = {"multipart", "urlencoded"}
    BY <1>2, <1>4, <1>5, <1>9
  <2>2. f.in = "form"
    BY <1>1, <2>1
  <2> QED
    BY <1>1, <2>1, <2>2 DEF BodyNameTag, ct
<1> QED
  BY <1>7, <1>8, <1>9

\* A field the binder reads from the body stands in the body of the request; one
\* it reads from a form does when the request has parameters.
LEMMA FieldInBody ==
    ASSUME NEW t \in DOMAIN Types, NEW f \in ReadFromBody[t],
           f.in = "form" => \E g \in Bound[t] : g.in \in ParameterTags
    PROVE  /\ IsStruct(t)
           /\ \E schema : /\ RequestParts(t, ContentType("", <<t>>)).body = <<schema>>
                          /\ Holds(schema, t, f)
<1> DEFINE contentType == ContentType("", <<t>>)
           tag == BodyNameTag(contentType)
<1>1. /\ f \in Bound[t] /\ f.in \in {"json", "form"} /\ tag = f.in
  BY ContentInferred
<1> HIDE DEF contentType, tag
<1>2. IsStruct(t) /\ f \in ToSet(ForEachField(t))
  BY <1>1, BoundWalked
<1>3. Tagged(f, tag) /\ BodyName(f, tag) = f.name
  BY <1>1 DEF Tagged, BodyName
<1>4. CASE Parameters(t) = <<>>
  <2> DEFINE schema == SchemaForType(<<>>, t, FALSE)
             fields == Carried(t, "json", FALSE)
  <2>1. RequestParts(t, contentType).body = <<schema>>
    BY <1>4 DEF RequestParts
  <2>2. schema = SchemaWith(Written, <<>>, t, FALSE)
    BY DEF SchemaForType
  <2>3. Types[t].kind = "struct" /\ Types[t].kind # "given"
    BY <1>2 DEF IsStruct
  <2>4. ToSet(<<>>) \subseteq {"ptr"}
    BY DEF ToSet
  <2>5. f.in = "json"
    <3>1. ASSUME NEW g \in Bound[t], g.in \in ParameterTags PROVE FALSE
      <4>1. \E k \in DOMAIN Parameters(t) : Parameters(t)[k] = Parameter(g)
        BY <3>1, ParameterWalked
      <4>2. DOMAIN <<>> = {}
        OBVIOUS
      <4> QED
        BY <1>4, <4>1, <4>2
    <3> QED
      BY <1>1, <3>1
  <2>6. CASE IsNamed(t)
    <3>1. schema = [Open EXCEPT !.isRef = TRUE, !.types = {t}]
      BY <1>2, <2>2, <2>3, <2>6 DEF SchemaWith
    <3>2. schema.isRef /\ t \in schema.types
      BY <3>1 DEF Open
    <3> QED
      BY <1>2, <2>1, <2>5, <3>2 DEF Holds, contentType
  <2>7. CASE ~IsNamed(t)
    <3> DEFINE s == Written[t, FALSE]
    <3>1. schema = Around(fields, "json", {s})
      BY <1>2, <2>2, <2>3, <2>4, <2>7 DEF SchemaWith
    <3>2. f \in fields /\ BodyName(f, "json") = f.name
      BY <1>2, <2>5 DEF Carried, BodyName
    <3> HIDE DEF s, fields, schema
    <3>3. /\ ~schema.isRef /\ schema.props = NamesOf(fields, "json")
          /\ schema.required = NamesOf({g \in fields : g.required}, "json")
      <4>1. /\ ~Around(fields, "json", {s}).isRef
            /\ Around(fields, "json", {s}).props = NamesOf(fields, "json")
            /\ Around(fields, "json", {s}).required
                 = NamesOf({g \in fields : g.required}, "json")
        BY AroundFields
      <4> QED
        BY <3>1, <4>1
    <3>4. Lists(schema, f)
      BY <3>2, <3>3, ListedByName
    <3> QED
      BY <1>2, <2>1, <3>3, <3>4 DEF Holds, contentType
  <2> QED
    BY <2>6, <2>7
<1>5. CASE Parameters(t) # <<>>
  <2> DEFINE schema == StructSchema(t, tag, TRUE, TRUE)
             fields == Carried(t, tag, TRUE)
  <2>1. HasBody(t, tag)
    BY <1>2, <1>3 DEF HasBody
  <2>2. RequestParts(t, contentType).body = <<schema>>
    BY <1>5, <2>1 DEF RequestParts, tag
  <2>3. /\ ~schema.isRef /\ schema.props = NamesOf(fields, tag)
        /\ schema.required = NamesOf({g \in fields : g.required}, tag)
    BY StructFields
  <2>4. f \in fields
    BY <1>2, <1>3 DEF Carried
  <2> HIDE DEF fields, schema
  <2>5. Lists(schema, f)
    BY <1>3, <2>3, <2>4, ListedByName
  <2> QED
    BY <1>2, <2>2, <2>3, <2>5 DEF Holds, contentType
<1> QED
  BY <1>4, <1>5

LEMMA SecurityTold ==
    ASSUME NEW e \in Entries, NEW op, op.security = Own(e).security, NEW doc,
           e.security # <<>>
    PROVE  Effective(op, doc) = e.security
<1>1. ~e.public
  BY PublicAsksNothing
<1>2. Own(e).security = e.security
  BY <1>1 DEF Own, Operation
<1> QED
  BY <1>2 DEF Effective

LEMMA ParameterTold ==
    ASSUME NEW e \in Entries, NEW t \in Finite, e.request = <<t>>,
           NEW f \in Bound[t], f.in \in ParameterTags
    PROVE  \E k \in DOMAIN Own(e).params : Own(e).params[k] = Parameter(f)
<1> DEFINE P == {Parameter(x) : x \in Fields}
<1>1. t \in DOMAIN Types
  BY DEF Finite
<1>2. RequestPartsOf(e).params = Parameters(t)
  <2>1. e.request # <<>> /\ e.request[1] = t
    OBVIOUS
  <2> QED
    BY <1>1, <2>1 DEF RequestPartsOf, RequestOf, RequestParts
<1>3. Own(e).params = WithPathParameters(Parameters(t), e.path)
  BY <1>2 DEF Own, Operation
<1>4. /\ Parameters(t) \in Seq(P)
      /\ \E k \in DOMAIN Parameters(t) : Parameters(t)[k] = Parameter(f)
  BY <1>1, ParameterWalked
<1>5. PICK k \in DOMAIN Parameters(t) : Parameters(t)[k] = Parameter(f)
  BY <1>4
<1>6. IsSequence(e.path)
  BY EntryPath DEF IsPath
<1>7. /\ k \in DOMAIN WithPathParameters(Parameters(t), e.path)
      /\ WithPathParameters(Parameters(t), e.path)[k] = Parameters(t)[k]
  <2> DEFINE params == Parameters(t)
  <2>1. params \in Seq(P) /\ k \in DOMAIN params
    BY <1>4
  <2> HIDE DEF params, P
  <2>2. /\ k \in DOMAIN WithPathParameters(params, e.path)
        /\ WithPathParameters(params, e.path)[k] = params[k]
    BY <1>6, <2>1, PathParametersAfter
  <2> QED
    BY <2>2 DEF params
<1> QED
  BY <1>3, <1>5, <1>7

LEMMA BodyTold ==
    ASSUME NEW e \in Entries, NEW t \in Finite, e.request = <<t>>, e.requests = <<>>,
           NEW f \in ReadFromBody[t],
           f.in = "form" => \E g \in Bound[t] : g.in \in ParameterTags,
           NEW doc, BodyTypes(Final(e)) \subseteq DOMAIN doc.names,
           t \in DOMAIN doc.names => Described(doc, t)
    PROVE  Tells(Final(e), doc, ContentTaken[t], f)
<1> DEFINE body == Own(e).body
           ct == ContentType("", e.request)
           op == Final(e)
<1>1. t \in DOMAIN Types
  BY DEF Finite
<1>2. /\ IsStruct(t)
      /\ \E schema : /\ RequestParts(t, ContentType("", <<t>>)).body = <<schema>>
                     /\ Holds(schema, t, f)
  BY <1>1, FieldInBody
<1>3. PICK schema : /\ RequestParts(t, ContentType("", <<t>>)).body = <<schema>>
                    /\ Holds(schema, t, f)
  BY <1>2
<1>4. RequestPartsOf(e).body = <<schema>>
  <2>1. e.request # <<>> /\ e.request[1] = t
    OBVIOUS
  <2>2. RequestPartsOf(e) = RequestParts(t, ContentType("", <<t>>))
    BY <1>1, <2>1 DEF RequestPartsOf, RequestOf
  <2> QED
    BY <1>3, <2>2
<1>5. body = Put(<<>>, ct, [Media EXCEPT !.schema = <<schema>>])
  BY <1>4 DEF Own, Operation
<1>6. ct \in ContentTaken[t]
  BY <1>1, ContentInferred
<1> HIDE DEF body, ct, op
<1>7. ct \in DOMAIN body /\ body[ct].schema = <<schema>>
  BY <1>5 DEF Put, Media
<1>8. SameBody(op.body, body)
  BY FinalFields DEF op, body
<1>9. ct \in DOMAIN op.body /\ op.body[ct].schema = <<schema>>
  BY <1>7, <1>8 DEF SameBody
<1>10. op.body[ct].schema # <<>> /\ op.body[ct].schema[1] = schema
      /\ schema \in ToSet(op.body[ct].schema)
  BY <1>9 DEF ToSet
<1>11. \A shown : shown \in BodySchemas(op.body[ct], doc) /\ Lists(shown, f)
                     => Tells(op, doc, ContentTaken[t], f)
  BY <1>9, <1>6 DEF Tells, Lists
<1>12. (IF schema.isRef THEN {doc.schemas[name] : name \in RefsOf(schema, doc)}
        ELSE {schema}) \subseteq BodySchemas(op.body[ct], doc)
  BY <1>10 DEF BodySchemas
<1>13. CASE ~schema.isRef
  <2>1. schema \in BodySchemas(op.body[ct], doc)
    BY <1>13, <1>12
  <2>2. Lists(schema, f)
    BY <1>3, <1>13 DEF Holds
  <2> QED
    BY <1>11, <2>1, <2>2 DEF op
<1>14. CASE schema.isRef
  <2>1. t \in schema.types /\ f.in = "json"
    BY <1>3, <1>14 DEF Holds
  <2>2. schema \in SchemasOf(op.body)
    BY <1>9, <1>10 DEF SchemasOf
  <2>3. t \in BodyTypes(op)
    BY <1>1, <2>1, <2>2 DEF BodyTypes, TypesOf
  <2>4. t \in DOMAIN doc.names /\ doc.schemas[doc.names[t]] = ComponentOf[t]
    BY <2>3 DEF Described, op
  <2>5. ComponentOf[t] = StructSchema(t, "json", FALSE, TRUE)
    BY <1>2 DEF ComponentOf, ComponentSchema
  <2> DEFINE fields == Carried(t, "json", FALSE)
  <2>6. /\ ComponentOf[t].props = NamesOf(fields, "json")
        /\ ComponentOf[t].required = NamesOf({g \in fields : g.required}, "json")
    BY <2>5, StructFields
  <2>7. f \in fields /\ BodyName(f, "json") = f.name
    <3>1. f \in ToSet(ForEachField(t))
      BY <1>1, BoundWalked, ContentInferred
    <3> QED
      BY <2>1, <3>1 DEF Carried, BodyName
  <2> HIDE DEF fields
  <2>8. Lists(ComponentOf[t], f)
    BY <2>6, <2>7, ListedByName
  <2>9. ComponentOf[t] \in BodySchemas(op.body[ct], doc)
    BY <1>14, <1>12, <2>1, <2>4 DEF RefsOf
  <2> QED
    BY <1>11, <2>8, <2>9 DEF op
<1> QED
  BY <1>13, <1>14

\* A route with a handler has the type it binds for an input.
LEMMA EntryInput ==
    ASSUME NEW e \in Entries, e.enforced
    PROVE  \E t \in DOMAIN Types : e.input = <<t>>
<1>1. PICK d \in Declarations : e = EntryOf[d]
  BY DEF Entries
<1>2. d.handler # <<>> /\ e.input = <<d.handler[1].in>>
  BY <1>1 DEF EntryOf, Compile
<1> QED
  BY <1>2, TypesAssumption

\* The request of a route that does not exhaust the stack is reflected to its end.
LEMMA RequestFinite ==
    ASSUME NEW e \in Entries, ~e.hidden, NEW t, e.request = <<t>>, ~PlanOf[e].overflows
    PROVE  t \in Finite
<1>1. RouteTypes(e) \subseteq Finite
  BY DEF PlanOf
<1>2. t \in ToSet(e.request)
  BY DEF ToSet
<1> QED
  BY <1>1, <1>2 DEF RouteTypes

LEMMA Documented ==
    ASSUME Base, ShowsItsRoutes, RefsMeanTheirTypes, ExactInv
    PROVE  DocumentedAsEnforced
<1> SUFFICES ASSUME NEW s \in Documents, NEW i \in DOMAIN snap[s],
                    Belongs(snap[s][i], Specs[s]), snap[s][i].enforced,
                    Alone(snap[s][i], s), snap[s][i].request = snap[s][i].input
             PROVE  LET e   == snap[s][i]
                        doc == result[s].doc
                        op  == doc.ops[At(e)]
                    IN /\ e.security # <<>> => ToSet(Effective(op, doc)) = ToSet(e.security)
                       /\ \A t \in ToSet(e.input) :
                            /\ \A f \in Bound[t] :
                                 f.in \in {"path", "query", "header", "cookie"} =>
                                   \E k \in DOMAIN op.params :
                                     /\ op.params[k].in = f.in /\ op.params[k].name = f.name
                                     /\ op.params[k].required = (f.in = "path" \/ f.required)
                            /\ \A f \in ReadFromBody[t] :
                                 /\ e.requests = <<>>
                                 /\ t \in DOMAIN doc.names => ToldApart(doc.names, t)
                                 /\ f.in = "form" =>
                                      \E g \in Bound[t] : g.in \in ParameterTags
                                 => Tells(op, doc, ContentTaken[t], f)
                       /\ \A status \in DOMAIN op.responses :
                            op.responses[status].errors =
                              {x \in DOMAIN e.errors : e.errors[x] = status}
                       /\ {e.errors[x] : x \in DOMAIN e.errors} \subseteq DOMAIN op.responses
  BY DEF DocumentedAsEnforced
<1> DEFINE e   == snap[s][i]
           doc == result[s].doc
           op  == doc.ops[At(e)]
<1>1. s \in DOMAIN Specs /\ snap[s] \in Seq(Entries)
  BY DEF Documents, Base, Shapes
<1>2. e \in Entries /\ e \in ToSet(snap[s])
  BY <1>1 DEF ToSet
<1>3. e \in Solo(snap[s], Specs[s])
  BY <1>2 DEF Solo, Alone
<1>4. At(e) \in DOMAIN doc.ops
  BY DEF ShowsItsRoutes
<1>5. op = Final(e) /\ ~PlanOf[e].overflows /\ BodyTypes(Final(e)) \subseteq DOMAIN doc.names
  BY <1>3, <1>4 DEF ExactInv, Exact
<1>6. e.enforced /\ e.request = e.input /\ ~e.hidden
  BY DEF Belongs
<1>7. \A t \in DOMAIN doc.names : ToldApart(doc.names, t) => Described(doc, t)
  BY DEF RefsMeanTheirTypes, Served
<1> HIDE DEF e, doc, op
<1>8. PICK t \in DOMAIN Types : e.input = <<t>>
  BY <1>2, <1>6, EntryInput
<1>9. t \in Finite /\ ToSet(e.input) = {t}
  BY <1>2, <1>5, <1>6, <1>8, RequestFinite DEF ToSet
<1>10. /\ op.security = Own(e).security /\ op.params = Own(e).params
       /\ \A status \in DOMAIN op.responses :
            op.responses[status].errors = {x \in DOMAIN e.errors : e.errors[x] = status}
       /\ {e.errors[x] : x \in DOMAIN e.errors} \subseteq DOMAIN op.responses
  BY <1>2, <1>5, FinalFields DEF ErrorsAt
<1>11. e.security # <<>> => ToSet(Effective(op, doc)) = ToSet(e.security)
  BY <1>2, <1>10, SecurityTold
<1>12. ASSUME NEW f \in Bound[t], f.in \in {"path", "query", "header", "cookie"}
       PROVE  \E k \in DOMAIN op.params :
                /\ op.params[k].in = f.in /\ op.params[k].name = f.name
                /\ op.params[k].required = (f.in = "path" \/ f.required)
  <2>1. f.in \in ParameterTags
    BY <1>12 DEF ParameterTags
  <2>2. PICK k \in DOMAIN op.params : op.params[k] = Parameter(f)
    BY <1>2, <1>6, <1>8, <1>9, <1>10, <2>1, ParameterTold
  <2>3. /\ Parameter(f).in = f.in /\ Parameter(f).name = f.name
        /\ Parameter(f).required = (f.in = "path" \/ f.required)
    BY DEF Parameter
  <2> QED
    BY <2>2, <2>3
<1>13. ASSUME NEW f \in ReadFromBody[t], e.requests = <<>>,
              t \in DOMAIN doc.names => ToldApart(doc.names, t),
              f.in = "form" => \E g \in Bound[t] : g.in \in ParameterTags
       PROVE  Tells(op, doc, ContentTaken[t], f)
  <2>1. t \in DOMAIN doc.names => Described(doc, t)
    BY <1>7, <1>13
  <2>2. Tells(Final(e), doc, ContentTaken[t], f)
    BY <1>2, <1>5, <1>6, <1>8, <1>9, <1>13, <2>1, BodyTold
  <2> QED
    BY <1>5, <2>2
<1> QED
  BY <1>9, <1>10, <1>11, <1>12, <1>13 DEF e, doc, op

\* operationConfig, RequestParts, StructSchema, injectCatalogErrors: a served
\* document tells of every route that stands alone what its guard accepts, where
\* and under which names its binder reads parameters and body fields and which of
\* them are required, and at which status each declared error comes.
THEOREM RoutesDocumented == Spec => []DocumentedAsEnforced
<1>1. Init => ExactInv
  BY ExactInit
<1>2. Base /\ ExactInv /\ [Next]_vars => ExactInv'
  BY Steps, ExactNext DEF Base
<1>3. Base /\ ShowsItsRoutes /\ RefsMeanTheirTypes /\ ExactInv => DocumentedAsEnforced
  BY Documented
<1> QED
  BY <1>1, <1>2, <1>3, BaseInvariant, RoutesShown, TypesDescribed, PTL DEF Spec
=============================================================================
