------------------------------ MODULE Reflector ------------------------------
(***************************************************************************)
(* pkg/http/openapi/internal/reflect: Go types turned into the schemas and *)
(* parameters of a document.  A type is a record                           *)
(*   kind    "struct", "leaf" (a scalar, a time, a text marshaler), "file" *)
(*           (an uploaded file), "given" (it exposes its schema; under     *)
(*           Extra and Requests also a *spec.Schema), or "broken" (its     *)
(*           exposer panics)                                               *)
(*   base    the component name its Go name makes, <<stem, digits>>: the   *)
(*           decimal digits it ends in and what stands before them, the    *)
(*           stem "" when the type has no name                             *)
(*   fields  the struct's fields, records [in, name, go, wrap, type,       *)
(*           embedded, refer, required, xml]: the tag it is read by and    *)
(*           the name there (in "none": no tag), the name its Go name      *)
(*           makes, the pointers, slices and maps around its type, outside *)
(*           first, whether it is embedded without a json name, and by     *)
(*           $ref, its required and xml tags                               *)
(*   schema  what a given value brings                                     *)
(* A schema is the record of what validation looks at: whether it is a     *)
(* lone $ref, its properties and those required, the checked keywords of   *)
(* its nodes, the types it refers to, and the components it names.         *)
(* The reflector's options (mappings, hooks, renamed tags, InlineRefs)     *)
(* keep their defaults.                                                    *)
(***************************************************************************)
EXTENDS Integers, SequencesExt, FiniteSetsExt

CONSTANT Types

\* A map with a key set, and one map written over another.
Put(map, key, value) ==
  [k \in DOMAIN map \cup {key} |-> IF k = key THEN value ELSE map[k]]
Over(map, base) ==
  [k \in DOMAIN map \cup DOMAIN base |-> IF k \in DOMAIN map THEN map[k] ELSE base[k]]

Open == [isRef |-> FALSE, props |-> {}, required |-> {}, nodes |-> {}, types |-> {},
         refs |-> {}]
IsStruct(t) == Types[t].kind = "struct"
IsNamed(t) == Types[t].base[1] # ""
ParameterTags == {"path", "query", "header", "cookie", "querystring"}

\* ForEachField: the fields of embedded structs in place, but not of those that
\* are embedded by $ref.  Structs are embedded in one another no deeper than there
\* are types; one that embeds itself is Endless.
Depth == Cardinality(DOMAIN Types)
InPlace(fields, t) ==
  FlattenSeq([i \in DOMAIN Types[t].fields |->
    LET f == Types[t].fields[i]
    IN IF ~(f.embedded /\ IsStruct(f.type)) THEN <<f>>
       ELSE IF f.refer THEN <<>> ELSE fields[f.type]])
FieldsTo[n \in 0..Depth] ==
  [t \in DOMAIN Types |-> IF n = 0 THEN <<>> ELSE InPlace(FieldsTo[n - 1], t)]
ForEachField(t) == FieldsTo[Depth][t]

EmbeddedRefs(t) ==
  {f.type : f \in {g \in ToSet(Types[t].fields) : g.embedded /\ g.refer}}

\* The name of a body field: its tag's, else the json one, else its Go name's.
BodyName(f, tag) == IF f.in \in {tag, "json"} THEN f.name ELSE f.go
Tagged(f, tag) == f.in \in {tag, "json"}

(***************************************************************************)
(* SchemaForType, ApplyNullable and StructSchema.  A named struct is a     *)
(* $ref to its component when it is met in component mode, which elements  *)
(* of slices and maps always are; otherwise its fields are written out     *)
(* where it stands.  A pointer to a component is an anyOf with null.       *)
(* written is how each struct is written out.                              *)
(***************************************************************************)
Carried(t, tag, onlyTagged) ==
  {f \in ToSet(ForEachField(t)) : onlyTagged => Tagged(f, tag)}
NamesOf(fields, tag) == {BodyName(f, tag) : f \in fields}
\* These fields as properties, and all that their schemas come to.
Around(fields, tag, schemas) ==
  [Open EXCEPT !.props = NamesOf(fields, tag),
               !.required = NamesOf({f \in fields : f.required}, tag),
               !.nodes = UNION {s.nodes : s \in schemas},
               !.types = UNION {s.types : s \in schemas},
               !.refs  = UNION {s.refs : s \in schemas}]
SchemaWith(written, wrap, t, inline) ==
  LET pointers == ToSet(wrap) \subseteq {"ptr"}
      ref == ~(inline /\ pointers) /\ IsNamed(t)
  IN CASE Types[t].kind = "given" -> Types[t].schema
       [] IsStruct(t) /\ ref ->
            [Open EXCEPT !.isRef = wrap = <<>>, !.types = {t}]
       [] IsStruct(t) /\ ~ref ->
            Around(IF pointers THEN Carried(t, "json", FALSE) ELSE {}, "json",
                   {written[t, inline /\ pointers]})
       [] OTHER -> Open
FieldsWith(written, fields, tag, inline) ==
  [Around(fields, tag, {SchemaWith(written, f.wrap, f.type, inline) : f \in fields})
     EXCEPT !.nodes = @ \cup UNION {f.xml : f \in fields}]
StructWith(written, t, tag, onlyTagged, inline) ==
  [FieldsWith(written, Carried(t, tag, onlyTagged), tag, inline)
     EXCEPT !.types = @ \cup EmbeddedRefs(t)]

Written[t \in DOMAIN Types, inline \in BOOLEAN] ==
  StructWith(Written, t, "json", FALSE, inline)
SchemaForType(wrap, t, inline) == SchemaWith(Written, wrap, t, inline)
StructSchema(t, tag, onlyTagged, inline) ==
  StructWith(Written, t, tag, onlyTagged, inline)

\* What RefSchema builds for a component: always with the names of the json tags.
ComponentSchema(t) == StructSchema(t, "json", FALSE, TRUE)

\* The types a set of them leads to.
Reached(next, ts) ==
  LET after[n \in 0..Depth] ==
        IF n = 0 THEN ts
        ELSE LET met == after[n - 1] IN met \cup UNION {next[t] : t \in met}
  IN after[Depth]

\* The structs written out inside a struct: RefSchema only stops at a component,
\* so one that comes back to itself this way is written out for ever.
Unfolded ==
  [t \in DOMAIN Types |->
    {f.type : f \in {g \in ToSet(Types[t].fields) :
                       /\ IsStruct(g.type) /\ ToSet(g.wrap) \subseteq {"ptr"}
                       /\ ~(g.embedded /\ g.refer)}}]
Endless(t) == t \in Reached(Unfolded, Unfolded[t])

\* Every type that is met where those of a set are reflected.
Met(ts) ==
  Reached([t \in DOMAIN Types |-> {f.type : f \in ToSet(Types[t].fields)}], ts)

(***************************************************************************)
(* Requests.                                                               *)
(***************************************************************************)
\* InferContentType: forms are told by the form tag, uploads by a file field.
InferContentType(t) ==
  LET forms == IF IsStruct(t) THEN {f \in ToSet(ForEachField(t)) : f.in = "form"} ELSE {}
  IN IF \E f \in forms : Types[f.type].kind = "file" THEN "multipart"
     ELSE IF forms # {} THEN "urlencoded" ELSE ""
ContentType(contentType, t) ==
  IF contentType # "" THEN contentType
  ELSE IF t # <<>> /\ InferContentType(t[1]) # "" THEN InferContentType(t[1])
  ELSE "json"
\* Faulty: the fields of a form take the names of a JSON body.
FaultBodyNameTag(contentType) == "json"
BodyNameTag(contentType) ==
  IF contentType \in {"multipart", "urlencoded"} THEN "form" ELSE "json"

Parameter(f) ==
  [in |-> f.in, name |-> f.name, required |-> f.in = "path" \/ f.required,
   schema |-> SchemaForType(f.wrap, f.type, TRUE)]

\* RequestParts: a struct with parameters gives them, and a body of its tagged
\* fields; any other type is the body as a whole.
Parameters(t) ==
  LET fields == IF IsStruct(t) THEN ForEachField(t) ELSE <<>>
  IN FlattenSeq([i \in DOMAIN fields |->
       IF fields[i].in \in ParameterTags THEN <<Parameter(fields[i])>> ELSE <<>>])
HasBody(t, tag) == \E f \in ToSet(ForEachField(t)) : Tagged(f, tag)
RequestParts(t, contentType) ==
  [params |-> Parameters(t),
   body   |-> IF Parameters(t) = <<>> THEN <<SchemaForType(<<>>, t, FALSE)>>
              ELSE IF HasBody(t, BodyNameTag(contentType))
              THEN <<StructSchema(t, BodyNameTag(contentType), TRUE, TRUE)>>
              ELSE <<>>]

\* What reflecting each type comes to; one whose reflection does not end comes
\* to nothing that is looked at.
Finite == {t \in DOMAIN Types : \A u \in Met({t}) : ~Endless(u)}
SchemaOf ==
  [t \in DOMAIN Types |-> IF t \in Finite THEN SchemaForType(<<>>, t, FALSE) ELSE Open]
ComponentOf == [t \in {u \in Finite : IsStruct(u)} |-> ComponentSchema(t)]
RequestOf ==
  [t \in DOMAIN Types |->
    IF t \in Finite THEN RequestParts(t, ContentType("", <<t>>))
    ELSE [params |-> <<>>, body |-> <<>>]]

(***************************************************************************)
(* Components.  The reflector of one document has given names to types and *)
(* built components under names: [names, comps], comps the type whose      *)
(* schema a name holds.                                                    *)
(***************************************************************************)
NewReflector == [names |-> <<>>, comps |-> <<>>]

Decimal(n) ==
  IF n < 10 THEN <<n>>
  ELSE LET width == Min({w \in 1..n : n < 10 ^ w})
       IN [i \in 1..width |-> (n \div 10 ^ (width - i)) % 10]
\* A number is written behind a name, and reads like the digits it ends in: the
\* second User and a type called User2 both make User2.
Numbered(name, n) == IF n = 1 THEN name ELSE <<name[1], name[2] \o Decimal(n)>>

\* Faulty: a name in use is used again.
FaultTypeNames(names, t) == {Types[t].base}
\* TypeName takes the base name, or walks once over the names in use, in the
\* random order of a map, and moves to the next number whenever it meets the name
\* it is about to take: every number up to the first free one may come out.
TypeNames(names, t) ==
  LET base == Types[t].base
      used == {names[u] : u \in DOMAIN names}
      free == Min({n \in 1..(Cardinality(used) + 1) : Numbered(base, n) \notin used})
  IN IF t \in DOMAIN names THEN {names[t]}
     ELSE IF free = 1 THEN {base} ELSE {Numbered(base, n) : n \in 2..free}

\* The structs that schemas refer to.
TypesOf(schemas) == {t \in UNION {s.types : s \in schemas} : t \in DOMAIN Types}

\* RefSchema, on a type that got this name: a name that holds a component is
\* referred to as it is, otherwise its own component is built, which leads on to
\* the types returned.
RefSchema(r, t, name) ==
  LET named == [r EXCEPT !.names = Put(@, t, name)]
  IN IF name \in DOMAIN r.comps THEN [refl |-> named, more |-> {}]
     ELSE [refl |-> [named EXCEPT !.comps = Put(@, name, t)],
           more |-> TypesOf({ComponentOf[t]})]

\* The components a schema refers to.
RefsOf(schema, r) == {r.names[t] : t \in schema.types} \cup schema.refs
=============================================================================
