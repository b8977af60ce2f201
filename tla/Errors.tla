------------------------------- MODULE Errors -------------------------------
(***************************************************************************)
(* pkg/errors: canonical errors as values.  An error is the chain that     *)
(* Unwrap walks, outermost first, each link a record whose k says what it  *)
(* is:                                                                     *)
(*   "entry"   an *errors.Error, e the catalog entry it was cloned from    *)
(*   "foreign" an error of another package that wraps the rest with %w     *)
(*   "plain"   an error of another package that wraps nothing              *)
(*   "fiber"   a *fiber.Error, code its status                             *)
(*   "many"    an errors.Errors collection, parts its members              *)
(*   "join"    what the standard library's Join returns, parts its parts   *)
(* A collection ends its chain, since it has no single Unwrap, and its     *)
(* members are chains without a collection of their own.  Nil is no error. *)
(***************************************************************************)
EXTENDS Naturals, Sequences, FiniteSets, FiniteSetsExt

CONSTANTS Entry,     \* the entries of every catalog of the program
          Anonymous  \* stands for the entry of an *Error no catalog defined
ASSUME AnonymousAssumption == Anonymous \notin Entry

Nil == <<>>
Link(kind) == [k |-> kind, e |-> Anonymous, code |-> 0, parts |-> <<>>]
Canonical(e)  == <<[Link("entry") EXCEPT !.e = e]>>
Foreign(err)  == <<Link("foreign")>> \o err
Plain         == <<Link("plain")>>
Fiber(code)   == <<[Link("fiber") EXCEPT !.code = code]>>
Many(members) == <<[Link("many") EXCEPT !.parts = members]>>
Join(parts)   == <<[Link("join") EXCEPT !.parts = parts]>>

Ends(err, kind) == err # Nil /\ err[Len(err)].k = kind
Parts(err, kind) == IF Ends(err, kind) THEN err[Len(err)].parts ELSE <<>>

\* The errors there are: a collection only ends a chain, and has none inside.
Collections == {"many", "join"}
IsSequence(s) == s \in Seq({s[i] : i \in DOMAIN s})
IsChain(err) ==
  IsSequence(err) /\ \A i \in DOMAIN err : err[i].k \notin Collections
IsError(err) ==
  /\ IsSequence(err)
  /\ \A i \in DOMAIN err : err[i].k \in Collections =>
       /\ i = Len(err) /\ IsSequence(err[i].parts)
       /\ \A j \in DOMAIN err[i].parts : IsChain(err[i].parts[j])

\* The entries on the links of one chain, its collection's members aside.
Spine(err) == {err[i].e : i \in {j \in DOMAIN err : err[j].k = "entry"}}
PartSpines(err, kind) ==
  UNION {Spine(Parts(err, kind)[i]) : i \in DOMAIN Parts(err, kind)}

\* errors.Is against a template: identity of the entry, never of its text, at
\* any depth of the chain and of the members of a collection.
Is(err, template) ==
  /\ template # Anonymous
  /\ template \in Spine(err) \cup PartSpines(err, "many")
                  \cup PartSpines(err, "join")

\* The suffix whose head is the first *Error that errors.As meets: on the chain
\* itself, else in the parts of a Join; never inside an Errors collection.
FirstEntry(err) ==
  LET At(chain) == {i \in DOMAIN chain : chain[i].k = "entry"}
      Suffix(chain) == SubSeq(chain, Min(At(chain)), Len(chain))
      parts == Parts(err, "join")
      hits == {j \in DOMAIN parts : At(parts[j]) # {}}
  IN IF At(err) # {} THEN Suffix(err)
     ELSE IF hits # {} THEN Suffix(parts[Min(hits)]) ELSE Nil

\* AsErrors: a collection that is the error itself, else the one entry As finds.
AsErrors(err) ==
  IF err # Nil /\ err[1].k = "many" /\ err[1].parts # <<>> THEN err[1].parts
  ELSE IF FirstEntry(err) = Nil THEN <<>> ELSE <<FirstEntry(err)>>

IsStructured(err) == AsErrors(err) # <<>>

\* Wrap clones the entry, so a cause the entry already had is dropped.
Wrap(cause, err) ==
  IF cause = Nil THEN err
  ELSE IF err = Nil THEN cause ELSE <<err[1]>> \o cause

\* The first Pair whose source matches err, as a set of at most one target.
Mapped(err, pairs) ==
  LET hits == {i \in DOMAIN pairs : Is(err, pairs[i][1])}
  IN IF hits = {} THEN {} ELSE {pairs[Min(hits)][2]}

Map(err, pairs) ==
  IF err = Nil THEN Nil
  ELSE IF Mapped(err, pairs) # {}
       THEN Wrap(err, Canonical(CHOOSE e \in Mapped(err, pairs) : TRUE))
  ELSE IF IsStructured(err) THEN err ELSE Nil

Or(err, fallback) ==
  IF err = Nil \/ IsStructured(err) THEN err
  ELSE Wrap(err, Canonical(fallback))

MapOr(err, fallback, pairs) ==
  IF err = Nil THEN Nil
  ELSE LET to == Mapped(err, pairs)
       IN Wrap(err, Canonical(IF to = {} THEN fallback
                              ELSE CHOOSE e \in to : TRUE))

\* Contains: the entry an error was cloned from is one of the catalog's.
\* Define refuses a code twice, so a catalog is the set of its entries.
Defines(catalog, err) == err # Nil /\ err[1].k = "entry" /\ err[1].e \in catalog
=============================================================================
