------------------------------- MODULE Binder -------------------------------
(***************************************************************************)
(* pkg/http/openapi/internal/binder: a request bound into the fields of a  *)
(* handler's input struct.  A struct is the sequence of its fields in the  *)
(* order the binder visits them, those of embedded structs in place; a     *)
(* field is a record                                                       *)
(*   in        the tag it is read by: path, query, header, cookie, form or *)
(*             json                                                        *)
(*   name      its name under that tag                                     *)
(*   kind      string, int, float, bool, file, files, or other             *)
(*   bits      the width of an int                                         *)
(*   required, default, minimum, minLength: its tags, an absent tag <<>>   *)
(*   embedded  it belongs to an embedded struct                            *)
(* A value is a number: an int's or float's, a string's length, a bool's 0 *)
(* or 1, how many files.  A request gives every field a record [s, n]: s   *)
(* is "absent", "bad" (it does not parse) or "sent".                       *)
(***************************************************************************)
EXTENDS Errors, Integers, SequencesExt

CONSTANT Source   \* the Source of each entry: <<in, name>>, or <<>> when it has none

InParams == {"path", "query", "header", "cookie"}
HasForm(fields) == \E i \in DOMAIN fields : fields[i].in = "form"
HasJSON(fields) == \E i \in DOMAIN fields : fields[i].in = "json"
AllJSON(fields) ==
  HasJSON(fields) /\ \A i \in DOMAIN fields : fields[i].in \notin InParams

FaultMatchTemplate(templates, source) ==   \* the last resort is missing
  LET fit == {i \in DOMAIN templates : Source[templates[i]] \in {source, <<>>}}
  IN IF fit # {} THEN templates[Min(fit)] ELSE Anonymous
\* The template a failure is a clone of: the one with its Source, else the first
\* without a Source, else the first; with none, an *Error outside every catalog.
MatchTemplate(templates, source) ==
  LET exact == {i \in DOMAIN templates : Source[templates[i]] = source}
      open  == {i \in DOMAIN templates : Source[templates[i]] = <<>>}
  IN IF exact # {} THEN templates[Min(exact)]
     ELSE IF open # {} THEN templates[Min(open)]
     ELSE IF templates # <<>> THEN templates[1] ELSE Anonymous

ValidationErr(templates, source) == <<Canonical(MatchTemplate(templates, source))>>

\* SetInt on a narrow kind keeps the low bits, with their sign.
Truncate(n, bits) == ((n + 2 ^ (bits - 1)) % 2 ^ bits) - 2 ^ (bits - 1)
Stored(f, n) == IF f.kind = "int" THEN Truncate(n, f.bits) ELSE n

\* What setFromString parses: the raw text, or the default when it is empty.
Raw(f, raw) ==
  IF raw.s = "absent" /\ f.default # <<>> THEN [s |-> "sent", n |-> f.default[1]]
  ELSE raw
\* setScalar refuses what does not parse and every kind it has no case for.
Parses(f, raw) == raw.s = "sent" /\ f.kind # "other"

\* validateField: a required body field may not hold its zero value, an int is
\* at least its minimum (other numbers are not compared), a string its minLength.
Violates(f, value) ==
  \/ f.in = "json" /\ f.required /\ value = 0
  \/ f.kind = "int" /\ f.minimum # <<>> /\ value < f.minimum[1]
  \/ f.kind = "string" /\ f.minLength # <<>> /\ value < f.minLength[1]

\* bindField on one field: the failures it reports.
FieldFails(f, sent) ==
  LET raw == Raw(f, sent)
  IN IF raw.s = "absent" THEN f.required
     ELSE ~Parses(f, raw) \/ Violates(f, Stored(f, raw.n))

\* bindFormFile: a single file that is missing is FormFile's error whatever the
\* required tag says; a slice of files may stay empty.
FileFails(f, sent) ==
  \/ sent.s = "bad"
  \/ sent.s = "absent" /\ (f.kind = "file" \/ f.required)

IsFile(f) == f.in = "form" /\ f.kind \in {"file", "files"}

\* bindStruct: every field is tried, and all their failures are returned.
BindStruct(fields, sent, templates) ==
  FlattenSeq([i \in DOMAIN fields |->
    LET f == fields[i] IN
    IF f.in # "json" /\ (IF IsFile(f) THEN FileFails(f, sent[i])
                         ELSE FieldFails(f, sent[i]))
    THEN ValidationErr(templates, <<f.in, f.name>>) ELSE <<>>])

StructValues(fields, sent) ==
  [i \in DOMAIN fields |->
    LET raw == Raw(fields[i], sent[i])
    IN IF fields[i].in # "json" /\ raw.s = "sent" THEN Stored(fields[i], raw.n)
       ELSE 0]

\* encoding/json refuses a number that does not fit the field.
Fits(f, raw) ==
  raw.s = "absent" \/ (raw.s = "sent" /\ Stored(f, raw.n) = raw.n)

\* bindBodyFields: a struct with body fields only is decoded at once; in a mixed
\* one the named fields of the struct itself are decoded one by one, and the
\* first that fails ends it.  An embedded struct's fields are never visited.
BodyTargets(fields) ==
  {i \in DOMAIN fields :
     fields[i].in = "json" /\ (AllJSON(fields) \/ ~fields[i].embedded)}
BindBody(fields, sent, body, templates) ==
  LET misfit == {i \in BodyTargets(fields) : ~Fits(fields[i], sent[i])}
  IN IF body = "empty" THEN <<>>
     ELSE IF body = "bad" \/ (AllJSON(fields) /\ misfit # {})
          THEN ValidationErr(templates, <<"body">>)
     ELSE IF misfit # {}
          THEN ValidationErr(templates, <<"body", fields[Min(misfit)].name>>)
     ELSE <<>>
BodyValues(fields, sent, body) ==
  [i \in DOMAIN fields |->
    IF body = "object" /\ i \in BodyTargets(fields) /\ sent[i].s = "sent"
    THEN sent[i].n ELSE 0]

\* validateStruct: the rules once more, over every field that is now set.
ValidateStruct(fields, values, templates) ==
  FlattenSeq([i \in DOMAIN fields |->
    IF Violates(fields[i], values[i])
    THEN ValidationErr(templates, <<fields[i].in, fields[i].name>>) ELSE <<>>])

\* BindRequest: parameters first, then the body unless the method has none or a
\* form field claims it (a struct without body fields still parses a body that
\* came), then the rules.  The result is the failures, or the values bound.
ReadsBody(fields, bodied, body) ==
  bodied /\ ~HasForm(fields) /\ (HasJSON(fields) \/ body # "empty")
Bind(fields, templates, bodied, req) ==
  LET params == BindStruct(fields, req.sent, templates)
      reads  == ReadsBody(fields, bodied, req.body)
      body   == IF reads THEN BindBody(fields, req.sent, req.body, templates)
                ELSE <<>>
      values == [i \in DOMAIN fields |->
                   StructValues(fields, req.sent)[i]
                   + (IF reads THEN BodyValues(fields, req.sent, req.body)[i]
                      ELSE 0)]
      rules  == ValidateStruct(fields, values, templates)
      errs   == IF params # <<>> THEN params
                ELSE IF body # <<>> THEN body ELSE rules
  IN [errs |-> errs, values |-> IF errs = <<>> THEN values ELSE <<>>]
=============================================================================
