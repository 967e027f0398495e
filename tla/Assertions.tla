----------------------------- MODULE Assertions ----------------------------
(***************************************************************************)
(* internal/pkg/assertion: the thirteen assertion types, over the flat     *)
(* fields of a message and, for two of them, its raw document.             *)
(*                                                                         *)
(* An assertion is [type, field, value], the last two templates: a piece   *)
(* of field is the part of a path between two dots.  A pattern of matches  *)
(* is a text without operators, or BadPattern, which does not compile.     *)
(***************************************************************************)
EXTENDS Templates

CONSTANT Finds(_, _, _)    \* Finds(raw, path, text): HasElement of module Elements

IntTypes == {"int_eq", "int_gt", "int_gte", "int_lt", "int_lte"}

Types == {"equals", "contains", "not_contains", "present", "matches", "array_contains",
          "map_contains", "length"} \cup IntTypes

BadPattern == Lit("(")

(* The path a field names, once its placeholders are replaced; one that is *)
(* left is the key of nothing.                                             *)
PathOf(field) ==
    [i \in DOMAIN field |-> CASE field[i][1] = "lit" -> field[i][2]
                              [] field[i][1] = "int" -> ToString(field[i][2])
                              [] OTHER -> "{{}}"]

Field(fields, path) == IF path \in DOMAIN fields THEN fields[path] ELSE << >>

(* strings.Contains *)
HasText(text, part) == part \in SubSeqs(text)

\* Mutant of CompareInts: greater means greater or equal.
CompareIntsLoosely(typ, a, b) ==
    CASE typ = "int_eq"  -> a = b
      [] typ = "int_gt"  -> a >= b
      [] typ = "int_gte" -> a >= b
      [] typ = "int_lt"  -> a < b
      [] typ = "int_lte" -> a <= b

CompareInts(typ, a, b) ==
    CASE typ = "int_eq"  -> a = b
      [] typ = "int_gt"  -> a > b
      [] typ = "int_gte" -> a >= b
      [] typ = "int_lt"  -> a < b
      [] typ = "int_lte" -> a <= b

(* Create fails for an unknown type and for a pattern that does not        *)
(* compile.                                                                *)
Creates(a) == a.type \in Types /\ ~(a.type = "matches" /\ a.value = BadPattern)

Present(actual) == actual # << >>

(* The text of the array's length, which FlattenArray leaves. *)
LengthOf(path) == Append(path, "__len__")

HasLength(fields, path, length) ==
    LengthOf(path) \in DOMAIN fields /\ fields[LengthOf(path)] = length

IntHolds(typ, actual, value) ==
    IsInt(actual) /\ IsInt(value) /\ CompareInts(typ, actual[1][2], value[1][2])

Holds(a, fields, raw) ==
    LET path == PathOf(a.field)
        actual == Field(fields, path)
    IN
    CASE a.type = "equals"       -> actual = a.value
      [] a.type = "contains"     -> HasText(actual, a.value)
      [] a.type = "not_contains" -> ~HasText(actual, a.value)
      [] a.type = "present"      -> Present(actual)
      [] a.type = "matches"      -> HasText(actual, a.value)
      [] a.type = "length"       -> HasLength(fields, path, a.value)
      [] a.type \in {"array_contains", "map_contains"} -> Finds(raw, path, a.value)
      [] a.type \in IntTypes     -> IntHolds(a.type, actual, a.value)

Verdict(a, fields, raw) ==
    IF ~Creates(a) THEN "error" ELSE IF Holds(a, fields, raw) THEN "passed" ELSE "failed"

(* The texts of the test and of the message that an error quotes. *)
Complaint(a, fields) ==
    LET path == PathOf(a.field)
        actual == Field(fields, path)
    IN
    IF ~Creates(a) THEN IF a.type \in Types THEN a.value ELSE << >>
    ELSE a.field \o
         CASE a.type = "present"  -> << >>
           [] a.type = "length"   -> IF LengthOf(path) \in DOMAIN fields THEN a.value ELSE << >>
           [] a.type \in IntTypes -> IF IsInt(actual) THEN a.value ELSE actual
           [] a.type \in {"array_contains", "map_contains"} -> a.value
           [] OTHER               -> a.value \o actual

Outcome(a, fields, raw, env) ==
    LET verdict == Verdict(a, fields, raw) IN
    [status |-> verdict, env |-> env,
     error |-> IF verdict = "passed" THEN << >> ELSE Complaint(a, fields)]

(* The placeholders of the field are replaced, then those of the value.    *)
RunAssertion(a, fields, raw, env) ==
    UNION {{Outcome([a EXCEPT !.field = f.text, !.value = v.text], fields, raw, v.env) :
               v \in ReplaceString(a.value, f.env)} : f \in ReplaceString(a.field, env)}

(* The loop over the assertions of a trigger's response or of a receiver:  *)
(* the placeholders of each are replaced when its turn comes, and the      *)
(* first one that does not pass ends it.                                   *)
RunAssertions(as, fields, raw, env) ==
    LET after[n \in 0 .. Len(as)] ==
            IF n = 0 THEN {[status |-> "passed", env |-> env, error |-> << >>]}
            ELSE {o \in after[n - 1] : o.status # "passed"} \cup
                 UNION {RunAssertion(as[n], fields, raw, o.env) :
                           o \in {p \in after[n - 1] : p.status = "passed"}}
    IN after[Len(as)]
============================================================================
