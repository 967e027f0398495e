----------------------------- MODULE Responses -----------------------------
(***************************************************************************)
(* Variables with the documents that come in answers and messages: what    *)
(* the fields that Payload makes of one mean for assertions and extracts.  *)
(***************************************************************************)
EXTENDS Variables, Elements

(* The fields a response is asserted on and extracted from are those of    *)
(* the document: for one in which a path means one thing, whatever order   *)
(* its maps are ranged over in, a path has the text of the value the path  *)
(* leads to, and the path of an array the number of its elements; and no   *)
(* number, text or null that an extract asks for is missing.               *)
FieldsMatchDocument ==
    (response # NoResponse /\ Plain(response.doc)) =>
        /\ \A path \in DOMAIN response.fields :
              LET v == Lookup(response.doc, Front(path)) IN
              IF Last(path) = "__len__" /\ v[1] = "arr"
              THEN response.fields[path] = Int64(Len(v[2]))
              ELSE response.fields[path] = Sprint(Lookup(response.doc, path))
        /\ \A path \in Range(test.triggers[response.step].extract) :
              Lookup(response.doc, path)[1] \in {"num", "str", "null"} => path \in DOMAIN response.fields

(* The response assertions of a trigger that compare integers are decided  *)
(* as the integers of a document are, in which a path means one thing, for *)
(* numbers of up to six digits.                                            *)
SignsOf == [int_eq |-> {0}, int_gt |-> {1}, int_gte |-> {0, 1}, int_lt |-> {-1}, int_lte |-> {-1, 0}]

Sign(n) == IF n > 0 THEN 1 ELSE IF n < 0 THEN -1 ELSE 0

ResponseAsserts == test.triggers[response.step].asserts

Number(a) == Lookup(response.doc, PathOf(a.field))

(* All of the assertions compare an integer with one of these numbers.     *)
ComparesOnly(numbers) ==
    /\ response # NoResponse /\ Plain(response.doc) /\ ResponseAsserts # << >>
    /\ \A a \in Range(ResponseAsserts) :
          /\ a.type \in IntTypes /\ IsInt(a.value) /\ ~HasUnresolved(a.field)
          /\ Number(a)[1] = "num" /\ Number(a)[2] \in numbers

DecidedAsIntegers ==
    (response.verdict = "passed") =
        \A a \in Range(ResponseAsserts) : Sign(Number(a)[2] - a.value[1][2]) \in SignsOf[a.type]

IntAssertionsCompare == ComparesOnly(-999999 .. 999999) => DecidedAsIntegers

----------------------------------------------------------------------------
(* What the documentation says, and the code does not do.                  *)

(* README: "`int_*` parse both sides as `int64` (trimmed)": so for every   *)
(* number that is an int64.                                                *)
IntAssertionsExact == ComparesOnly(Int) => DecidedAsIntegers
============================================================================
