------------------------------- MODULE Payload -----------------------------
(***************************************************************************)
(* internal/pkg/httputil/payload.go: a JSON document as a flat map from    *)
(* dotted paths to texts.                                                  *)
(*                                                                         *)
(* A JSON value is <<"num", n>>, <<"str", text>>, <<"null", "">>,          *)
(* <<"arr", sequence>> or <<"map", table>>.  A key of a map is a record of *)
(* its lower-case form, cut at the dots, and whether it is written with    *)
(* capitals; a path is the sequence of the parts between the dots.         *)
(***************************************************************************)
EXTENDS Templates, TLC

Key(parts, upper) == [parts |-> parts, upper |-> upper]

ToLower(k) == k.parts

(* fmt.Sprintf("%v"): a JSON number is a float64 and has an exponent from  *)
(* 1e+06 on, which strconv.ParseInt does not take; null is a nil.          *)
Sprint(v) ==
    CASE v[1] = "num"  -> IF v[2] \in -999999 .. 999999 THEN Int64(v[2])
                          ELSE << <<"float", v[2]>> >>
      [] v[1] = "str"  -> v[2]
      [] v[1] = "null" -> Lit("<nil>")
      [] v[1] = "arr"  -> Lit("[...]")

(* What is written later replaces what is there. *)
Overlay(F, G) == {g @@ f : f \in F, g \in G}

RECURSIVE FlattenMap(_, _)

\* Mutant of FlattenArray: the length is the index of the last element.
FlattenArrayLastIndex(path, a) ==
    FoldLeftDomain(
        LAMBDA F, i : LET at == Append(path, ToString(i - 1)) IN
                      Overlay(F, IF a[i][1] = "map" THEN FlattenMap(at, a[i][2])
                                 ELSE {at :> Sprint(a[i])}),
        {Append(path, "__len__") :> Int64(Len(a) - 1)}, a)

FlattenArray(path, a) ==
    FoldLeftDomain(
        LAMBDA F, i : LET at == Append(path, ToString(i - 1)) IN
                      Overlay(F, IF a[i][1] = "map" THEN FlattenMap(at, a[i][2])
                                 ELSE {at :> Sprint(a[i])}),
        {Append(path, "__len__") :> Int64(Len(a))}, a)

Flatten(path, v) ==
    CASE v[1] = "map" -> FlattenMap(path, v[2])
      [] v[1] = "arr" -> FlattenArray(path, v[2])
      [] OTHER        -> {path :> Sprint(v)}

(* The map is ranged over in any order: of two keys that are one in lower  *)
(* case, either can be the last.                                           *)
FlattenMap(prefix, m) ==
    UNION {FoldLeft(LAMBDA F, k : Overlay(F, Flatten(prefix \o ToLower(k), m[k])),
                    {EmptyTable}, order) :
              order \in SetToSeqs(DOMAIN m)}

FlattenJSON(doc) == FlattenMap(<< >>, doc[2])

----------------------------------------------------------------------------
(* For reference: a document read along a path, its keys in lower case.    *)
(* Plain says that a path means one thing in it.                           *)
Missing == <<"missing", "">>

RECURSIVE Lookup(_, _)
Lookup(v, path) ==
    IF path = << >> THEN v
    ELSE IF v[1] = "map" /\ \E k \in DOMAIN v[2] : k.parts = <<Head(path)>>
    THEN Lookup(v[2][CHOOSE k \in DOMAIN v[2] : k.parts = <<Head(path)>>], Tail(path))
    ELSE IF v[1] = "arr" /\ \E i \in DOMAIN v[2] : ToString(i - 1) = Head(path)
    THEN Lookup(v[2][CHOOSE i \in DOMAIN v[2] : ToString(i - 1) = Head(path)], Tail(path))
    ELSE Missing

RECURSIVE Plain(_)
Plain(v) ==
    CASE v[1] = "map" -> /\ \A j, k \in DOMAIN v[2] : j.parts = k.parts => j = k
                         /\ \A k \in DOMAIN v[2] : Len(k.parts) = 1 /\ Plain(v[2][k])
      [] v[1] = "arr" -> \A i \in DOMAIN v[2] : Plain(v[2][i])
      [] OTHER        -> TRUE
============================================================================
