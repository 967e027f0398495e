------------------------------ MODULE Elements -----------------------------
(* array_contains and map_contains: what a raw document has at a path.     *)
EXTENDS Payload

(* gjson.Get: keys as they are written; "#" goes into every element of an  *)
(* array and leaves out those without the rest of the path, "@values" is   *)
(* the array of an object's values.                                        *)
RECURSIVE GjsonGet(_, _)
GjsonGet(v, path) ==
    IF path = << >> THEN v
    ELSE IF Head(path) = "#" /\ v[1] = "arr"
    THEN <<"arr", SelectSeq([i \in DOMAIN v[2] |-> GjsonGet(v[2][i], Tail(path))],
                            LAMBDA x : x # Missing)>>
    ELSE IF Head(path) = "@values" /\ v[1] = "map"
    THEN GjsonGet(<<"arr", [i \in 1 .. Cardinality(DOMAIN v[2]) |->
                               v[2][SetToSeq(DOMAIN v[2])[i]]]>>, Tail(path))
    ELSE IF v[1] = "map" /\ Key(<<Head(path)>>, FALSE) \in DOMAIN v[2]
    THEN GjsonGet(v[2][Key(<<Head(path)>>, FALSE)], Tail(path))
    ELSE Missing

(* Result.String: numbers as they are written, nothing for null and for a  *)
(* path that leads nowhere.                                                *)
GjsonString(v) ==
    CASE v[1] = "num" -> Int64(v[2])
      [] v[1] = "str" -> v[2]
      [] v[1] = "map" -> Lit("{...}")
      [] OTHER        -> << >>

RECURSIVE WalkFind(_, _)
WalkFind(v, target) ==
    IF v[1] = "arr" THEN \E i \in DOMAIN v[2] : WalkFind(v[2][i], target)
    ELSE GjsonString(v) = target

HasElement(raw, path, target) == WalkFind(GjsonGet(raw, path), target)
============================================================================
