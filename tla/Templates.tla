------------------------------ MODULE Templates ----------------------------
(***************************************************************************)
(* internal/pkg/template: placeholders in a text are replaced from the     *)
(* map of a run's variables, which increments change on the way.           *)
(*                                                                         *)
(* A text is a sequence of pieces: <<"lit", s>> plain characters,          *)
(* <<"int", n>> an integer in decimal, <<"float", n>> one with an          *)
(* exponent, <<"var", x>> is {{x}}, <<"inc", x>> is {{++(x)}},             *)
(* <<"dec", x>> is {{--(x)}}, <<"gen", g>> a generator with its arguments, *)
(* <<"fresh", i>> the i-th UUID.  Braces that only come together by        *)
(* substitution are left out.  Go ranges over a map in any order, so       *)
(* operators return a set of outcomes.                                     *)
(***************************************************************************)
EXTENDS Integers, SequencesExt, Tables

CONSTANT RandomInts    \* what randomInt returns, some of it

ASSUME RandomAssumption == RandomInts \subseteq Int

Pieces == ({"lit", "var", "inc", "dec", "gen"} \X STRING) \cup ({"int", "float", "fresh"} \X Int)

Texts == Seq(Pieces)

(* A map of texts, such as the variables. *)
IsTexts(f) == IsTable(f, STRING, Texts) /\ IsFiniteSet(DOMAIN f)

Lit(s) == << <<"lit", s>> >>
Int64(n) == << <<"int", n>> >>
Var(x) == << <<"var", x>> >>
Inc(x) == << <<"inc", x>> >>
Gen(g) == << <<"gen", g>> >>

HasUnresolved(s) == \E i \in DOMAIN s : s[i][1] \in {"var", "inc", "dec", "gen"}

(* parseVarInt, and the missing variable that counts as 0.                 *)
IsInt(text) == Len(text) = 1 /\ text[1][1] = "int"

Counts(vars, x) == x \notin DOMAIN vars \/ IsInt(vars[x])

Current(vars, x) == IF x \in DOMAIN vars THEN vars[x][1][2] ELSE 0

(* One pass, from left to right, over the increments or the decrements:    *)
(* the n-th one of x finds the n - 1 before it in the map.                 *)
ReplaceIncrements(s, vars, op, delta) ==
    LET Counted(i) == s[i][1] = op /\ Counts(vars, s[i][2])
        New(x, i) == Current(vars, x) + delta * Cardinality({j \in 1 .. i : s[j] = <<op, x>>})
        names == {s[i][2] : i \in {j \in DOMAIN s : Counted(j)}}
    IN [text |-> [i \in DOMAIN s |-> IF Counted(i) THEN <<"int", New(s[i][2], i)>> ELSE s[i]],
        vars |-> [x \in DOMAIN vars \cup names |->
                     IF x \in names THEN Int64(New(x, Len(s))) ELSE vars[x]]]

ResolveIncrements(s, vars) ==
    LET up == ReplaceIncrements(s, vars, "inc", 1)
    IN ReplaceIncrements(up.text, up.vars, "dec", -1)

(* strings.ReplaceAll(s, "{{k}}", v), for the keys in some order.          *)
ReplaceVar(s, k, v) ==
    FlattenSeq([i \in DOMAIN s |-> IF s[i] = <<"var", k>> THEN v ELSE <<s[i]>>])

(* Keys that nothing mentions change nothing.                              *)
Mentioned(s, vars) ==
    {k \in DOMAIN vars : <<"var", k>> \in Range(s) \cup UNION {Range(vars[j]) : j \in DOMAIN vars}}

Substituted(s, vars, order) ==
    LET after[n \in 0 .. Len(order)] ==
            IF n = 0 THEN s ELSE ReplaceVar(after[n - 1], order[n], vars[order[n]])
    IN after[Len(order)]

Substitutions(s, vars) ==
    {Substituted(s, vars, order) : order \in SetToSeqs(Mentioned(s, vars))}

(* Every use of a generator returns a value of its own, every UUID one     *)
(* that was not there before.  An unknown generator or bad arguments are   *)
(* left as they are.                                                       *)
ResolveGenerators(s, fresh) ==
    LET uuids == {i \in DOMAIN s : s[i] = <<"gen", "uuid()">>}
        randomInts == {i \in DOMAIN s : s[i] = <<"gen", "randomInt(6)">>}
    IN {[text |-> [i \in DOMAIN s |->
                      IF i \in uuids THEN <<"fresh", fresh + Cardinality({j \in uuids : j < i})>>
                      ELSE IF i \in randomInts THEN <<"int", random[i]>> ELSE s[i]],
         fresh |-> fresh + Cardinality(uuids)] : random \in [randomInts -> RandomInts]}

\* Mutant of ReplaceString: increments change a copy of the variables.
ReplaceStringInCopy(s, env) ==
    LET i == ResolveIncrements(s, env.vars) IN
    UNION {{[text |-> g.text, env |-> [vars |-> env.vars, fresh |-> g.fresh]] :
               g \in ResolveGenerators(t, env.fresh)} : t \in Substitutions(i.text, i.vars)}

(* env: the variables and the number of generated values.                  *)
ReplaceString(s, env) ==
    LET i == ResolveIncrements(s, env.vars) IN
    UNION {{[text |-> g.text, env |-> [vars |-> i.vars, fresh |-> g.fresh]] :
               g \in ResolveGenerators(t, env.fresh)} : t \in Substitutions(i.text, i.vars)}

(* ReplaceHeaders and ReplaceMap: one text after the other, in any order,  *)
(* and what one of them increments the next one sees.                      *)
FieldsInOrder(texts, env, order) ==
    LET after[n \in 0 .. Len(order)] ==
            IF n = 0 THEN {[fields |-> EmptyTable, env |-> env]}
            ELSE UNION {{[fields |-> Put(x.fields, order[n], y.text), env |-> y.env] :
                            y \in ReplaceString(texts[order[n]], x.env)} : x \in after[n - 1]}
    IN after[Len(order)]

ReplaceFields(texts, env) ==
    UNION {FieldsInOrder(texts, env, order) : order \in SetToSeqs(DOMAIN texts)}
============================================================================
