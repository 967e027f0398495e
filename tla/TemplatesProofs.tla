-------------------------- MODULE TemplatesProofs --------------------------
(* What replacing placeholders does and leaves alone: for every text, every *)
(* map of variables and every order of Go's maps.                          *)
EXTENDS Assertions, SequenceTheorems, FiniteSetTheorems, WellFoundedInduction, TLAPS

(* Induction, with a set for the predicate. *)
LEMMA Induct ==
    ASSUME NEW lo \in Nat, NEW N \in Nat, NEW P \in SUBSET Nat, lo \in P,
           \A n \in lo + 1 .. N : n - 1 \in P => n \in P
    PROVE  \A n \in lo .. N : n \in P
<1> SUFFICES ASSUME NEW m \in lo .. N, m \notin P PROVE FALSE
  OBVIOUS
<1> DEFINE B == {n \in lo .. N : n \notin P}
<1>1. B \in SUBSET Nat /\ m \in B
  OBVIOUS
<1>2. PICK x \in B : \A y \in B : ~ (<<y, x>> \in OpToRel(<, Nat))
  BY <1>1, NatLessThanWellFounded, WFMin
<1>3. \A y \in B : ~ (y < x)
  BY <1>1, <1>2 DEF OpToRel
<1>4. x \in lo .. N /\ x \notin P /\ x # lo
  BY <1>2
<1>5. x - 1 \in lo .. N /\ x - 1 < x /\ x \in lo + 1 .. N
  BY <1>4
<1>6. x - 1 \in P
  BY <1>3, <1>5
<1> QED
  BY <1>4, <1>5, <1>6

(* f is what the steps F make of base, from lo to N. *)
IsRecursive(f, base, lo, N, F) ==
    f = [n \in lo .. N |-> IF n = lo THEN base ELSE F[n][f[n - 1]]]

(* A recursive function whose steps stay in a set exists. *)
LEMMA Recursion ==
    ASSUME NEW S, NEW base \in S, NEW lo \in Nat, NEW N \in Nat, lo <= N,
           NEW F \in [lo + 1 .. N -> [S -> S]]
    PROVE  \E f \in [lo .. N -> S] : IsRecursive(f, base, lo, N, F)
<1> DEFINE Upto(m, g) == g = [n \in lo .. m |-> IF n = lo THEN base ELSE F[n][g[n - 1]]]
           P == {m \in Nat : \E g \in [lo .. m -> S] : Upto(m, g)}
<1>1. lo \in P
  <2> DEFINE g == [n \in lo .. lo |-> base]
  <2>1. lo .. lo = {lo}
    OBVIOUS
  <2>2. g \in [lo .. lo -> S] /\ Upto(lo, g)
    BY <2>1
  <2> QED
    BY <2>2
<1>2. ASSUME NEW m \in lo + 1 .. N, m - 1 \in P PROVE m \in P
  <2>1. PICK g \in [lo .. m - 1 -> S] : Upto(m - 1, g)
    BY <1>2
  <2> DEFINE h == [n \in lo .. m |-> IF n = m THEN F[m][g[m - 1]] ELSE g[n]]
  <2>2. m \in Nat /\ m - 1 \in lo .. m - 1 /\ m # lo /\ m \in lo .. m
    OBVIOUS
  <2>3. F[m][g[m - 1]] \in S
    BY <2>1, <2>2
  <2>4. h \in [lo .. m -> S]
    BY <2>1, <2>3
  <2>5. \A n \in lo .. m - 1 : h[n] = g[n]
    BY <2>2
  <2>6. \A n \in lo .. m : h[n] = IF n = lo THEN base ELSE F[n][h[n - 1]]
    <3> SUFFICES ASSUME NEW n \in lo .. m
                 PROVE  h[n] = IF n = lo THEN base ELSE F[n][h[n - 1]]
      OBVIOUS
    <3>1. CASE n = m
      BY <3>1, <2>2, <2>5
    <3>2. CASE n # m
      <4>1. n \in lo .. m - 1 /\ (n # lo => n - 1 \in lo .. m - 1)
        BY <3>2
      <4>2. g[n] = IF n = lo THEN base ELSE F[n][g[n - 1]]
        BY <4>1, <2>1
      <4> QED
        BY <4>1, <4>2, <2>5
    <3> QED
      BY <3>1, <3>2
  <2>7. Upto(m, h)
    BY <2>4, <2>6
  <2> QED
    BY <2>2, <2>4, <2>7
<1>3. P \in SUBSET Nat
  OBVIOUS
<1> HIDE DEF P
<1>4. \A n \in lo .. N : n \in P
  BY <1>1, <1>2, <1>3, Induct
<1> QED
  BY <1>4 DEF P, IsRecursive

----------------------------------------------------------------------------
(* The prefixes that FlattenSeq builds. *)
LEMMA FlattenPrefixes ==
    ASSUME NEW P, NEW ss \in Seq(Seq(P)), Len(ss) # 0
    PROVE  \E f \in [1 .. Len(ss) -> Seq(P)] :
              /\ FlattenSeq(ss) = f[Len(ss)] /\ f[1] = ss[1]
              /\ \A n \in 2 .. Len(ss) : f[n] = f[n - 1] \o ss[n]
<1> DEFINE N == Len(ss)
           Eq(f) == f = [i \in 1 .. N |-> IF i = 1 THEN ss[i] ELSE f[i - 1] \o ss[i]]
           flat == CHOOSE f : Eq(f)
           F == [n \in 1 + 1 .. N |-> [x \in Seq(P) |-> x \o ss[n]]]
<1>1. N \in Nat /\ 1 <= N /\ \A n \in 1 .. N : ss[n] \in Seq(P)
  BY LenProperties, ElementOfSeq
<1>2. \A n \in 1 .. N : \A x \in Seq(P) : x \o ss[n] \in Seq(P)
  BY <1>1, ConcatProperties
<1>3. F \in [1 + 1 .. N -> [Seq(P) -> Seq(P)]] /\ ss[1] \in Seq(P)
  BY <1>1, <1>2
<1>4. PICK g \in [1 .. N -> Seq(P)] : IsRecursive(g, ss[1], 1, N, F)
  <2> HIDE DEF F, N
  <2>1. 1 \in Nat
    OBVIOUS
  <2> QED
    BY <2>1, <1>1, <1>3, Recursion
<1>5. ASSUME NEW n \in 1 .. N PROVE g[n] = IF n = 1 THEN ss[n] ELSE g[n - 1] \o ss[n]
  <2>1. g[n] = IF n = 1 THEN ss[1] ELSE F[n][g[n - 1]]
    BY <1>4 DEF IsRecursive
  <2>2. CASE n = 1
    BY <2>1, <2>2
  <2>3. CASE n # 1
    <3>1. n \in 1 + 1 .. N /\ n - 1 \in 1 .. N
      BY <1>1, <2>3
    <3>2. g[n - 1] \in Seq(P)
      BY <3>1, <1>4
    <3>3. F[n][g[n - 1]] = g[n - 1] \o ss[n]
      BY <3>1, <3>2
    <3> QED
      BY <2>1, <2>3, <3>3
  <2> QED
    BY <2>2, <2>3
<1>6. Eq(g)
  BY <1>4, <1>5
<1>7. Eq(flat)
  BY <1>6
<1>8. FlattenSeq(ss) = flat[N]
  BY DEF FlattenSeq
<1> HIDE DEF flat
<1>9. \A n \in 1 .. N : flat[n] = IF n = 1 THEN ss[n] ELSE flat[n - 1] \o ss[n]
  BY <1>7
<1>10. \A n \in 1 .. N : flat[n] \in Seq(P)
  <2> DEFINE T == {n \in Nat : flat[n] \in Seq(P)}
  <2>1. 1 \in T
    BY <1>1, <1>9
  <2>2. ASSUME NEW n \in 1 + 1 .. N, n - 1 \in T PROVE n \in T
    <3>1. n \in 1 .. N /\ n # 1 /\ flat[n - 1] \in Seq(P)
      BY <2>2, <1>1
    <3>2. flat[n] = flat[n - 1] \o ss[n]
      BY <3>1, <1>9
    <3>3. flat[n] \in Seq(P)
      BY <3>1, <3>2, <1>2
    <3> QED
      BY <3>1, <3>3
  <2> HIDE DEF N
  <2> QED
    BY <2>1, <2>2, <1>1, Induct
<1>11. flat \in [1 .. N -> Seq(P)]
  BY <1>7, <1>10
<1>12. flat[1] = ss[1]
  BY <1>1, <1>9
<1>13. ASSUME NEW n \in 2 .. N PROVE flat[n] = flat[n - 1] \o ss[n]
  <2>1. n \in 1 .. N /\ n # 1
    BY <1>1
  <2> QED
    BY <2>1, <1>9
<1> QED
  BY <1>8, <1>11, <1>12, <1>13

LEMMA FlattenTyped ==
    ASSUME NEW P, NEW ss \in Seq(Seq(P))
    PROVE  FlattenSeq(ss) \in Seq(P)
<1>1. CASE Len(ss) = 0
  <2>1. ss = << >>
    BY <1>1
  <2> QED
    BY <1>1, <2>1 DEF FlattenSeq
<1>2. CASE Len(ss) # 0
  <2>1. PICK f \in [1 .. Len(ss) -> Seq(P)] : FlattenSeq(ss) = f[Len(ss)]
    BY <1>2, FlattenPrefixes
  <2>2. Len(ss) \in 1 .. Len(ss)
    BY <1>2, LenProperties
  <2> QED
    BY <2>1, <2>2
<1> QED
  BY <1>1, <1>2

(* A sequence, cut into its elements and put together again. *)
LEMMA FlattenSingletons ==
    ASSUME NEW P, NEW s \in Seq(P), NEW ss \in Seq(Seq(P)), Len(ss) = Len(s),
           \A i \in 1 .. Len(s) : ss[i] = <<s[i]>>
    PROVE  FlattenSeq(ss) = s
<1>1. Len(s) \in Nat /\ s \in [1 .. Len(s) -> P] /\ DOMAIN s = 1 .. Len(s)
  BY LenProperties
<1>2. CASE Len(s) = 0
  <2>1. ss = << >> /\ s = << >>
    BY <1>2
  <2> QED
    BY <2>1 DEF FlattenSeq
<1>3. CASE Len(s) # 0
  <2>1. PICK f \in [1 .. Len(ss) -> Seq(P)] :
              /\ FlattenSeq(ss) = f[Len(ss)] /\ f[1] = ss[1]
              /\ \A n \in 2 .. Len(ss) : f[n] = f[n - 1] \o ss[n]
    BY <1>3, FlattenPrefixes
  <2> DEFINE T == {n \in Nat : Len(f[n]) = n /\ \A i \in 1 .. n : f[n][i] = s[i]}
  <2>2. 1 \in T
    <3>1. f[1] = <<s[1]>>
      BY <2>1, <1>1, <1>3
    <3>2. Len(<<s[1]>>) = 1 /\ <<s[1]>>[1] = s[1]
      OBVIOUS
    <3>3. \A i \in 1 .. 1 : f[1][i] = s[i]
      BY <3>1, <3>2
    <3> QED
      BY <3>1, <3>2, <3>3
  <2>3. ASSUME NEW n \in 1 + 1 .. Len(s), n - 1 \in T PROVE n \in T
    <3>0. n \in 2 .. Len(ss) /\ n - 1 \in 1 .. Len(ss) /\ n \in 1 .. Len(s) /\ n \in Nat
      BY <1>1
    <3>1. f[n - 1] \in Seq(P) /\ Len(f[n - 1]) = n - 1 /\ \A i \in 1 .. n - 1 : f[n - 1][i] = s[i]
      BY <2>3, <3>0
    <3>2. s[n] \in P /\ <<s[n]>> \in Seq(P) /\ Len(<<s[n]>>) = 1 /\ <<s[n]>>[1] = s[n]
      BY <1>1
    <3>3. f[n] = f[n - 1] \o <<s[n]>>
      <4>1. f[n] = f[n - 1] \o ss[n] /\ ss[n] = <<s[n]>>
        BY <2>1, <3>0
      <4> QED
        BY <4>1
    <3>4. /\ Len(f[n]) = (n - 1) + 1
          /\ \A i \in 1 .. (n - 1) + 1 : f[n][i] = IF i <= n - 1 THEN f[n - 1][i] ELSE <<s[n]>>[i - (n - 1)]
      BY <3>1, <3>2, <3>3, ConcatProperties, SMTT(30)
    <3>5. \A i \in 1 .. n : f[n][i] = s[i]
      BY <3>1, <3>2, <3>4
    <3> QED
      BY <3>4, <3>5
  <2> HIDE DEF T
  <2>4. Len(s) \in T
    <3>1. \A n \in 1 .. Len(s) : n \in T
      BY <2>2, <2>3, <1>1, Induct DEF T
    <3> QED
      BY <3>1, <1>1, <1>3
  <2>5. f[Len(s)] \in Seq(P)
    BY <2>1, <1>1, <1>3
  <2>6. f[Len(s)] = s
    BY <2>4, <2>5, <1>1, SeqEqual DEF T
  <2> QED
    BY <2>1, <2>6
<1> QED
  BY <1>2, <1>3

----------------------------------------------------------------------------
LEMMA IsSequence ==
    ASSUME NEW S, NEW n \in Nat, NEW f \in [1 .. n -> S]
    PROVE  f \in Seq(S) /\ Len(f) = n
<1>1. f \in Seq(S)
  BY SeqDef
<1>2. Len(f) \in Nat /\ 1 .. Len(f) = 1 .. n
  BY <1>1, LenProperties
<1> QED
  BY <1>1, <1>2

(* The texts that ReplaceVar puts together. *)
Cut(s, k, v) == [i \in DOMAIN s |-> IF s[i] = <<"var", k>> THEN v ELSE <<s[i]>>]

LEMMA CutTyped ==
    ASSUME NEW P, NEW k, NEW s \in Seq(P \cup {<<"var", k>>}), NEW v \in Seq(P)
    PROVE  Cut(s, k, v) \in Seq(Seq(P)) /\ Len(Cut(s, k, v)) = Len(s)
<1>1. Len(s) \in Nat /\ DOMAIN s = 1 .. Len(s) /\ \A i \in 1 .. Len(s) : s[i] \in P \cup {<<"var", k>>}
  BY LenProperties
<1>2. ASSUME NEW i \in 1 .. Len(s) PROVE (IF s[i] = <<"var", k>> THEN v ELSE <<s[i]>>) \in Seq(P)
  <2>1. CASE s[i] = <<"var", k>>
    BY <2>1
  <2>2. CASE s[i] # <<"var", k>>
    <3>1. s[i] \in P
      BY <2>2, <1>1
    <3>2. <<s[i]>> \in Seq(P)
      BY <3>1
    <3> QED
      BY <2>2, <3>2
  <2> QED
    BY <2>1, <2>2
<1>3. Cut(s, k, v) \in [1 .. Len(s) -> Seq(P)]
  BY <1>1, <1>2 DEF Cut
<1> QED
  BY <1>1, <1>3, IsSequence

LEMMA ReplaceVarTyped ==
    ASSUME NEW P, NEW k, NEW s \in Seq(P \cup {<<"var", k>>}), NEW v \in Seq(P)
    PROVE  ReplaceVar(s, k, v) \in Seq(P)
<1>1. ReplaceVar(s, k, v) = FlattenSeq(Cut(s, k, v))
  BY DEF ReplaceVar, Cut
<1> QED
  BY <1>1, CutTyped, FlattenTyped

LEMMA ReplaceVarNothing ==
    ASSUME NEW P, NEW k, NEW s \in Seq(P), NEW v, \A i \in 1 .. Len(s) : s[i] # <<"var", k>>
    PROVE  ReplaceVar(s, k, v) = s
<1>1. Len(s) \in Nat /\ DOMAIN s = 1 .. Len(s) /\ \A i \in 1 .. Len(s) : s[i] \in P
  BY LenProperties
<1>2. DOMAIN Cut(s, k, v) = 1 .. Len(s) /\ \A i \in 1 .. Len(s) : Cut(s, k, v)[i] = <<s[i]>>
  BY <1>1 DEF Cut
<1>3. Cut(s, k, v) \in [1 .. Len(s) -> Seq(P)]
  <2>1. \A i \in 1 .. Len(s) : <<s[i]>> \in Seq(P)
    BY <1>1
  <2>2. Cut(s, k, v) = [i \in 1 .. Len(s) |-> Cut(s, k, v)[i]]
    BY <1>1 DEF Cut
  <2> QED
    BY <1>2, <2>1, <2>2
<1>4. Cut(s, k, v) \in Seq(Seq(P)) /\ Len(Cut(s, k, v)) = Len(s)
  BY <1>1, <1>3, IsSequence
<1>5. FlattenSeq(Cut(s, k, v)) = s
  BY <1>2, <1>4, FlattenSingletons
<1> QED
  BY <1>5 DEF ReplaceVar, Cut

LEMMA ReplaceVarWhole ==
    ASSUME NEW P, NEW k, NEW v \in Seq(P)
    PROVE  ReplaceVar(Var(k), k, v) = v
<1> DEFINE ss == Cut(Var(k), k, v)
<1>1. Var(k) \in Seq(P \cup {<<"var", k>>}) /\ Len(Var(k)) = 1
      /\ Var(k)[1] = <<"var", k>> /\ DOMAIN Var(k) = 1 .. 1
  BY DEF Var
<1>2. ss \in Seq(Seq(P)) /\ Len(ss) = 1
  BY <1>1, CutTyped
<1>3. ss[1] = v
  BY <1>1 DEF Cut
<1> HIDE DEF ss
<1>4. PICK f \in [1 .. Len(ss) -> Seq(P)] :
              /\ FlattenSeq(ss) = f[Len(ss)] /\ f[1] = ss[1]
              /\ \A n \in 2 .. Len(ss) : f[n] = f[n - 1] \o ss[n]
  <2>1. Len(ss) # 0
    BY <1>2
  <2> QED
    BY <1>2, <2>1, FlattenPrefixes, Zenon
<1> QED
  BY <1>2, <1>3, <1>4 DEF ReplaceVar, Cut, ss

----------------------------------------------------------------------------
(* An order of a map's keys has each of them once. *)
LEMMA OrderFacts ==
    ASSUME NEW S, IsFiniteSet(S), NEW o \in SetToSeqs(S)
    PROVE  /\ Len(o) \in Nat /\ o \in [1 .. Len(o) -> S]
           /\ \A i, j \in 1 .. Len(o) : i # j => o[i] # o[j]
           /\ \A x \in S : \E n \in 1 .. Len(o) : o[n] = x
<1> DEFINE N == Cardinality(S)
<1>1. N \in Nat
  BY FS_CardinalityType
<1>2. o \in [1 .. N -> S] /\ \A i, j \in 1 .. N : i # j => o[i] # o[j]
  BY DEF SetToSeqs
<1> HIDE DEF N
<1>3. Len(o) = N
  BY <1>1, <1>2, IsSequence
<1>4. o \in Injection(1 .. N, S)
  BY <1>2 DEF Injection, IsInjective
<1>5. Cardinality(1 .. N) = N
  BY <1>1, FS_Interval
<1>6. o \in Surjection(1 .. N, S)
  BY <1>4, <1>5, FS_Injection DEF N
<1> QED
  BY <1>1, <1>2, <1>3, <1>6 DEF Surjection

(* The texts that substitution goes through, if they stay in T. *)
LEMMA SubstitutedSteps ==
    ASSUME NEW T, NEW s \in T, NEW vars, NEW order, Len(order) \in Nat,
           \A n \in 1 .. Len(order) : \A t \in T : ReplaceVar(t, order[n], vars[order[n]]) \in T
    PROVE  \E f \in [0 .. Len(order) -> T] :
              /\ Substituted(s, vars, order) = f[Len(order)] /\ f[0] = s
              /\ \A n \in 1 .. Len(order) : f[n] = ReplaceVar(f[n - 1], order[n], vars[order[n]])
<1> DEFINE N == Len(order)
           Eq(f) == f = [n \in 0 .. N |->
                            IF n = 0 THEN s ELSE ReplaceVar(f[n - 1], order[n], vars[order[n]])]
           g == CHOOSE f : Eq(f)
           F == [n \in 0 + 1 .. N |-> [t \in T |-> ReplaceVar(t, order[n], vars[order[n]])]]
<1>1. F \in [0 + 1 .. N -> [T -> T]] /\ 0 \in Nat /\ N \in Nat /\ 0 <= N
  OBVIOUS
<1>2. PICK h \in [0 .. N -> T] : IsRecursive(h, s, 0, N, F)
  <2> HIDE DEF F, N
  <2> QED
    BY <1>1, Recursion
<1>3. ASSUME NEW n \in 0 .. N
      PROVE  h[n] = IF n = 0 THEN s ELSE ReplaceVar(h[n - 1], order[n], vars[order[n]])
  <2>1. h[n] = IF n = 0 THEN s ELSE F[n][h[n - 1]]
    BY <1>2 DEF IsRecursive
  <2>2. CASE n = 0
    BY <2>1, <2>2
  <2>3. CASE n # 0
    <3>1. n \in 0 + 1 .. N /\ n - 1 \in 0 .. N
      BY <1>1, <2>3
    <3>2. F[n][h[n - 1]] = ReplaceVar(h[n - 1], order[n], vars[order[n]])
      BY <3>1, <1>2
    <3> QED
      BY <2>1, <2>3, <3>2
  <2> QED
    BY <2>2, <2>3
<1>4. Eq(h)
  BY <1>2, <1>3
<1>5. Eq(g)
  BY <1>4
<1>6. Substituted(s, vars, order) = g[N]
  BY DEF Substituted
<1> HIDE DEF g
<1>7. g[0] = s
  BY <1>1, <1>5
<1>8. ASSUME NEW n \in 1 .. N PROVE g[n] = ReplaceVar(g[n - 1], order[n], vars[order[n]])
  <2>1. n \in 0 .. N /\ n # 0
    BY <1>1
  <2> QED
    BY <2>1, <1>5
<1>9. \A n \in 0 .. N : g[n] \in T
  <2> DEFINE P == {n \in Nat : g[n] \in T}
  <2>1. 0 \in P
    BY <1>7
  <2>2. ASSUME NEW n \in 0 + 1 .. N, n - 1 \in P PROVE n \in P
    <3>1. n \in 1 .. N /\ g[n - 1] \in T
      BY <2>2
    <3> QED
      BY <3>1, <1>8
  <2> HIDE DEF N, P
  <2>3. \A n \in 0 .. N : n \in P
    BY <2>1, <2>2, <1>1, Induct DEF P
  <2> QED
    BY <2>3 DEF P
<1>10. g \in [0 .. N -> T]
  BY <1>5, <1>9
<1> QED
  BY <1>6, <1>7, <1>8, <1>10

(* What substitution never leaves. *)
LEMMA SubstitutionsStay ==
    ASSUME NEW T, NEW s \in T, NEW vars, IsFiniteSet(DOMAIN vars),
           \A k \in DOMAIN vars : \A t \in T : ReplaceVar(t, k, vars[k]) \in T
    PROVE  Substitutions(s, vars) \subseteq T
<1>1. IsFiniteSet(Mentioned(s, vars)) /\ Mentioned(s, vars) \subseteq DOMAIN vars
  BY FS_Subset DEF Mentioned
<1>2. ASSUME NEW order \in SetToSeqs(Mentioned(s, vars)) PROVE Substituted(s, vars, order) \in T
  <2>1. Len(order) \in Nat /\ \A n \in 1 .. Len(order) : order[n] \in DOMAIN vars
    BY <1>1, OrderFacts
  <2>2. PICK f \in [0 .. Len(order) -> T] :
              /\ Substituted(s, vars, order) = f[Len(order)] /\ f[0] = s
              /\ \A n \in 1 .. Len(order) : f[n] = ReplaceVar(f[n - 1], order[n], vars[order[n]])
    BY <2>1, SubstitutedSteps
  <2> QED
    BY <2>1, <2>2
<1> QED
  BY <1>2 DEF Substitutions

(* Where it arrives once the variable x has had its turn. *)
LEMMA SubstitutionsReach ==
    ASSUME NEW T, NEW s \in T, NEW vars, IsFiniteSet(DOMAIN vars),
           \A k \in DOMAIN vars : \A t \in T : ReplaceVar(t, k, vars[k]) \in T,
           NEW U, NEW x \in Mentioned(s, vars),
           \A t \in T : ReplaceVar(t, x, vars[x]) \in U,
           \A k \in DOMAIN vars : \A t \in T \cap U : ReplaceVar(t, k, vars[k]) \in U
    PROVE  Substitutions(s, vars) \subseteq U
<1>1. IsFiniteSet(Mentioned(s, vars)) /\ Mentioned(s, vars) \subseteq DOMAIN vars
  BY FS_Subset DEF Mentioned
<1>2. ASSUME NEW order \in SetToSeqs(Mentioned(s, vars)) PROVE Substituted(s, vars, order) \in U
  <2> DEFINE N == Len(order)
  <2>1. N \in Nat /\ \A n \in 1 .. N : order[n] \in DOMAIN vars
    BY <1>1, OrderFacts
  <2>2. PICK m \in 1 .. N : order[m] = x
    BY <1>1, OrderFacts
  <2>3. PICK f \in [0 .. N -> T] :
              /\ Substituted(s, vars, order) = f[N] /\ f[0] = s
              /\ \A n \in 1 .. N : f[n] = ReplaceVar(f[n - 1], order[n], vars[order[n]])
    BY <2>1, SubstitutedSteps
  <2> DEFINE P == {n \in Nat : f[n] \in U}
  <2> HIDE DEF N
  <2>4. m \in P
    <3>1. m \in Nat /\ m - 1 \in 0 .. N
      BY <2>1
    <3>2. f[m] = ReplaceVar(f[m - 1], x, vars[x]) /\ f[m - 1] \in T
      BY <2>2, <2>3, <3>1
    <3> QED
      BY <3>1, <3>2
  <2>5. ASSUME NEW n \in m + 1 .. N, n - 1 \in P PROVE n \in P
    <3>1. n \in 1 .. N /\ n - 1 \in 0 .. N /\ f[n - 1] \in U
      BY <2>1, <2>5
    <3>2. f[n] = ReplaceVar(f[n - 1], order[n], vars[order[n]]) /\ f[n - 1] \in T \cap U
      BY <2>3, <3>1
    <3> QED
      BY <2>1, <3>1, <3>2
  <2> HIDE DEF P
  <2>6. \A n \in m .. N : n \in P
    BY <2>1, <2>4, <2>5, Induct DEF P
  <2>7. f[N] \in U
    BY <2>1, <2>6 DEF P
  <2> QED
    BY <2>3, <2>7
<1> QED
  BY <1>2 DEF Substitutions

----------------------------------------------------------------------------
(* How many times p is among the first i pieces of s. *)
Times(s, p, i) == Cardinality({j \in 1 .. i : s[j] = p})

LEMMA PartOfInterval ==
    ASSUME NEW n \in Nat, NEW A \in SUBSET (1 .. n)
    PROVE  IsFiniteSet(A) /\ Cardinality(A) \in Nat
<1>1. IsFiniteSet(1 .. n)
  BY FS_Interval
<1>2. IsFiniteSet(A)
  BY <1>1, FS_Subset
<1> QED
  BY <1>2, FS_CardinalityType

LEMMA TimesTyped ==
    ASSUME NEW s, NEW p, NEW i \in Nat
    PROVE  Times(s, p, i) \in Nat
<1>1. {j \in 1 .. i : s[j] = p} \in SUBSET (1 .. i)
  OBVIOUS
<1> QED
  BY <1>1, PartOfInterval DEF Times

LEMMA TextFacts ==
    ASSUME NEW s \in Texts
    PROVE  /\ Len(s) \in Nat /\ DOMAIN s = 1 .. Len(s)
           /\ \A i \in 1 .. Len(s) : s[i] \in Pieces
  BY LenProperties DEF Texts

LEMMA PieceFacts ==
    ASSUME NEW p \in Pieces
    PROVE  /\ p = <<p[1], p[2]>>
           /\ p[1] \in {"lit", "var", "inc", "dec", "gen"} => p[2] \in STRING
           /\ p[1] \in {"int", "float", "fresh"} => p[2] \in Int
  BY DEF Pieces

LEMMA IntTexts ==
    ASSUME NEW n \in Int
    PROVE  /\ <<"int", n>> \in Pieces
           /\ Int64(n) \in Texts /\ IsInt(Int64(n)) /\ Int64(n)[1][2] = n
<1>1. <<"int", n>> \in Pieces
  BY DEF Pieces
<1> QED
  BY <1>1 DEF Texts, Int64, IsInt

LEMMA CurrentTyped ==
    ASSUME NEW v, IsTexts(v), NEW x, Counts(v, x)
    PROVE  Current(v, x) \in Int
<1>1. CASE x \notin DOMAIN v
  BY <1>1 DEF Current
<1>2. CASE x \in DOMAIN v
  <2>1. v[x] \in Texts /\ Len(v[x]) = 1 /\ v[x][1][1] = "int"
    BY <1>2 DEF Counts, IsInt, IsTexts, IsTable
  <2>2. v[x][1] \in Pieces
    BY <2>1, TextFacts
  <2> QED
    BY <1>2, <2>1, <2>2, PieceFacts DEF Current
<1> QED
  BY <1>1, <1>2

(* What a pass makes of a piece, and of a variable. *)
LEMMA IncrementedPiece ==
    ASSUME NEW s \in Texts, NEW v, NEW op, NEW delta, NEW i \in 1 .. Len(s)
    PROVE  ReplaceIncrements(s, v, op, delta).text[i] =
              IF s[i][1] = op /\ Counts(v, s[i][2])
              THEN <<"int", Current(v, s[i][2]) + delta * Times(s, <<op, s[i][2]>>, i)>> ELSE s[i]
<1>1. DOMAIN s = 1 .. Len(s)
  BY TextFacts
<1> QED
  BY <1>1 DEF ReplaceIncrements, Times

CountedIn(s, v, op) == {s[i][2] : i \in {j \in DOMAIN s : s[j][1] = op /\ Counts(v, s[j][2])}}

LEMMA CountedFacts ==
    ASSUME NEW s \in Texts, NEW v, NEW op \in {"inc", "dec"}, NEW x \in CountedIn(s, v, op)
    PROVE  x \in STRING /\ Counts(v, x) /\ <<op, x>> \in Range(s)
<1>1. PICK i \in DOMAIN s : s[i][1] = op /\ Counts(v, s[i][2]) /\ x = s[i][2]
  BY DEF CountedIn
<1>2. s[i] \in Pieces
  BY TextFacts
<1>3. s[i] = <<op, x>> /\ x \in STRING
  BY <1>1, <1>2, PieceFacts
<1> QED
  BY <1>1, <1>3 DEF Range

LEMMA CountedFinite ==
    ASSUME NEW s \in Texts, NEW v, NEW op
    PROVE  IsFiniteSet(CountedIn(s, v, op))
<1> DEFINE D == {j \in DOMAIN s : s[j][1] = op /\ Counts(v, s[j][2])}
           f == [j \in D |-> s[j][2]]
<1>1. IsFiniteSet(D)
  <2>1. Len(s) \in Nat /\ D \in SUBSET (1 .. Len(s))
    BY TextFacts
  <2> QED
    BY <2>1, PartOfInterval
<1>2. f \in Surjection(D, CountedIn(s, v, op))
  BY DEF Surjection, CountedIn
<1> QED
  BY <1>1, <1>2, FS_Surjection

(* A pass over the increments, or over the decrements. *)
LEMMA PassText ==
    ASSUME NEW s \in Texts, NEW v, IsTexts(v), NEW op \in {"inc", "dec"}, NEW delta \in {1, -1},
           NEW t, t = ReplaceIncrements(s, v, op, delta).text
    PROVE  /\ t \in Texts /\ Len(t) = Len(s)
           /\ \A i \in 1 .. Len(s) : t[i] = s[i] \/ (s[i][1] = op /\ t[i][1] = "int")
<1>1. Len(s) \in Nat /\ DOMAIN s = 1 .. Len(s) /\ DOMAIN t = 1 .. Len(s)
  BY TextFacts DEF ReplaceIncrements
<1>2. ASSUME NEW i \in 1 .. Len(s)
      PROVE  t[i] \in Pieces /\ (t[i] = s[i] \/ (s[i][1] = op /\ t[i][1] = "int"))
  <2>0. ReplaceIncrements(s, v, op, delta).text[i] =
            IF s[i][1] = op /\ Counts(v, s[i][2])
            THEN <<"int", Current(v, s[i][2]) + delta * Times(s, <<op, s[i][2]>>, i)>> ELSE s[i]
    BY IncrementedPiece, SMTT(30)
  <2>1. CASE s[i][1] = op /\ Counts(v, s[i][2])
    <3> DEFINE c == Current(v, s[i][2])
               n == Times(s, <<op, s[i][2]>>, i)
    <3>1. t[i] = <<"int", c + delta * n>>
      BY <2>0, <2>1, Zenon
    <3>2. c \in Int /\ n \in Nat
      BY <2>1, <1>1, CurrentTyped, TimesTyped
    <3> HIDE DEF c, n
    <3>3. c + delta * n \in Int
      BY <3>2
    <3>4. t[i] \in Pieces
      BY <3>1, <3>3, IntTexts
    <3> QED
      BY <2>1, <3>1, <3>4
  <2>2. CASE ~(s[i][1] = op /\ Counts(v, s[i][2]))
    <3>1. t[i] = s[i]
      BY <2>0, <2>2, Zenon
    <3> QED
      BY <3>1, TextFacts
  <2> QED
    BY <2>1, <2>2
<1>3. t = [i \in 1 .. Len(s) |-> t[i]]
  BY <1>1 DEF ReplaceIncrements
<1>4. t \in [1 .. Len(s) -> Pieces]
  BY <1>2, <1>3
<1> QED
  BY <1>1, <1>2, <1>4, IsSequence DEF Texts

LEMMA PassVars ==
    ASSUME NEW s \in Texts, NEW v, IsTexts(v), NEW op \in {"inc", "dec"}, NEW delta \in {1, -1},
           NEW w, w = ReplaceIncrements(s, v, op, delta).vars
    PROVE  /\ IsTexts(w) /\ DOMAIN v \subseteq DOMAIN w
           /\ \A x \in DOMAIN w :
                 (x \in DOMAIN v /\ w[x] = v[x]) \/ (Counts(v, x) /\ IsInt(w[x]) /\ <<op, x>> \in Range(s))
           /\ \A x : Counts(v, x) =>
                 Counts(w, x) /\ (delta = 1 => Current(w, x) >= Current(v, x))
<1> DEFINE C == CountedIn(s, v, op)
           New(x) == Current(v, x) + delta * Times(s, <<op, x>>, Len(s))
<1>1. w = [x \in DOMAIN v \cup C |-> IF x \in C THEN Int64(New(x)) ELSE v[x]]
  BY DEF ReplaceIncrements, Times, CountedIn
<1>2. ASSUME NEW x \in C
      PROVE  /\ x \in STRING /\ Counts(v, x) /\ <<op, x>> \in Range(s)
             /\ New(x) \in Int /\ (delta = 1 => New(x) >= Current(v, x))
             /\ Int64(New(x)) \in Texts /\ IsInt(Int64(New(x))) /\ Int64(New(x))[1][2] = New(x)
  <2>1. x \in STRING /\ Counts(v, x) /\ <<op, x>> \in Range(s)
    BY CountedFacts
  <2> DEFINE c == Current(v, x)
             n == Times(s, <<op, x>>, Len(s))
  <2>2. c \in Int /\ n \in Nat
    BY <2>1, CurrentTyped, TimesTyped, TextFacts
  <2> HIDE DEF c, n
  <2>3. c + delta * n \in Int /\ (delta = 1 => c + delta * n >= c)
    BY <2>2
  <2>4. New(x) \in Int /\ (delta = 1 => New(x) >= Current(v, x))
    BY <2>3 DEF c, n
  <2> HIDE DEF New
  <2> QED
    BY <2>1, <2>4, IntTexts
<1>3. IsFiniteSet(C) /\ IsFiniteSet(DOMAIN v \cup C)
  BY CountedFinite, FS_Union DEF IsTexts
<1> HIDE DEF C, New
<1>4. DOMAIN w = DOMAIN v \cup C /\ \A x \in DOMAIN w : w[x] = IF x \in C THEN Int64(New(x)) ELSE v[x]
  BY <1>1
<1>5. DOMAIN v \subseteq STRING /\ \A x \in DOMAIN v : v[x] \in Texts
  BY DEF IsTexts, IsTable
<1>6. IsTexts(w)
  <2>1. DOMAIN w \subseteq STRING
    BY <1>2, <1>4, <1>5
  <2>2. \A x \in DOMAIN w : w[x] \in Texts
    BY <1>2, <1>4, <1>5
  <2>3. w \in [DOMAIN w -> Texts]
    BY <1>1, <2>2
  <2> QED
    BY <1>3, <1>4, <2>1, <2>3 DEF IsTexts, IsTable
<1>7. \A x \in DOMAIN w :
                 (x \in DOMAIN v /\ w[x] = v[x]) \/ (Counts(v, x) /\ IsInt(w[x]) /\ <<op, x>> \in Range(s))
  BY <1>2, <1>4
<1>8. ASSUME NEW x, Counts(v, x)
      PROVE  Counts(w, x) /\ (delta = 1 => Current(w, x) >= Current(v, x))
  <2>1. CASE x \in C
    BY <2>1, <1>2, <1>4 DEF Counts, Current
  <2>2. CASE x \notin C
    <3>1. Counts(w, x) /\ Current(w, x) = Current(v, x)
      BY <2>2, <1>4, <1>8 DEF Counts, Current
    <3>2. Current(v, x) \in Int
      BY <1>8, CurrentTyped
    <3> QED
      BY <3>1, <3>2
  <2> QED
    BY <2>1, <2>2
<1> QED
  BY <1>4, <1>6, <1>7, <1>8

LEMMA PassNothing ==
    ASSUME NEW s \in Texts, NEW v, IsTexts(v), NEW op \in {"inc", "dec"}, NEW delta \in {1, -1},
           \A i \in 1 .. Len(s) : s[i][1] # op
    PROVE  /\ ReplaceIncrements(s, v, op, delta).text = s
           /\ ReplaceIncrements(s, v, op, delta).vars = v
<1> DEFINE t == ReplaceIncrements(s, v, op, delta).text
           w == ReplaceIncrements(s, v, op, delta).vars
<1>1. /\ t \in Texts /\ Len(t) = Len(s)
      /\ \A i \in 1 .. Len(s) : t[i] = s[i] \/ (s[i][1] = op /\ t[i][1] = "int")
  BY PassText
<1>2. /\ IsTexts(w) /\ DOMAIN v \subseteq DOMAIN w
      /\ \A x \in DOMAIN w :
            (x \in DOMAIN v /\ w[x] = v[x]) \/ (Counts(v, x) /\ IsInt(w[x]) /\ <<op, x>> \in Range(s))
  BY PassVars
<1> HIDE DEF t, w
<1>3. \A x : <<op, x>> \notin Range(s)
  BY TextFacts DEF Range
<1>4. DOMAIN w = DOMAIN v /\ \A x \in DOMAIN v : w[x] = v[x]
  BY <1>2, <1>3
<1>5. w = v
  BY <1>2, <1>4 DEF IsTexts, IsTable
<1>6. t = s
  BY <1>1, SeqEqual DEF Texts
<1> QED
  BY <1>5, <1>6 DEF t, w

(* A text with numbers for some of its increments and decrements. *)
Numbered(s, t) ==
    /\ t \in Texts /\ Len(t) = Len(s)
    /\ \A i \in 1 .. Len(s) : t[i] = s[i] \/ (s[i][1] \in {"inc", "dec"} /\ t[i][1] = "int")

(* Both passes: a text gets numbers for increments and decrements, and the *)
(* only variables that change are those it counts, which are numbers then. *)
LEMMA ResolvedIncrements ==
    ASSUME NEW s \in Texts, NEW v, IsTexts(v), NEW r, r = ResolveIncrements(s, v)
    PROVE  /\ Numbered(s, r.text)
           /\ IsTexts(r.vars) /\ DOMAIN v \subseteq DOMAIN r.vars
           /\ \A x \in DOMAIN r.vars :
                 \/ x \in DOMAIN v /\ r.vars[x] = v[x]
                 \/ Counts(v, x) /\ IsInt(r.vars[x]) /\ {<<"inc", x>>, <<"dec", x>>} \cap Range(s) # {}
           /\ \A x : Counts(v, x) =>
                 /\ Counts(r.vars, x)
                 /\ <<"dec", x>> \notin Range(s) => Current(r.vars, x) >= Current(v, x)
<1> DEFINE t1 == ReplaceIncrements(s, v, "inc", 1).text
           v1 == ReplaceIncrements(s, v, "inc", 1).vars
           t2 == ReplaceIncrements(t1, v1, "dec", -1).text
           v2 == ReplaceIncrements(t1, v1, "dec", -1).vars
<1>1. r.text = t2 /\ r.vars = v2
  BY DEF ResolveIncrements
<1>2. /\ t1 \in Texts /\ Len(t1) = Len(s)
      /\ \A i \in 1 .. Len(s) : t1[i] = s[i] \/ (s[i][1] = "inc" /\ t1[i][1] = "int")
  BY PassText
<1>3. /\ IsTexts(v1) /\ DOMAIN v \subseteq DOMAIN v1
      /\ \A x \in DOMAIN v1 :
            (x \in DOMAIN v /\ v1[x] = v[x]) \/ (Counts(v, x) /\ IsInt(v1[x]) /\ <<"inc", x>> \in Range(s))
      /\ \A x : Counts(v, x) => Counts(v1, x) /\ Current(v1, x) >= Current(v, x)
  BY PassVars
<1> HIDE DEF t1, v1
<1>4. /\ t2 \in Texts /\ Len(t2) = Len(t1)
      /\ \A i \in 1 .. Len(t1) : t2[i] = t1[i] \/ (t1[i][1] = "dec" /\ t2[i][1] = "int")
  BY <1>2, <1>3, PassText
<1>5. /\ IsTexts(v2) /\ DOMAIN v1 \subseteq DOMAIN v2
      /\ \A x \in DOMAIN v2 :
            (x \in DOMAIN v1 /\ v2[x] = v1[x]) \/ (Counts(v1, x) /\ IsInt(v2[x]) /\ <<"dec", x>> \in Range(t1))
      /\ \A x : Counts(v1, x) => Counts(v2, x)
  BY <1>2, <1>3, PassVars
<1> HIDE DEF t2, v2
<1>6. \A x : <<"dec", x>> \in Range(t1) => <<"dec", x>> \in Range(s)
  <2> SUFFICES ASSUME NEW x, <<"dec", x>> \in Range(t1) PROVE <<"dec", x>> \in Range(s)
    OBVIOUS
  <2>1. DOMAIN t1 = 1 .. Len(s) /\ DOMAIN s = 1 .. Len(s)
    BY <1>2, TextFacts
  <2>2. PICK i \in 1 .. Len(s) : t1[i] = <<"dec", x>>
    BY <2>1 DEF Range
  <2>3. s[i] = <<"dec", x>>
    BY <1>2, <2>2
  <2> QED
    BY <2>1, <2>3 DEF Range
<1>7. \A i \in 1 .. Len(s) : t2[i] = s[i] \/ (s[i][1] \in {"inc", "dec"} /\ t2[i][1] = "int")
  BY <1>2, <1>4
<1>8. \A x : Counts(v1, x) => Counts(v, x)
  BY <1>3 DEF Counts
<1>9. \A x \in DOMAIN v2 :
         \/ x \in DOMAIN v /\ v2[x] = v[x]
         \/ Counts(v, x) /\ IsInt(v2[x]) /\ {<<"inc", x>>, <<"dec", x>>} \cap Range(s) # {}
  <2> SUFFICES ASSUME NEW x \in DOMAIN v2
               PROVE  \/ x \in DOMAIN v /\ v2[x] = v[x]
                      \/ Counts(v, x) /\ IsInt(v2[x]) /\ (<<"inc", x>> \in Range(s) \/ <<"dec", x>> \in Range(s))
    OBVIOUS
  <2>1. CASE x \in DOMAIN v1 /\ v2[x] = v1[x]
    BY <2>1, <1>3
  <2>2. CASE Counts(v1, x) /\ IsInt(v2[x]) /\ <<"dec", x>> \in Range(t1)
    BY <2>2, <1>6, <1>8
  <2> QED
    BY <2>1, <2>2, <1>5
<1>10. ASSUME NEW x, Counts(v, x), <<"dec", x>> \notin Range(s)
       PROVE  Current(v2, x) >= Current(v, x)
  <2>1. Current(v2, x) = Current(v1, x)
    BY <1>5, <1>6, <1>10 DEF Current
  <2> QED
    BY <2>1, <1>3, <1>10
<1>11. Numbered(s, t2)
  BY <1>2, <1>4, <1>7 DEF Numbered
<1> QED
  BY <1>1, <1>3, <1>5, <1>9, <1>10, <1>11

(* A text that is one increment of a variable that counts. *)
LEMMA ResolvedCounter ==
    ASSUME NEW v, IsTexts(v), NEW x \in STRING, Counts(v, x), NEW r, r = ResolveIncrements(Inc(x), v)
    PROVE  /\ Current(v, x) \in Int
           /\ r.text = Int64(Current(v, x) + 1)
           /\ x \in DOMAIN r.vars /\ r.vars[x] = Int64(Current(v, x) + 1)
<1> DEFINE s == Inc(x)
           c == Current(v, x) + 1
           up == ReplaceIncrements(s, v, "inc", 1)
<1>0. Current(v, x) \in Int
  BY CurrentTyped
<1>1. Current(v, x) \in Int /\ c \in Int
  <2>1. \A n \in Int : n + 1 \in Int
    OBVIOUS
  <2> QED
    BY <1>0, <2>1, Zenon
<1>2. s \in Texts /\ Len(s) = 1 /\ s[1] = <<"inc", x>> /\ DOMAIN s = 1 .. 1
  BY DEF Inc, Texts, Pieces
<1>3. Times(s, <<"inc", x>>, 1) = 1
  <2>1. {j \in 1 .. 1 : s[j] = <<"inc", x>>} = {1}
    BY <1>2
  <2> QED
    BY <2>1, FS_Singleton DEF Times
<1> HIDE DEF s
<1>4. up.text = [i \in 1 .. 1 |-> <<"int", c>>]
  <2>1. \A i \in 1 .. 1 : up.text[i] = <<"int", c>>
    <3>1. Len(s) = 1 /\ 1 \in 1 .. Len(s) /\ s[1][1] = "inc" /\ s[1][2] = x
      BY <1>2
    <3>2. up.text[1] = <<"int", Current(v, x) + 1 * Times(s, <<"inc", x>>, 1)>>
      <4> HIDE DEF c
      <4>1. up.text = [i \in DOMAIN s |->
                          IF s[i][1] = "inc" /\ Counts(v, s[i][2])
                          THEN <<"int", Current(v, s[i][2]) + 1 * Times(s, <<"inc", s[i][2]>>, i)>> ELSE s[i]]
        BY DEF ReplaceIncrements, Times
      <4> HIDE DEF up
      <4> QED
        BY <1>2, <3>1, <4>1
    <3>3. Current(v, x) + 1 * Times(s, <<"inc", x>>, 1) = c
      BY <1>0, <1>3
    <3> QED
      BY <3>2, <3>3
  <2>2. up.text = [i \in 1 .. 1 |-> up.text[i]]
    BY <1>2 DEF ReplaceIncrements
  <2> QED
    BY <2>1, <2>2
<1>5. up.text = Int64(c)
  BY <1>4 DEF Int64
<1>6. x \in DOMAIN up.vars /\ up.vars[x] = Int64(c)
  <2>1. x \in CountedIn(s, v, "inc")
    BY <1>2 DEF CountedIn
  <2>2. up.vars = [y \in DOMAIN v \cup CountedIn(s, v, "inc") |->
                      IF y \in CountedIn(s, v, "inc")
                      THEN Int64(Current(v, y) + 1 * Times(s, <<"inc", y>>, Len(s))) ELSE v[y]]
    BY DEF ReplaceIncrements, Times, CountedIn
  <2>3. Current(v, x) + 1 * Times(s, <<"inc", x>>, Len(s)) = c
    BY <1>1, <1>2, <1>3
  <2> QED
    BY <2>1, <2>2, <2>3
<1>7. IsTexts(up.vars)
  BY <1>2, PassVars
<1> HIDE DEF up, c
<1>8. Int64(c) \in Texts /\ \A i \in 1 .. Len(Int64(c)) : Int64(c)[i][1] # "dec"
  BY <1>1, IntTexts DEF Int64
<1>9. /\ ReplaceIncrements(up.text, up.vars, "dec", -1).text = up.text
      /\ ReplaceIncrements(up.text, up.vars, "dec", -1).vars = up.vars
  BY <1>5, <1>7, <1>8, PassNothing
<1>10. r = ReplaceIncrements(up.text, up.vars, "dec", -1)
  BY DEF ResolveIncrements, up, s
<1> QED
  BY <1>1, <1>5, <1>6, <1>9, <1>10 DEF c

LEMMA ResolvedNothing ==
    ASSUME NEW s \in Texts, NEW v, IsTexts(v),
           \A i \in 1 .. Len(s) : s[i][1] \notin {"inc", "dec"}
    PROVE  ResolveIncrements(s, v).text = s /\ ResolveIncrements(s, v).vars = v
  BY PassNothing DEF ResolveIncrements


----------------------------------------------------------------------------
Generators == {<<"gen", "uuid()">>, <<"gen", "randomInt(6)">>}

LEMMA GeneratedText ==
    ASSUME NEW s \in Texts, NEW fresh \in Nat \ {0}, NEW g \in ResolveGenerators(s, fresh)
    PROVE  /\ g.text \in Texts /\ Len(g.text) = Len(s)
           /\ \A i \in 1 .. Len(s) :
                 g.text[i] = s[i] \/ (s[i] \in Generators /\ g.text[i][1] \in {"fresh", "int"})
           /\ \A i \in 1 .. Len(s) : g.text[i] \notin Generators
           /\ g.fresh \in Nat \ {0}
<1> DEFINE U == {i \in DOMAIN s : s[i] = <<"gen", "uuid()">>}
           R == {i \in DOMAIN s : s[i] = <<"gen", "randomInt(6)">>}
           Before(i) == {j \in U : j < i}
<1>1. PICK random \in [R -> RandomInts] :
         /\ g.text = [i \in DOMAIN s |->
                         IF i \in U THEN <<"fresh", fresh + Cardinality(Before(i))>>
                         ELSE IF i \in R THEN <<"int", random[i]>> ELSE s[i]]
         /\ g.fresh = fresh + Cardinality(U)
  <2>1. PICK random \in [R -> RandomInts] :
           g = [text |-> [i \in DOMAIN s |->
                             IF i \in U THEN <<"fresh", fresh + Cardinality(Before(i))>>
                             ELSE IF i \in R THEN <<"int", random[i]>> ELSE s[i]],
                fresh |-> fresh + Cardinality(U)]
    BY Zenon DEF ResolveGenerators
  <2> HIDE DEF R, U, Before
  <2> QED
    BY <2>1
<1>2. Len(s) \in Nat /\ DOMAIN s = 1 .. Len(s) /\ \A i \in 1 .. Len(s) : s[i] \in Pieces
  BY TextFacts
<1>3. Cardinality(U) \in Nat
  <2>1. U \in SUBSET (1 .. Len(s))
    BY <1>2
  <2> QED
    BY <1>2, <2>1, PartOfInterval
<1>4. \A i : Cardinality(Before(i)) \in Nat
  <2>1. \A i : Before(i) \in SUBSET (1 .. Len(s))
    BY <1>2
  <2> QED
    BY <1>2, <2>1, PartOfInterval
<1>5. ASSUME NEW i \in 1 .. Len(s)
      PROVE  /\ g.text[i] \in Pieces /\ g.text[i] \notin Generators
             /\ g.text[i] = s[i] \/ (s[i] \in Generators /\ g.text[i][1] \in {"fresh", "int"})
  <2>1. CASE i \in U
    <3>1. g.text[i] = <<"fresh", fresh + Cardinality(Before(i))>>
      BY <1>1, <1>2, <2>1
    <3> DEFINE c == Cardinality(Before(i))
    <3>2. c \in Nat
      BY <1>4
    <3> HIDE DEF c
    <3>3. fresh + c \in Int
      BY <3>2
    <3>4. g.text[i] = <<"fresh", fresh + c>> /\ s[i] \in Generators
      BY <2>1, <3>1 DEF c, Generators
    <3> HIDE DEF U, R, Before
    <3> QED
      BY <3>3, <3>4 DEF Pieces, Generators
  <2>2. CASE i \notin U /\ i \in R
    <3>1. g.text[i] = <<"int", random[i]>> /\ random[i] \in Int
      BY <1>1, <1>2, <2>2, RandomAssumption
    <3>2. s[i] \in Generators
      BY <2>2 DEF Generators
    <3> HIDE DEF U, R, Before
    <3> QED
      BY <3>1, <3>2 DEF Pieces, Generators
  <2>3. CASE i \notin U /\ i \notin R
    <3>1. g.text[i] = s[i] /\ s[i] \notin Generators
      BY <1>1, <1>2, <2>3 DEF Generators
    <3> QED
      BY <1>2, <3>1
  <2> QED
    BY <2>1, <2>2, <2>3
<1>6. g.fresh \in Nat \ {0}
  BY <1>1, <1>3
<1>7. g.text = [i \in 1 .. Len(s) |-> g.text[i]]
  BY <1>1, <1>2
<1> HIDE DEF U, R, Before
<1>8. g.text \in [1 .. Len(s) -> Pieces]
  BY <1>5, <1>7
<1>9. g.text \in Seq(Pieces) /\ Len(g.text) = Len(s)
  BY <1>2, <1>8, IsSequence
<1> QED
  BY <1>5, <1>6, <1>9 DEF Texts

----------------------------------------------------------------------------
(* The environments a run can have, as a set. *)
Maps == {f \in UNION {[D -> Texts] : D \in SUBSET STRING} : IsFiniteSet(DOMAIN f)}

Envs == [vars : Maps, fresh : Nat \ {0}]

LEMMA MapFacts ==
    ASSUME NEW f
    PROVE  f \in Maps <=> IsTexts(f)
  BY DEF Maps, IsTexts, IsTable

(* Substitution keeps to texts. *)
LEMMA SubstitutionsTyped ==
    ASSUME NEW s \in Texts, NEW v, IsTexts(v)
    PROVE  Substitutions(s, v) \subseteq Texts
<1>1. ASSUME NEW k \in DOMAIN v, NEW t \in Texts PROVE ReplaceVar(t, k, v[k]) \in Texts
  <2>1. k \in STRING /\ v[k] \in Seq(Pieces)
    BY DEF IsTexts, IsTable, Texts
  <2>2. Pieces \cup {<<"var", k>>} = Pieces
    BY <2>1 DEF Pieces
  <2>3. t \in Seq(Pieces \cup {<<"var", k>>})
    BY <2>2 DEF Texts
  <2> QED
    BY <2>1, <2>3, ReplaceVarTyped DEF Texts
<1> QED
  BY <1>1, SubstitutionsStay DEF IsTexts

(* The steps of ReplaceString. *)
LEMMA Replaced ==
    ASSUME NEW s \in Texts, NEW e \in Envs, NEW y \in ReplaceString(s, e), NEW i,
           i = ResolveIncrements(s, e.vars)
    PROVE  /\ IsTexts(e.vars) /\ e.fresh \in Nat \ {0}
           /\ \E t \in Substitutions(i.text, i.vars) :
                 \E g \in ResolveGenerators(t, e.fresh) :
                    y.text = g.text /\ y.env = [vars |-> i.vars, fresh |-> g.fresh] /\ t \in Texts
<1>1. IsTexts(e.vars) /\ e.fresh \in Nat \ {0}
  BY MapFacts DEF Envs
<1>2. PICK t \in Substitutions(i.text, i.vars) : \E g \in ResolveGenerators(t, e.fresh) :
         y.text = g.text /\ y.env = [vars |-> i.vars, fresh |-> g.fresh]
  BY DEF ReplaceString
<1>3. i.text \in Texts /\ IsTexts(i.vars)
  BY <1>1, ResolvedIncrements DEF Numbered
<1>4. t \in Texts
  BY <1>2, <1>3, SubstitutionsTyped
<1> QED
  BY <1>1, <1>2, <1>4


----------------------------------------------------------------------------
Occurs(S, op, x) == \E s \in S : <<op, x>> \in Range(s)

(* What the variables v may have become when the texts S were resolved:    *)
(* only counters of S changed or appeared, they are numbers, and they only *)
(* went down where S has a decrement.                                      *)
Follows(v, w, S) ==
    /\ DOMAIN v \subseteq DOMAIN w
    /\ \A x \in DOMAIN w :
          \/ x \in DOMAIN v /\ w[x] = v[x]
          \/ Counts(v, x) /\ IsInt(w[x]) /\ (Occurs(S, "inc", x) \/ Occurs(S, "dec", x))
    /\ \A x : Counts(v, x) =>
          Counts(w, x) /\ (~Occurs(S, "dec", x) => Current(w, x) >= Current(v, x))

LEMMA FollowsSelf ==
    ASSUME NEW v, IsTexts(v), NEW S
    PROVE  Follows(v, v, S)
<1>1. \A x : Counts(v, x) => Current(v, x) \in Int
  BY CurrentTyped
<1> QED
  BY <1>1 DEF Follows

LEMMA FollowsMore ==
    ASSUME NEW v, NEW w, NEW S, NEW T, S \subseteq T, Follows(v, w, S)
    PROVE  Follows(v, w, T)
<1>1. \A op, x : Occurs(S, op, x) => Occurs(T, op, x)
  BY DEF Occurs
<1> QED
  BY <1>1 DEF Follows

LEMMA FollowsOn ==
    ASSUME NEW u, NEW v, NEW w, NEW S, IsTexts(u), IsTexts(v), IsTexts(w), Follows(u, v, S), Follows(v, w, S)
    PROVE  Follows(u, w, S)
<1>1. \A x : Counts(v, x) => Counts(u, x)
  BY DEF Follows, Counts
<1>2. DOMAIN u \subseteq DOMAIN w
  BY DEF Follows
<1>3. ASSUME NEW x \in DOMAIN w
      PROVE  \/ x \in DOMAIN u /\ w[x] = u[x]
             \/ Counts(u, x) /\ IsInt(w[x]) /\ (Occurs(S, "inc", x) \/ Occurs(S, "dec", x))
  <2>1. CASE x \in DOMAIN v /\ w[x] = v[x]
    BY <2>1 DEF Follows
  <2>2. CASE Counts(v, x) /\ IsInt(w[x]) /\ (Occurs(S, "inc", x) \/ Occurs(S, "dec", x))
    BY <2>2, <1>1
  <2> QED
    BY <2>1, <2>2 DEF Follows
<1>4. ASSUME NEW x, Counts(u, x)
      PROVE  Counts(w, x) /\ (~Occurs(S, "dec", x) => Current(w, x) >= Current(u, x))
  <2>1. Counts(v, x) /\ Counts(w, x)
    BY <1>4 DEF Follows
  <2> DEFINE a == Current(u, x)
             b == Current(v, x)
             c == Current(w, x)
  <2>2. a \in Int /\ b \in Int /\ c \in Int
    BY <1>4, <2>1, CurrentTyped
  <2>3. ~Occurs(S, "dec", x) => b >= a /\ c >= b
    BY <1>4, <2>1 DEF Follows
  <2> HIDE DEF a, b, c
  <2>4. ~Occurs(S, "dec", x) => c >= a
    BY <2>2, <2>3
  <2> QED
    BY <2>1, <2>4 DEF a, b, c
<1> QED
  BY <1>2, <1>3, <1>4 DEF Follows

(* Texts that count nothing change nothing. *)
LEMMA FollowsNothing ==
    ASSUME NEW v, NEW w, IsTexts(v), IsTexts(w), NEW S, Follows(v, w, S),
           \A x : ~Occurs(S, "inc", x) /\ ~Occurs(S, "dec", x)
    PROVE  w = v
<1>1. DOMAIN w = DOMAIN v /\ \A x \in DOMAIN w : w[x] = v[x]
  BY DEF Follows
<1> QED
  BY <1>1 DEF IsTexts, IsTable

LEMMA ResolvedFollows ==
    ASSUME NEW s \in Texts, NEW v, IsTexts(v), NEW r, r = ResolveIncrements(s, v)
    PROVE  IsTexts(r.vars) /\ Follows(v, r.vars, {s})
<1>1. /\ IsTexts(r.vars) /\ DOMAIN v \subseteq DOMAIN r.vars
      /\ \A x \in DOMAIN r.vars :
            \/ x \in DOMAIN v /\ r.vars[x] = v[x]
            \/ Counts(v, x) /\ IsInt(r.vars[x]) /\ {<<"inc", x>>, <<"dec", x>>} \cap Range(s) # {}
      /\ \A x : Counts(v, x) =>
            /\ Counts(r.vars, x)
            /\ <<"dec", x>> \notin Range(s) => Current(r.vars, x) >= Current(v, x)
  BY ResolvedIncrements
<1>2. \A op, x : Occurs({s}, op, x) <=> <<op, x>> \in Range(s)
  BY DEF Occurs
<1> QED
  BY <1>1, <1>2 DEF Follows

(* A replacement changes the variables as its text says. *)
LEMMA ReplacedEnv ==
    ASSUME NEW s \in Texts, NEW e \in Envs, NEW y \in ReplaceString(s, e)
    PROVE  y.text \in Texts /\ y.env \in Envs /\ Follows(e.vars, y.env.vars, {s})
<1> DEFINE i == ResolveIncrements(s, e.vars)
<1>1. IsTexts(e.vars) /\ e.fresh \in Nat \ {0}
  BY Replaced
<1>t. PICK t \in Substitutions(i.text, i.vars) : \E g \in ResolveGenerators(t, e.fresh) :
         y.text = g.text /\ y.env = [vars |-> i.vars, fresh |-> g.fresh] /\ t \in Texts
  BY Replaced
<1>2. PICK g \in ResolveGenerators(t, e.fresh) :
         y.text = g.text /\ y.env = [vars |-> i.vars, fresh |-> g.fresh] /\ t \in Texts
  BY <1>t
<1>3. g.text \in Texts /\ g.fresh \in Nat \ {0}
  BY <1>1, <1>2, GeneratedText
<1>4. IsTexts(i.vars) /\ Follows(e.vars, i.vars, {s})
  BY <1>1, ResolvedFollows
<1> HIDE DEF i
<1>5. y.env \in Envs /\ y.env.vars = i.vars
  BY <1>2, <1>3, <1>4, MapFacts DEF Envs
<1> QED
  BY <1>2, <1>3, <1>4, <1>5


----------------------------------------------------------------------------
(* Texts that a replacement finds nothing more in. *)
Settled(t) == \A i \in 1 .. Len(t) : t[i][1] # "var" /\ t[i] \notin Generators

LEMMA NothingToSubstitute ==
    ASSUME NEW s \in Texts, NEW v, IsTexts(v), \A i \in 1 .. Len(s) : s[i][1] # "var"
    PROVE  Substitutions(s, v) \subseteq {s}
<1>1. ASSUME NEW k \in DOMAIN v, NEW t \in {s} PROVE ReplaceVar(t, k, v[k]) \in {s}
  <2>1. \A i \in 1 .. Len(s) : s[i] # <<"var", k>>
    OBVIOUS
  <2> QED
    BY <2>1, ReplaceVarNothing DEF Texts
<1> QED
  BY <1>1, SubstitutionsStay DEF IsTexts

LEMMA NothingToGenerate ==
    ASSUME NEW s \in Texts, NEW fresh \in Nat \ {0}, NEW g \in ResolveGenerators(s, fresh),
           \A i \in 1 .. Len(s) : s[i] \notin Generators
    PROVE  g.text = s
<1>1. /\ g.text \in Texts /\ Len(g.text) = Len(s)
      /\ \A i \in 1 .. Len(s) : g.text[i] = s[i]
  BY GeneratedText
<1> QED
  BY <1>1, SeqEqual DEF Texts

(* An increment alone: the next number, in the text and in the variables,  *)
(* or the placeholder itself.                                              *)
LEMMA ReplacedCounter ==
    ASSUME NEW x \in STRING, NEW e \in Envs, NEW y \in ReplaceString(Inc(x), e)
    PROVE  /\ Counts(e.vars, x) =>
                 /\ Current(e.vars, x) \in Int
                 /\ y.text = Int64(Current(e.vars, x) + 1)
                 /\ x \in DOMAIN y.env.vars /\ y.env.vars[x] = Int64(Current(e.vars, x) + 1)
           /\ ~Counts(e.vars, x) => y.text = Inc(x)
<1> DEFINE s == Inc(x)
           i == ResolveIncrements(s, e.vars)
<1>0. s \in Texts /\ Len(s) = 1 /\ s[1] = <<"inc", x>>
  BY DEF Inc, Texts, Pieces
<1>1. IsTexts(e.vars) /\ e.fresh \in Nat \ {0}
  BY <1>0, Replaced
<1>t. PICK t \in Substitutions(i.text, i.vars) : \E g \in ResolveGenerators(t, e.fresh) :
         y.text = g.text /\ y.env = [vars |-> i.vars, fresh |-> g.fresh] /\ t \in Texts
  BY <1>0, Replaced
<1>2. PICK g \in ResolveGenerators(t, e.fresh) :
         y.text = g.text /\ y.env = [vars |-> i.vars, fresh |-> g.fresh] /\ t \in Texts
  BY <1>t
<1>3. /\ i.text \in Texts /\ Len(i.text) = 1 /\ IsTexts(i.vars)
      /\ i.text[1][1] \in {"inc", "int"}
  <2>1. Numbered(s, i.text) /\ IsTexts(i.vars)
    BY <1>0, <1>1, ResolvedIncrements
  <2> HIDE DEF i, s
  <2> QED
    BY <1>0, <2>1 DEF Numbered
<1>4. t = i.text
  <2> HIDE DEF i
  <2> QED
    BY <1>3, <1>t, NothingToSubstitute
<1>5. y.text = i.text
  <2> HIDE DEF i
  <2>1. \A n \in 1 .. Len(t) : t[n] \notin Generators
    BY <1>3, <1>4 DEF Generators
  <2> QED
    BY <1>1, <1>2, <1>4, <2>1, NothingToGenerate
<1>6. CASE Counts(e.vars, x)
  <2>1. /\ Current(e.vars, x) \in Int
        /\ i.text = Int64(Current(e.vars, x) + 1)
        /\ x \in DOMAIN i.vars /\ i.vars[x] = Int64(Current(e.vars, x) + 1)
    BY <1>1, <1>6, ResolvedCounter
  <2> HIDE DEF i
  <2> QED
    BY <1>2, <1>5, <1>6, <2>1
<1>7. CASE ~Counts(e.vars, x)
  <2> DEFINE t1 == ReplaceIncrements(s, e.vars, "inc", 1).text
             v1 == ReplaceIncrements(s, e.vars, "inc", 1).vars
  <2>1. t1 = s
    <3>1. t1 \in Texts /\ Len(t1) = Len(s)
      BY <1>0, <1>1, PassText
    <3>2. t1[1] = s[1]
      <4>1. DOMAIN s = 1 .. 1
        BY DEF Inc
      <4> HIDE DEF s
      <4> QED
        BY <1>0, <4>1, <1>7 DEF ReplaceIncrements
    <3> HIDE DEF s, t1
    <3> QED
      BY <1>0, <3>1, <3>2, SeqEqual DEF Texts
  <2>2. IsTexts(v1)
    BY <1>0, <1>1, PassVars
  <2>3. \A n \in 1 .. Len(s) : s[n][1] # "dec"
    BY <1>0
  <2>4. ReplaceIncrements(t1, v1, "dec", -1).text = s
    <3> HIDE DEF s, t1, v1
    <3> QED
      BY <1>0, <2>1, <2>2, <2>3, PassNothing
  <2>5. i.text = ReplaceIncrements(t1, v1, "dec", -1).text
    BY DEF ResolveIncrements
  <2> HIDE DEF i
  <2> QED
    BY <1>5, <1>7, <2>4, <2>5
<1> QED
  BY <1>6, <1>7


(* A variable alone whose value is settled: that value. *)
LEMMA ReplacedWhole ==
    ASSUME NEW e \in Envs, NEW x \in DOMAIN e.vars, Settled(e.vars[x]), NEW y \in ReplaceString(Var(x), e)
    PROVE  y.text = e.vars[x]
<1> DEFINE s == Var(x)
           v == e.vars
           i == ResolveIncrements(s, v)
<1>1. IsTexts(v) /\ e.fresh \in Nat \ {0}
  BY MapFacts DEF Envs
<1>2. x \in STRING /\ v[x] \in Texts /\ IsFiniteSet(DOMAIN v)
  BY <1>1 DEF IsTexts, IsTable
<1>3. s \in Texts /\ Len(s) = 1 /\ s[1] = <<"var", x>> /\ DOMAIN s = 1 .. 1
  BY <1>2 DEF Var, Texts, Pieces
<1>4. i.text = s /\ i.vars = v
  <2> HIDE DEF s, v
  <2>1. \A n \in 1 .. Len(s) : s[n][1] \notin {"inc", "dec"}
    BY <1>3
  <2> QED
    BY <1>1, <1>3, <2>1, ResolvedNothing
<1>5. PICK t \in Substitutions(i.text, i.vars) : \E g \in ResolveGenerators(t, e.fresh) :
         y.text = g.text /\ y.env = [vars |-> i.vars, fresh |-> g.fresh] /\ t \in Texts
  BY <1>3, Replaced
<1>6. PICK g \in ResolveGenerators(t, e.fresh) : y.text = g.text
  BY <1>5
<1>7. t = v[x]
  <2> DEFINE T == {s, v[x]}
             U == {v[x]}
  <2>1. x \in Mentioned(s, v)
    <3>1. <<"var", x>> \in Range(s)
      BY <1>3 DEF Range
    <3> QED
      BY <3>1 DEF Mentioned
  <2>2. \A k : ReplaceVar(v[x], k, v[k]) = v[x]
    <3>1. \A n \in 1 .. Len(v[x]) : \A k : v[x][n] # <<"var", k>>
      BY DEF Settled
    <3> QED
      BY <1>2, <3>1, ReplaceVarNothing, ZenonT(60) DEF Texts
  <2>3. ReplaceVar(s, x, v[x]) = v[x]
    BY <1>2, ReplaceVarWhole DEF Texts
  <2>4. ASSUME NEW k, k # x PROVE ReplaceVar(s, k, v[k]) = s
    <3>1. \A n \in 1 .. Len(s) : s[n] # <<"var", k>>
      BY <1>3, <2>4
    <3> HIDE DEF s
    <3> QED
      BY <1>3, <3>1, ReplaceVarNothing DEF Texts
  <2> HIDE DEF s, v
  <2>5. \A k \in DOMAIN v : \A u \in T : ReplaceVar(u, k, v[k]) \in T
    BY <2>2, <2>3, <2>4
  <2>6. \A u \in T : ReplaceVar(u, x, v[x]) \in U
    BY <2>2, <2>3
  <2>7. \A k \in DOMAIN v : \A u \in T \cap U : ReplaceVar(u, k, v[k]) \in U
    BY <2>2
  <2>8. s \in T
    OBVIOUS
  <2> HIDE DEF T, U
  <2>9. Substitutions(s, v) \subseteq U
    BY <1>2, <2>1, <2>5, <2>6, <2>7, <2>8, SubstitutionsReach
  <2> QED
    BY <1>4, <1>5, <2>9 DEF U
<1>8. \A n \in 1 .. Len(t) : t[n] \notin Generators
  BY <1>7 DEF Settled
<1> QED
  BY <1>1, <1>2, <1>6, <1>7, <1>8, NothingToGenerate

(* Without a variable in it, what is left of a text is settled. *)
LEMMA ReplacedSettled ==
    ASSUME NEW s \in Texts, NEW e \in Envs, NEW y \in ReplaceString(s, e),
           \A n \in 1 .. Len(s) : s[n][1] # "var"
    PROVE  Settled(y.text)
<1> DEFINE i == ResolveIncrements(s, e.vars)
<1>1. IsTexts(e.vars) /\ e.fresh \in Nat \ {0}
  BY MapFacts DEF Envs
<1>2. Numbered(s, i.text) /\ IsTexts(i.vars)
  BY <1>1, ResolvedIncrements
<1>3. PICK t \in Substitutions(i.text, i.vars) : \E g \in ResolveGenerators(t, e.fresh) :
         y.text = g.text /\ y.env = [vars |-> i.vars, fresh |-> g.fresh] /\ t \in Texts
  BY Replaced, SMTT(30)
<1>4. PICK g \in ResolveGenerators(t, e.fresh) : y.text = g.text
  BY <1>3
<1> HIDE DEF i
<1>5. i.text \in Texts /\ \A n \in 1 .. Len(i.text) : i.text[n][1] # "var"
  BY <1>2 DEF Numbered
<1>6. t = i.text
  BY <1>2, <1>3, <1>5, NothingToSubstitute
<1>7. /\ Len(g.text) = Len(t)
      /\ \A n \in 1 .. Len(t) :
            g.text[n] = t[n] \/ (t[n] \in Generators /\ g.text[n][1] \in {"fresh", "int"})
      /\ \A n \in 1 .. Len(t) : g.text[n] \notin Generators
  BY <1>1, <1>5, <1>6, GeneratedText
<1> QED
  BY <1>4, <1>5, <1>6, <1>7 DEF Settled

(* Plain characters and variables whose values have no placeholder. *)
CleanIn(s, v) ==
    \A n \in 1 .. Len(s) :
        \/ s[n][1] = "lit"
        \/ s[n][1] = "var" /\ s[n][2] \in DOMAIN v /\ ~HasUnresolved(v[s[n][2]])

Clean == {p \in Pieces : p[1] \notin {"var", "inc", "dec", "gen"}}

LEMMA CleanTexts ==
    ASSUME NEW t \in Texts
    PROVE  t \in Seq(Clean) <=> ~HasUnresolved(t)
<1>1. Len(t) \in Nat /\ DOMAIN t = 1 .. Len(t) /\ \A i \in 1 .. Len(t) : t[i] \in Pieces
  BY TextFacts
<1>2. ASSUME t \in Seq(Clean) PROVE ~HasUnresolved(t)
  <2>1. \A i \in 1 .. Len(t) : t[i] \in Clean
    BY <1>2
  <2> QED
    BY <1>1, <2>1 DEF Clean, HasUnresolved
<1>3. ASSUME ~HasUnresolved(t) PROVE t \in Seq(Clean)
  <2>1. \A i \in 1 .. Len(t) : t[i] \in Clean
    BY <1>1, <1>3 DEF Clean, HasUnresolved
  <2>2. t \in [1 .. Len(t) -> Clean]
    BY <1>1, <2>1 DEF Texts
  <2> QED
    BY <1>1, <2>2, IsSequence
<1> QED
  BY <1>2, <1>3

LEMMA CleanSubstitutions ==
    ASSUME NEW s \in Texts, NEW v, IsTexts(v), CleanIn(s, v)
    PROVE  Substitutions(s, v) \subseteq Seq(Clean)
<1> DEFINE K == {k \in DOMAIN v : <<"var", k>> \in Range(s)}
           Q == Clean \cup {<<"var", k>> : k \in K}
<1>1. Len(s) \in Nat /\ DOMAIN s = 1 .. Len(s) /\ \A i \in 1 .. Len(s) : s[i] \in Pieces
  BY TextFacts
<1>2. \A k \in DOMAIN v : v[k] \in Texts /\ IsFiniteSet(DOMAIN v)
  BY DEF IsTexts, IsTable
<1>3. ASSUME NEW k \in K PROVE v[k] \in Seq(Clean) /\ k \in Mentioned(s, v) /\ k \in DOMAIN v
  <2>1. PICK i \in 1 .. Len(s) : s[i] = <<"var", k>>
    BY <1>1 DEF Range
  <2>2. ~HasUnresolved(v[k])
    BY <2>1 DEF CleanIn
  <2> QED
    BY <1>2, <2>2, CleanTexts DEF Mentioned
<1>4. s \in Seq(Q)
  <2>1. ASSUME NEW i \in 1 .. Len(s) PROVE s[i] \in Q
    <3>1. s[i] = <<s[i][1], s[i][2]>>
      BY <1>1, PieceFacts
    <3>2. CASE s[i][1] = "lit"
      BY <1>1, <3>2 DEF Clean
    <3>3. CASE s[i][1] = "var" /\ s[i][2] \in DOMAIN v
      <4>1. s[i][2] \in K
        BY <1>1, <3>1, <3>3 DEF Range
      <4> QED
        BY <3>1, <3>3, <4>1
    <3> QED
      BY <3>2, <3>3 DEF CleanIn
  <2> HIDE DEF Q
  <2>2. s \in [1 .. Len(s) -> Q]
    <3>1. s \in [1 .. Len(s) -> Pieces]
      BY <1>1 DEF Texts
    <3> QED
      BY <2>1, <3>1
  <2> QED
    BY <1>1, <2>2, IsSequence
<1>5. \A k : k \notin K => <<"var", k>> \notin Q
  BY DEF Clean
<1>6. ASSUME NEW R \in SUBSET Q, Clean \subseteq R, NEW t \in Seq(R), NEW k \in DOMAIN v
      PROVE  ReplaceVar(t, k, v[k]) \in Seq(R)
  <2>1. CASE k \in K
    <3>1. v[k] \in Seq(R) /\ t \in Seq(R \cup {<<"var", k>>})
      BY <1>3, <1>6, <2>1, SeqMonotonic
    <3> QED
      BY <3>1, ReplaceVarTyped
  <2>2. CASE k \notin K
    <3>1. <<"var", k>> \notin R
      BY <1>5, <2>2
    <3> HIDE DEF Q, K
    <3>2. \A n \in 1 .. Len(t) : t[n] # <<"var", k>>
      BY <3>1, ElementOfSeq
    <3>3. ReplaceVar(t, k, v[k]) = t
      BY <3>2, ReplaceVarNothing
    <3> QED
      BY <3>3
  <2> QED
    BY <2>1, <2>2
<1> SUFFICES ASSUME NEW t \in Substitutions(s, v) PROVE t \in Seq(Clean)
  OBVIOUS
<1>7. t \in Seq(Q)
  <2>1. \A k \in DOMAIN v : \A u \in Seq(Q) : ReplaceVar(u, k, v[k]) \in Seq(Q)
    BY <1>6
  <2> HIDE DEF Q
  <2> QED
    BY <1>4, <2>1, SubstitutionsStay DEF IsTexts
<1>8. ASSUME NEW k \in K PROVE t \in Seq(Q \ {<<"var", k>>})
  <2> DEFINE R == Q \ {<<"var", k>>}
  <2>1. R \in SUBSET Q /\ Clean \subseteq R
    <3>1. <<"var", k>> \notin Clean
      BY DEF Clean
    <3> HIDE DEF K
    <3> QED
      BY <3>1
  <2>2. \A j \in DOMAIN v : \A u \in Seq(Q) : ReplaceVar(u, j, v[j]) \in Seq(Q)
    BY <1>6
  <2>3. \A u \in Seq(Q) : ReplaceVar(u, k, v[k]) \in Seq(R)
    <3> SUFFICES ASSUME NEW u \in Seq(Q) PROVE ReplaceVar(u, k, v[k]) \in Seq(R)
      OBVIOUS
    <3>1. Q \subseteq R \cup {<<"var", k>>}
      OBVIOUS
    <3> HIDE DEF Q, R
    <3>2. v[k] \in Seq(R) /\ u \in Seq(R \cup {<<"var", k>>})
      BY <1>3, <2>1, <3>1, SeqMonotonic
    <3> QED
      BY <3>2, ReplaceVarTyped
  <2>4. \A j \in DOMAIN v : \A u \in Seq(Q) \cap Seq(R) : ReplaceVar(u, j, v[j]) \in Seq(R)
    <3> HIDE DEF Q, R
    <3> QED
      BY <1>6, <2>1
  <2>5. k \in Mentioned(s, v)
    BY <1>3
  <2> HIDE DEF Q, R, K
  <2>6. t \in Seq(R)
    BY <1>4, <2>2, <2>3, <2>4, <2>5, SubstitutionsReach DEF IsTexts
  <2> QED
    BY <2>6 DEF R
<1>9. Len(t) \in Nat /\ DOMAIN t = 1 .. Len(t)
  BY <1>7, LenProperties
<1>10. ASSUME NEW n \in 1 .. Len(t) PROVE t[n] \in Clean
  <2>1. t[n] \in Q /\ \A k \in K : t[n] \in Q \ {<<"var", k>>}
    <3> HIDE DEF Q, K
    <3> QED
      BY <1>7, <1>8, ElementOfSeq
  <2> QED
    BY <2>1
<1>11. t \in [1 .. Len(t) -> Clean]
  <2> HIDE DEF Q
  <2>1. t \in [1 .. Len(t) -> Q]
    BY <1>7
  <2> QED
    BY <1>9, <1>10, <2>1
<1> QED
  BY <1>9, <1>11, IsSequence


LEMMA ReplacedClean ==
    ASSUME NEW s \in Texts, NEW e \in Envs, CleanIn(s, e.vars), NEW y \in ReplaceString(s, e)
    PROVE  ~HasUnresolved(y.text)
<1> DEFINE i == ResolveIncrements(s, e.vars)
<1>1. IsTexts(e.vars) /\ e.fresh \in Nat \ {0}
  BY MapFacts DEF Envs
<1>2. i.text = s /\ i.vars = e.vars
  <2>1. \A n \in 1 .. Len(s) : s[n][1] \notin {"inc", "dec"}
    BY DEF CleanIn
  <2> QED
    BY <1>1, <2>1, ResolvedNothing
<1>3. PICK t \in Substitutions(i.text, i.vars) : \E g \in ResolveGenerators(t, e.fresh) :
         y.text = g.text /\ y.env = [vars |-> i.vars, fresh |-> g.fresh] /\ t \in Texts
  BY Replaced
<1>4. PICK g \in ResolveGenerators(t, e.fresh) : y.text = g.text
  BY <1>3
<1> HIDE DEF i
<1>5. t \in Seq(Clean)
  BY <1>1, <1>2, <1>3, CleanSubstitutions
<1>6. \A n \in 1 .. Len(t) : t[n] \notin Generators
  <2>1. \A n \in 1 .. Len(t) : t[n] \in Clean
    BY <1>5, ElementOfSeq
  <2> QED
    BY <2>1 DEF Clean, Generators
<1>7. g.text = t
  BY <1>1, <1>3, <1>6, NothingToGenerate
<1> QED
  BY <1>3, <1>4, <1>5, <1>7, CleanTexts

----------------------------------------------------------------------------
(* What became of the template t, one of the texts S whose resolution has  *)
(* changed the variables from v to w: a settled variable that none of them *)
(* counts is its value, a clean text has no placeholder left, and an       *)
(* increment that is replaced is a number above the one before all of them *)
(* and not above the last.                                                 *)
Resolved(t, u, v, w, S) ==
    /\ \A x \in DOMAIN v :
          (/\ t = Var(x) /\ Settled(v[x])
           /\ ~IsInt(v[x]) \/ (~Occurs(S, "inc", x) /\ ~Occurs(S, "dec", x))) => u = v[x]
    /\ CleanIn(t, v) => ~HasUnresolved(u)
    /\ \A x \in STRING :
          t = Inc(x) /\ IsInt(u) =>
              /\ Counts(v, x) /\ x \in DOMAIN w /\ IsInt(w[x])
              /\ ~Occurs(S, "dec", x) => Current(v, x) < u[1][2] /\ u[1][2] <= Current(w, x)

LEMMA NumberTyped ==
    ASSUME NEW u \in Texts, IsInt(u)
    PROVE  u[1][2] \in Int
<1>1. u[1] \in Pieces /\ u[1][1] = "int"
  BY TextFacts DEF IsInt
<1> QED
  BY <1>1, PieceFacts

LEMMA ReplacedResolves ==
    ASSUME NEW s \in Texts, NEW e \in Envs, NEW y \in ReplaceString(s, e), NEW S
    PROVE  Resolved(s, y.text, e.vars, y.env.vars, S)
<1>1. \A x \in DOMAIN e.vars : s = Var(x) /\ Settled(e.vars[x]) => y.text = e.vars[x]
  BY ReplacedWhole
<1>2. CleanIn(s, e.vars) => ~HasUnresolved(y.text)
  BY ReplacedClean
<1>3. ASSUME NEW x \in STRING, s = Inc(x), IsInt(y.text)
      PROVE  /\ Counts(e.vars, x) /\ x \in DOMAIN y.env.vars /\ IsInt(y.env.vars[x])
             /\ Current(e.vars, x) < y.text[1][2] /\ y.text[1][2] <= Current(y.env.vars, x)
  <2>1. Counts(e.vars, x)
    <3>1. ~Counts(e.vars, x) => y.text = Inc(x)
      BY <1>3, ReplacedCounter
    <3>2. ~IsInt(Inc(x))
      BY DEF Inc, IsInt
    <3> QED
      BY <1>3, <3>1, <3>2
  <2> DEFINE c == Current(e.vars, x)
  <2>2. /\ c \in Int /\ y.text = Int64(c + 1)
        /\ x \in DOMAIN y.env.vars /\ y.env.vars[x] = Int64(c + 1)
    BY <1>3, <2>1, ReplacedCounter
  <2> HIDE DEF c
  <2>3. c + 1 \in Int /\ c < c + 1 /\ c + 1 <= c + 1
    BY <2>2
  <2>4. IsInt(Int64(c + 1)) /\ Int64(c + 1)[1][2] = c + 1
    BY <2>3, IntTexts
  <2>5. Current(y.env.vars, x) = c + 1
    BY <2>2, <2>4 DEF Current
  <2>6. y.text[1][2] = c + 1
    BY <2>2, <2>4
  <2>7. c < y.text[1][2] /\ y.text[1][2] <= Current(y.env.vars, x)
    BY <2>3, <2>5, <2>6
  <2> QED
    BY <2>1, <2>2, <2>4, <2>7 DEF c
<1> QED
  BY <1>1, <1>2, <1>3 DEF Resolved

(* It stays true when more is resolved afterwards. *)
LEMMA ResolvedBefore ==
    ASSUME NEW t, NEW u \in Texts, NEW v, NEW w, NEW z, NEW S, IsTexts(v), IsTexts(w), IsTexts(z),
           Resolved(t, u, v, w, S), Follows(w, z, S)
    PROVE  Resolved(t, u, v, z, S)
<1> SUFFICES ASSUME NEW x \in STRING, t = Inc(x), IsInt(u)
             PROVE  /\ x \in DOMAIN z /\ IsInt(z[x])
                    /\ ~Occurs(S, "dec", x) => u[1][2] <= Current(z, x)
  BY DEF Resolved
<1>1. Counts(w, x) /\ x \in DOMAIN w /\ (~Occurs(S, "dec", x) => u[1][2] <= Current(w, x))
  BY DEF Resolved, Counts
<1>2. Counts(z, x) /\ x \in DOMAIN z /\ (~Occurs(S, "dec", x) => Current(w, x) <= Current(z, x))
  <2>1. ~Occurs(S, "dec", x) => Current(z, x) >= Current(w, x)
    BY <1>1 DEF Follows
  <2>2. Counts(z, x) /\ x \in DOMAIN z
    BY <1>1 DEF Follows
  <2>3. Current(z, x) \in Int /\ Current(w, x) \in Int
    BY <1>1, <2>2, CurrentTyped
  <2>4. \A a, b \in Int : a >= b => b <= a
    OBVIOUS
  <2> QED
    BY <2>1, <2>2, <2>3, <2>4
<1>3. u[1][2] \in Int /\ Current(w, x) \in Int /\ Current(z, x) \in Int
  BY <1>1, <1>2, CurrentTyped, NumberTyped
<1>4. \A a, b, c \in Int : a <= b /\ b <= c => a <= c
  OBVIOUS
<1>5. ~Occurs(S, "dec", x) => u[1][2] <= Current(z, x)
  BY <1>1, <1>2, <1>3, <1>4
<1> QED
  BY <1>2, <1>5 DEF Counts

(* It is true from what the variables were before. *)
LEMMA ResolvedAfter ==
    ASSUME NEW t, NEW u \in Texts, NEW v, NEW w, NEW z, NEW S, IsTexts(v), IsTexts(w), IsTexts(z),
           Follows(v, w, S), Resolved(t, u, w, z, S)
    PROVE  Resolved(t, u, v, z, S)
<1>1. ASSUME NEW x \in DOMAIN v, t = Var(x), Settled(v[x]),
             ~IsInt(v[x]) \/ (~Occurs(S, "inc", x) /\ ~Occurs(S, "dec", x))
      PROVE  u = v[x]
  <2>1. x \in DOMAIN w /\ w[x] = v[x]
    BY <1>1 DEF Follows, Counts
  <2> QED
    BY <1>1, <2>1 DEF Resolved
<1>2. ASSUME CleanIn(t, v) PROVE ~HasUnresolved(u)
  <2>1. ASSUME NEW x \in DOMAIN v, ~HasUnresolved(v[x]) PROVE x \in DOMAIN w /\ ~HasUnresolved(w[x])
    <3>1. x \in DOMAIN w
      BY DEF Follows
    <3>2. CASE w[x] = v[x]
      BY <2>1, <3>1, <3>2
    <3>3. CASE IsInt(w[x])
      <4>1. w[x] \in Texts
        BY <3>1 DEF IsTexts, IsTable
      <4>2. DOMAIN w[x] = 1 .. 1
        BY <3>3, <4>1, TextFacts DEF IsInt
      <4> QED
        BY <3>1, <3>3, <4>2 DEF HasUnresolved, IsInt
    <3> QED
      BY <3>1, <3>2, <3>3 DEF Follows
  <2>2. CleanIn(t, w)
    BY <1>2, <2>1 DEF CleanIn
  <2> QED
    BY <2>2 DEF Resolved
<1>3. ASSUME NEW x \in STRING, t = Inc(x), IsInt(u)
      PROVE  /\ Counts(v, x) /\ x \in DOMAIN z /\ IsInt(z[x])
             /\ ~Occurs(S, "dec", x) => Current(v, x) < u[1][2] /\ u[1][2] <= Current(z, x)
  <2>1. /\ Counts(w, x) /\ x \in DOMAIN z /\ IsInt(z[x])
        /\ ~Occurs(S, "dec", x) => Current(w, x) < u[1][2] /\ u[1][2] <= Current(z, x)
    BY <1>3 DEF Resolved
  <2>2. Counts(v, x)
    BY <2>1 DEF Follows, Counts
  <2>3. ~Occurs(S, "dec", x) => Current(w, x) >= Current(v, x)
    BY <2>2 DEF Follows
  <2>4. u[1][2] \in Int /\ Current(w, x) \in Int /\ Current(v, x) \in Int
    BY <1>3, <2>1, <2>2, CurrentTyped, NumberTyped
  <2>5. \A a, b, c \in Int : b >= a /\ b < c => a < c
    OBVIOUS
  <2>6. ~Occurs(S, "dec", x) => Current(v, x) < u[1][2]
    BY <2>1, <2>3, <2>4, <2>5
  <2> QED
    BY <2>1, <2>2, <2>6
<1> QED
  BY <1>1, <1>2, <1>3 DEF Resolved


----------------------------------------------------------------------------
(* ReplaceFields, one key after the other. *)
WithField(texts, k, X) ==
    UNION {{[fields |-> Put(x.fields, k, y.text), env |-> y.env] : y \in ReplaceString(texts[k], x.env)} :
              x \in X}

LEMMA FieldsInOrderStay ==
    ASSUME NEW texts, IsFiniteSet(DOMAIN texts), NEW env, NEW T, [fields |-> EmptyTable, env |-> env] \in T,
           \A o \in T : \A k \in DOMAIN texts \ DOMAIN o.fields : \A y \in ReplaceString(texts[k], o.env) :
               [fields |-> Put(o.fields, k, y.text), env |-> y.env] \in T,
           NEW order \in SetToSeqs(DOMAIN texts), NEW o \in FieldsInOrder(texts, env, order)
    PROVE  o \in T /\ DOMAIN o.fields = DOMAIN texts
<1> DEFINE N == Len(order)
           Keys(n) == {order[i] : i \in 1 .. n}
           At(n) == {x \in T : DOMAIN x.fields = Keys(n)}
           start == {[fields |-> EmptyTable, env |-> env]}
           Step(n, X) == WithField(texts, order[n], X)
           Eq(f) == f = [n \in 0 .. N |-> IF n = 0 THEN start ELSE Step(n, f[n - 1])]
           F == [n \in 0 + 1 .. N |-> [X \in SUBSET T |-> Step(n, X \cap At(n - 1))]]
           g == CHOOSE f : Eq(f)
<1>1. /\ N \in Nat /\ order \in [1 .. N -> DOMAIN texts]
      /\ \A i, j \in 1 .. N : i # j => order[i] # order[j]
      /\ \A x \in DOMAIN texts : \E n \in 1 .. N : order[n] = x
  BY OrderFacts
<1> HIDE DEF N
<1>2. start \in SUBSET At(0) /\ start \in SUBSET T
  BY DEF EmptyTable
<1>3. ASSUME NEW n \in 1 .. N, NEW X \in SUBSET At(n - 1) PROVE Step(n, X) \in SUBSET At(n)
  <2> SUFFICES ASSUME NEW x \in X, NEW y \in ReplaceString(texts[order[n]], x.env)
               PROVE  [fields |-> Put(x.fields, order[n], y.text), env |-> y.env] \in At(n)
    BY DEF WithField
  <2>1. order[n] \in DOMAIN texts /\ order[n] \notin Keys(n - 1)
    BY <1>1
  <2>2. Keys(n) = Keys(n - 1) \cup {order[n]}
    BY <1>1
  <2> HIDE DEF Keys
  <2>3. x \in T /\ DOMAIN x.fields = Keys(n - 1)
    OBVIOUS
  <2>4. DOMAIN Put(x.fields, order[n], y.text) = Keys(n)
    BY <2>2, <2>3 DEF Put
  <2>5. [fields |-> Put(x.fields, order[n], y.text), env |-> y.env] \in T
    BY <2>1, <2>3
  <2> QED
    BY <2>4, <2>5
<1> HIDE DEF Step, start, At
<1>4. ASSUME NEW n \in 1 .. N, NEW X \in SUBSET T PROVE Step(n, X \cap At(n - 1)) \in SUBSET T
  <2>1. Step(n, X \cap At(n - 1)) \in SUBSET At(n)
    BY <1>3
  <2> QED
    BY <2>1 DEF At
<1>5. F \in [0 + 1 .. N -> [SUBSET T -> SUBSET T]]
  <2>1. ASSUME NEW n \in 0 + 1 .. N
        PROVE  [X \in SUBSET T |-> Step(n, X \cap At(n - 1))] \in [SUBSET T -> SUBSET T]
    <3>1. n \in 1 .. N
      BY <1>1
    <3>2. \A X \in SUBSET T : Step(n, X \cap At(n - 1)) \in SUBSET T
      BY <1>4, <3>1
    <3> QED
      BY <3>2
  <2> QED
    BY <2>1
<1>6. PICK h \in [0 .. N -> SUBSET T] : IsRecursive(h, start, 0, N, F)
  <2> HIDE DEF F
  <2>1. 0 \in Nat /\ 0 <= N
    BY <1>1
  <2> QED
    BY <2>1, <1>1, <1>2, <1>5, Recursion
<1>7. h[0] = start
  BY <1>1, <1>6 DEF IsRecursive
<1>8. ASSUME NEW n \in 1 .. N PROVE h[n] = Step(n, h[n - 1] \cap At(n - 1))
  <2>1. n \in 0 .. N /\ n # 0 /\ n \in 0 + 1 .. N /\ n - 1 \in 0 .. N
    BY <1>1
  <2>2. h[n] = F[n][h[n - 1]]
    BY <2>1, <1>6 DEF IsRecursive
  <2>3. h[n - 1] \in SUBSET T
    BY <1>6, <2>1
  <2> QED
    BY <2>1, <2>2, <2>3
<1>9. \A n \in 0 .. N : h[n] \in SUBSET At(n)
  <2> DEFINE P == {n \in Nat : h[n] \in SUBSET At(n)}
  <2>1. 0 \in P
    BY <1>2, <1>7
  <2>2. ASSUME NEW n \in 0 + 1 .. N, n - 1 \in P PROVE n \in P
    <3>1. n \in 1 .. N /\ n \in Nat
      BY <1>1
    <3>2. h[n] = Step(n, h[n - 1] \cap At(n - 1))
      BY <1>8, <3>1
    <3>3. h[n] \in SUBSET At(n)
      BY <1>3, <3>1, <3>2
    <3> QED
      BY <3>1, <3>3
  <2> HIDE DEF P
  <2>3. \A n \in 0 .. N : n \in P
    BY <2>1, <2>2, <1>1, Induct DEF P
  <2> QED
    BY <2>3 DEF P
<1>10. ASSUME NEW n \in 0 .. N PROVE h[n] = IF n = 0 THEN start ELSE Step(n, h[n - 1])
  <2>1. CASE n = 0
    BY <1>7, <2>1
  <2>2. CASE n # 0
    <3>1. n \in 1 .. N /\ n - 1 \in 0 .. N
      BY <1>1, <2>2
    <3>2. h[n - 1] \cap At(n - 1) = h[n - 1]
      BY <1>9, <3>1
    <3> QED
      BY <1>8, <2>2, <3>1, <3>2
  <2> QED
    BY <2>1, <2>2
<1>11. Eq(h)
  BY <1>6, <1>10
<1>12. Eq(g)
  BY <1>11
<1>13. FieldsInOrder(texts, env, order) = g[N]
  BY DEF FieldsInOrder, WithField, Step, start, N
<1> HIDE DEF g
<1>14. \A n \in 0 .. N : g[n] = IF n = 0 THEN start ELSE Step(n, g[n - 1])
  BY <1>12
<1>15. \A n \in 0 .. N : g[n] \in SUBSET At(n)
  <2> DEFINE P == {n \in Nat : g[n] \in SUBSET At(n)}
  <2>1. 0 \in P
    BY <1>1, <1>2, <1>14
  <2>2. ASSUME NEW n \in 0 + 1 .. N, n - 1 \in P PROVE n \in P
    <3>1. n \in 1 .. N /\ n \in 0 .. N /\ n # 0 /\ g[n - 1] \in SUBSET At(n - 1) /\ n \in Nat
      BY <1>1, <2>2
    <3>2. g[n] = Step(n, g[n - 1])
      BY <1>14, <3>1
    <3>3. g[n] \in SUBSET At(n)
      BY <1>3, <3>1, <3>2
    <3> QED
      BY <3>1, <3>3
  <2> HIDE DEF P
  <2>3. \A n \in 0 .. N : n \in P
    BY <2>1, <2>2, <1>1, Induct DEF P
  <2> QED
    BY <2>3 DEF P
<1>16. o \in At(N)
  BY <1>1, <1>13, <1>15
<1>17. Keys(N) = DOMAIN texts
  <2>1. ASSUME NEW x \in DOMAIN texts PROVE x \in Keys(N)
    <3>1. PICK n \in 1 .. N : order[n] = x
      BY <1>1
    <3> QED
      BY <3>1
  <2>2. ASSUME NEW x \in Keys(N) PROVE x \in DOMAIN texts
    BY <1>1
  <2> QED
    BY <2>1, <2>2
<1> QED
  BY <1>16, <1>17 DEF At


(* Distinct keys with increments of one counter get distinct numbers. *)
Distinct(texts, fields, S) ==
    \A k, l \in DOMAIN fields : \A x \in STRING :
        (/\ k # l /\ texts[k] = Inc(x) /\ texts[l] = Inc(x) /\ ~Occurs(S, "dec", x)
         /\ IsInt(fields[k]) /\ IsInt(fields[l])) => fields[k] # fields[l]

(* What resolving some of the texts, from the variables v on, has left. *)
FieldsFrom(texts, v, S) ==
    {o \in [fields : Maps, env : Envs] :
        /\ DOMAIN o.fields \subseteq DOMAIN texts
        /\ Follows(v, o.env.vars, S)
        /\ \A k \in DOMAIN o.fields : Resolved(texts[k], o.fields[k], v, o.env.vars, S)
        /\ Distinct(texts, o.fields, S)}

LEMMA PutTexts ==
    ASSUME NEW f, IsTexts(f), NEW k \in STRING, NEW t \in Texts
    PROVE  IsTexts(Put(f, k, t))
<1>1. DOMAIN Put(f, k, t) = DOMAIN f \cup {k}
  BY DEF Put
<1>2. IsFiniteSet(DOMAIN f \cup {k})
  BY FS_AddElement DEF IsTexts
<1>3. DOMAIN f \subseteq STRING /\ \A x \in DOMAIN f : f[x] \in Texts
  BY DEF IsTexts, IsTable
<1>4. Put(f, k, t) \in [DOMAIN f \cup {k} -> Texts]
  BY <1>3 DEF Put
<1> QED
  BY <1>1, <1>2, <1>3, <1>4 DEF IsTexts, IsTable

LEMMA EmptyTexts == IsTexts(EmptyTable)
<1>1. DOMAIN EmptyTable = {}
  BY DEF EmptyTable
<1>2. EmptyTable \in [{} -> Texts]
  BY DEF EmptyTable
<1> QED
  BY <1>1, <1>2, FS_EmptySet DEF IsTexts, IsTable

LEMMA FieldAdded ==
    ASSUME NEW texts, IsTexts(texts), NEW v, IsTexts(v), NEW S, Range(texts) \subseteq S,
           NEW o \in FieldsFrom(texts, v, S), NEW k \in DOMAIN texts \ DOMAIN o.fields,
           NEW y \in ReplaceString(texts[k], o.env)
    PROVE  [fields |-> Put(o.fields, k, y.text), env |-> y.env] \in FieldsFrom(texts, v, S)
<1> DEFINE f == o.fields
           w == o.env.vars
           z == y.env.vars
           t == texts[k]
           p == Put(f, k, y.text)
<1>1. /\ o.env \in Envs /\ f \in Maps /\ DOMAIN f \subseteq DOMAIN texts /\ Follows(v, w, S)
      /\ \A j \in DOMAIN f : Resolved(texts[j], f[j], v, w, S)
      /\ Distinct(texts, f, S)
  BY DEF FieldsFrom
<1>2. t \in Texts /\ k \in STRING /\ t \in S
  BY DEF IsTexts, IsTable, Range
<1>3. IsTexts(f) /\ IsTexts(w) /\ \A j \in DOMAIN f : f[j] \in Texts
  BY <1>1, MapFacts DEF Envs, IsTexts, IsTable
<1>4. y.text \in Texts /\ y.env \in Envs /\ Follows(w, z, {t})
  BY <1>1, <1>2, ReplacedEnv
<1>5. IsTexts(z)
  BY <1>4, MapFacts DEF Envs
<1>6. Follows(w, z, S)
  BY <1>2, <1>4, FollowsMore
<1>7. Follows(v, z, S)
  BY <1>1, <1>3, <1>5, <1>6, FollowsOn
<1>8. Resolved(t, y.text, w, z, S)
  BY <1>1, <1>2, ReplacedResolves
<1> HIDE DEF f, w, z, t, p
<1>9. Resolved(t, y.text, v, z, S)
  BY <1>1, <1>3, <1>4, <1>5, <1>8, ResolvedAfter
<1>10. \A j \in DOMAIN f : Resolved(texts[j], f[j], v, z, S)
  BY <1>1, <1>3, <1>5, <1>6, ResolvedBefore
<1>11. /\ DOMAIN p = DOMAIN f \cup {k} /\ p[k] = y.text /\ k \notin DOMAIN f
       /\ \A j \in DOMAIN f : p[j] = f[j]
  BY DEF p, Put, f
<1>12. p \in Maps
  BY <1>2, <1>3, <1>4, PutTexts, MapFacts DEF p
<1>13. \A j \in DOMAIN p : Resolved(texts[j], p[j], v, z, S)
  BY <1>9, <1>10, <1>11 DEF t
<1>14. ASSUME NEW j \in DOMAIN f, NEW x \in STRING, texts[j] = Inc(x), t = Inc(x),
              ~Occurs(S, "dec", x), IsInt(f[j]), IsInt(y.text)
       PROVE  f[j] # y.text
  <2>1. f[j][1][2] <= Current(w, x) /\ x \in DOMAIN w /\ IsInt(w[x])
    BY <1>1, <1>14 DEF Resolved
  <2>2. Current(w, x) < y.text[1][2]
    BY <1>8, <1>14 DEF Resolved
  <2>3. f[j][1][2] \in Int /\ y.text[1][2] \in Int /\ Current(w, x) \in Int
    BY <1>3, <1>4, <1>14, <2>1, NumberTyped, CurrentTyped DEF Counts
  <2>4. \A a, b, c \in Int : a <= b /\ b < c => a # c
    OBVIOUS
  <2>5. f[j][1][2] # y.text[1][2]
    BY <2>1, <2>2, <2>3, <2>4
  <2> QED
    BY <2>5
<1>15. Distinct(texts, p, S)
  <2> SUFFICES ASSUME NEW j \in DOMAIN p, NEW l \in DOMAIN p, NEW x \in STRING,
                      j # l, texts[j] = Inc(x), texts[l] = Inc(x), ~Occurs(S, "dec", x),
                      IsInt(p[j]), IsInt(p[l])
               PROVE  p[j] # p[l]
    BY DEF Distinct
  <2>1. CASE j \in DOMAIN f /\ l \in DOMAIN f
    BY <1>1, <1>11, <2>1 DEF Distinct
  <2>2. CASE j \in DOMAIN f /\ l = k
    BY <1>11, <1>14, <2>2 DEF t
  <2>3. CASE l \in DOMAIN f /\ j = k
    BY <1>11, <1>14, <2>3 DEF t
  <2> QED
    BY <1>11, <2>1, <2>2, <2>3
<1>16. DOMAIN p \subseteq DOMAIN texts
  BY <1>1, <1>11
<1> QED
  BY <1>4, <1>7, <1>12, <1>13, <1>15, <1>16 DEF FieldsFrom, p, z, f

(* ReplaceHeaders and ReplaceMap, in whatever order Go ranges over the     *)
(* map: nothing but the counters of the texts changes, a settled variable  *)
(* is replaced by its value, and no two increments of a counter that is    *)
(* not counted down get one number.                                        *)
THEOREM FieldsReplaced ==
    ASSUME NEW texts, IsTexts(texts), NEW e \in Envs, NEW S, Range(texts) \subseteq S,
           NEW o \in ReplaceFields(texts, e)
    PROVE  o \in FieldsFrom(texts, e.vars, S) /\ DOMAIN o.fields = DOMAIN texts
<1> DEFINE T == FieldsFrom(texts, e.vars, S)
           start == [fields |-> EmptyTable, env |-> e]
<1>1. IsTexts(e.vars)
  BY MapFacts DEF Envs
<1>2. start \in T
  <2>1. EmptyTable \in Maps /\ Follows(e.vars, e.vars, S) /\ DOMAIN EmptyTable = {}
    BY <1>1, EmptyTexts, MapFacts, FollowsSelf DEF EmptyTable
  <2> QED
    BY <2>1 DEF FieldsFrom, Distinct
<1>3. \A x \in T : \A k \in DOMAIN texts \ DOMAIN x.fields : \A y \in ReplaceString(texts[k], x.env) :
         [fields |-> Put(x.fields, k, y.text), env |-> y.env] \in T
  BY <1>1, FieldAdded
<1>4. PICK order \in SetToSeqs(DOMAIN texts) : o \in FieldsInOrder(texts, e, order)
  BY DEF ReplaceFields
<1>5. IsFiniteSet(DOMAIN texts)
  BY DEF IsTexts
<1> HIDE DEF T
<1>6. o \in T /\ DOMAIN o.fields = DOMAIN texts
  BY <1>2, <1>3, <1>4, <1>5, FieldsInOrderStay
<1> QED
  BY <1>6 DEF T


----------------------------------------------------------------------------
(* RunAssertions, one assertion after the other. *)
Asserted(a, fields, raw, X) ==
    {o \in X : o.status # "passed"} \cup
    UNION {RunAssertion(a, fields, raw, o.env) : o \in {p \in X : p.status = "passed"}}

LEMMA AssertionsStay ==
    ASSUME NEW as, Len(as) \in Nat, NEW fields, NEW raw, NEW env, NEW T,
           [status |-> "passed", env |-> env, error |-> << >>] \in T,
           \A n \in 1 .. Len(as) : \A o \in T : RunAssertion(as[n], fields, raw, o.env) \subseteq T
    PROVE  RunAssertions(as, fields, raw, env) \subseteq T
<1> DEFINE N == Len(as)
           start == {[status |-> "passed", env |-> env, error |-> << >>]}
           Step(n, X) == Asserted(as[n], fields, raw, X)
           Eq(f) == f = [n \in 0 .. N |-> IF n = 0 THEN start ELSE Step(n, f[n - 1])]
           F == [n \in 0 + 1 .. N |-> [X \in SUBSET T |-> Step(n, X)]]
           g == CHOOSE f : Eq(f)
<1>1. N \in Nat
  OBVIOUS
<1>2. start \in SUBSET T
  OBVIOUS
<1>3. ASSUME NEW n \in 1 .. N, NEW X \in SUBSET T PROVE Step(n, X) \in SUBSET T
  <2>1. ASSUME NEW x \in X, NEW y \in RunAssertion(as[n], fields, raw, x.env)
        PROVE  y \in T
    OBVIOUS
  <2>2. ASSUME NEW z \in Asserted(as[n], fields, raw, X) PROVE z \in T
    <3>1. CASE z \in X
      BY <3>1
    <3>2. CASE z \notin X
      <4>1. z \in UNION {RunAssertion(as[n], fields, raw, o.env) : o \in {p \in X : p.status = "passed"}}
        BY <3>2, <2>2, Zenon DEF Asserted
      <4>2. PICK x \in X : z \in RunAssertion(as[n], fields, raw, x.env)
        BY <4>1, Zenon
      <4> QED
        BY <2>1, <4>2
    <3> QED
      BY <3>1, <3>2
  <2> QED
    BY <2>2
<1>4. RunAssertions(as, fields, raw, env) = g[N]
  BY DEF RunAssertions, Asserted
<1> HIDE DEF Step, start, N
<1>5. F \in [0 + 1 .. N -> [SUBSET T -> SUBSET T]]
  <2>1. ASSUME NEW n \in 0 + 1 .. N
        PROVE  [X \in SUBSET T |-> Step(n, X)] \in [SUBSET T -> SUBSET T]
    <3>1. n \in 1 .. N
      BY <1>1
    <3>2. \A X \in SUBSET T : Step(n, X) \in SUBSET T
      BY <1>3, <3>1
    <3> QED
      BY <3>2
  <2> QED
    BY <2>1
<1>6. PICK h \in [0 .. N -> SUBSET T] : IsRecursive(h, start, 0, N, F)
  <2> HIDE DEF F
  <2>1. 0 \in Nat /\ 0 <= N
    BY <1>1
  <2> QED
    BY <2>1, <1>1, <1>2, <1>5, Recursion
<1>7. ASSUME NEW n \in 0 .. N PROVE h[n] = IF n = 0 THEN start ELSE Step(n, h[n - 1])
  <2>1. h[n] = IF n = 0 THEN start ELSE F[n][h[n - 1]]
    BY <1>6 DEF IsRecursive
  <2>2. CASE n = 0
    BY <2>1, <2>2
  <2>3. CASE n # 0
    <3>1. n \in 0 + 1 .. N /\ n - 1 \in 0 .. N
      BY <1>1, <2>3
    <3>2. h[n - 1] \in SUBSET T
      BY <1>6, <3>1
    <3>3. F[n][h[n - 1]] = Step(n, h[n - 1])
      BY <3>1, <3>2
    <3> QED
      BY <2>1, <2>3, <3>3
  <2> QED
    BY <2>2, <2>3
<1>8. Eq(h)
  BY <1>6, <1>7
<1>9. Eq(g)
  BY <1>8
<1> HIDE DEF g
<1>10. \A n \in 0 .. N : g[n] = IF n = 0 THEN start ELSE Step(n, g[n - 1])
  BY <1>9
<1>11. \A n \in 0 .. N : g[n] \in SUBSET T
  <2> DEFINE P == {n \in Nat : g[n] \in SUBSET T}
  <2>1. 0 \in P
    BY <1>1, <1>2, <1>10
  <2>2. ASSUME NEW n \in 0 + 1 .. N, n - 1 \in P PROVE n \in P
    <3>1. n \in 1 .. N /\ n \in 0 .. N /\ n # 0 /\ g[n - 1] \in SUBSET T /\ n \in Nat
      BY <1>1, <2>2
    <3>2. g[n] = Step(n, g[n - 1])
      BY <1>10, <3>1
    <3>3. g[n] \in SUBSET T
      BY <1>3, <3>1, <3>2
    <3> QED
      BY <3>1, <3>3
  <2> HIDE DEF P
  <2>3. \A n \in 0 .. N : n \in P
    BY <2>1, <2>2, <1>1, Induct DEF P
  <2> QED
    BY <2>3 DEF P
<1> QED
  BY <1>1, <1>4, <1>11

(* An error quotes texts. *)
LEMMA ComplaintTyped ==
    ASSUME NEW a, a.field \in Texts, a.value \in Texts,
           NEW fields, \A p \in DOMAIN fields : fields[p] \in Texts
    PROVE  Complaint(a, fields) \in Texts
<1> DEFINE path == PathOf(a.field)
           actual == Field(fields, path)
           rest == CASE a.type = "present"  -> << >>
                     [] a.type = "length"   -> IF LengthOf(path) \in DOMAIN fields THEN a.value ELSE << >>
                     [] a.type \in IntTypes -> IF IsInt(actual) THEN a.value ELSE actual
                     [] a.type \in {"array_contains", "map_contains"} -> a.value
                     [] OTHER               -> a.value \o actual
<1>1. << >> \in Texts
  BY DEF Texts
<1>2. actual \in Texts
  BY <1>1 DEF Field
<1> HIDE DEF path, actual
<1>3. \A s, t \in Texts : s \o t \in Texts
  BY DEF Texts
<1>4. rest \in Texts
  <2>1. a.value \o actual \in Texts
    BY <1>2, <1>3
  <2> QED
    BY <1>1, <1>2, <2>1
<1>5. Complaint(a, fields) = IF ~Creates(a) THEN IF a.type \in Types THEN a.value ELSE << >>
                             ELSE a.field \o rest
  BY DEF Complaint, path, actual
<1> HIDE DEF rest
<1>6. a.field \o rest \in Texts
  BY <1>3, <1>4
<1> QED
  BY <1>1, <1>5, <1>6

LEMMA AssertionRun ==
    ASSUME NEW a \in [type : STRING, field : Texts, value : Texts],
           NEW S, a.field \in S, a.value \in S,
           NEW fields, \A p \in DOMAIN fields : fields[p] \in Texts,
           NEW raw, NEW e \in Envs, NEW z \in RunAssertion(a, fields, raw, e)
    PROVE  /\ z \in [status : {"passed", "failed", "error"}, env : Envs, error : Texts]
           /\ Follows(e.vars, z.env.vars, S)
<1> DEFINE A(f, v) == [a EXCEPT !.field = f.text, !.value = v.text]
           O(f, v) == Outcome(A(f, v), fields, raw, v.env)
<1>1. z \in UNION {{O(f, v) : v \in ReplaceString(a.value, f.env)} : f \in ReplaceString(a.field, e)}
  BY Zenon DEF RunAssertion
<1> HIDE DEF O
<1>2. PICK f \in ReplaceString(a.field, e) : z \in {O(f, v) : v \in ReplaceString(a.value, f.env)}
  BY <1>1, Zenon
<1>3. PICK v \in ReplaceString(a.value, f.env) : z = O(f, v)
  BY <1>2, Zenon
<1>4. f.text \in Texts /\ f.env \in Envs /\ Follows(e.vars, f.env.vars, {a.field})
  BY ReplacedEnv
<1>5. v.text \in Texts /\ v.env \in Envs /\ Follows(f.env.vars, v.env.vars, {a.value})
  BY <1>4, ReplacedEnv
<1>6. Follows(e.vars, f.env.vars, S) /\ Follows(f.env.vars, v.env.vars, S)
  <2>1. {a.field} \subseteq S /\ {a.value} \subseteq S
    OBVIOUS
  <2> QED
    BY <1>4, <1>5, <2>1, FollowsMore
<1>7. IsTexts(e.vars) /\ IsTexts(f.env.vars) /\ IsTexts(v.env.vars)
  BY <1>4, <1>5, MapFacts DEF Envs
<1>8. Follows(e.vars, v.env.vars, S)
  BY <1>6, <1>7, FollowsOn
<1> DEFINE b == A(f, v)
<1>9. b.field \in Texts /\ b.value \in Texts
  BY <1>4, <1>5
<1>10. z = Outcome(b, fields, raw, v.env)
  BY <1>3 DEF O
<1> HIDE DEF b
<1>11. Complaint(b, fields) \in Texts /\ << >> \in Texts
  BY <1>9, ComplaintTyped DEF Texts
<1>12. Verdict(b, fields, raw) \in {"passed", "failed", "error"}
  BY DEF Verdict
<1> QED
  BY <1>5, <1>8, <1>10, <1>11, <1>12 DEF Outcome

(* Registry.Run changes the variables only as the increments in the fields *)
(* and values of its assertions say, wherever it stops, and ends with a    *)
(* verdict and, for an error, a text.                                      *)
THEOREM AssertionsRun ==
    ASSUME NEW as, Len(as) \in Nat,
           \A n \in 1 .. Len(as) : as[n] \in [type : STRING, field : Texts, value : Texts],
           NEW S, \A n \in 1 .. Len(as) : as[n].field \in S /\ as[n].value \in S,
           NEW fields, \A p \in DOMAIN fields : fields[p] \in Texts,
           NEW raw, NEW e \in Envs, NEW o \in RunAssertions(as, fields, raw, e)
    PROVE  /\ o.status \in {"passed", "failed", "error"} /\ o.env \in Envs /\ o.error \in Texts
           /\ Follows(e.vars, o.env.vars, S)
<1> DEFINE T == {x \in [status : {"passed", "failed", "error"}, env : Envs, error : Texts] :
                    Follows(e.vars, x.env.vars, S)}
<1>1. IsTexts(e.vars)
  BY MapFacts DEF Envs
<1>2. [status |-> "passed", env |-> e, error |-> << >>] \in T
  <2>1. << >> \in Texts
    BY DEF Texts
  <2> QED
    BY <1>1, <2>1, FollowsSelf
<1>3. ASSUME NEW n \in 1 .. Len(as), NEW x \in T, NEW z \in RunAssertion(as[n], fields, raw, x.env)
      PROVE  z \in T
  <2>1. x.env \in Envs /\ Follows(e.vars, x.env.vars, S)
    OBVIOUS
  <2>2. /\ z \in [status : {"passed", "failed", "error"}, env : Envs, error : Texts]
        /\ Follows(x.env.vars, z.env.vars, S)
    BY <2>1, AssertionRun
  <2>3. IsTexts(x.env.vars) /\ IsTexts(z.env.vars)
    BY <2>1, <2>2, MapFacts DEF Envs
  <2>4. Follows(e.vars, z.env.vars, S)
    BY <1>1, <2>1, <2>2, <2>3, FollowsOn
  <2> QED
    BY <2>2, <2>4
<1> HIDE DEF T
<1>4. o \in T
  BY <1>2, <1>3, AssertionsStay
<1> QED
  BY <1>4 DEF T
============================================================================
