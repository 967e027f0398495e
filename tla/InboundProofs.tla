--------------------------- MODULE InboundProofs ---------------------------
(* Messages reach the runs they are meant for: for every set of requests,  *)
(* mails and runs, and every number of attempts.                           *)
EXTENDS Inbound, SequenceTheorems, WellFoundedInduction, TLAPS

(* The least element of a set of numbers, the first of those found. *)
LEMMA FirstIsLeast ==
    ASSUME NEW S \in SUBSET Nat, S # {}
    PROVE  First(S) \in S /\ \A k \in S : First(S) <= k
<1>1. PICK x \in S : \A y \in S : ~ (<<y, x>> \in OpToRel(<, Nat))
  BY NatLessThanWellFounded, WFMin
<1>2. \A y \in S : ~ (y < x)
  BY <1>1 DEF OpToRel
<1>3. \A k \in S : x <= k
  BY <1>2
<1> QED
  BY <1>3 DEF First

(* Numbers that come after all the others do not change which is first. *)
LEMMA FirstIsStable ==
    ASSUME NEW S \in SUBSET Nat, S # {}, NEW T \in SUBSET Nat, S \subseteq T,
           \A s \in S : \A t \in T \ S : s < t
    PROVE  First(T) = First(S)
<1>1. First(S) \in S /\ \A k \in S : First(S) <= k
  BY FirstIsLeast
<1>2. First(T) \in T /\ \A k \in T : First(T) <= k
  BY FirstIsLeast
<1>3. First(S) \in Nat /\ First(T) \in Nat /\ First(T) <= First(S)
  BY <1>1, <1>2
<1>4. First(T) \in S
  BY <1>1, <1>2, <1>3
<1>5. First(S) <= First(T)
  BY <1>1, <1>4
<1> QED
  BY <1>3, <1>5

----------------------------------------------------------------------------
LEMMA PrefixedNames ==
    ASSUME NEW S, NEW p \in S, NEW x \in Seq(S)
    PROVE  /\ <<p>> \o x \in Seq(S)
           /\ (<<p>> \o x)[1] = p
           /\ Tail(<<p>> \o x) = x
<1>1. <<p>> \in Seq(S) /\ Len(<<p>>) = 1 /\ Len(x) \in Nat /\ <<p>>[1] = p
  <2>1. Len(x) \in Nat
    BY LenProperties
  <2>2. <<p>> \in Seq(S)
    OBVIOUS
  <2>3. Len(<<p>>) = 1
    OBVIOUS
  <2>4. <<p>>[1] = p
    OBVIOUS
  <2> QED
    BY <2>1, <2>2, <2>3, <2>4
<1>2. /\ <<p>> \o x \in Seq(S) /\ Len(<<p>> \o x) = 1 + Len(x)
      /\ \A i \in 1 .. 1 + Len(x) : (<<p>> \o x)[i] = IF i <= 1 THEN <<p>>[i] ELSE x[i - 1]
  BY <1>1, ConcatProperties
<1>3. (<<p>> \o x)[1] = p /\ <<p>> \o x # << >>
  BY <1>1, <1>2, EmptySeq
<1>4. Tail(<<p>> \o x) \in Seq(S) /\ Len(Tail(<<p>> \o x)) = Len(x)
      /\ \A i \in 1 .. Len(x) : Tail(<<p>> \o x)[i] = (<<p>> \o x)[i + 1]
  <2> DEFINE s == <<p>> \o x
  <2>1. s \in Seq(S) /\ s # << >> /\ Len(s) = 1 + Len(x)
    BY <1>2, <1>3
  <2> HIDE DEF s
  <2>2. /\ Tail(s) \in Seq(S) /\ Len(Tail(s)) = Len(s) - 1
        /\ \A i \in 1 .. Len(Tail(s)) : Tail(s)[i] = s[i + 1]
    BY <2>1, HeadTailProperties
  <2>3. Len(Tail(s)) = Len(x)
    BY <1>1, <2>1, <2>2
  <2> QED
    BY <2>2, <2>3 DEF s
<1>5. \A i \in 1 .. Len(x) : Tail(<<p>> \o x)[i] = x[i]
  BY <1>1, <1>2, <1>4
<1>6. Tail(<<p>> \o x) = x
  BY <1>4, <1>5, SeqEqual
<1> QED
  BY <1>2, <1>3, <1>6

(* The fields of a namespace. *)
LEMMA PrefixedFields ==
    ASSUME NEW p, NEW t, DOMAIN t \subseteq Seq(STRING)
    PROVE  /\ \A x \in DOMAIN t : <<p>> \o x \in DOMAIN Prefixed(p, t)
                                  /\ Prefixed(p, t)[<<p>> \o x] = t[x]
           /\ \A y \in DOMAIN Prefixed(p, t) : y[1] = p
<1>1. DOMAIN Prefixed(p, t) = {<<p>> \o x : x \in DOMAIN t}
  BY DEF Prefixed
<1>2. ASSUME NEW x \in DOMAIN t
      PROVE  <<p>> \o x \in DOMAIN Prefixed(p, t) /\ Prefixed(p, t)[<<p>> \o x] = t[x]
             /\ (<<p>> \o x)[1] = p
  <2>1. (<<p>> \o x)[1] = p /\ Tail(<<p>> \o x) = x
    <3>1. x \in Seq(STRING \cup {p})
      BY SeqMonotonic
    <3> QED
      BY <3>1, PrefixedNames
  <2>2. <<p>> \o x \in {<<p>> \o y : y \in DOMAIN t}
    OBVIOUS
  <2>3. Prefixed(p, t)[<<p>> \o x] = t[Tail(<<p>> \o x)]
    BY <2>2, Zenon DEF Prefixed
  <2> QED
    BY <1>1, <2>1, <2>2, <2>3
<1> QED
  BY <1>1, <1>2

(* What a name finds in one table laid over another. *)
LEMMA PutOverFinds ==
    ASSUME NEW f, NEW g, NEW x
    PROVE  Field(PutOver(f, g), x) = IF x \in DOMAIN f THEN f[x] ELSE Field(g, x)
  BY DEF PutOver, Field

(* The fields of a message of the generic provider: a name of the query's, *)
(* the headers' or the body's namespace finds what is there, and a name    *)
(* outside them what is in the body under that name.                       *)
LEMMA GenericFieldsFind ==
    ASSUME NEW q, NEW b, DOMAIN b \subseteq Seq(STRING),
           DOMAIN q.query \subseteq Seq(STRING), DOMAIN q.headers \subseteq Seq(STRING)
    PROVE  /\ \A x \in DOMAIN q.query : Field(GenericFields(q, b), <<"query">> \o x) = q.query[x]
           /\ \A x \in DOMAIN q.headers : Field(GenericFields(q, b), <<"headers">> \o x) = q.headers[x]
           /\ \A x \in DOMAIN b : Field(GenericFields(q, b), <<"body">> \o x) = b[x]
           /\ \A x : x[1] \notin {"method", "query", "headers", "body"} =>
                         Field(GenericFields(q, b), x) = Field(b, x)
<1> DEFINE Q == Prefixed("query", q.query)
           H == Prefixed("headers", q.headers)
           B == Prefixed("body", b)
<1>1. \A x : Field(GenericFields(q, b), x) =
                 IF x \in DOMAIN Method THEN Method[x] ELSE
                 IF x \in DOMAIN Q THEN Q[x] ELSE
                 IF x \in DOMAIN H THEN H[x] ELSE
                 IF x \in DOMAIN B THEN B[x] ELSE Field(b, x)
  <2> TAKE x
  <2> DEFINE L3 == PutOver(B, b)
             L2 == PutOver(H, L3)
             L1 == PutOver(Q, L2)
  <2>1. Field(L3, x) = IF x \in DOMAIN B THEN B[x] ELSE Field(b, x)
    BY PutOverFinds
  <2>2. Field(L2, x) = IF x \in DOMAIN H THEN H[x] ELSE Field(L3, x)
    BY PutOverFinds
  <2>3. Field(L1, x) = IF x \in DOMAIN Q THEN Q[x] ELSE Field(L2, x)
    BY PutOverFinds
  <2>4. Field(GenericFields(q, b), x) = IF x \in DOMAIN Method THEN Method[x] ELSE Field(L1, x)
    BY PutOverFinds DEF GenericFields
  <2> QED
    BY <2>1, <2>2, <2>3, <2>4, Zenon
<1>2. \A x \in DOMAIN Method : x[1] = "method"
  BY DEF Method
<1>3. /\ \A x \in DOMAIN q.query : <<"query">> \o x \in DOMAIN Q /\ Q[<<"query">> \o x] = q.query[x]
      /\ \A y \in DOMAIN Q : y[1] = "query"
  BY PrefixedFields
<1>4. /\ \A x \in DOMAIN q.headers :
            <<"headers">> \o x \in DOMAIN H /\ H[<<"headers">> \o x] = q.headers[x]
      /\ \A y \in DOMAIN H : y[1] = "headers"
  BY PrefixedFields
<1>5. /\ \A x \in DOMAIN b : <<"body">> \o x \in DOMAIN B /\ B[<<"body">> \o x] = b[x]
      /\ \A y \in DOMAIN B : y[1] = "body"
  BY PrefixedFields
<1> HIDE DEF Q, H, B
<1>6. ASSUME NEW x \in DOMAIN q.query
      PROVE  Field(GenericFields(q, b), <<"query">> \o x) = q.query[x]
  BY <1>1, <1>2, <1>3
<1>7. ASSUME NEW x \in DOMAIN q.headers
      PROVE  Field(GenericFields(q, b), <<"headers">> \o x) = q.headers[x]
  BY <1>1, <1>2, <1>3, <1>4
<1>8. ASSUME NEW x \in DOMAIN b
      PROVE  Field(GenericFields(q, b), <<"body">> \o x) = b[x]
  BY <1>1, <1>2, <1>3, <1>4, <1>5
<1>9. ASSUME NEW x, x[1] \notin {"method", "query", "headers", "body"}
       PROVE  Field(GenericFields(q, b), x) = Field(b, x)
  BY <1>1, <1>2, <1>3, <1>4, <1>5, <1>9
<1> QED
  BY <1>6, <1>7, <1>8, <1>9

----------------------------------------------------------------------------
(* The texts there are: those of requests, and the ones that name no run. *)
AnyTexts == [id : STRING \cup {"", "unknown", "other"}, padded : BOOLEAN]

LEMMA TrimSpaceKeepsID ==
    ASSUME NEW t \in AnyTexts
    PROVE  /\ TrimSpace(t).id = t.id
           /\ TrimSpace(t) = Empty <=> t.id = ""
<1>1. TrimSpace(t) \in AnyTexts /\ TrimSpace(t).id = t.id /\ TrimSpace(t).padded = FALSE
  BY DEF AnyTexts, TrimSpace
<1>2. Empty \in AnyTexts /\ Empty.id = "" /\ Empty.padded = FALSE
  BY DEF AnyTexts, Empty, Text
<1>3. ASSUME NEW X, NEW u \in [id : X, padded : BOOLEAN], NEW v \in [id : X, padded : BOOLEAN],
             u.id = v.id, u.padded = v.padded
      PROVE  u = v
  BY <1>3
<1> QED
  BY <1>1, <1>2, <1>3 DEF AnyTexts

LEMMA FieldTyped ==
    ASSUME NEW t, IsTable(t, Seq(STRING), Texts), NEW x
    PROVE  Field(t, x) \in AnyTexts
  BY DEF IsTable, Texts, AnyTexts, Field, Empty, Text

LEMMA RequestTyped ==
    ASSUME NEW q \in Requests
    PROVE  /\ q.json \in BOOLEAN
           /\ q.kind \in {"fields", "empty", "malformed"}
           /\ IsTable(q.query, Seq(STRING), Texts)
           /\ IsTable(q.headers, Seq(STRING), Texts)
           /\ IsTable(q.body, Seq(STRING), Texts)
           /\ q.kind # "fields" => q.body = EmptyTable
  BY InboundAssumption

(* What the extractors work on: the fields of the body, none where it does *)
(* not parse.                                                              *)
Bare(q) == IF ExtractFields(q).ok THEN ExtractFields(q).fields ELSE EmptyTable

(* A name in the body of a request: what it finds is what the body has     *)
(* under that name or, for a form, the query.                              *)
LEMMA BareFinds ==
    ASSUME NEW q \in Requests, NEW x
    PROVE  /\ DOMAIN Bare(q) \subseteq Seq(STRING)
           /\ Field(Bare(q), x) \in AnyTexts
           /\ Field(Bare(q), x).id = "" => Field(q.body, x).id = ""
           /\ Field(Bare(q), x).id \notin {"", "other"} =>
                 \/ Field(q.body, x).id = Field(Bare(q), x).id
                 \/ /\ Field(q.body, x).id = ""
                    /\ x \in DOMAIN q.query /\ Field(q.query, x) = Field(Bare(q), x) /\ ~q.json
<1>1. /\ q.json \in BOOLEAN
      /\ IsTable(q.query, Seq(STRING), Texts) /\ IsTable(q.body, Seq(STRING), Texts)
      /\ q.kind # "fields" => q.body = EmptyTable
  BY RequestTyped
<1>2. DOMAIN q.query \subseteq Seq(STRING) /\ DOMAIN q.body \subseteq Seq(STRING)
      /\ Field(q.query, x) \in AnyTexts /\ Field(q.body, x) \in AnyTexts
  BY <1>1, FieldTyped DEF IsTable
<1>3. Empty \in AnyTexts /\ Empty.id = "" /\ NoID \in AnyTexts /\ NoID.id = "other"
  BY DEF AnyTexts, Empty, NoID, Text
<1>4. CASE q.json /\ ExtractFields(q).ok
  <2>1. Bare(q) = q.body
    BY <1>4 DEF Bare, ExtractFields
  <2> QED
    BY <1>2, <2>1
<1>5. CASE ~q.json /\ ExtractFields(q).ok
  <2>1. Bare(q) = FormFields(q)
    BY <1>5 DEF Bare, ExtractFields
  <2>2. DOMAIN FormFields(q) = DOMAIN q.body \cup DOMAIN q.query
    BY DEF FormFields
  <2>3. CASE x \in DOMAIN q.body \cap DOMAIN q.query
    <3>1. Field(FormFields(q), x) = NoID
      BY <2>3 DEF FormFields, Field
    <3> QED
      BY <1>2, <1>3, <2>1, <2>2, <3>1
  <2>4. CASE x \in DOMAIN q.body \ DOMAIN q.query
    <3>1. Field(FormFields(q), x) = Field(q.body, x)
      BY <2>4 DEF FormFields, Field
    <3> QED
      BY <1>2, <2>1, <2>2, <3>1
  <2>5. CASE x \in DOMAIN q.query \ DOMAIN q.body
    <3>1. Field(FormFields(q), x) = Field(q.query, x) /\ Field(q.body, x) = Empty
      BY <2>5 DEF FormFields, Field
    <3> QED
      BY <1>2, <1>3, <1>5, <2>1, <2>2, <2>5, <3>1
  <2>6. CASE x \notin DOMAIN q.query \cup DOMAIN q.body
    <3>1. Field(FormFields(q), x) = Empty /\ Field(q.body, x) = Empty
      BY <2>6 DEF FormFields, Field
    <3> QED
      BY <1>2, <1>3, <2>1, <2>2, <3>1
  <2> QED
    BY <2>3, <2>4, <2>5, <2>6
<1>6. CASE ~ExtractFields(q).ok
  <2>1. Bare(q) = EmptyTable
    BY <1>6 DEF Bare
  <2>2. q.body = EmptyTable
    BY <1>1, <1>6 DEF ExtractFields
  <2>3. Field(EmptyTable, x) = Empty /\ DOMAIN EmptyTable = {}
    BY DEF Field, EmptyTable
  <2> QED
    BY <1>3, <2>1, <2>2, <2>3
<1> QED
  BY <1>1, <1>4, <1>5, <1>6

LEMMA NatOrder == \A a, b \in Nat : a <= b /\ ~(a < b) => a = b
  OBVIOUS

(* The first place that names a run is whom a request is addressed to. *)
LEMMA FirstPlace ==
    ASSUME NEW q, NEW n \in DOMAIN Places(q), DOMAIN Places(q) \subseteq Nat,
           Places(q)[n].id # "", \A k \in DOMAIN Places(q) : k < n => Places(q)[k].id = ""
    PROVE  Addressee(q) = Places(q)[n].id
<1> DEFINE S == {k \in DOMAIN Places(q) : Places(q)[k].id # ""}
<1>1. S \in SUBSET Nat /\ n \in S /\ n \in Nat
  OBVIOUS
<1> HIDE DEF S
<1>2. First(S) \in S /\ First(S) <= n
  BY <1>1, FirstIsLeast
<1>3. First(S) = n
  <2>1. First(S) \in DOMAIN Places(q) /\ Places(q)[First(S)].id # "" /\ First(S) \in Nat
    BY <1>1, <1>2 DEF S
  <2>2. ~(First(S) < n)
    BY <2>1
  <2> QED
    BY <1>1, <1>2, <2>1, <2>2, NatOrder, Zenon
<1> QED
  BY <1>3 DEF Addressee, S

LEMMA RunIsNoPlaceholder ==
    ASSUME NEW r \in Runs
    PROVE  /\ r \notin {"", "unknown", "other"}
           /\ Text(r).id = r /\ Text(r) # Empty /\ Text(r) # Unknown
<1>1. r \notin {"", "unknown", "other"}
  BY InboundAssumption
<1>2. Text(r).id = r /\ Empty.id = "" /\ Unknown.id = "unknown"
  BY DEF Text, Empty, Unknown
<1> QED
  BY <1>1, <1>2

(* The generic provider finds the run id in the first of its places. *)
LEMMA GenericAddressee ==
    ASSUME NEW q \in Requests, NEW r \in Runs, q.provider = "generic",
           GenericExtract(q).ok, GenericExtract(q).run = Text(r)
    PROVE  Addressee(q) = r
<1> DEFINE all == GenericFields(q, Bare(q))
           inQuery == Field(q.query, <<"run_id">>)
           inHeader == Field(q.headers, <<"x-e2e-run-id">>)
           bodyID == Field(Bare(q), <<"run_id">>)
           bodyID2 == Field(Bare(q), <<"runid">>)
<1>1. GenericRunID(q, all) = Text(r)
  BY DEF GenericExtract, Rejected, Bare
<1>2. /\ IsTable(q.query, Seq(STRING), Texts) /\ IsTable(q.headers, Seq(STRING), Texts)
      /\ IsTable(q.body, Seq(STRING), Texts) /\ q.json \in BOOLEAN
  BY RequestTyped
<1>3. Field(all, <<"run_id">>) = bodyID /\ Field(all, <<"runid">>) = bodyID2
  <2>1. DOMAIN Bare(q) \subseteq Seq(STRING) /\ DOMAIN q.query \subseteq Seq(STRING)
        /\ DOMAIN q.headers \subseteq Seq(STRING)
    BY <1>2, BareFinds DEF IsTable
  <2>2. \A x : x[1] \notin {"method", "query", "headers", "body"} => Field(all, x) = Field(Bare(q), x)
    BY <2>1, GenericFieldsFind
  <2>3. <<"run_id">>[1] = "run_id" /\ <<"runid">>[1] = "runid"
    OBVIOUS
  <2> HIDE DEF all
  <2> QED
    BY <2>2, <2>3
<1>4. /\ inQuery \in AnyTexts /\ inHeader \in AnyTexts /\ Empty.id = ""
      /\ bodyID \in AnyTexts /\ bodyID2 \in AnyTexts
  BY <1>2, FieldTyped, BareFinds DEF Empty, Text
<1>5. /\ DOMAIN Places(q) = 1 .. 5
      /\ Places(q)[1] = inQuery /\ Places(q)[2] = inHeader
      /\ Places(q)[3] = Field(q.body, <<"run_id">>)
      /\ Places(q)[4] = Field(q.body, <<"runid">>)
      /\ Places(q)[5] = FormQuery(q, <<"runid">>)
  BY DEF Places
<1>6. Text(r) = IF inQuery # Empty THEN inQuery
                ELSE IF inHeader # Empty THEN inHeader
                ELSE IF TrimSpace(bodyID) # Empty THEN TrimSpace(bodyID)
                ELSE TrimSpace(bodyID2)
  BY <1>1, <1>3, Zenon DEF GenericRunID
<1>7. Text(r).id = r /\ r \notin {"", "unknown", "other"}
  BY RunIsNoPlaceholder
<1>8. /\ TrimSpace(bodyID).id = bodyID.id
      /\ TrimSpace(bodyID) = Empty <=> bodyID.id = ""
      /\ TrimSpace(bodyID2).id = bodyID2.id
  BY <1>4, TrimSpaceKeepsID
<1>9. DOMAIN Places(q) \subseteq Nat /\ {1, 2, 3, 4, 5} = DOMAIN Places(q)
  BY <1>5
<1> HIDE DEF inQuery, inHeader, bodyID, bodyID2
<1>10. CASE inQuery # Empty
  <2>1. Places(q)[1].id = r
    BY <1>5, <1>6, <1>7, <1>10
  <2>2. 1 \in DOMAIN Places(q) /\ \A k \in DOMAIN Places(q) : ~(k < 1)
    BY <1>5
  <2> QED
    BY <1>7, <1>9, <2>1, <2>2, FirstPlace
<1>11. CASE inQuery = Empty /\ inHeader # Empty
  <2>1. Places(q)[2].id = r /\ Places(q)[1].id = ""
    BY <1>4, <1>5, <1>6, <1>7, <1>11
  <2>2. 2 \in DOMAIN Places(q) /\ \A k \in DOMAIN Places(q) : k < 2 => k = 1
    BY <1>5
  <2> QED
    BY <1>7, <1>9, <2>1, <2>2, FirstPlace, ZenonT(60)
<1>12. CASE inQuery = Empty /\ inHeader = Empty /\ bodyID.id # ""
  <2>1. bodyID.id = r
    BY <1>6, <1>7, <1>8, <1>12
  <2>2. \/ Field(q.body, <<"run_id">>).id = bodyID.id
        \/ Field(q.query, <<"run_id">>) = bodyID
    BY <1>7, <2>1, BareFinds DEF bodyID
  <2>3. inQuery # bodyID
    BY <1>4, <1>7, <1>12, <2>1
  <2>4. Places(q)[3].id = r /\ Places(q)[1].id = "" /\ Places(q)[2].id = ""
    BY <1>4, <1>5, <1>12, <2>1, <2>2, <2>3 DEF inQuery
  <2>5. 3 \in DOMAIN Places(q) /\ \A k \in DOMAIN Places(q) : k < 3 => k \in {1, 2}
    BY <1>5
  <2>6. \A k \in DOMAIN Places(q) : k < 3 => Places(q)[k].id = ""
    BY <2>4, <2>5
  <2> QED
    BY <1>7, <1>9, <2>4, <2>5, <2>6, FirstPlace
<1>13. CASE inQuery = Empty /\ inHeader = Empty /\ bodyID.id = ""
  <2>1. bodyID2.id = r
    BY <1>6, <1>7, <1>8, <1>13
  <2>2. Field(q.body, <<"run_id">>).id = ""
    BY <1>13, BareFinds DEF bodyID
  <2>3. Places(q)[1].id = "" /\ Places(q)[2].id = "" /\ Places(q)[3].id = ""
    BY <1>4, <1>5, <1>13, <2>2
  <2>4. CASE Field(q.body, <<"runid">>).id = r
    <3>1. 4 \in DOMAIN Places(q) /\ \A k \in DOMAIN Places(q) : k < 4 => k \in {1, 2, 3}
      BY <1>5
    <3>2. Places(q)[4].id = r
      BY <1>5, <2>4
    <3>3. \A k \in DOMAIN Places(q) : k < 4 => Places(q)[k].id = ""
      BY <2>3, <3>1
    <3> QED
      BY <1>7, <1>9, <3>1, <3>2, <3>3, FirstPlace
  <2>5. CASE Field(q.body, <<"runid">>).id # r
    <3>1. Field(q.body, <<"runid">>).id = "" /\ Field(q.query, <<"runid">>) = bodyID2 /\ ~q.json
      BY <1>7, <2>1, <2>5, BareFinds DEF bodyID2
    <3>2. Places(q)[4].id = "" /\ Places(q)[5].id = r
      BY <1>5, <2>1, <3>1 DEF FormQuery
    <3>3. 5 \in DOMAIN Places(q) /\ \A k \in DOMAIN Places(q) : k < 5 => k \in {1, 2, 3, 4}
      BY <1>5
    <3>4. \A k \in DOMAIN Places(q) : k < 5 => Places(q)[k].id = ""
      BY <2>3, <3>2, <3>3
    <3> QED
      BY <1>7, <1>9, <3>2, <3>3, <3>4, FirstPlace
  <2> QED
    BY <2>4, <2>5
<1> QED
  BY <1>10, <1>11, <1>12, <1>13

(* The other two look at one field of the body. *)
LEMMA OneFieldAddressee ==
    ASSUME NEW q \in Requests, NEW r \in Runs, NEW x, Field(Bare(q), x).id = r,
           Places(q) = << Field(q.body, x), FormQuery(q, x) >>
    PROVE  Addressee(q) = r
<1>1. r \notin {"", "unknown", "other"}
  BY RunIsNoPlaceholder
<1>2. \/ Field(q.body, x).id = r
      \/ Field(q.body, x).id = "" /\ Field(q.query, x).id = r /\ ~q.json
  BY <1>1, BareFinds
<1>3. /\ 1 \in DOMAIN Places(q) /\ 2 \in DOMAIN Places(q) /\ DOMAIN Places(q) \subseteq Nat
      /\ \A k \in DOMAIN Places(q) : ~(k < 1) /\ (k < 2 => k = 1)
      /\ Places(q)[1] = Field(q.body, x) /\ Places(q)[2] = FormQuery(q, x)
  OBVIOUS
<1>4. CASE Field(q.body, x).id = r
  <2>1. Places(q)[1].id = r /\ \A k \in DOMAIN Places(q) : k < 1 => Places(q)[k].id = ""
    BY <1>3, <1>4
  <2> QED
    BY <1>1, <1>3, <2>1, FirstPlace
<1>5. CASE Field(q.body, x).id = "" /\ Field(q.query, x).id = r /\ ~q.json
  <2>1. Places(q)[2].id = r
    BY <1>3, <1>5 DEF FormQuery
  <2>2. \A k \in DOMAIN Places(q) : k < 2 => Places(q)[k].id = ""
    BY <1>3, <1>5
  <2> QED
    BY <1>1, <1>3, <2>1, <2>2, FirstPlace
<1> QED
  BY <1>2, <1>4, <1>5

(* A request whose message is stored for a run is addressed to it. *)
LEMMA AddresseeIsRun ==
    ASSUME NEW q \in Requests, NEW r \in Runs, Accepted(q), Extract(q).run = Text(r)
    PROVE  Addressee(q) = r
<1>1. q.provider \in {"generic", "meta", "twilio"} /\ Extract(q).ok
  BY DEF Accepted, Providers
<1>2. Rejected.ok = FALSE
  BY DEF Rejected
<1>3. CASE q.provider = "generic"
  <2>1. Extract(q) = GenericExtract(q)
    BY <1>3 DEF Extract
  <2> QED
    BY <1>1, <1>3, <2>1, GenericAddressee
<1>4. CASE q.provider = "meta"
  <2> DEFINE x == <<"messages", "0", "text", "body">>
  <2>1. Extract(q) = MetaExtract(q)
    BY <1>4 DEF Extract
  <2>2. ExtractFields(q).ok
    BY <1>1, <1>2, <2>1 DEF MetaExtract
  <2>3. Text(r) = IF Field(Bare(q), x) = Empty THEN Unknown ELSE Field(Bare(q), x)
    BY <2>1, <2>2 DEF MetaExtract, Bare
  <2>4. Field(Bare(q), x).id = r
    BY <2>3, RunIsNoPlaceholder
  <2>5. Places(q) = << Field(q.body, x), FormQuery(q, x) >>
    BY <1>4 DEF Places
  <2> HIDE DEF x
  <2> QED
    BY <2>4, <2>5, OneFieldAddressee
<1>5. CASE q.provider = "twilio"
  <2> DEFINE x == <<"body">>
  <2>1. Extract(q) = TwilioExtract(q)
    BY <1>5 DEF Extract
  <2>2. ExtractFields(q).ok
    BY <1>1, <1>2, <2>1 DEF TwilioExtract
  <2>3. Text(r) = TrimSpace(Field(Bare(q), x))
    BY <2>1, <2>2 DEF TwilioExtract, Bare
  <2>4. Field(Bare(q), x).id = r
    BY <2>3, BareFinds, TrimSpaceKeepsID, RunIsNoPlaceholder
  <2>5. Places(q) = << Field(q.body, x), FormQuery(q, x) >>
    BY <1>5 DEF Places
  <2> HIDE DEF x
  <2> QED
    BY <2>4, <2>5, OneFieldAddressee
<1> QED
  BY <1>1, <1>3, <1>4, <1>5

(* The namespaces of an accepted message of the generic provider. *)
LEMMA NamespacesOf ==
    ASSUME NEW q \in Requests, Accepted(q), q.provider = "generic"
    PROVE  LET f == Extract(q).fields
               Says(prefix, t) == \A x \in DOMAIN t : Field(f, <<prefix>> \o x) = t[x]
           IN  /\ Says("query", q.query) /\ Says("headers", q.headers)
               /\ Says("body", IF q.json THEN q.body
                               ELSE Restrict(q.body, DOMAIN q.body \ DOMAIN q.query))
<1> DEFINE f == GenericFields(q, Bare(q))
           b == IF q.json THEN q.body ELSE Restrict(q.body, DOMAIN q.body \ DOMAIN q.query)
<1>1. Extract(q).fields = f
  <2>1. Extract(q) = GenericExtract(q) /\ GenericExtract(q).ok
    BY DEF Extract, Accepted
  <2> QED
    BY <2>1 DEF GenericExtract, Rejected, Bare
<1>2. /\ IsTable(q.query, Seq(STRING), Texts) /\ IsTable(q.headers, Seq(STRING), Texts)
      /\ IsTable(q.body, Seq(STRING), Texts) /\ q.json \in BOOLEAN
      /\ q.kind # "fields" => q.body = EmptyTable
  BY RequestTyped
<1>3. /\ \A x \in DOMAIN q.query : Field(f, <<"query">> \o x) = q.query[x]
      /\ \A x \in DOMAIN q.headers : Field(f, <<"headers">> \o x) = q.headers[x]
      /\ \A x \in DOMAIN Bare(q) : Field(f, <<"body">> \o x) = Bare(q)[x]
  <2>1. DOMAIN Bare(q) \subseteq Seq(STRING) /\ DOMAIN q.query \subseteq Seq(STRING)
        /\ DOMAIN q.headers \subseteq Seq(STRING)
    BY <1>2, BareFinds DEF IsTable
  <2> QED
    BY <2>1, GenericFieldsFind
<1>4. ASSUME NEW x \in DOMAIN b
      PROVE  x \in DOMAIN Bare(q) /\ Bare(q)[x] = b[x]
  <2>1. x \in DOMAIN q.body /\ b[x] = q.body[x] /\ (q.json \/ x \notin DOMAIN q.query)
    BY <1>2 DEF Restrict
  <2>2. ExtractFields(q).ok
    <3>1. q.body # EmptyTable
      BY <2>1 DEF EmptyTable
    <3> QED
      BY <1>2, <3>1 DEF ExtractFields
  <2>3. CASE q.json
    BY <2>1, <2>2, <2>3 DEF Bare, ExtractFields
  <2>4. CASE ~q.json
    <3>1. Bare(q) = FormFields(q)
      BY <1>2, <2>1, <2>2, <2>4 DEF Bare, ExtractFields
    <3> QED
      BY <2>1, <2>4, <3>1 DEF FormFields
  <2> QED
    BY <1>2, <2>3, <2>4
<1> HIDE DEF f, b
<1>5. \A x \in DOMAIN b : Field(f, <<"body">> \o x) = b[x]
  BY <1>3, <1>4
<1> QED
  BY <1>1, <1>3, <1>5 DEF b

(* An assertion can see the run id that made a simple mail be found. *)
LEMMA SimpleMailShowsID ==
    ASSUME NEW m \in Mails, Simple(m), NEW p \in Range(m.parts), NEW r \in p.ids
    PROVE  r \in ParseMessage(m).body \cup ParseMessage(m).html_body
<1>1. PICK n \in DOMAIN m.parts : p = m.parts[n]
  BY DEF Range
<1>2. /\ m.parts \in Seq(Parts) /\ DOMAIN m.parts = 1 .. Len(m.parts) /\ Len(m.parts) \in Nat
      /\ p.type \in {"plain", "html"} /\ ~p.blank
  BY <1>1, InboundAssumption, LenProperties DEF Simple
<1>3. n \in Readable(m.parts)
  <2>1. \A k \in 1 .. n : k \in DOMAIN m.parts
    BY <1>2
  <2>2. \A k \in DOMAIN m.parts : m.parts[k] \in Range(m.parts)
    BY DEF Range
  <2>3. \A k \in 1 .. n : m.parts[k].type # "broken"
    BY <2>1, <2>2 DEF Simple
  <2> QED
    BY <2>3 DEF Readable
<1>4. r \in PartOf(m.parts, p.type)
  <2> DEFINE S == {k \in Readable(m.parts) : m.parts[k].type = p.type /\ ~m.parts[k].blank}
  <2>1. n \in S
    BY <1>1, <1>2, <1>3
  <2>2. \A k \in S : k = n
    BY <1>1 DEF Simple, Readable
  <2>3. S \in SUBSET Nat
    BY <1>2 DEF Readable
  <2> HIDE DEF S
  <2>4. First(S) \in S
    BY <2>1, <2>3, FirstIsLeast
  <2>5. First(S) = n
    BY <2>2, <2>4
  <2> QED
    BY <1>1, <2>1, <2>5 DEF PartOf, S
<1> QED
  BY <1>2, <1>4 DEF ParseMessage

----------------------------------------------------------------------------
(* The inductive invariant.  The receivers are where the code can be, and  *)
(* every request that was answered with 204 was acceptable.                *)
States == {"idle", "waiting", "searching", "claimed", "ended", "done"}

Receivers == [at : States, attempt : 1 .. MaxAttempts, hand : Nat]

Found == [n : Nat, by : {"key", "subject", "body"}]

Typed ==
    /\ type \in [Runs -> {"webhook", "imap"}]
    /\ col \in [Runs -> Receivers]
    /\ got \in [Runs -> Seq(Found)]
    /\ log \in Seq(Requests) /\ Len(log) <= MaxRequests
    /\ mailbox \in Seq(Mails) /\ Len(mailbox) <= MaxMails
    /\ \A n \in DOMAIN log : Accepted(log[n])

(* A stored message is the request it was extracted from. *)
StoreIsLogged ==
    \A k \in DOMAIN store :
        store[k] \in DOMAIN log /\ k = Extract(log[store[k]]).run /\ Valid(k)

(* An attempt collects at most once. *)
AttemptsCounted(r) ==
    /\ Len(got[r]) <= col[r].attempt
    /\ col[r].at \in {"idle", "waiting", "searching"} => Len(got[r]) < col[r].attempt

(* A webhook receiver has read what was stored under its run's id; while   *)
(* it has one message in hand, the store has none that is older.           *)
WebhookFinds(r) ==
    type[r] = "webhook" =>
        /\ ~At(r, "searching")
        /\ \A i \in DOMAIN got[r] :
              got[r][i].n \in DOMAIN log /\ Extract(log[got[r][i].n]).run = Text(r)
        /\ At(r, "claimed") =>
              /\ \E i \in DOMAIN got[r] : got[r][i].n = col[r].hand
              /\ Text(r) \in DOMAIN store => col[r].hand <= store[Text(r)]

(* A mail that was found by its subject, or by its body, is the first of   *)
(* those in the mailbox to this day; who has found one by its subject      *)
(* never searches the bodies again.                                        *)
MailFinds(r) ==
    type[r] = "imap" =>
        /\ \A i \in DOMAIN got[r] :
              \/ got[r][i].by = "subject" /\ InSubject(r) # {} /\ got[r][i].n = First(InSubject(r))
              \/ got[r][i].by = "body" /\ InBody(r) # {} /\ got[r][i].n = First(InBody(r))
        /\ At(r, "searching") => \A i \in DOMAIN got[r] : got[r][i].by = "body"
        /\ \A i, j \in DOMAIN got[r] :
              i < j /\ got[r][i].by = "subject" => got[r][j].by = "subject"

RunInv(r) == AttemptsCounted(r) /\ WebhookFinds(r) /\ MailFinds(r)

Inv == Typed /\ StoreIsLogged /\ \A r \in Runs : RunInv(r)

(* The messages of t are messages of s. *)
Within(t, s) == \A k \in DOMAIN t : k \in DOMAIN s /\ t[k] = s[k]

LEMMA DropIsWithin ==
    ASSUME NEW f, NEW k
    PROVE  Within(Drop(f, k), f) /\ Within(f, f)
BY DEF Within, Drop, Restrict

----------------------------------------------------------------------------
(* A run that does not move keeps its part of the invariant. *)
LEMMA OthersStay ==
    ASSUME NEW x \in Runs, RunInv(x), col'[x] = col[x], got'[x] = got[x],
           UNCHANGED <<type, log, mailbox>>, Within(store', store)
    PROVE  RunInv(x)'
<1>1. AttemptsCounted(x)'
  BY DEF RunInv, AttemptsCounted
<1>2. WebhookFinds(x)'
  BY DEF RunInv, WebhookFinds, Within, At
<1>3. MailFinds(x)'
  BY DEF RunInv, MailFinds, InSubject, InBody, At
<1> QED
  BY <1>1, <1>2, <1>3 DEF RunInv

(* The store loses messages and gets none. *)
LEMMA LoggedStay ==
    ASSUME StoreIsLogged, log' = log, Within(store', store)
    PROVE  StoreIsLogged'
BY DEF StoreIsLogged, Within

LEMMA GoEffect ==
    ASSUME Typed, NEW r \in Runs, NEW at \in States, Go(r, at)
    PROVE  /\ col' \in [Runs -> Receivers]
           /\ col'[r].at = at /\ col'[r].attempt = col[r].attempt
           /\ \A x \in Runs \ {r} : col'[x] = col[x]
BY DEF Typed, Go, Receivers

LEMMA GoStep ==
    ASSUME Inv, NEW r \in Runs, NEW at \in States \ {"claimed"}, Go(r, at),
           got' = got, Within(store', store),
           at = "searching" => type[r] = "imap" /\ InSubject(r) = {},
           at \in {"idle", "waiting", "searching"} =>
               col[r].at \in {"idle", "waiting", "searching"}
    PROVE  Inv'
<1>1. /\ col' \in [Runs -> Receivers] /\ col'[r].at = at /\ col'[r].attempt = col[r].attempt
      /\ \A x \in Runs \ {r} : col'[x] = col[x]
  BY GoEffect DEF Inv
<1>2. UNCHANGED <<type, log, mailbox>>
  BY DEF Go
<1>3. Typed'
  BY <1>1, <1>2 DEF Inv, Typed
<1>4. StoreIsLogged'
  BY <1>2, LoggedStay DEF Inv
<1>5. \A x \in Runs \ {r} : RunInv(x)'
  BY <1>1, <1>2, OthersStay DEF Inv
<1>6. RunInv(r)'
  <2>1. RunInv(r)
    BY DEF Inv
  <2>2. AttemptsCounted(r)'
    BY <1>1, <2>1 DEF RunInv, AttemptsCounted
  <2>3. WebhookFinds(r)'
    BY <1>1, <1>2, <2>1 DEF RunInv, WebhookFinds, At
  <2>4. MailFinds(r)'
    <3>1. InSubject(r)' = InSubject(r) /\ InBody(r)' = InBody(r)
      BY <1>2 DEF InSubject, InBody
    <3> QED
      BY <1>1, <1>2, <2>1, <3>1 DEF RunInv, MailFinds, At
  <2> QED
    BY <2>2, <2>3, <2>4 DEF RunInv
<1> QED
  BY <1>3, <1>4, <1>5, <1>6 DEF Inv

LEMMA CollectEffect ==
    ASSUME Typed, NEW r \in Runs, NEW n \in Nat, NEW by \in {"key", "subject", "body"},
           Collect(r, n, by)
    PROVE  /\ col' \in [Runs -> Receivers]
           /\ col'[r].at = "claimed" /\ col'[r].attempt = col[r].attempt /\ col'[r].hand = n
           /\ \A x \in Runs \ {r} : col'[x] = col[x] /\ got'[x] = got[x]
           /\ got' \in [Runs -> Seq(Found)]
           /\ Len(got[r]) \in Nat /\ Len(got'[r]) = Len(got[r]) + 1
           /\ DOMAIN got[r] = 1 .. Len(got[r]) /\ DOMAIN got'[r] = 1 .. Len(got[r]) + 1
           /\ \A i \in DOMAIN got[r] : got'[r][i] = got[r][i]
           /\ got'[r][Len(got[r]) + 1] = [n |-> n, by |-> by]
<1> DEFINE e == [n |-> n, by |-> by]
<1>1. /\ col' \in [Runs -> Receivers]
      /\ col'[r].at = "claimed" /\ col'[r].attempt = col[r].attempt /\ col'[r].hand = n
      /\ \A x \in Runs \ {r} : col'[x] = col[x]
  BY DEF Typed, Collect, Receivers, States
<1>2. e \in Found /\ got[r] \in Seq(Found)
  BY DEF Typed, Found
<1> HIDE DEF e
<1>3. /\ Append(got[r], e) \in Seq(Found) /\ Len(Append(got[r], e)) = Len(got[r]) + 1
      /\ \A i \in 1 .. Len(got[r]) : Append(got[r], e)[i] = got[r][i]
      /\ Append(got[r], e)[Len(got[r]) + 1] = e
  BY <1>2, AppendProperties
<1>4. /\ Len(got[r]) \in Nat /\ DOMAIN got[r] = 1 .. Len(got[r])
      /\ DOMAIN Append(got[r], e) = 1 .. Len(got[r]) + 1
  BY <1>2, <1>3, LenProperties
<1>5. got' = [got EXCEPT ![r] = Append(got[r], e)] /\ got \in [Runs -> Seq(Found)]
  BY DEF Typed, Collect, e
<1>6. /\ got'[r] = Append(got[r], e) /\ got' \in [Runs -> Seq(Found)]
      /\ \A x \in Runs \ {r} : got'[x] = got[x]
  BY <1>3, <1>5
<1> QED
  BY <1>1, <1>3, <1>4, <1>6 DEF e

(* What a receiver collects is the newest of what it has collected. *)
LEMMA CollectStep ==
    ASSUME Inv, NEW r \in Runs, NEW n \in Nat, NEW by \in {"key", "subject", "body"},
           Collect(r, n, by), col[r].at \in {"waiting", "searching"},
           type[r] = "webhook" => Text(r) \in DOMAIN store /\ n = store[Text(r)],
           type[r] = "imap" =>
               \/ by = "subject" /\ InSubject(r) # {} /\ n = First(InSubject(r))
               \/ /\ by = "body" /\ InBody(r) # {} /\ n = First(InBody(r))
                  /\ col[r].at = "searching"
    PROVE  Inv'
<1> DEFINE last == Len(got[r]) + 1
<1>0. Typed
  BY DEF Inv
<1>1. /\ col' \in [Runs -> Receivers] /\ got' \in [Runs -> Seq(Found)]
      /\ \A x \in Runs \ {r} : col'[x] = col[x] /\ got'[x] = got[x]
  BY <1>0, CollectEffect, ZenonT(60)
<1>2. col'[r].at = "claimed" /\ col'[r].attempt = col[r].attempt /\ col'[r].hand = n
  BY <1>0, CollectEffect, ZenonT(60)
<1>3. /\ Len(got[r]) \in Nat /\ Len(got'[r]) = Len(got[r]) + 1
      /\ DOMAIN got[r] = 1 .. Len(got[r]) /\ DOMAIN got'[r] = 1 .. Len(got[r]) + 1
      /\ \A i \in DOMAIN got[r] : got'[r][i] = got[r][i]
      /\ got'[r][Len(got[r]) + 1] = [n |-> n, by |-> by]
  BY <1>0, CollectEffect, ZenonT(60)
<1>4. UNCHANGED <<type, store, log, mailbox>>
  BY DEF Collect
<1>5. Typed'
  BY <1>1, <1>4 DEF Inv, Typed
<1>6. Within(store', store)
  BY <1>4 DEF Within
<1>7. StoreIsLogged'
  BY <1>4, <1>6, LoggedStay DEF Inv
<1>8. \A x \in Runs \ {r} : RunInv(x)'
  BY <1>1, <1>4, <1>6, OthersStay DEF Inv
<1>9. RunInv(r)'
  <2>1. AttemptsCounted(r) /\ WebhookFinds(r) /\ MailFinds(r) /\ StoreIsLogged
    BY DEF Inv, RunInv
  <2>2. last \in DOMAIN got'[r] /\ \A i \in DOMAIN got'[r] : i = last \/ (i \in DOMAIN got[r] /\ i < last)
    BY <1>3
  <2>3. got'[r][last].n = n /\ got'[r][last].by = by
    BY <1>3
  <2>4. AttemptsCounted(r)'
    <3>1. Len(got[r]) < col[r].attempt
      BY <2>1 DEF AttemptsCounted
    <3>2. col[r].attempt \in Nat
      BY DEF Inv, Typed, Receivers
    <3> QED
      BY <1>2, <1>3, <3>1, <3>2 DEF AttemptsCounted
  <2> HIDE DEF last
  <2>5. WebhookFinds(r)'
    <3> SUFFICES ASSUME type[r] = "webhook" PROVE WebhookFinds(r)'
      BY <1>4 DEF WebhookFinds
    <3>1. Text(r) \in DOMAIN store /\ n = store[Text(r)] /\ n \in DOMAIN log
          /\ Extract(log[n]).run = Text(r)
      BY <2>1 DEF StoreIsLogged
    <3>2. \A i \in DOMAIN got'[r] :
              got'[r][i].n \in DOMAIN log /\ Extract(log[got'[r][i].n]).run = Text(r)
      BY <1>3, <2>1, <2>2, <2>3, <3>1 DEF WebhookFinds
    <3>3. \E i \in DOMAIN got'[r] : got'[r][i].n = col'[r].hand
      BY <1>2, <2>2, <2>3
    <3> QED
      BY <1>2, <1>4, <3>1, <3>2, <3>3 DEF WebhookFinds, At
  <2>6. MailFinds(r)'
    <3> SUFFICES ASSUME type[r] = "imap" PROVE MailFinds(r)'
      BY <1>4 DEF MailFinds
    <3>1. InSubject(r)' = InSubject(r) /\ InBody(r)' = InBody(r)
      BY <1>4 DEF InSubject, InBody
    <3>2. \A i \in DOMAIN got'[r] :
              \/ got'[r][i].by = "subject" /\ InSubject(r) # {} /\ got'[r][i].n = First(InSubject(r))
              \/ got'[r][i].by = "body" /\ InBody(r) # {} /\ got'[r][i].n = First(InBody(r))
      BY <1>3, <2>1, <2>2, <2>3 DEF MailFinds
    <3>3. \A i \in DOMAIN got[r] : by = "body" => got[r][i].by = "body"
      BY <2>1 DEF MailFinds, At
    <3>4. ASSUME NEW i \in DOMAIN got'[r], NEW j \in DOMAIN got'[r], i < j,
                 got'[r][i].by = "subject"
          PROVE  got'[r][j].by = "subject"
      <4>1. i \in DOMAIN got[r] /\ got[r][i].by = "subject"
        BY <1>3, <2>2, <3>4
      <4>2. CASE j = last
        BY <2>3, <3>3, <4>1, <4>2
      <4>3. CASE j \in DOMAIN got[r]
        BY <1>3, <2>1, <3>4, <4>1, <4>3 DEF MailFinds
      <4> QED
        BY <2>2, <4>2, <4>3
    <3>5. ~At(r, "searching")'
      BY <1>2 DEF At
    <3> QED
      BY <3>1, <3>2, <3>4, <3>5 DEF MailFinds
  <2> QED
    BY <2>4, <2>5, <2>6 DEF RunInv
<1> QED
  BY <1>5, <1>7, <1>8, <1>9 DEF Inv

----------------------------------------------------------------------------
(* A request that is answered with 204 is the newest of the log and of its *)
(* key.                                                                    *)
LEMMA DepositStep ==
    ASSUME Inv, NEW q \in Requests, Deposit(q)
    PROVE  Inv'
<1> DEFINE last == Len(log) + 1
           key == Extract(q).run
<1>1. /\ log \in Seq(Requests) /\ Len(log) \in Nat /\ DOMAIN log = 1 .. Len(log)
      /\ log' = Append(log, q) /\ Accepted(q) /\ Len(log) < MaxRequests /\ MaxRequests \in Nat
  BY InboundAssumption, LenProperties DEF Inv, Typed, Deposit
<1>2. /\ log' \in Seq(Requests) /\ Len(log') = Len(log) + 1
      /\ \A i \in 1 .. Len(log) : log'[i] = log[i]
      /\ log'[Len(log) + 1] = q
  BY <1>1, AppendProperties
<1>3. DOMAIN log' = 1 .. Len(log) + 1
  BY <1>2, LenProperties
<1>4. /\ last \in DOMAIN log' /\ log'[last] = q
      /\ \A n \in DOMAIN log : n \in DOMAIN log' /\ log'[n] = log[n] /\ n < last /\ n \in Nat
      /\ \A n \in DOMAIN log' : n = last \/ n \in DOMAIN log
  BY <1>1, <1>2, <1>3
<1>5. UNCHANGED <<type, col, mailbox, got>> /\ store' = Put(store, key, last)
  BY DEF Deposit
<1>6. Typed'
  <2>1. \A n \in DOMAIN log' : Accepted(log'[n])
    BY <1>1, <1>4 DEF Inv, Typed
  <2>2. Len(log') <= MaxRequests
    BY <1>1, <1>2
  <2> QED
    BY <1>2, <1>5, <2>1, <2>2 DEF Inv, Typed
<1>7. /\ DOMAIN store' = DOMAIN store \cup {key} /\ store'[key] = last
      /\ \A k \in DOMAIN store \ {key} : store'[k] = store[k]
  BY <1>5 DEF Put
<1>8. StoreIsLogged'
  <2>1. last \in DOMAIN log' /\ key = Extract(log'[last]).run /\ Valid(key)
    BY <1>1, <1>4 DEF Accepted
  <2> HIDE DEF key, last
  <2>2. \A k \in DOMAIN store : store[k] \in DOMAIN log /\ k = Extract(log[store[k]]).run /\ Valid(k)
    BY DEF Inv, StoreIsLogged
  <2> SUFFICES ASSUME NEW k \in DOMAIN store'
               PROVE  store'[k] \in DOMAIN log' /\ k = Extract(log'[store'[k]]).run /\ Valid(k)
    BY DEF StoreIsLogged
  <2>3. CASE k = key
    BY <1>7, <2>1, <2>3
  <2>4. CASE k # key
    BY <1>4, <1>7, <2>2, <2>4
  <2> QED
    BY <2>3, <2>4
<1>9. ASSUME NEW r \in Runs
      PROVE  RunInv(r)'
  <2>1. AttemptsCounted(r) /\ WebhookFinds(r) /\ MailFinds(r)
    BY DEF Inv, RunInv
  <2>2. AttemptsCounted(r)'
    BY <1>5, <2>1 DEF AttemptsCounted
  <2>3. MailFinds(r)'
    BY <1>5, <2>1 DEF MailFinds, InSubject, InBody, At
  <2>4. WebhookFinds(r)'
    <3> HIDE DEF key, last
    <3> SUFFICES ASSUME type[r] = "webhook" PROVE WebhookFinds(r)'
      BY <1>5 DEF WebhookFinds
    <3>1. /\ ~At(r, "searching")'
          /\ \A i \in DOMAIN got'[r] :
                got'[r][i].n \in DOMAIN log' /\ Extract(log'[got'[r][i].n]).run = Text(r)
      BY <1>4, <1>5, <2>1 DEF WebhookFinds, At
    <3>2. ASSUME At(r, "claimed")
          PROVE  /\ \E i \in DOMAIN got[r] : got[r][i].n = col[r].hand
                 /\ Text(r) \in DOMAIN store' => col[r].hand <= store'[Text(r)]
      <4>1. PICK i \in DOMAIN got[r] : got[r][i].n = col[r].hand
        BY <2>1, <3>2 DEF WebhookFinds
      <4>2. col[r].hand \in DOMAIN log
        BY <2>1, <4>1 DEF WebhookFinds
      <4>3. col[r].hand < last /\ col[r].hand \in Nat /\ last \in Nat
        BY <1>1, <1>4, <4>2 DEF last
      <4>4. CASE Text(r) = key
        BY <1>7, <4>1, <4>3, <4>4
      <4>5. CASE Text(r) # key
        BY <1>7, <2>1, <3>2, <4>5 DEF WebhookFinds
      <4> QED
        BY <4>4, <4>5
    <3> QED
      BY <1>5, <3>1, <3>2 DEF WebhookFinds, At
  <2> QED
    BY <2>2, <2>3, <2>4 DEF RunInv
<1> QED
  BY <1>6, <1>8, <1>9 DEF Inv

LEMMA ExpireStep ==
    ASSUME Inv, NEW k \in DOMAIN store, Expire(k)
    PROVE  Inv'
<1>1. UNCHANGED <<type, col, log, mailbox, got>> /\ Within(store', store)
  BY DropIsWithin DEF Expire
<1>2. Typed'
  BY <1>1 DEF Inv, Typed
<1>3. StoreIsLogged'
  BY <1>1, LoggedStay DEF Inv
<1>4. \A x \in Runs : RunInv(x)'
  BY <1>1, OthersStay DEF Inv
<1> QED
  BY <1>2, <1>3, <1>4 DEF Inv

(* A mail comes after those that are in the mailbox: who was the first     *)
(* with an id, in the subject or in the body, still is.                    *)
LEMMA MailStep ==
    ASSUME Inv, NEW m \in Mails, MailArrives(m)
    PROVE  Inv'
<1>1. /\ mailbox \in Seq(Mails) /\ Len(mailbox) \in Nat /\ DOMAIN mailbox = 1 .. Len(mailbox)
      /\ mailbox' = Append(mailbox, m) /\ Len(mailbox) < MaxMails /\ MaxMails \in Nat
  BY InboundAssumption, LenProperties DEF Inv, Typed, MailArrives
<1>2. /\ mailbox' \in Seq(Mails) /\ Len(mailbox') = Len(mailbox) + 1
      /\ \A i \in 1 .. Len(mailbox) : mailbox'[i] = mailbox[i]
  BY <1>1, AppendProperties
<1>3. DOMAIN mailbox' = 1 .. Len(mailbox) + 1
  BY <1>2, LenProperties
<1>4. /\ \A n \in DOMAIN mailbox : n \in DOMAIN mailbox' /\ mailbox'[n] = mailbox[n]
      /\ \A n \in DOMAIN mailbox : \A k \in DOMAIN mailbox' \ DOMAIN mailbox : n < k
      /\ DOMAIN mailbox' \subseteq Nat
  BY <1>1, <1>2, <1>3
<1>5. UNCHANGED <<type, col, store, log, got>>
  BY DEF MailArrives
<1>6. Typed'
  <2>1. Len(mailbox') <= MaxMails
    BY <1>1, <1>2
  <2> QED
    BY <1>2, <1>5, <2>1 DEF Inv, Typed
<1>7. StoreIsLogged'
  BY <1>5 DEF Inv, StoreIsLogged
<1>8. ASSUME NEW r \in Runs
      PROVE  RunInv(r)'
  <2>1. AttemptsCounted(r) /\ WebhookFinds(r) /\ MailFinds(r)
    BY DEF Inv, RunInv
  <2>2. AttemptsCounted(r)'
    BY <1>5, <2>1 DEF AttemptsCounted
  <2>3. WebhookFinds(r)'
    BY <1>5, <2>1 DEF WebhookFinds, At
  <2>4. MailFinds(r)'
    <3>1. InSubject(r) # {} => InSubject(r)' # {} /\ First(InSubject(r)') = First(InSubject(r))
      <4>1. /\ InSubject(r) \in SUBSET Nat /\ InSubject(r)' \in SUBSET Nat
            /\ InSubject(r) \subseteq InSubject(r)'
            /\ \A s \in InSubject(r) : \A t \in InSubject(r)' \ InSubject(r) : s < t
        BY <1>4 DEF InSubject
      <4> QED
        BY <4>1, FirstIsStable
    <3>2. InBody(r) # {} => InBody(r)' # {} /\ First(InBody(r)') = First(InBody(r))
      <4>1. /\ InBody(r) \in SUBSET Nat /\ InBody(r)' \in SUBSET Nat
            /\ InBody(r) \subseteq InBody(r)'
            /\ \A s \in InBody(r) : \A t \in InBody(r)' \ InBody(r) : s < t
        BY <1>4 DEF InBody
      <4> QED
        BY <4>1, FirstIsStable
    <3> SUFFICES ASSUME type[r] = "imap" PROVE MailFinds(r)'
      BY <1>5 DEF MailFinds
    <3>3. \A i \in DOMAIN got[r] :
              \/ got[r][i].by = "subject" /\ InSubject(r)' # {} /\ got[r][i].n = First(InSubject(r)')
              \/ got[r][i].by = "body" /\ InBody(r)' # {} /\ got[r][i].n = First(InBody(r)')
      BY <2>1, <3>1, <3>2 DEF MailFinds
    <3> QED
      BY <1>5, <2>1, <3>3 DEF MailFinds, At, First
  <2> QED
    BY <2>2, <2>3, <2>4 DEF RunInv
<1> QED
  BY <1>6, <1>7, <1>8 DEF Inv

(* Another attempt: it has not collected anything yet. *)
LEMMA RetryStep ==
    ASSUME Inv, NEW r \in Runs, Retry(r)
    PROVE  Inv'
<1>1. /\ col' \in [Runs -> Receivers]
      /\ col'[r].at = "idle" /\ col'[r].attempt = col[r].attempt + 1
      /\ \A x \in Runs \ {r} : col'[x] = col[x]
  <2>1. /\ col \in [Runs -> Receivers] /\ col[r].attempt \in 1 .. MaxAttempts
        /\ col[r].attempt < MaxAttempts /\ MaxAttempts \in Nat
    BY InboundAssumption DEF Inv, Typed, Receivers, Retry
  <2>2. NotStarted(col[r].attempt + 1) \in Receivers
    BY <2>1 DEF NotStarted, Receivers, States
  <2>3. col' = [col EXCEPT ![r] = NotStarted(col[r].attempt + 1)]
    BY DEF Retry
  <2> QED
    BY <2>1, <2>2, <2>3 DEF NotStarted
<1>2. UNCHANGED <<type, store, log, mailbox, got>>
  BY DEF Retry
<1>3. Typed'
  BY <1>1, <1>2 DEF Inv, Typed
<1>4. StoreIsLogged' /\ Within(store', store)
  BY <1>2 DEF Inv, StoreIsLogged, Within
<1>5. \A x \in Runs \ {r} : RunInv(x)'
  BY <1>1, <1>2, <1>4, OthersStay DEF Inv
<1>6. RunInv(r)'
  <2>1. AttemptsCounted(r) /\ WebhookFinds(r) /\ MailFinds(r)
    BY DEF Inv, RunInv
  <2>2. AttemptsCounted(r)'
    <3>1. Len(got[r]) \in Nat /\ col[r].attempt \in Nat
      BY LenProperties DEF Inv, Typed, Receivers
    <3>2. Len(got[r]) < col[r].attempt + 1 /\ Len(got[r]) <= col[r].attempt + 1
      BY <2>1, <3>1 DEF AttemptsCounted
    <3> QED
      BY <1>1, <1>2, <3>2 DEF AttemptsCounted
  <2>3. WebhookFinds(r)'
    BY <1>1, <1>2, <2>1 DEF WebhookFinds, At
  <2>4. MailFinds(r)'
    BY <1>1, <1>2, <2>1 DEF MailFinds, InSubject, InBody, At
  <2> QED
    BY <2>2, <2>3, <2>4 DEF RunInv
<1> QED
  BY <1>3, <1>4, <1>5, <1>6 DEF Inv

----------------------------------------------------------------------------
(* What a search finds is there to be fetched. *)
LEMMA FetchStep ==
    ASSUME Inv, NEW r \in Runs, NEW S \in SUBSET Nat, NEW by \in {"subject", "body"},
           type[r] = "imap", col[r].at \in {"waiting", "searching"},
           S # {}, Fetch(r, First(S), by),
           \/ by = "subject" /\ S = InSubject(r)
           \/ by = "body" /\ S = InBody(r) /\ col[r].at = "searching"
    PROVE  Inv'
<1>1. First(S) \in Nat
  BY FirstIsLeast
<1>2. CASE Collect(r, First(S), by)
  BY <1>1, <1>2, CollectStep
<1>3. CASE Go(r, "ended") /\ UNCHANGED <<store, got>>
  BY <1>3, GoStep, DropIsWithin DEF States
<1> QED
  BY <1>2, <1>3 DEF Fetch

LEMMA InitInv == Init => Inv
<1> SUFFICES ASSUME Init PROVE Inv
  OBVIOUS
<1>1. Typed
  <2>1. MaxRequests \in Nat /\ MaxMails \in Nat /\ MaxAttempts \in Nat /\ 1 <= MaxAttempts
    <3>1. MaxRequests \in Nat /\ MaxMails \in Nat /\ MaxAttempts \in Nat \ {0}
      BY InboundAssumption
    <3> QED
      BY <3>1
  <2>2. NotStarted(1) \in Receivers
    BY <2>1 DEF NotStarted, Receivers, States
  <2>3. col \in [Runs -> Receivers] /\ got \in [Runs -> Seq(Found)]
    BY <2>2 DEF Init
  <2>4. /\ log \in Seq(Requests) /\ Len(log) <= MaxRequests /\ DOMAIN log = {}
        /\ mailbox \in Seq(Mails) /\ Len(mailbox) <= MaxMails
    BY <2>1 DEF Init
  <2> QED
    BY <2>3, <2>4 DEF Init, Typed
<1>2. StoreIsLogged /\ DOMAIN store = {}
  BY DEF Init, StoreIsLogged, EmptyTable
<1>3. ASSUME NEW r \in Runs
      PROVE  RunInv(r)
  <2>1. col[r].at = "idle" /\ col[r].attempt = 1 /\ got[r] = << >>
    BY <1>3 DEF Init, NotStarted
  <2>2. Len(got[r]) = 0 /\ DOMAIN got[r] = {}
    BY <2>1
  <2> QED
    BY <2>1, <2>2 DEF RunInv, AttemptsCounted, WebhookFinds, MailFinds, At
<1> QED
  BY <1>1, <1>2, <1>3 DEF Inv

LEMMA NextInv == Inv /\ [Next]_vars => Inv'
<1> SUFFICES ASSUME Inv, [Next]_vars PROVE Inv'
  OBVIOUS
<1>1. CASE UNCHANGED vars
  <2>1. UNCHANGED <<type, col, store, log, mailbox, got>> /\ Within(store', store)
    BY <1>1 DEF vars, Within
  <2>2. Typed' /\ StoreIsLogged'
    BY <2>1 DEF Inv, Typed, StoreIsLogged
  <2>3. \A x \in Runs : RunInv(x)'
    BY <2>1, OthersStay DEF Inv
  <2> QED
    BY <2>2, <2>3 DEF Inv
<1>2. CASE Outside
  <2>1. ASSUME NEW q \in Requests, RejectWebhook(q) \/ DepositFails(q) PROVE Inv'
    BY <1>1, <2>1 DEF RejectWebhook, DepositFails
  <2> QED
    BY <1>2, <2>1, DepositStep, ExpireStep, MailStep DEF Outside
<1>3. ASSUME NEW r \in Runs, Tick(r) \/ Attempt(r)
      PROVE  Inv'
  <2>1. /\ InSubject(r) \in SUBSET Nat /\ InBody(r) \in SUBSET Nat
        /\ type[r] \in {"webhook", "imap"} /\ RunInv(r) /\ StoreIsLogged /\ log \in Seq(Requests)
    BY LenProperties DEF Inv, Typed, InSubject, InBody
  <2>2. /\ Within(store, store) /\ Within(Drop(store, Text(r)), store)
        /\ {"idle", "waiting", "searching", "ended", "done"} \subseteq States \ {"claimed"}
    BY DropIsWithin DEF States
  <2>3. CASE Claim(r)
    <3>1. store[Text(r)] \in Nat
      BY <2>1, <2>3, LenProperties DEF Claim, StoreIsLogged
    <3> QED
      BY <2>3, <3>1, CollectStep DEF Claim, At
  <2>4. CASE SearchBySubject(r)
    <3>1. CASE InSubject(r) # {}
      BY <2>1, <2>4, <3>1, FetchStep DEF SearchBySubject, At
    <3>2. CASE InSubject(r) = {}
      BY <2>2, <2>4, <3>2, GoStep DEF SearchBySubject, At
    <3> QED
      BY <3>1, <3>2
  <2>5. CASE SearchByBody(r)
    <3>1. type[r] = "imap"
      BY <2>1, <2>5 DEF SearchByBody, RunInv, WebhookFinds
    <3>2. CASE InBody(r) # {}
      BY <2>1, <2>5, <3>1, <3>2, FetchStep DEF SearchByBody, At
    <3>3. CASE InBody(r) = {}
      BY <2>2, <2>5, <3>3, GoStep DEF SearchByBody, At
    <3> QED
      BY <3>2, <3>3
  <2>6. CASE Start(r)
    BY <2>2, <2>6, GoStep DEF Start, At
  <2>7. CASE ConnectFails(r) \/ CollectFails(r) \/ TimesOut(r) \/ Finish(r)
    BY <2>2, <2>7, GoStep DEF ConnectFails, CollectFails, TimesOut, Finish
  <2>8. CASE Delete(r)
    <3>1. Within(store', store) /\ Go(r, "ended") /\ got' = got
      BY <2>2, <2>8 DEF Delete
    <3> QED
      BY <2>2, <3>1, GoStep
  <2> QED
    BY <1>3, <2>3, <2>4, <2>5, <2>6, <2>7, <2>8, RetryStep DEF Tick, Attempt
<1> QED
  BY <1>1, <1>2, <1>3 DEF Next

(* The receivers, the store, the log and the mailbox stay as described. *)
THEOREM InboundInvariant == Spec => []Inv
BY InitInv, NextInv, PTL DEF Spec

(* The tables and the receivers keep their types; what is in the store was *)
(* answered with 204 and is under the run id extracted from it, and no run *)
(* collects more messages than it makes attempts.                          *)
THEOREM InboundTypeCorrect == Spec => []TypeOK
<1>1. Inv => TypeOK
  <2> SUFFICES ASSUME Inv PROVE TypeOK
    OBVIOUS
  <2>1. ASSUME NEW r \in Runs
        PROVE  /\ col[r].at \in {"idle", "waiting", "searching", "claimed", "ended", "done"}
               /\ col[r].attempt \in 1 .. MaxAttempts
               /\ Len(got[r]) <= col[r].attempt
    BY <2>1 DEF Inv, Typed, Receivers, States, RunInv, AttemptsCounted
  <2> QED
    BY <2>1 DEF Inv, Typed, StoreIsLogged, TypeOK
<1> QED
  BY <1>1, InboundInvariant, PTL

(* handleWebhook and SearchByRunID give a run only what is meant for it:   *)
(* whatever requests and mails come, in whatever order.                    *)
THEOREM CollectedCorrect == Spec => []CollectedIsOwn
<1>1. Inv => CollectedIsOwn
  <2> SUFFICES ASSUME Inv, NEW r \in Runs, NEW i \in DOMAIN got[r]
               PROVE  LET n == got[r][i].n IN
                      IF type[r] = "webhook" THEN Addressee(log[n]) = r
                      ELSE LET f == ParseMessage(mailbox[n]) IN
                           Simple(mailbox[n]) => r \in f.subject \cup f.body \cup f.html_body
    BY DEF CollectedIsOwn
  <2> DEFINE n == got[r][i].n
  <2>1. RunInv(r) /\ Typed /\ type[r] \in {"webhook", "imap"}
    BY DEF Inv, Typed
  <2>2. CASE type[r] = "webhook"
    <3>1. n \in DOMAIN log /\ Extract(log[n]).run = Text(r)
      BY <2>1, <2>2 DEF RunInv, WebhookFinds
    <3>2. log[n] \in Requests /\ Accepted(log[n])
      BY <2>1, <3>1, ElementOfSeq, LenProperties DEF Typed
    <3>3. Addressee(log[n]) = r
      BY <3>1, <3>2, AddresseeIsRun
    <3> QED
      BY <2>2, <3>3
  <2>3. CASE type[r] = "imap"
    <3>1. \/ InSubject(r) # {} /\ n = First(InSubject(r))
          \/ InBody(r) # {} /\ n = First(InBody(r))
      BY <2>1, <2>3 DEF RunInv, MailFinds
    <3>2. InSubject(r) \in SUBSET Nat /\ InBody(r) \in SUBSET Nat
      BY <2>1, LenProperties DEF Typed, InSubject, InBody
    <3>3. n \in InSubject(r) \/ n \in InBody(r)
      BY <3>1, <3>2, FirstIsLeast
    <3>4. n \in DOMAIN mailbox /\ mailbox[n] \in Mails
      <4>1. n \in DOMAIN mailbox
        BY <3>3 DEF InSubject, InBody
      <4> QED
        BY <2>1, <4>1, ElementOfSeq, LenProperties DEF Typed
    <3>5. CASE n \in InSubject(r)
      BY <2>3, <3>5 DEF InSubject, ParseMessage
    <3>6. CASE n \in InBody(r)
      <4>1. PICK p \in Range(mailbox[n].parts) : r \in p.ids
        BY <3>6 DEF InBody
      <4>2. Simple(mailbox[n]) =>
                r \in ParseMessage(mailbox[n]).body \cup ParseMessage(mailbox[n]).html_body
        BY <3>4, <4>1, SimpleMailShowsID
      <4> QED
        BY <2>3, <4>2
    <3> QED
      BY <3>3, <3>5, <3>6
  <2> QED
    BY <2>1, <2>2, <2>3
<1> QED
  BY <1>1, InboundInvariant, PTL

(* SearchByRunID takes the first of what it finds, so an attempt after a   *)
(* failed one asserts on the same mail, but for a mail found by its body   *)
(* and another one that has the id in its subject.                         *)
THEOREM RetriesCorrect == Spec => []RetriesFindSameMail
<1>1. Inv => RetriesFindSameMail
  BY DEF Inv, RunInv, MailFinds, RetriesFindSameMail
<1> QED
  BY <1>1, InboundInvariant, PTL

(* GenericProvider's fields: a body cannot pass for the query or for the   *)
(* headers of its request.                                                 *)
THEOREM NamespacesCorrect == Spec => []NamespacesAreFaithful
<1>1. Inv => NamespacesAreFaithful
  <2>1. ASSUME Inv, NEW n \in DOMAIN log
        PROVE  log[n] \in Requests /\ Accepted(log[n])
    BY <2>1, ElementOfSeq, LenProperties DEF Inv, Typed
  <2> QED
    BY <2>1, NamespacesOf DEF NamespacesAreFaithful
<1> QED
  BY <1>1, InboundInvariant, PTL

(* Deposit, the TTL and collectAndAssert's Delete: how a message that was  *)
(* answered with 204 may go unread.                                        *)
THEOREM LossesCorrect == Spec => UnreadLosses
<1> DEFINE Lost(k) == ReadBy(store[k]) = {} /\ (k \in DOMAIN store' => store'[k] # store[k])
           Excused(k) == \/ k \in DOMAIN store' /\ store'[k] > store[k]
                         \/ Expire(k)
                         \/ \E r \in Runs : k = Text(r) /\ At(r, "claimed") /\ col[r].hand < store[k]
<1>1. ASSUME Inv, [Next]_vars, NEW k \in DOMAIN store, Lost(k)
      PROVE  Excused(k)
  <2>1. store[k] \in DOMAIN log /\ log \in Seq(Requests) /\ store[k] \in Nat
    BY <1>1, LenProperties DEF Inv, Typed, StoreIsLogged
  <2>2. ~(store' = store)
    BY <1>1
  <2>3. ASSUME NEW q \in Requests, Deposit(q) PROVE Excused(k)
    <3>1. store[k] < Len(log) + 1
      BY <2>1, LenProperties
    <3>2. k = Extract(q).run
      BY <1>1, <2>3 DEF Deposit, Put
    <3>3. k \in DOMAIN store' /\ store'[k] = Len(log) + 1
      BY <2>3, <3>2 DEF Deposit, Put
    <3> QED
      BY <2>1, <3>1, <3>3, LenProperties
  <2>4. ASSUME NEW j \in DOMAIN store, Expire(j) PROVE Excused(k)
    <3>1. k = j
      BY <1>1, <2>4 DEF Expire, Drop, Restrict
    <3> QED
      BY <2>4, <3>1
  <2>5. ASSUME NEW r \in Runs, Delete(r) PROVE Excused(k)
    <3>1. type[r] = "webhook" /\ store' = Drop(store, Text(r)) /\ At(r, "claimed")
      BY <2>2, <2>5 DEF Delete
    <3>2. k = Text(r)
      BY <1>1, <3>1 DEF Drop, Restrict
    <3>3. /\ \E i \in DOMAIN got[r] : got[r][i].n = col[r].hand
          /\ col[r].hand <= store[k] /\ col[r].hand \in Nat
      BY <1>1, <3>1, <3>2 DEF Inv, RunInv, WebhookFinds, Typed, Receivers
    <3>4. col[r].hand # store[k]
      BY <1>1, <3>1, <3>3 DEF ReadBy
    <3> QED
      BY <2>1, <3>1, <3>2, <3>3, <3>4
  <2> QED
    BY <1>1, <2>2, <2>3, <2>4, <2>5
       DEF Next, Outside, Tick, Attempt, vars, RejectWebhook, DepositFails, MailArrives, Claim,
           SearchBySubject, SearchByBody, Fetch, Collect, Start, ConnectFails, CollectFails,
           TimesOut, Retry, Finish
<1>2. Inv /\ [Next]_vars => [\A k \in DOMAIN store : Lost(k) => Excused(k)]_vars
  BY <1>1
<1> QED
  BY <1>2, InboundInvariant, PTL DEF Spec, UnreadLosses
============================================================================
