--------------------------- MODULE StreamProxyProofs ---------------------------
(****************************************************************************)
(* Proofs about one proxied connection, for streams of any bytes and any    *)
(* length, any size of the reads, and any limit of the preview and of the   *)
(* head.                                                                    *)
(*                                                                          *)
(* First what the client makes of a head (HostRewrite): where a head ends,  *)
(* what its lines are, that the lines it writes make one head that splits   *)
(* into them again, and so what becomes of the Host fields.  Then the       *)
(* inductive invariant of the connection (ProxyInv), the actions, and the   *)
(* properties.                                                              *)
(*                                                                          *)
(* Facts about all lines of a head need an induction, which the theorems of *)
(* the library state with an operator for the property; SetInduction states *)
(* it with a set instead, and is proved from what is known of finite sets.  *)
(****************************************************************************)
EXTENDS StreamProxy, FiniteSetTheorems, SequenceTheorems, TLAPS

(* Induction over a set of naturals.                                        *)
LEMMA SetInduction ==
    ASSUME NEW T, 0 \in T, \A n \in Nat : n \in T => n + 1 \in T
    PROVE  \A n \in Nat : n \in T
<1>. SUFFICES ASSUME NEW n \in Nat, n \notin T PROVE FALSE
  OBVIOUS
<1>. DEFINE S == T \cap (0..n)
            f == [k \in S |-> k + 1]
<1>1. IsFiniteSet(S)
  <2>1. IsFiniteSet(0..n)
    BY FS_Interval
  <2>2. S \in SUBSET (0..n)
    OBVIOUS
  <2>. HIDE DEF S
  <2>. QED
    BY <2>1, <2>2, FS_Subset
<1>2. 0 \in S
  OBVIOUS
<1>3. f \in Injection(S, S \ {0})
  <2>1. f \in [S -> S \ {0}]
    OBVIOUS
  <2>2. \A a, b \in S : f[a] = f[b] => a = b
    OBVIOUS
  <2>. QED
    BY <2>1, <2>2 DEF Injection, IsInjective
<1>. HIDE DEF S, f
<1>4. /\ IsFiniteSet(S \ {0}) /\ Cardinality(S \ {0}) = Cardinality(S) - 1
      /\ Cardinality(S) \in Nat
  BY <1>1, <1>2, FS_RemoveElement, FS_CardinalityType
<1>5. Cardinality(S) <= Cardinality(S \ {0})
  BY <1>3, <1>4, FS_Injection
<1>. QED
  BY <1>4, <1>5

(* A set of naturals that is not empty has a least one.                     *)
LEMMA Least == ASSUME NEW T \in SUBSET Nat, T # {} PROVE \E m \in T : \A n \in T : m <= n
<1>. SUFFICES ASSUME \A m \in T : \E n \in T : n < m PROVE FALSE
  OBVIOUS
<1>. DEFINE Below == {n \in Nat : \A k \in T : n <= k}
<1>1. 0 \in Below /\ \A n \in Nat : n \in Below => n + 1 \in Below
  OBVIOUS
<1>2. \A n \in Nat : n \in Below
  <2>. HIDE DEF Below
  <2>. QED
    BY <1>1, SetInduction
<1>3. PICK t \in T : TRUE
  OBVIOUS
<1>4. t + 1 \in Below
  BY <1>2
<1>. QED
  BY <1>3, <1>4

----------------------------------------------------------------------------
(* Line ends and heads.                                                     *)

Text == Seq(Tokens)
EndAt(s, i) == i \in 1..(Len(s) - 1) /\ s[i] = "cr" /\ s[i + 1] = "lf"
HeadEndAt(s, i) == EndAt(s, i) /\ EndAt(s, i + 2)

(* What a concatenation is, place by place.                                 *)
LEMMA TextConcat ==
    ASSUME NEW S, NEW s \in Seq(S), NEW t \in Seq(S)
    PROVE  /\ s \o t \in Seq(S) /\ Len(s \o t) = Len(s) + Len(t)
           /\ \A i \in 1..Len(s) : (s \o t)[i] = s[i]
           /\ \A i \in 1..Len(t) : (s \o t)[Len(s) + i] = t[i]
<1>1. Len(s) \in Nat /\ Len(t) \in Nat
  OBVIOUS
<1>2. s \o t \in Seq(S) /\ Len(s \o t) = Len(s) + Len(t)
  BY ConcatProperties
<1>3. \A i \in 1..(Len(s) + Len(t)) : (s \o t)[i] = IF i <= Len(s) THEN s[i] ELSE t[i - Len(s)]
  BY ConcatProperties
<1>4. ASSUME NEW i \in 1..Len(s) PROVE (s \o t)[i] = s[i]
  BY <1>1, <1>3
<1>5. ASSUME NEW i \in 1..Len(t) PROVE (s \o t)[Len(s) + i] = t[i]
  BY <1>1, <1>3
<1>. QED
  BY <1>2, <1>4, <1>5

(* The pattern that ends a head.                                            *)
LEMMA TwoLineEnds ==
    LET v == CRLF \o CRLF
    IN  /\ Len(v) = 4 /\ v \in Seq(Tokens)
        /\ v[1] = "cr" /\ v[2] = "lf" /\ v[3] = "cr" /\ v[4] = "lf"
<1>. DEFINE v == CRLF \o CRLF
<1>1. CRLF \in Seq(Tokens)
  BY DEF CRLF, Tokens
<1>2. CRLF[1] = "cr" /\ CRLF[2] = "lf" /\ Len(CRLF) = 2
  BY DEF CRLF
<1>3. v \in Seq(Tokens) /\ Len(v) = Len(CRLF) + Len(CRLF)
  BY <1>1, TextConcat
<1>4. \A k \in 1..Len(CRLF) : v[k] = CRLF[k] /\ v[Len(CRLF) + k] = CRLF[k]
  BY <1>1, TextConcat
<1>. HIDE DEF v
<1>5. v[1] = CRLF[1] /\ v[2] = CRLF[2] /\ v[2 + 1] = CRLF[1] /\ v[2 + 2] = CRLF[2]
  BY <1>2, <1>4
<1>6. Len(v) = 4 /\ v[1] = "cr" /\ v[2] = "lf" /\ v[3] = "cr" /\ v[4] = "lf"
  BY <1>1, <1>2, <1>3, <1>5
<1>. QED
  BY <1>3, <1>6 DEF v

(* The places of a line end are where its two bytes are, and                *)
LEMMA PlacesOfEnds ==
    ASSUME NEW s \in Text, NEW i
    PROVE  i \in Places(CRLF, s) <=> EndAt(s, i)
<1>. USE DEF Text, Tokens
<1>1. CASE i \in 1..(Len(s) - 1)
  <2>. DEFINE u == SubSeq(s, i, i + 1)
              v == <<"cr", "lf">>
  <2>1. Len(u) = 2 /\ u \in Seq(Tokens) /\ u[1] = s[i] /\ u[2] = s[i + 1]
    <3>1. \A k \in i..(i + 1) : s[k] \in Tokens
      BY <1>1
    <3>2. u \in Seq(Tokens) /\ Len(u) = 2
      BY <1>1, <3>1, SubSeqProperties
    <3>3. u[1] = s[i] /\ u[2] = s[i + 1]
      BY <1>1, SubSeqProperties
    <3>. QED
      BY <3>2, <3>3
  <2>2. Len(v) = 2 /\ v \in Seq(Tokens) /\ v[1] = "cr" /\ v[2] = "lf"
    OBVIOUS
  <2>. HIDE DEF u, v
  <2>3. ASSUME s[i] = "cr", s[i + 1] = "lf" PROVE u = v
    <3>1. \A k \in 1..Len(u) : u[k] = v[k]
      BY <2>1, <2>2, <2>3
    <3>. QED
      BY <2>1, <2>2, <3>1, SeqEqual
  <2>4. u = v <=> s[i] = "cr" /\ s[i + 1] = "lf"
    BY <2>1, <2>2, <2>3
  <2>5. SubSeq(s, i, i + 1) = <<"cr", "lf">> <=> s[i] = "cr" /\ s[i + 1] = "lf"
    BY <2>4 DEF u, v
  <2>. QED
    BY <1>1, <2>5 DEF Places, CRLF, EndAt
<1>2. CASE i \notin 1..(Len(s) - 1)
  BY <1>2 DEF Places, CRLF, EndAt
<1>. QED
  BY <1>1, <1>2

(* those of a head's end where two line ends follow each other.             *)
LEMMA PlacesOfHeadEnds ==
    ASSUME NEW s \in Text, NEW i
    PROVE  i \in Places(CRLF \o CRLF, s) <=> HeadEndAt(s, i)
<1>. USE DEF Text, Tokens
<1>1. LET v == CRLF \o CRLF
      IN  /\ Len(v) = 4 /\ v \in Seq(Tokens)
          /\ v[1] = "cr" /\ v[2] = "lf" /\ v[3] = "cr" /\ v[4] = "lf"
  BY TwoLineEnds
<1>2. CASE i \in 1..(Len(s) - 3)
  <2>. DEFINE u == SubSeq(s, i, i + 3)
              v == CRLF \o CRLF
  <2>1. /\ Len(u) = 4 /\ u \in Seq(Tokens)
        /\ u[1] = s[i] /\ u[2] = s[i + 1] /\ u[3] = s[i + 2] /\ u[4] = s[i + 3]
    <3>1. \A k \in i..(i + 3) : s[k] \in Tokens
      BY <1>2
    <3>. QED
      BY <1>2, <3>1, SubSeqProperties
  <2>. HIDE DEF u, v
  <2>2. ASSUME s[i] = "cr", s[i + 1] = "lf", s[i + 2] = "cr", s[i + 3] = "lf" PROVE u = v
    <3>1. /\ v \in Seq(Tokens) /\ Len(v) = 4
          /\ v[1] = "cr" /\ v[2] = "lf" /\ v[3] = "cr" /\ v[4] = "lf"
      BY <1>1 DEF v
    <3>2. \A k \in 1..4 : k = 1 \/ k = 2 \/ k = 3 \/ k = 4
      OBVIOUS
    <3>3. \A k \in 1..4 : u[k] = v[k]
      BY ONLY <2>1, <2>2, <3>1, <3>2
    <3>4. \A k \in 1..Len(u) : u[k] = v[k]
      BY ONLY <2>1, <3>3
    <3>5. Len(u) = Len(v) /\ u \in Seq(Tokens) /\ v \in Seq(Tokens)
      BY ONLY <2>1, <3>1
    <3>. QED
      BY ONLY <3>4, <3>5, SeqEqual
  <2>3. u = v <=> s[i] = "cr" /\ s[i + 1] = "lf" /\ s[i + 2] = "cr" /\ s[i + 3] = "lf"
    BY <1>1, <2>1, <2>2 DEF v
  <2>4. SubSeq(s, i, i + 3) = CRLF \o CRLF
          <=> s[i] = "cr" /\ s[i + 1] = "lf" /\ s[i + 2] = "cr" /\ s[i + 3] = "lf"
    BY <2>3 DEF u, v
  <2>. QED
    BY <1>1, <1>2, <2>4 DEF Places, EndAt, HeadEndAt
<1>3. CASE i \notin 1..(Len(s) - 3)
  BY <1>1, <1>3 DEF Places, EndAt, HeadEndAt
<1>. QED
  BY <1>2, <1>3

(* HeadLen finds the first end of a head, and misses none.                  *)
LEMMA HeadLenIs ==
    ASSUME NEW s \in Text
    PROVE  /\ HeadLen(s) \in 0..Len(s)
           /\ HeadLen(s) = 0 => \A i \in Nat : ~HeadEndAt(s, i)
           /\ HeadLen(s) # 0 => /\ HeadEndAt(s, HeadLen(s) - 3)
                                /\ \A i \in Nat : HeadEndAt(s, i) => HeadLen(s) <= i + 3
<1>. DEFINE P == Places(CRLF \o CRLF, s)
            L == CHOOSE i \in P : \A j \in P : i <= j
<1>1. \A i : i \in P <=> HeadEndAt(s, i)
  BY PlacesOfHeadEnds
<1>2. Len(s) \in Nat
  BY DEF Text
<1>3. P \in SUBSET Nat
  BY <1>1 DEF HeadEndAt, EndAt
<1>4. HeadLen(s) = IF P = {} THEN 0 ELSE IF L = 0 THEN 0 ELSE L + 3
  BY DEF HeadLen, FirstPlace
<1>. HIDE DEF P
<1>5. CASE P = {}
  BY <1>1, <1>2, <1>4, <1>5
<1>6. CASE P # {}
  <2>1. \E i \in P : \A j \in P : i <= j
    BY <1>3, <1>6, Least
  <2>2. L \in P /\ \A j \in P : L <= j
    BY <2>1
  <2>. HIDE DEF L
  <2>3. HeadEndAt(s, L) /\ L \in Nat /\ L # 0 /\ L + 3 <= Len(s)
    BY <1>1, <1>2, <2>2 DEF HeadEndAt, EndAt
  <2>4. HeadLen(s) = L + 3
    BY <1>4, <1>6, <2>3
  <2>. QED
    BY <1>1, <1>2, <2>2, <2>3, <2>4
<1>. QED
  BY <1>5, <1>6

(* A shorter text has the head of a longer one, or none.                    *)
LEMMA HeadOfPrefix ==
    ASSUME NEW s \in Text, NEW t \in Text, Len(t) <= Len(s), \A i \in 1..Len(t) : t[i] = s[i]
    PROVE  /\ HeadLen(t) # 0 => HeadLen(s) = HeadLen(t)
           /\ HeadLen(t) = 0 /\ HeadLen(s) # 0 => Len(t) < HeadLen(s)
<1>1. Len(s) \in Nat /\ Len(t) \in Nat
  BY DEF Text
<1>2. \A i \in Nat : HeadEndAt(t, i) => HeadEndAt(s, i)
  BY <1>1 DEF HeadEndAt, EndAt
<1>3. \A i \in Nat : HeadEndAt(s, i) /\ i + 3 <= Len(t) => HeadEndAt(t, i)
  BY <1>1 DEF HeadEndAt, EndAt
<1>4. HeadLen(s) \in 0..Len(s) /\ HeadLen(t) \in 0..Len(t)
  BY HeadLenIs
<1>5. \A u \in {s, t} : HeadLen(u) # 0 => HeadLen(u) - 3 \in Nat /\ HeadEndAt(u, HeadLen(u) - 3)
  BY <1>1, <1>4, HeadLenIs DEF HeadEndAt, EndAt
<1>6. ASSUME HeadLen(t) # 0 PROVE HeadLen(s) = HeadLen(t)
  <2>1. HeadEndAt(s, HeadLen(t) - 3)
    BY <1>2, <1>5, <1>6
  <2>2. HeadLen(s) # 0
    BY <1>5, <1>6, <2>1, HeadLenIs
  <2>3. HeadLen(s) <= HeadLen(t)
    BY <1>1, <1>4, <1>5, <1>6, <2>1, <2>2, HeadLenIs
  <2>4. HeadEndAt(t, HeadLen(s) - 3)
    BY <1>1, <1>3, <1>4, <1>5, <2>2, <2>3
  <2>5. HeadLen(t) <= HeadLen(s)
    BY <1>1, <1>4, <1>5, <1>6, <2>2, <2>4, HeadLenIs
  <2>. QED
    BY <1>1, <1>4, <2>3, <2>5
<1>7. ASSUME HeadLen(t) = 0, HeadLen(s) # 0 PROVE Len(t) < HeadLen(s)
  BY <1>1, <1>3, <1>4, <1>5, <1>7, HeadLenIs
<1>. QED
  BY <1>6, <1>7
----------------------------------------------------------------------------
(* FlattenSeq.                                                              *)

(* The recursive function FlattenSeq chooses exists.                        *)
LEMMA FlattenExists ==
    ASSUME NEW ss, NEW n \in Nat
    PROVE  \E f : f = [i \in 1..n |-> IF i = 1 THEN ss[i] ELSE f[i - 1] \o ss[i]]
<1>. DEFINE Ok(m, f) == f = [i \in 1..m |-> IF i = 1 THEN ss[i] ELSE f[i - 1] \o ss[i]]
            T == {m \in Nat : \E f : Ok(m, f)}
<1>1. 0 \in T
  <2>1. Ok(0, [i \in 1..0 |-> i])
    OBVIOUS
  <2>. QED
    BY <2>1
<1>2. ASSUME NEW m \in Nat, m \in T PROVE m + 1 \in T
  <2>1. PICK f : Ok(m, f)
    BY <1>2
  <2>. DEFINE g == [i \in 1..(m + 1) |->
                       IF i \in 1..m THEN f[i] ELSE IF i = 1 THEN ss[i] ELSE f[i - 1] \o ss[i]]
  <2>2. \A i \in 1..(m + 1) : g[i] = IF i = 1 THEN ss[i] ELSE g[i - 1] \o ss[i]
    <3>1. ASSUME NEW i \in 1..(m + 1), i # 1 PROVE g[i - 1] = f[i - 1]
      BY <3>1
    <3>2. \A i \in 1..m : f[i] = IF i = 1 THEN ss[i] ELSE f[i - 1] \o ss[i]
      BY <2>1
    <3>. HIDE DEF Ok
    <3>. QED
      BY <3>1, <3>2
  <2>3. g = [i \in 1..(m + 1) |-> g[i]]
    OBVIOUS
  <2>4. Ok(m + 1, g)
    <3>. HIDE DEF g
    <3>. QED
      BY <2>2, <2>3
  <2>. HIDE DEF g, Ok
  <2>5. \E h : Ok(m + 1, h)
    BY <2>4
  <2>. QED
    BY <2>5
<1>3. \A m \in Nat : m \in T
  <2>. HIDE DEF T
  <2>. QED
    BY <1>1, <1>2, SetInduction
<1>. QED
  BY <1>3

(* The texts that lead to the flattened sequence.                           *)
LEMMA Flattening ==
    ASSUME NEW S, NEW ss \in Seq(Seq(S))
    PROVE  \E F \in [0..Len(ss) -> Seq(S)] :
              /\ F[0] = <<>> /\ FlattenSeq(ss) = F[Len(ss)]
              /\ \A i \in 1..Len(ss) : F[i] = F[i - 1] \o ss[i]
<1>. DEFINE n == Len(ss)
<1>1. n \in Nat /\ \A i \in 1..n : ss[i] \in Seq(S)
  OBVIOUS
<1>2. CASE n = 0
  <2>1. ss = <<>> /\ FlattenSeq(ss) = ss
    BY <1>2 DEF FlattenSeq
  <2>. DEFINE F == [i \in 0..0 |-> <<>>]
  <2>2. F \in [0..n -> Seq(S)] /\ F[0] = <<>> /\ 1..n = {}
    BY <1>2
  <2>. QED
    BY <1>2, <2>1, <2>2
<1>3. CASE n # 0
  <2>. DEFINE flatten[i \in 1..Len(ss)] == IF i = 1 THEN ss[i] ELSE flatten[i - 1] \o ss[i]
  <2>1. FlattenSeq(ss) = flatten[n]
    BY <1>3 DEF FlattenSeq
  <2>2. flatten = [i \in 1..n |-> IF i = 1 THEN ss[i] ELSE flatten[i - 1] \o ss[i]]
    <3>1. \E f : f = [i \in 1..n |-> IF i = 1 THEN ss[i] ELSE f[i - 1] \o ss[i]]
      BY <1>1, FlattenExists
    <3>. QED
      BY <3>1
  <2>. HIDE DEF flatten
  <2>3. \A i \in 1..n : flatten[i] = IF i = 1 THEN ss[i] ELSE flatten[i - 1] \o ss[i]
    BY <2>2
  <2>. HIDE DEF n
  <2>4. flatten[1] = ss[1] /\ 1 \in 1..n
    BY <1>1, <1>3, <2>3
  <2>5. ASSUME NEW i \in 1..n, i # 1 PROVE flatten[i] = flatten[i - 1] \o ss[i]
    BY <2>3, <2>5
  <2>6. \A i \in 1..n : flatten[i] \in Seq(S)
    <3>. DEFINE T == {i \in Nat : i \in 1..n => flatten[i] \in Seq(S)}
    <3>1. 0 \in T
      OBVIOUS
    <3>2. ASSUME NEW i \in Nat, i \in T PROVE i + 1 \in T
      <4>1. CASE i = 0
        BY <1>1, <2>4, <4>1
      <4>2. CASE i # 0 /\ i + 1 \in 1..n
        <5>1. flatten[i] \in Seq(S) /\ ss[i + 1] \in Seq(S)
          BY <1>1, <3>2, <4>2
        <5>2. i + 1 # 1 /\ (i + 1) - 1 = i
          BY <4>2
        <5>3. flatten[i + 1] = flatten[(i + 1) - 1] \o ss[i + 1]
          BY <2>5, <4>2, <5>2
        <5>4. flatten[i] \o ss[i + 1] \in Seq(S)
          BY <5>1, TextConcat
        <5>5. flatten[i + 1] \in Seq(S)
          BY <5>2, <5>3, <5>4
        <5>. QED
          BY <5>5
      <4>3. CASE i + 1 \notin 1..n
        BY <4>3
      <4>. QED
        BY <4>1, <4>2, <4>3
    <3>3. \A i \in Nat : i \in T
      <4>. HIDE DEF T
      <4>. QED
        BY <3>1, <3>2, SetInduction
    <3>. QED
      BY <3>3
  <2>. DEFINE F == [i \in 0..n |-> IF i = 0 THEN <<>> ELSE flatten[i]]
  <2>7. F \in [0..n -> Seq(S)] /\ F[0] = <<>> /\ \A i \in 1..n : F[i] = flatten[i]
    BY <1>1, <1>3, <2>6
  <2>. HIDE DEF F
  <2>8. ASSUME NEW i \in 1..n PROVE F[i] = F[i - 1] \o ss[i]
    <3>1. CASE i = 1
      <4>1. ss[1] \in Seq(S) /\ i - 1 = 0
        BY <1>1, <2>4, <3>1
      <4>2. <<>> \o ss[1] = ss[1]
        BY <4>1, ConcatEmptySeq
      <4>. QED
        BY <2>4, <2>7, <3>1, <4>1, <4>2
    <3>2. CASE i # 1
      <4>1. i - 1 \in 1..n
        BY <1>1, <3>2
      <4>. QED
        BY <2>5, <2>7, <3>2, <4>1
    <3>. QED
      BY <3>1, <3>2
  <2>9. n \in 1..n
    BY <1>1, <1>3
  <2>10. FlattenSeq(ss) = F[n]
    BY <2>1, <2>7, <2>9
  <2>. QED
    BY <2>7, <2>8, <2>10 DEF n
<1>. QED
  BY <1>2, <1>3

(* A flattening is what its steps make it.                                  *)
LEMMA FlatteningIs ==
    ASSUME NEW S, NEW ss \in Seq(Seq(S)), NEW F,
           F[0] = <<>>, \A i \in 1..Len(ss) : F[i] = F[i - 1] \o ss[i]
    PROVE  FlattenSeq(ss) = F[Len(ss)]
<1>1. PICK G \in [0..Len(ss) -> Seq(S)] :
         /\ G[0] = <<>> /\ FlattenSeq(ss) = G[Len(ss)]
         /\ \A i \in 1..Len(ss) : G[i] = G[i - 1] \o ss[i]
  BY Flattening
<1>. DEFINE n == Len(ss)
            T == {i \in Nat : i <= n => F[i] = G[i]}
<1>2. n \in Nat
  OBVIOUS
<1>. HIDE DEF n
<1>3. 0 \in T
  BY <1>1
<1>4. ASSUME NEW i \in Nat, i \in T PROVE i + 1 \in T
  <2>1. CASE i + 1 <= n
    <3>1. i + 1 \in 1..n /\ F[i] = G[i] /\ (i + 1) - 1 = i
      BY <1>2, <1>4, <2>1
    <3>2. F[i + 1] = F[(i + 1) - 1] \o ss[i + 1] /\ G[i + 1] = G[(i + 1) - 1] \o ss[i + 1]
      BY <1>1, <3>1 DEF n
    <3>3. F[i + 1] = G[i + 1]
      BY <3>1, <3>2
    <3>. QED
      BY <3>3
  <2>2. CASE ~(i + 1 <= n)
    BY <2>2
  <2>. QED
    BY <2>1, <2>2
<1>5. \A i \in Nat : i \in T
  <2>. HIDE DEF T
  <2>. QED
    BY <1>3, <1>4, SetInduction
<1>6. n \in T
  BY <1>2, <1>5
<1>7. F[n] = G[n]
  BY <1>2, <1>6
<1>. QED
  BY <1>1, <1>7 DEF n

(* A last part comes last.                                                  *)
LEMMA FlattenMore ==
    ASSUME NEW S, NEW ss \in Seq(Seq(S)), NEW t \in Seq(S)
    PROVE  FlattenSeq(Append(ss, t)) = FlattenSeq(ss) \o t
<1>1. PICK F \in [0..Len(ss) -> Seq(S)] :
         /\ F[0] = <<>> /\ FlattenSeq(ss) = F[Len(ss)]
         /\ \A i \in 1..Len(ss) : F[i] = F[i - 1] \o ss[i]
  BY Flattening
<1>. DEFINE n == Len(ss)
            tt == Append(ss, t)
            G == [i \in 0..(n + 1) |-> IF i <= n THEN F[i] ELSE F[n] \o t]
<1>2. /\ tt \in Seq(Seq(S)) /\ Len(tt) = n + 1 /\ n \in Nat
      /\ tt[n + 1] = t /\ \A i \in 1..n : tt[i] = ss[i]
  BY AppendProperties
<1>. HIDE DEF tt
<1>3. G[0] = <<>> /\ G[n + 1] = F[n] \o t /\ \A i \in 0..n : G[i] = F[i]
  BY <1>1, <1>2
<1>. HIDE DEF G
<1>4. ASSUME NEW i \in 1..Len(tt) PROVE G[i] = G[i - 1] \o tt[i]
  <2>1. CASE i \in 1..n
    <3>1. i - 1 \in 0..n /\ i \in 0..n
      BY <1>2, <2>1
    <3>. QED
      BY <1>1, <1>2, <1>3, <2>1, <3>1
  <2>2. CASE i = n + 1
    <3>1. i - 1 = n /\ n \in 0..n
      BY <1>2, <2>2
    <3>. QED
      BY <1>2, <1>3, <2>2, <3>1
  <2>3. i \in 1..n \/ i = n + 1
    BY <1>2
  <2>. QED
    BY <2>1, <2>2, <2>3
<1>5. FlattenSeq(tt) = G[Len(tt)]
  BY <1>2, <1>3, <1>4, FlatteningIs
<1>. QED
  BY <1>1, <1>2, <1>3, <1>5 DEF tt
----------------------------------------------------------------------------
(* The line ends in their order.                                            *)

(* A sequence that grows at each step grows.                                *)
LEMMA Increasing ==
    ASSUME NEW n \in Nat, NEW e \in [1..n -> Nat],
           \A k \in 1..n : k + 1 \in 1..n => e[k] < e[k + 1]
    PROVE  \A j, k \in 1..n : j < k => e[j] < e[k]
<1>. SUFFICES ASSUME NEW j \in 1..n PROVE \A k \in 1..n : j < k => e[j] < e[k]
  OBVIOUS
<1>. DEFINE T == {k \in Nat : k \in 1..n /\ j < k => e[j] < e[k]}
<1>1. 0 \in T
  OBVIOUS
<1>2. ASSUME NEW k \in Nat, k \in T PROVE k + 1 \in T
  <2>1. CASE k + 1 \in 1..n /\ j < k + 1
    <3>1. k \in 1..n /\ (j = k \/ j < k)
      BY <2>1
    <3>2. e[k] < e[k + 1] /\ e[k] \in Nat /\ e[k + 1] \in Nat /\ e[j] \in Nat
      BY <2>1, <3>1
    <3>3. e[j] <= e[k]
      BY <1>2, <3>1, <3>2
    <3>4. e[j] < e[k + 1]
      BY <3>2, <3>3
    <3>. QED
      BY <3>4
  <2>2. CASE ~(k + 1 \in 1..n /\ j < k + 1)
    BY <2>2
  <2>. QED
    BY <2>1, <2>2
<1>3. \A k \in Nat : k \in T
  <2>. HIDE DEF T
  <2>. QED
    BY <1>1, <1>2, SetInduction
<1>. QED
  BY <1>3

(* The k-th end in increasing order is the one with k - 1 below it.         *)
LEMMA RankOf ==
    ASSUME NEW s, NEW n \in Nat, NEW e \in [1..n -> Nat],
           EndsOf(s) = {e[k] : k \in 1..n}, \A j, k \in 1..n : j < k => e[j] < e[k]
    PROVE  Cardinality(EndsOf(s)) = n /\ \A k \in 1..n : EndOf(s, k) = e[k]
<1>. DEFINE E == EndsOf(s)
<1>0. E = {e[k] : k \in 1..n}
  OBVIOUS
<1>. HIDE DEF E
<1>1. ASSUME NEW m \in 0..n
      PROVE  Cardinality({e[j] : j \in 1..m}) = m
  <2>. DEFINE M == {e[j] : j \in 1..m}
              f == [j \in 1..m |-> e[j]]
  <2>1. f \in Bijection(1..m, M)
    <3>1. \A a, b \in 1..m : f[a] = f[b] => a = b
      <4>1. ASSUME NEW a \in 1..m, NEW b \in 1..m, e[a] = e[b] PROVE a = b
        <5>1. a \in 1..n /\ b \in 1..n /\ e[a] \in Nat /\ e[b] \in Nat
          OBVIOUS
        <5>2. ~(a < b) /\ ~(b < a)
          BY <4>1, <5>1
        <5>. QED
          BY <5>1, <5>2
      <4>. QED
        BY <4>1
    <3>2. f \in [1..m -> M] /\ \A x \in M : \E a \in 1..m : f[a] = x
      OBVIOUS
    <3>. HIDE DEF f, M
    <3>. QED
      BY <3>1, <3>2 DEF Bijection, Injection, Surjection, IsInjective
  <2>. HIDE DEF f, M
  <2>2. IsFiniteSet(1..m) /\ Cardinality(1..m) = m
    BY FS_Interval
  <2>3. Bijection(1..m, M) # {}
    BY <2>1
  <2>4. Cardinality(M) = Cardinality(1..m)
    BY <2>2, <2>3, FS_Bijection DEF ExistsBijection
  <2>. QED
    BY <2>2, <2>4 DEF M
<1>2. Cardinality(E) = n
  <2>1. n \in 0..n
    OBVIOUS
  <2>2. Cardinality({e[j] : j \in 1..n}) = n
    BY <1>1, <2>1
  <2>. QED
    BY <1>0, <2>2
<1>3. ASSUME NEW k \in 1..n PROVE Cardinality({j \in E : j < e[k]}) = k - 1
  <2>1. {j \in E : j < e[k]} = {e[j] : j \in 1..(k - 1)}
    <3>1. ASSUME NEW a \in 1..n PROVE e[a] < e[k] <=> a \in 1..(k - 1)
      <4>1. e[a] \in Nat /\ e[k] \in Nat
        OBVIOUS
      <4>2. CASE a < k
        BY <4>2
      <4>3. CASE k < a
        <5>1. e[k] < e[a]
          BY <4>3
        <5>. QED
          BY <4>1, <4>3, <5>1
      <4>4. CASE a = k
        BY <4>1, <4>4
      <4>. QED
        BY <4>2, <4>3, <4>4
    <3>2. 1..(k - 1) \subseteq 1..n
      OBVIOUS
    <3>. QED
      BY <1>0, <3>1, <3>2
  <2>2. k - 1 \in 0..n
    OBVIOUS
  <2>. QED
    BY <1>1, <2>1, <2>2
<1>4. ASSUME NEW k \in 1..n
      PROVE  e[k] = CHOOSE i \in E : Cardinality({j \in E : j < i}) = k - 1
  <2>. DEFINE c == CHOOSE i \in E : Cardinality({j \in E : j < i}) = k - 1
  <2>1. e[k] \in E
    BY <1>0
  <2>2. c \in E /\ Cardinality({j \in E : j < c}) = k - 1
    BY <1>3, <2>1
  <2>. HIDE DEF c
  <2>3. PICK a \in 1..n : c = e[a]
    BY <1>0, <2>2
  <2>4. Cardinality({j \in E : j < c}) = a - 1
    BY <1>3, <2>3
  <2>5. a = k
    BY <2>2, <2>4
  <2>. QED
    BY <2>3, <2>5 DEF c
<1>. QED
  BY <1>2, <1>4 DEF E, EndOf

(* A finite set of naturals can be put in that order.                       *)
Ordered(E, n, e) == E = {e[k] : k \in 1..n} /\ \A j, k \in 1..n : j < k => e[j] < e[k]

(* One more number above the others can be put behind them.                 *)
LEMMA OrderedMore ==
    ASSUME NEW E \in SUBSET Nat, NEW q \in Nat, q \notin E, \A i \in E : i < q,
           NEW n \in Nat, NEW e \in [1..n -> Nat], Ordered(E, n, e)
    PROVE  \E d \in [1..(n + 1) -> Nat] : Ordered(E \cup {q}, n + 1, d)
<1>. DEFINE d == [k \in 1..(n + 1) |-> IF k = n + 1 THEN q ELSE e[k]]
<1>1. d \in [1..(n + 1) -> Nat] /\ d[n + 1] = q /\ \A k \in 1..n : d[k] = e[k]
  OBVIOUS
<1>. HIDE DEF d
<1>2. ASSUME NEW j \in 1..(n + 1), NEW k \in 1..(n + 1), j < k PROVE d[j] < d[k]
  <2>1. j \in 1..n
    BY <1>2
  <2>2. CASE k = n + 1
    <3>1. e[j] \in E
      BY <2>1 DEF Ordered
    <3>. QED
      BY <1>1, <2>1, <2>2, <3>1
  <2>3. CASE k # n + 1
    <3>1. k \in 1..n
      BY <2>3
    <3>. QED
      BY <1>1, <1>2, <2>1, <3>1 DEF Ordered
  <2>. QED
    BY <2>2, <2>3
<1>3. E \cup {q} = {d[k] : k \in 1..(n + 1)}
  <2>1. 1..(n + 1) = 1..n \cup {n + 1}
    OBVIOUS
  <2>2. {d[k] : k \in 1..(n + 1)} = {d[k] : k \in 1..n} \cup {d[n + 1]}
    BY <2>1
  <2>3. {d[k] : k \in 1..n} = {e[k] : k \in 1..n}
    BY <1>1
  <2>. QED
    BY <1>1, <2>2, <2>3 DEF Ordered
<1>4. Ordered(E \cup {q}, n + 1, d)
  BY <1>2, <1>3 DEF Ordered
<1>. QED
  BY <1>1, <1>4

(* Every bounded set of naturals can be put in that order.                  *)
LEMMA Enumerated ==
    ASSUME NEW E \in SUBSET Nat, NEW m \in Nat, \A i \in E : i < m
    PROVE  \E n \in Nat : \E e \in [1..n -> Nat] : Ordered(E, n, e)
<1>. DEFINE Below(q) == {i \in E : i < q}
            T == {q \in Nat : \E n \in Nat : \E e \in [1..n -> Nat] : Ordered(Below(q), n, e)}
<1>1. 0 \in T
  <2>1. \A i \in E : i \in Nat /\ ~(i < 0)
    OBVIOUS
  <2>2. Below(0) = {}
    BY <2>1
  <2>3. 1..0 = {}
    OBVIOUS
  <2>4. [k \in {} |-> 0] \in [{} -> Nat]
    OBVIOUS
  <2>5. Ordered({}, 0, [k \in {} |-> 0])
    BY <2>3 DEF Ordered
  <2>. HIDE DEF Below
  <2>6. \E n \in Nat : \E e \in [1..n -> Nat] : Ordered(Below(0), n, e)
    BY <2>2, <2>3, <2>4, <2>5
  <2>. QED
    BY <2>6
<1>2. ASSUME NEW q \in Nat, q \in T PROVE q + 1 \in T
  <2>. HIDE DEF Below
  <2>1. PICK n \in Nat : \E e \in [1..n -> Nat] : Ordered(Below(q), n, e)
    BY <1>2
  <2>2. PICK e \in [1..n -> Nat] : Ordered(Below(q), n, e)
    BY <2>1
  <2>0. \A i \in E : i \in Nat /\ (i < q + 1 <=> i < q \/ i = q) /\ ~(q < q)
    OBVIOUS
  <2>3. CASE q \in E
    <3>. DEFINE B == Below(q)
    <3>1. B \in SUBSET Nat /\ q \notin B /\ \A i \in B : i < q
      BY <2>0 DEF Below
    <3>2. Below(q + 1) = B \cup {q}
      BY <2>0, <2>3 DEF Below
    <3>3. Ordered(B, n, e)
      BY <2>2
    <3>. HIDE DEF B
    <3>4. \E d \in [1..(n + 1) -> Nat] : Ordered(B \cup {q}, n + 1, d)
      BY <3>1, <3>3, OrderedMore
    <3>5. PICK d \in [1..(n + 1) -> Nat] : Ordered(B \cup {q}, n + 1, d)
      BY <3>4
    <3>6. Ordered(Below(q + 1), n + 1, d)
      BY <3>2, <3>5
    <3>7. n + 1 \in Nat
      OBVIOUS
    <3>8. \E p \in Nat : \E c \in [1..p -> Nat] : Ordered(Below(q + 1), p, c)
      BY <3>5, <3>6, <3>7
    <3>. QED
      BY <3>8
  <2>4. CASE q \notin E
    <3>1. Below(q + 1) = Below(q)
      BY <2>0, <2>4 DEF Below
    <3>. QED
      BY <2>2, <3>1
  <2>. QED
    BY <2>3, <2>4
<1>3. m \in T
  <2>. HIDE DEF T
  <2>. QED
    BY <1>1, <1>2, SetInduction
<1>4. Below(m) = E
  OBVIOUS
<1>. HIDE DEF Below
<1>. QED
  BY <1>3, <1>4
----------------------------------------------------------------------------
(* Splitting at the line ends.                                              *)

Whole(line) == \A i \in Nat : ~EndAt(line, i)

(* The lines of a text lie between its ends, put in that order.             *)
LEMMA LinesAre ==
    ASSUME NEW s \in Text, NEW n \in Nat, NEW e \in [1..n -> Nat], Ordered(EndsOf(s), n, e)
    PROVE  /\ LinesOf(s) = [k \in 1..n |->
                 SubSeq(s, IF k = 1 THEN 1 ELSE e[k - 1] + 2, e[k] - 1)]
<1>3. Cardinality(EndsOf(s)) = n /\ \A k \in 1..n : EndOf(s, k) = e[k]
  BY RankOf DEF Ordered
<1>4. ASSUME NEW k \in 1..n
      PROVE  SubSeq(s, IF k = 1 THEN 1 ELSE EndOf(s, k - 1) + 2, EndOf(s, k) - 1)
               = SubSeq(s, IF k = 1 THEN 1 ELSE e[k - 1] + 2, e[k] - 1)
  <2>1. k = 1 \/ k - 1 \in 1..n
    OBVIOUS
  <2>. QED
    BY <1>3, <2>1
<1>. QED
  BY <1>3, <1>4 DEF LinesOf

(* The ends of the lines of a text, as they follow each other.              *)
LEMMA EndsFollow ==
    ASSUME NEW s \in Text
    PROVE  \E n \in Nat \ {0} : \E e \in [1..n -> Nat] :
              /\ Ordered(EndsOf(s), n, e) /\ e[n] = Len(s) + 1
              /\ \A k \in 1..n : e[k] \in 1..(Len(s) + 1) /\ (k < n => EndAt(s, e[k]))
              /\ \A k \in 1..n : k # 1 => e[k - 1] + 2 <= e[k]
              /\ \A k \in 1..n, i \in Nat : e[k] < i /\ EndAt(s, i) => k < n /\ e[k + 1] <= i
              /\ \A i \in Nat : EndAt(s, i) => e[1] <= i
<1>. DEFINE E == EndsOf(s)
<1>0. Len(s) \in Nat /\ s \in Seq(Tokens)
  BY DEF Text
<1>1. \A i : i \in E <=> EndAt(s, i) \/ i = Len(s) + 1
  BY PlacesOfEnds DEF EndsOf
<1>. HIDE DEF E
<1>2. \A i \in E : i \in Nat /\ i < Len(s) + 2 /\ i \in 1..(Len(s) + 1)
  BY <1>0, <1>1 DEF EndAt
<1>3. PICK n \in Nat : \E e \in [1..n -> Nat] : Ordered(E, n, e)
  <2>1. E \in SUBSET Nat /\ Len(s) + 2 \in Nat
    BY <1>0, <1>2
  <2>. QED
    BY <1>2, <2>1, Enumerated
<1>4. PICK e \in [1..n -> Nat] : Ordered(E, n, e)
  BY <1>3
<1>5. E = {e[k] : k \in 1..n} /\ \A j, k \in 1..n : j < k => e[j] < e[k]
  BY <1>4 DEF Ordered
<1>6. \A k \in 1..n : e[k] \in E
  BY <1>5
<1>7. PICK m \in 1..n : e[m] = Len(s) + 1
  BY <1>1, <1>5
<1>8. m = n /\ n \in Nat \ {0} /\ e[n] = Len(s) + 1
  <2>1. n \in 1..n
    BY <1>7
  <2>2. e[n] <= Len(s) + 1 /\ e[n] \in Nat
    BY <1>0, <1>2, <1>6, <2>1
  <2>3. m < n => e[m] < e[n]
    BY <1>5, <2>1
  <2>4. m = n
    BY <1>0, <1>7, <2>2, <2>3
  <2>. QED
    BY <1>7, <2>1, <2>4
<1>9. ASSUME NEW k \in 1..n, k < n PROVE EndAt(s, e[k])
  <2>1. n \in 1..n
    BY <1>8
  <2>2. e[k] < e[n] /\ e[k] \in Nat
    BY <1>5, <1>9, <2>1
  <2>3. e[k] # Len(s) + 1
    BY <1>0, <1>8, <2>2
  <2>. QED
    BY <1>1, <1>6, <2>3
<1>10. ASSUME NEW k \in 1..n, k # 1 PROVE e[k - 1] + 2 <= e[k]
  <2>1. k - 1 \in 1..n /\ k - 1 < n /\ k - 1 < k
    BY <1>10
  <2>2. EndAt(s, e[k - 1])
    BY <1>9, <2>1
  <2>3. e[k - 1] < e[k] /\ e[k - 1] \in Nat /\ e[k] \in Nat
    BY <1>5, <2>1
  <2>4. EndAt(s, e[k]) \/ e[k] = Len(s) + 1
    BY <1>1, <1>6
  <2>5. e[k] # e[k - 1] + 1
    <3>0. Len(s) \in Nat /\ e[k - 1] <= Len(s) - 1
      BY <1>0, <2>2 DEF EndAt
    <3>1. s[e[k - 1] + 1] = "lf"
      BY <2>2 DEF EndAt
    <3>2. EndAt(s, e[k]) => s[e[k]] = "cr"
      BY DEF EndAt
    <3>3. e[k] = e[k - 1] + 1 => e[k] # Len(s) + 1
      BY ONLY <2>3, <3>0
    <3>. QED
      BY ONLY <2>4, <3>1, <3>2, <3>3
  <2>. QED
    BY ONLY <2>3, <2>5
<1>11. ASSUME NEW k \in 1..n, NEW i \in Nat, e[k] < i, EndAt(s, i) PROVE k < n /\ e[k + 1] <= i
  <2>1. PICK j \in 1..n : e[j] = i
    BY <1>1, <1>5, <1>11
  <2>2. e[k] \in Nat /\ e[j] \in Nat
    OBVIOUS
  <2>3. ~(j < k) /\ j # k
    BY <1>5, <1>11, <2>1, <2>2
  <2>4. k < j /\ k < n /\ k + 1 \in 1..n
    BY <2>3
  <2>5. k + 1 = j \/ e[k + 1] < e[j]
    BY <1>5, <2>4
  <2>6. e[k + 1] \in Nat
    BY <2>4
  <2>. QED
    BY <2>1, <2>2, <2>4, <2>5, <2>6
<1>12. ASSUME NEW i \in Nat, EndAt(s, i) PROVE e[1] <= i
  <2>1. PICK j \in 1..n : e[j] = i
    BY <1>1, <1>5, <1>12
  <2>2. 1 \in 1..n /\ e[1] \in Nat /\ e[j] \in Nat
    BY <1>8
  <2>3. j = 1 \/ e[1] < e[j]
    BY <1>5, <2>2
  <2>. QED
    BY <2>1, <2>2, <2>3
<1>13. \A k \in 1..n : e[k] \in 1..(Len(s) + 1)
  BY <1>2, <1>6
<1>. QED
  BY <1>4, <1>8, <1>9, <1>10, <1>11, <1>12, <1>13 DEF E

(* What a part of a sequence is, place by place.                            *)
LEMMA PartOf ==
    ASSUME NEW S, NEW s \in Seq(S), NEW a \in Nat, NEW b \in Nat, 1 <= a, a <= b + 1, b <= Len(s)
    PROVE  /\ SubSeq(s, a, b) \in Seq(S) /\ Len(SubSeq(s, a, b)) = b - a + 1
           /\ \A i \in 1..(b - a + 1) : SubSeq(s, a, b)[i] = s[a + i - 1]
<1>1. Len(s) \in Nat
  OBVIOUS
<1>2. \A i \in a..b : s[i] \in S
  BY <1>1
<1>3. SubSeq(s, a, b) \in Seq(S)
  BY <1>2, SubSeqProperties
<1>4. Len(SubSeq(s, a, b)) = IF a <= b THEN b - a + 1 ELSE 0
  BY SubSeqProperties
<1>5. \A i \in 1..(b - a + 1) : SubSeq(s, a, b)[i] = s[a + i - 1]
  BY SubSeqProperties
<1>. QED
  BY <1>3, <1>4, <1>5

(* A part between two ends that follow each other has none inside.          *)
LEMMA NoEndInside ==
    ASSUME NEW s \in Text, NEW a \in Nat, NEW c \in Nat, 1 <= a, a <= c + 1, c <= Len(s),
           \A i \in Nat : EndAt(s, i) => i < a \/ c <= i
    PROVE  Whole(SubSeq(s, a, c))
<1>. DEFINE u == SubSeq(s, a, c)
<1>1. Len(u) = c - a + 1 /\ \A i \in 1..(c - a + 1) : u[i] = s[a + i - 1]
  BY PartOf DEF Text
<1>. HIDE DEF u
<1>. SUFFICES ASSUME NEW i \in Nat, EndAt(u, i) PROVE FALSE
  BY DEF Whole, u
<1>2. Len(s) \in Nat
  BY DEF Text
<1>3. i \in 1..(c - a + 1) /\ i + 1 \in 1..(c - a + 1)
  BY <1>1 DEF EndAt
<1>. DEFINE p == a + i - 1
<1>4. a + (i + 1) - 1 = p + 1 /\ p \in Nat /\ a <= p /\ p < c /\ p \in 1..(Len(s) - 1)
  BY <1>2, <1>3
<1>5. s[p] = "cr" /\ s[p + 1] = "lf"
  BY <1>1, <1>3, <1>4 DEF EndAt
<1>. HIDE DEF p
<1>6. EndAt(s, p)
  BY <1>4, <1>5 DEF EndAt
<1>. QED
  BY <1>4, <1>6

(* Splitting a text leaves no line end in a line; and no line but the first *)
(* is empty, if no head ends in the text.                                   *)
LEMMA LinesOfText ==
    ASSUME NEW s \in Text
    PROVE  /\ LinesOf(s) \in Seq(Text) /\ Len(LinesOf(s)) \in Nat \ {0}
           /\ \A k \in 1..Len(LinesOf(s)) : Whole(LinesOf(s)[k])
           /\ (\A i \in Nat : ~HeadEndAt(s, i)) /\ ~EndAt(s, Len(s) - 1)
                 => \A k \in 2..Len(LinesOf(s)) : LinesOf(s)[k] # <<>>
<1>0. Len(s) \in Nat /\ s \in Seq(Tokens)
  BY DEF Text
<1>1. PICK n \in Nat \ {0} : \E e \in [1..n -> Nat] :
              /\ Ordered(EndsOf(s), n, e) /\ e[n] = Len(s) + 1
              /\ \A k \in 1..n : e[k] \in 1..(Len(s) + 1) /\ (k < n => EndAt(s, e[k]))
              /\ \A k \in 1..n : k # 1 => e[k - 1] + 2 <= e[k]
              /\ \A k \in 1..n, i \in Nat : e[k] < i /\ EndAt(s, i) => k < n /\ e[k + 1] <= i
              /\ \A i \in Nat : EndAt(s, i) => e[1] <= i
  BY EndsFollow
<1>2. PICK e \in [1..n -> Nat] :
              /\ Ordered(EndsOf(s), n, e) /\ e[n] = Len(s) + 1
              /\ \A k \in 1..n : e[k] \in 1..(Len(s) + 1) /\ (k < n => EndAt(s, e[k]))
              /\ \A k \in 1..n : k # 1 => e[k - 1] + 2 <= e[k]
              /\ \A k \in 1..n, i \in Nat : e[k] < i /\ EndAt(s, i) => k < n /\ e[k + 1] <= i
              /\ \A i \in Nat : EndAt(s, i) => e[1] <= i
  BY <1>1
<1>. DEFINE b(k) == IF k = 1 THEN 1 ELSE e[k - 1] + 2
            line(k) == SubSeq(s, b(k), e[k] - 1)
<1>3. LinesOf(s) = [k \in 1..n |-> line(k)]
  BY <1>2, LinesAre
<1>4. ASSUME NEW k \in 1..n
      PROVE  /\ b(k) \in Nat /\ 1 <= b(k) /\ e[k] \in Nat /\ 1 <= e[k]
             /\ b(k) <= e[k] /\ e[k] <= Len(s) + 1
             /\ k # 1 => k - 1 \in 1..n /\ e[k - 1] \in Nat /\ b(k) = e[k - 1] + 2 /\ k - 1 < n
             /\ k = 1 => b(k) = 1
  <2>1. e[k] \in 1..(Len(s) + 1)
    BY <1>2
  <2>2. CASE k = 1
    BY <1>0, <2>1, <2>2
  <2>3. CASE k # 1
    <3>1. k - 1 \in 1..n /\ k - 1 < n
      BY <2>3
    <3>2. e[k - 1] \in Nat /\ e[k - 1] + 2 <= e[k]
      BY <1>2, <2>3, <3>1
    <3>. QED
      BY <1>0, <2>1, <2>3, <3>1, <3>2
  <2>. QED
    BY <2>2, <2>3
<1>5. ASSUME NEW k \in 1..n
      PROVE  /\ line(k) \in Seq(Tokens) /\ Len(line(k)) = e[k] - b(k)
             /\ Whole(line(k))
  <2>. DEFINE c == e[k] - 1
              a == b(k)
  <2>. HIDE DEF b
  <2>1. a \in Nat /\ c \in Nat /\ 1 <= a /\ a <= c + 1 /\ c <= Len(s) /\ c - a + 1 = e[k] - a
    BY <1>0, <1>4
  <2>2. ASSUME NEW i \in Nat, EndAt(s, i) PROVE i < a \/ c <= i
    <3>1. CASE k = 1
      BY <1>2, <1>4, <2>2, <3>1
    <3>2. CASE k # 1
      <4>1. /\ k - 1 \in 1..n /\ (k - 1) + 1 = k /\ a = e[k - 1] + 2
            /\ e[k - 1] \in Nat /\ e[k] \in Nat
        BY <1>4, <3>2
      <4>2. e[k - 1] < i => e[(k - 1) + 1] <= i
        BY <1>2, <2>2, <4>1
      <4>. QED
        BY <4>1, <4>2
    <3>. QED
      BY <3>1, <3>2
  <2>. HIDE DEF a, c
  <2>3. /\ SubSeq(s, a, c) \in Seq(Tokens) /\ Len(SubSeq(s, a, c)) = c - a + 1
        /\ Whole(SubSeq(s, a, c))
    <3>1. s \in Seq(Tokens)
      BY <1>0 DEF Text
    <3>2. SubSeq(s, a, c) \in Seq(Tokens) /\ Len(SubSeq(s, a, c)) = c - a + 1
      BY ONLY <2>1, <3>1, PartOf
    <3>3. Whole(SubSeq(s, a, c))
      BY <2>1, <2>2, NoEndInside
    <3>. QED
      BY <3>2, <3>3
  <2>. QED
    BY <2>1, <2>3 DEF a, c
<1>. HIDE DEF b
<1>7. ASSUME \A i \in Nat : ~HeadEndAt(s, i), ~EndAt(s, Len(s) - 1), NEW k \in 1..n, k # 1
      PROVE  line(k) # <<>>
  <2>. SUFFICES ASSUME line(k) = <<>> PROVE FALSE
    OBVIOUS
  <2>1. /\ k - 1 \in 1..n /\ e[k - 1] \in Nat /\ e[k] \in Nat /\ k - 1 < n
        /\ b(k) = e[k - 1] + 2 /\ b(k) \in Nat
    BY <1>4, <1>7
  <2>2. e[k] = e[k - 1] + 2
    <3>. HIDE DEF line
    <3>1. Len(line(k)) = 0
      OBVIOUS
    <3>2. Len(line(k)) = e[k] - b(k)
      BY <1>5
    <3>. QED
      BY <2>1, <3>1, <3>2
  <2>3. EndAt(s, e[k - 1])
    BY <1>2, <2>1
  <2>4. CASE k < n
    <3>1. EndAt(s, e[k])
      BY <1>2, <2>4
    <3>. QED
      BY <1>7, <2>1, <2>2, <2>3, <3>1 DEF HeadEndAt
  <2>5. CASE ~(k < n)
    <3>1. k = n
      BY <2>5
    <3>2. e[k - 1] = Len(s) - 1
      BY <1>0, <1>2, <2>1, <2>2, <3>1
    <3>. QED
      BY <1>7, <2>3, <3>2
  <2>. QED
    BY <2>4, <2>5
<1>. HIDE DEF line
<1>8. LinesOf(s) \in Seq(Text) /\ Len(LinesOf(s)) = n /\ \A k \in 1..n : LinesOf(s)[k] = line(k)
  BY <1>3, <1>5 DEF Text
<1>9. ASSUME \A i \in Nat : ~HeadEndAt(s, i), ~EndAt(s, Len(s) - 1), NEW k \in 2..n
      PROVE  LinesOf(s)[k] # <<>>
  <2>1. k \in 1..n /\ k # 1
    OBVIOUS
  <2>. QED
    BY <1>7, <1>8, <1>9, <2>1
<1>. QED
  BY <1>5, <1>8, <1>9
----------------------------------------------------------------------------
(* Writing lines.                                                           *)

(* A text that ends no line in its middle, or all of it.                    *)
AtLineStart(s) == s = <<>> \/ (Len(s) > 1 /\ EndAt(s, Len(s) - 1))

(* Writing one more line adds its bytes, its end and no other.              *)
LEMMA LineWritten ==
    ASSUME NEW s \in Text, NEW line \in Text, AtLineStart(s), Whole(line)
    PROVE  LET t == s \o (line \o CRLF)
           IN  /\ t \in Text /\ Len(t) = Len(s) + Len(line) + 2 /\ AtLineStart(t)
               /\ \A i \in 1..Len(s) : t[i] = s[i]
               /\ \A i \in 1..Len(line) : t[Len(s) + i] = line[i]
               /\ \A i \in Nat : EndAt(t, i) <=> EndAt(s, i) \/ i = Len(t) - 1
<1>. DEFINE u == line \o CRLF
            t == s \o u
            L == Len(s)
            M == Len(line)
<1>1. L \in Nat /\ M \in Nat /\ s \in Seq(Tokens) /\ line \in Seq(Tokens)
  BY DEF Text
<1>2. CRLF \in Seq(Tokens) /\ Len(CRLF) = 2 /\ CRLF[1] = "cr" /\ CRLF[2] = "lf"
  BY DEF CRLF, Tokens
<1>3. /\ u \in Seq(Tokens) /\ Len(u) = M + 2 /\ \A i \in 1..M : u[i] = line[i]
      /\ u[M + 1] = "cr" /\ u[M + 2] = "lf"
  <2>1. /\ u \in Seq(Tokens) /\ Len(u) = M + Len(CRLF) /\ \A i \in 1..M : u[i] = line[i]
        /\ \A i \in 1..Len(CRLF) : u[M + i] = CRLF[i]
    <3>1. line \in Seq(Tokens) /\ CRLF \in Seq(Tokens)
      BY <1>1, <1>2
    <3>. QED
      BY ONLY <3>1, TextConcat
  <2>2. 1 \in 1..Len(CRLF) /\ 2 \in 1..Len(CRLF)
    BY <1>2
  <2>. HIDE DEF u
  <2>3. u[M + 1] = CRLF[1] /\ u[M + 2] = CRLF[2]
    BY <2>1, <2>2
  <2>. QED
    BY <1>2, <2>1, <2>3
<1>. HIDE DEF u
<1>4. /\ t \in Seq(Tokens) /\ Len(t) = L + Len(u) /\ \A i \in 1..L : t[i] = s[i]
      /\ \A i \in 1..Len(u) : t[L + i] = u[i]
  <2>1. s \in Seq(Tokens) /\ u \in Seq(Tokens)
    BY <1>1, <1>3
  <2>. QED
    BY ONLY <2>1, TextConcat
<1>. HIDE DEF t, L, M
<1>5. Len(t) = L + M + 2 /\ \A i \in 1..M : t[L + i] = line[i]
  <2>1. Len(t) = L + M + 2
    BY <1>1, <1>3, <1>4
  <2>2. ASSUME NEW i \in 1..M PROVE t[L + i] = line[i]
    <3>1. i \in 1..Len(u)
      BY <1>1, <1>3
    <3>. QED
      BY <1>3, <1>4, <3>1
  <2>. QED
    BY <2>1, <2>2
<1>6. t[L + M + 1] = "cr" /\ t[L + M + 2] = "lf"
  <2>1. M + 1 \in 1..Len(u) /\ M + 2 \in 1..Len(u)
    BY <1>1, <1>3
  <2>2. t[L + (M + 1)] = "cr" /\ t[L + (M + 2)] = "lf"
    BY <1>3, <1>4, <2>1
  <2>3. L + (M + 1) = L + M + 1 /\ L + (M + 2) = L + M + 2
    BY <1>1
  <2>. QED
    BY <2>2, <2>3
<1>7. Len(t) - 1 = L + M + 1 /\ (L + M + 1) + 1 = L + M + 2 /\ Len(t) \in Nat /\ Len(t) > 1
  BY <1>1, <1>5
<1>8. EndAt(t, Len(t) - 1)
  BY <1>1, <1>5, <1>6, <1>7 DEF EndAt
<1>9. ASSUME NEW i \in Nat, EndAt(s, i) PROVE EndAt(t, i)
  <2>1. i \in 1..L /\ i + 1 \in 1..L
    BY <1>1, <1>9 DEF EndAt, L
  <2>2. i \in 1..(Len(t) - 1)
    BY <1>1, <1>5, <2>1
  <2>. QED
    BY <1>4, <1>9, <2>1, <2>2 DEF EndAt
<1>10. ASSUME NEW i \in Nat, EndAt(t, i), i # L + M + 1 PROVE EndAt(s, i)
  <2>1. i \in 1..(L + M) /\ t[i] = "cr" /\ t[i + 1] = "lf"
    BY <1>1, <1>5, <1>10 DEF EndAt
  <2>2. CASE i < L
    <3>1. i \in 1..L /\ i + 1 \in 1..L /\ i \in 1..(L - 1)
      BY <1>1, <2>1, <2>2
    <3>2. s[i] = "cr" /\ s[i + 1] = "lf"
      BY <1>4, <2>1, <3>1
    <3>. QED
      BY <3>1, <3>2 DEF EndAt, L
  <2>3. CASE i = L
    <3>1. L \in 1..L /\ L > 0
      BY <1>1, <2>1, <2>3
    <3>2. s # <<>>
      BY <3>1 DEF L
    <3>3. EndAt(s, L - 1) /\ (L - 1) + 1 = L
      BY <1>1, <3>2 DEF AtLineStart, L
    <3>4. s[L] = "lf"
      BY <3>3 DEF EndAt
    <3>5. t[L] = s[L]
      BY <1>4, <3>1
    <3>. QED
      BY <2>1, <2>3, <3>4, <3>5
  <2>4. CASE i > L
    <3>. DEFINE j == i - L
    <3>1. j \in 1..M /\ j \in Nat /\ L + j = i
      BY <1>1, <2>1, <2>4
    <3>2. line[j] = "cr"
      BY <1>5, <2>1, <3>1
    <3>3. CASE j = M
      <4>1. i + 1 = L + M + 1
        BY <1>1, <3>1, <3>3
      <4>. QED
        BY <1>6, <2>1, <4>1
    <3>4. CASE j # M
      <4>1. j + 1 \in 1..M /\ L + (j + 1) = i + 1 /\ j \in 1..(M - 1)
        BY <1>1, <3>1, <3>4
      <4>2. t[L + (j + 1)] = line[j + 1]
        BY <1>5, <4>1
      <4>3. line[j + 1] = "lf"
        BY <2>1, <4>1, <4>2
      <4>4. EndAt(line, j)
        BY <3>2, <4>1, <4>3 DEF EndAt, M
      <4>. QED
        BY <3>1, <4>4 DEF Whole
    <3>. QED
      BY <3>3, <3>4
  <2>. QED
    BY <1>1, <2>1, <2>2, <2>3, <2>4
<1>11. ASSUME NEW i \in Nat PROVE EndAt(t, i) <=> EndAt(s, i) \/ i = Len(t) - 1
  BY <1>7, <1>8, <1>9, <1>10
<1>12. AtLineStart(t)
  BY <1>7, <1>8 DEF AtLineStart
<1>13. /\ t \in Text /\ Len(t) = Len(s) + Len(line) + 2
       /\ \A i \in 1..Len(s) : t[i] = s[i]
       /\ \A i \in 1..Len(line) : t[Len(s) + i] = line[i]
  BY <1>4, <1>5 DEF Text, L, M
<1>. QED
  BY <1>11, <1>12, <1>13 DEF t, u

(* What the texts F[i] of the first i lines are.                            *)
Written(ls, F, i) ==
    /\ AtLineStart(F[i])
    /\ \A j \in 1..i : Len(F[j]) = Len(F[j - 1]) + Len(ls[j]) + 2 /\ Len(F[j]) <= Len(F[i])
    /\ \A j \in 1..i : \A p \in 1..Len(ls[j]) : F[i][Len(F[j - 1]) + p] = ls[j][p]
    /\ \A p \in Nat : EndAt(F[i], p) <=> \E j \in 1..i : p = Len(F[j]) - 1
Extends(ls, F, i, q) ==
    /\ Len(F[q]) = Len(F[i]) + Len(ls[q]) + 2 /\ AtLineStart(F[q])
    /\ \A p \in 1..Len(F[i]) : F[q][p] = F[i][p]
    /\ \A p \in 1..Len(ls[q]) : F[q][Len(F[i]) + p] = ls[q][p]
    /\ \A p \in Nat : EndAt(F[q], p) <=> EndAt(F[i], p) \/ p = Len(F[q]) - 1

(* Two facts of arithmetic the provers need by themselves.                  *)
LEMMA AtMost ==
    ASSUME NEW a \in Nat, NEW b \in Nat, NEW c \in Nat, a <= b, b <= c PROVE a <= c
  OBVIOUS

(* A place of a part is a place of the whole.                               *)
LEMMA Inside ==
    ASSUME NEW a \in Nat, NEW b \in Nat, NEW c \in Nat, NEW d \in Nat, NEW p \in 1..b,
           c = a + b + 2, c <= d
    PROVE  a + p \in 1..d
  OBVIOUS

(* The next line keeps what is known of those written.                      *)
LEMMA WrittenNext ==
    ASSUME NEW n \in Nat, NEW F \in [0..n -> Text], NEW ls, \A k \in 1..n : ls[k] \in Text,
           NEW i \in 0..n, NEW q \in 1..n, q - 1 = i, Written(ls, F, i), Extends(ls, F, i, q)
    PROVE  Written(ls, F, q)
<1>1. 1..q = 1..i \cup {q}
  OBVIOUS
<1>2. Len(F[q]) \in Nat /\ Len(F[i]) \in Nat /\ Len(ls[q]) \in Nat
  BY DEF Text
<1>3. \A j \in 1..i : /\ Len(F[j]) \in Nat /\ Len(F[j - 1]) \in Nat /\ Len(ls[j]) \in Nat
                      /\ Len(F[j]) = Len(F[j - 1]) + Len(ls[j]) + 2 /\ Len(F[j]) <= Len(F[i])
  <2>1. ASSUME NEW j \in 1..i PROVE Len(F[j]) \in Nat /\ Len(F[j - 1]) \in Nat /\ Len(ls[j]) \in Nat
    <3>1. j \in 0..n /\ j - 1 \in 0..n /\ j \in 1..n
      OBVIOUS
    <3>. QED
      BY <3>1 DEF Text
  <2>. QED
    BY <2>1 DEF Written
<1>4. Len(F[q]) = Len(F[i]) + Len(ls[q]) + 2
  BY DEF Extends
<1>5. ASSUME NEW j \in 1..q
      PROVE  Len(F[j]) = Len(F[j - 1]) + Len(ls[j]) + 2 /\ Len(F[j]) <= Len(F[q])
  <2>1. CASE j = q
    BY <1>2, <1>4, <2>1
  <2>2. CASE j \in 1..i
    <3>1. /\ Len(F[j]) \in Nat /\ Len(F[j]) = Len(F[j - 1]) + Len(ls[j]) + 2
          /\ Len(F[j]) <= Len(F[i])
      BY <1>3, <2>2
    <3>2. Len(F[i]) <= Len(F[q])
      BY <1>2, <1>4
    <3>3. Len(F[j]) <= Len(F[q])
      BY ONLY <1>2, <3>1, <3>2, AtMost
    <3>. QED
      BY <3>1, <3>3
  <2>. QED
    BY <1>1, <2>1, <2>2
<1>6. ASSUME NEW j \in 1..q, NEW p \in 1..Len(ls[j]) PROVE F[q][Len(F[j - 1]) + p] = ls[j][p]
  <2>1. CASE j = q
    BY <2>1 DEF Extends
  <2>2. CASE j \in 1..i
    <3>0. /\ Len(F[j]) \in Nat /\ Len(F[j - 1]) \in Nat /\ Len(ls[j]) \in Nat
          /\ Len(F[j]) = Len(F[j - 1]) + Len(ls[j]) + 2 /\ Len(F[j]) <= Len(F[i])
      BY <1>3, <2>2
    <3>1. Len(F[j - 1]) + p \in 1..Len(F[i])
      BY ONLY p \in 1..Len(ls[j]), <1>2, <3>0, Inside
    <3>2. F[i][Len(F[j - 1]) + p] = ls[j][p]
      BY <2>2 DEF Written
    <3>3. F[q][Len(F[j - 1]) + p] = F[i][Len(F[j - 1]) + p]
      BY <3>1 DEF Extends
    <3>. QED
      BY <3>2, <3>3
  <2>. QED
    BY <1>1, <2>1, <2>2
<1>7. ASSUME NEW p \in Nat PROVE EndAt(F[q], p) <=> \E j \in 1..q : p = Len(F[j]) - 1
  <2>1. EndAt(F[q], p) <=> EndAt(F[i], p) \/ p = Len(F[q]) - 1
    BY DEF Extends
  <2>2. EndAt(F[i], p) <=> \E j \in 1..i : p = Len(F[j]) - 1
    BY DEF Written
  <2>. QED
    BY <1>1, <2>1, <2>2
<1>8. AtLineStart(F[q])
  BY DEF Extends
<1>. QED
  BY <1>5, <1>6, <1>7, <1>8 DEF Written

(* The k-th end of what is written is that of the k-th line.                *)
LEMMA LinesWritten ==
    ASSUME NEW ls \in Seq(Text), \A k \in 1..Len(ls) : Whole(ls[k]),
           \A k \in 2..Len(ls) : ls[k] # <<>>
    PROVE  \E F \in [0..Len(ls) -> Text] :
              /\ F[0] = <<>> /\ WriteLines(ls) = F[Len(ls)] \o CRLF
              /\ Written(ls, F, Len(ls))
<1>. DEFINE n == Len(ls)
            ss == [k \in 1..n |-> IF k > 1 /\ ls[k] = <<>> THEN <<>> ELSE ls[k] \o CRLF]
<1>1. n \in Nat /\ \A k \in 1..n : ls[k] \in Text /\ Whole(ls[k])
  OBVIOUS
<1>2. ASSUME NEW k \in 1..n PROVE ss[k] = ls[k] \o CRLF /\ ss[k] \in Seq(Tokens)
  <2>1. k > 1 => k \in 2..n
    BY <1>1
  <2>2. ss[k] = ls[k] \o CRLF
    BY <2>1
  <2>3. ls[k] \in Seq(Tokens) /\ CRLF \in Seq(Tokens)
    BY <1>1 DEF Text, CRLF, Tokens
  <2>4. ls[k] \o CRLF \in Seq(Tokens)
    BY <2>3, TextConcat
  <2>. QED
    BY <2>2, <2>4
<1>3. ss \in Seq(Seq(Tokens)) /\ Len(ss) = n
  BY <1>1, <1>2
<1>4. WriteLines(ls) = FlattenSeq(ss) \o CRLF
  BY DEF WriteLines
<1>. HIDE DEF ss
<1>5. PICK F \in [0..n -> Seq(Tokens)] :
         /\ F[0] = <<>> /\ FlattenSeq(ss) = F[n]
         /\ \A i \in 1..n : F[i] = F[i - 1] \o ss[i]
  <2>1. \E F \in [0..Len(ss) -> Seq(Tokens)] :
           /\ F[0] = <<>> /\ FlattenSeq(ss) = F[Len(ss)]
           /\ \A i \in 1..Len(ss) : F[i] = F[i - 1] \o ss[i]
    BY ONLY <1>3, Flattening
  <2>. HIDE DEF n
  <2>. QED
    BY <1>3, <2>1
<1>. HIDE DEF n
<1>6. ASSUME NEW i \in 0..n PROVE F[i] \in Text /\ Len(F[i]) \in Nat
  <2>1. F[i] \in Seq(Tokens)
    BY <1>1, <1>5
  <2>. QED
    BY <2>1 DEF Text
<1>7. ASSUME NEW i \in 1..n, AtLineStart(F[i - 1])
      PROVE  /\ Len(F[i]) = Len(F[i - 1]) + Len(ls[i]) + 2 /\ AtLineStart(F[i])
             /\ \A p \in 1..Len(F[i - 1]) : F[i][p] = F[i - 1][p]
             /\ \A p \in 1..Len(ls[i]) : F[i][Len(F[i - 1]) + p] = ls[i][p]
             /\ \A p \in Nat : EndAt(F[i], p) <=> EndAt(F[i - 1], p) \/ p = Len(F[i]) - 1
  <2>. DEFINE s == F[i - 1]
              line == ls[i]
  <2>1. i - 1 \in 0..n
    BY <1>1
  <2>2. s \in Text /\ line \in Text /\ AtLineStart(s) /\ Whole(line)
    BY <1>1, <1>6, <1>7, <2>1
  <2>3. F[i] = s \o (line \o CRLF)
    BY <1>2, <1>5
  <2>. HIDE DEF s, line
  <2>4. LET t == s \o (line \o CRLF)
        IN  /\ t \in Text /\ Len(t) = Len(s) + Len(line) + 2 /\ AtLineStart(t)
            /\ \A p \in 1..Len(s) : t[p] = s[p]
            /\ \A p \in 1..Len(line) : t[Len(s) + p] = line[p]
            /\ \A p \in Nat : EndAt(t, p) <=> EndAt(s, p) \/ p = Len(t) - 1
    BY ONLY <2>2, LineWritten
  <2>5. /\ Len(F[i]) = Len(s) + Len(line) + 2 /\ AtLineStart(F[i])
        /\ \A p \in 1..Len(s) : F[i][p] = s[p]
        /\ \A p \in 1..Len(line) : F[i][Len(s) + p] = line[p]
        /\ \A p \in Nat : EndAt(F[i], p) <=> EndAt(s, p) \/ p = Len(F[i]) - 1
    BY ONLY <2>3, <2>4
  <2>. QED
    BY <2>5 DEF s, line
<1>. DEFINE T == {i \in Nat : i <= n => Written(ls, F, i)}
<1>8. 0 \in T
  <2>1. AtLineStart(F[0]) /\ \A p \in Nat : ~EndAt(F[0], p)
    BY <1>5 DEF AtLineStart, EndAt
  <2>2. 1..0 = {}
    OBVIOUS
  <2>3. Written(ls, F, 0)
    BY <2>1, <2>2 DEF Written
  <2>. HIDE DEF Written
  <2>. QED
    BY <2>3
<1>9. ASSUME NEW i \in Nat, i \in T PROVE i + 1 \in T
  <2>. SUFFICES ASSUME i + 1 <= n PROVE Written(ls, F, i + 1)
    OBVIOUS
  <2>. DEFINE q == i + 1
  <2>1. q \in 1..n /\ q - 1 = i /\ i \in 0..n
    BY <1>1
  <2>2. Written(ls, F, i)
    BY <1>1, <1>9, <2>1
  <2>. HIDE DEF q
  <2>3. AtLineStart(F[q - 1])
    BY <2>1, <2>2 DEF Written
  <2>4. Extends(ls, F, i, q)
    BY <1>7, <2>1, <2>3 DEF Extends
  <2>5. F \in [0..n -> Text] /\ \A k \in 1..n : ls[k] \in Text
    BY <1>1, <1>6
  <2>6. Written(ls, F, q)
    BY <1>1, <2>1, <2>2, <2>4, <2>5, WrittenNext
  <2>. QED
    BY <2>6 DEF q
<1>10. n \in T
  <2>. HIDE DEF T
  <2>. QED
    BY <1>1, <1>8, <1>9, SetInduction
<1>11. Written(ls, F, n)
  BY <1>1, <1>10
<1>12. F \in [0..n -> Text] /\ WriteLines(ls) = F[n] \o CRLF
  BY <1>4, <1>5 DEF Text
<1>. QED
  BY <1>5, <1>11, <1>12 DEF n

(* A shorter text has the line ends of a longer one that fit in it.         *)
LEMMA PrefixEnds ==
    ASSUME NEW B \in Text, NEW S \in Text, Len(S) <= Len(B), \A i \in 1..Len(S) : S[i] = B[i],
           NEW i \in Nat
    PROVE  EndAt(S, i) <=> EndAt(B, i) /\ i + 1 <= Len(S)
<1>1. Len(S) \in Nat /\ Len(B) \in Nat
  BY DEF Text
<1>2. CASE i \in 1..Len(S) /\ i + 1 \in 1..Len(S)
  <2>1. S[i] = B[i] /\ S[i + 1] = B[i + 1]
    BY <1>2
  <2>2. i \in 1..(Len(S) - 1) /\ i \in 1..(Len(B) - 1) /\ i + 1 <= Len(S)
    BY <1>1, <1>2
  <2>. QED
    BY <2>1, <2>2 DEF EndAt
<1>3. CASE ~(i \in 1..Len(S) /\ i + 1 \in 1..Len(S))
  <2>1. i \notin 1..(Len(S) - 1)
    BY <1>1, <1>3
  <2>2. i \in 1..(Len(B) - 1) => ~(i + 1 <= Len(S))
    BY <1>1, <1>3
  <2>. QED
    BY <2>1, <2>2 DEF EndAt
<1>. QED
  BY <1>2, <1>3

(* What is written is a head, and splits into the lines it was written from. *)
LEMMA HeadWritten ==
    ASSUME NEW ls \in Seq(Text), Len(ls) # 0, \A k \in 1..Len(ls) : Whole(ls[k]),
           \A k \in 2..Len(ls) : ls[k] # <<>>
    PROVE  /\ WriteLines(ls) \in Text /\ HeadLen(WriteLines(ls)) = Len(WriteLines(ls))
           /\ Len(WriteLines(ls)) >= 4 /\ HeadLines(WriteLines(ls)) = ls
<1>. DEFINE n == Len(ls)
            W == WriteLines(ls)
<1>1. PICK F \in [0..n -> Text] : F[0] = <<>> /\ W = F[n] \o CRLF /\ Written(ls, F, n)
  BY LinesWritten
<1>2. n \in Nat \ {0} /\ \A k \in 1..n : ls[k] \in Text /\ Len(ls[k]) \in Nat
  BY DEF Text
<1>3. \A k \in 2..n : Len(ls[k]) >= 1
  BY <1>2 DEF Text
<1>. HIDE DEF n, W
<1>. DEFINE l == [k \in 0..n |-> Len(F[k])]
            e == [k \in 1..n |-> l[k] - 1]
            B == F[n]
            L == l[n]
<1>4. \A k \in 0..n : l[k] = Len(F[k]) /\ l[k] \in Nat
  BY DEF Text
<1>. HIDE DEF l
<1>5. l[0] = 0 /\ \A k \in 1..n : l[k] = l[k - 1] + Len(ls[k]) + 2 /\ l[k] <= L
  <2>1. l[0] = 0
    BY <1>1, <1>2, <1>4
  <2>2. ASSUME NEW k \in 1..n PROVE l[k] = l[k - 1] + Len(ls[k]) + 2 /\ l[k] <= L
    <3>1. k \in 0..n /\ k - 1 \in 0..n /\ n \in 0..n
      BY <1>2
    <3>2. Len(F[k]) = Len(F[k - 1]) + Len(ls[k]) + 2 /\ Len(F[k]) <= Len(F[n])
      BY <1>1 DEF Written
    <3>. QED
      BY <1>4, <3>1, <3>2
  <2>. QED
    BY <2>1, <2>2
<1>6. ASSUME NEW k \in 1..n
      PROVE  /\ e[k] \in Nat /\ e[k] = l[k] - 1 /\ e[k] <= L - 1
             /\ l[k - 1] \in Nat /\ l[k] \in Nat /\ l[k] >= 2
  <2>1. k \in 0..n /\ k - 1 \in 0..n
    BY <1>2
  <2>2. l[k] \in Nat /\ l[k - 1] \in Nat /\ L \in Nat /\ Len(ls[k]) \in Nat
    BY <1>2, <1>4, <2>1
  <2>3. l[k] = l[k - 1] + Len(ls[k]) + 2 /\ l[k] <= L
    BY <1>5
  <2>4. e[k] = l[k] - 1
    OBVIOUS
  <2>. HIDE DEF e, L
  <2>5. l[k] >= 2
    BY ONLY <2>2, <2>3
  <2>6. l[k] - 1 \in Nat /\ l[k] - 1 <= L - 1
    BY ONLY <2>2, <2>3, <2>5
  <2>. QED
    BY <2>2, <2>4, <2>5, <2>6
<1>7. B \in Text /\ Len(B) = L /\ L \in Nat /\ L >= 2 /\ e[n] = L - 1 /\ n \in 1..n /\ n \in 0..n
  <2>1. n \in 1..n /\ n \in 0..n
    BY <1>2
  <2>. QED
    BY <1>4, <1>6, <2>1
<1>8. \A p \in Nat : EndAt(B, p) <=> \E k \in 1..n : p = e[k]
  <2>1. \A p \in Nat : EndAt(B, p) <=> \E k \in 1..n : p = Len(F[k]) - 1
    BY <1>1 DEF Written
  <2>2. ASSUME NEW k \in 1..n PROVE Len(F[k]) - 1 = e[k]
    <3>1. k \in 0..n
      OBVIOUS
    <3>. QED
      BY <1>4, <1>6, <3>1
  <2>. QED
    BY <2>1, <2>2
<1>9. AtLineStart(B) /\ EndAt(B, L - 1)
  <2>1. AtLineStart(B)
    BY <1>1 DEF Written
  <2>. QED
    BY <1>7, <1>8, <2>1
<1>10. e \in [1..n -> Nat]
  BY <1>6
<1>11. ASSUME NEW k \in 1..n, k + 1 \in 1..n PROVE e[k] + 3 <= e[k + 1]
  <2>. HIDE DEF e, L
  <2>1. (k + 1) - 1 = k /\ k + 1 \in 2..n
    BY <1>2, <1>11
  <2>2. e[k + 1] = l[k + 1] - 1 /\ e[k] = l[k] - 1 /\ l[k] \in Nat /\ l[k + 1] \in Nat
    BY <1>6, <1>11
  <2>3. l[k + 1] = l[k] + Len(ls[k + 1]) + 2
    BY <1>5, <1>11, <2>1
  <2>4. Len(ls[k + 1]) \in Nat /\ Len(ls[k + 1]) >= 1
    BY <1>2, <1>3, <1>11, <2>1
  <2>5. l[k] + 3 <= l[k + 1]
    BY ONLY <2>2, <2>3, <2>4
  <2>. QED
    BY ONLY <2>2, <2>5
<1>. HIDE DEF e, B, L
<1>12. \A j, k \in 1..n : j < k => e[j] < e[k]
  <2>1. \A k \in 1..n : k + 1 \in 1..n => e[k] < e[k + 1]
    <3>1. ASSUME NEW k \in 1..n, k + 1 \in 1..n PROVE e[k] < e[k + 1]
      <4>1. e[k] \in Nat /\ e[k + 1] \in Nat /\ e[k] + 3 <= e[k + 1]
        BY <1>6, <1>11, <3>1
      <4>. QED
        BY <4>1
    <3>. QED
      BY <3>1
  <2>. QED
    BY <1>2, <1>10, <2>1, Increasing
<1>13. ASSUME NEW j \in 1..n, NEW k \in 1..n, j < k PROVE e[j] + 3 <= e[k]
  <2>1. j + 1 \in 1..n /\ (j + 1 = k \/ j + 1 < k)
    BY <1>2, <1>13
  <2>2. e[j] + 3 <= e[j + 1] /\ e[j + 1] \in Nat /\ e[j] \in Nat /\ e[k] \in Nat
    BY <1>6, <1>11, <2>1
  <2>3. e[j + 1] <= e[k]
    BY <1>12, <2>1, <2>2
  <2>. QED
    BY ONLY <2>2, <2>3
<1>14. /\ W \in Text /\ Len(W) = L + 2 /\ \A i \in 1..L : W[i] = B[i]
       /\ \A i \in Nat : EndAt(W, i) <=> EndAt(B, i) \/ i = L + 1
  <2>1. <<>> \in Text /\ Whole(<<>>) /\ Len(<<>>) = 0
    BY DEF Text, Whole, EndAt
  <2>2. W = B \o (<<>> \o CRLF)
    <3>1. CRLF \in Seq(Tokens)
      BY DEF CRLF, Tokens
    <3>. QED
      BY <1>1, <3>1, ConcatEmptySeq DEF B
  <2>. DEFINE none == <<>>
  <2>. HIDE DEF none
  <2>3. LET t == B \o (none \o CRLF)
        IN  /\ t \in Text /\ Len(t) = Len(B) + Len(none) + 2 /\ AtLineStart(t)
            /\ \A i \in 1..Len(B) : t[i] = B[i]
            /\ \A i \in 1..Len(none) : t[Len(B) + i] = none[i]
            /\ \A i \in Nat : EndAt(t, i) <=> EndAt(B, i) \/ i = Len(t) - 1
    <3>1. none \in Text /\ Whole(none)
      BY <2>1 DEF none
    <3>. QED
      BY ONLY <1>7, <1>9, <3>1, LineWritten
  <2>4. /\ W \in Text /\ Len(W) = Len(B) + Len(none) + 2
        /\ \A i \in 1..Len(B) : W[i] = B[i]
        /\ \A i \in Nat : EndAt(W, i) <=> EndAt(B, i) \/ i = Len(W) - 1
    BY ONLY <2>2, <2>3 DEF none
  <2>5. Len(B) = L /\ Len(none) = 0
    BY <1>7, <2>1 DEF none
  <2>6. Len(W) = L + 2 /\ Len(W) - 1 = L + 1
    BY <1>7, <2>4, <2>5
  <2>. QED
    BY ONLY <2>4, <2>5, <2>6
<1>15. HeadEndAt(W, L - 1)
  <2>1. L - 1 \in Nat /\ L + 1 \in Nat /\ (L - 1) + 2 = L + 1
    BY <1>7
  <2>. QED
    BY <1>9, <1>14, <2>1 DEF HeadEndAt
<1>16. ASSUME NEW i \in Nat, HeadEndAt(W, i) PROVE i = L - 1
  <2>1. EndAt(W, i) /\ EndAt(W, i + 2) /\ i + 2 \in Nat
    BY <1>16 DEF HeadEndAt
  <2>2. i + 2 <= L + 1
    BY <1>7, <1>14, <2>1 DEF EndAt
  <2>3. EndAt(B, i)
    BY <1>7, <1>14, <2>1, <2>2
  <2>4. PICK j \in 1..n : i = e[j]
    BY <1>8, <2>3
  <2>5. CASE i + 2 = L + 1
    BY <1>7, <2>5
  <2>6. CASE i + 2 # L + 1
    <3>1. PICK k \in 1..n : i + 2 = e[k]
      BY <1>8, <1>14, <2>1, <2>6
    <3>2. e[j] \in Nat /\ e[k] \in Nat /\ e[k] = e[j] + 2
      BY <1>6, <2>4, <3>1
    <3>3. ~(j < k)
      BY <1>13, <3>2
    <3>4. ~(k < j)
      BY <1>12, <3>2
    <3>5. j = k
      BY <3>3, <3>4
    <3>. QED
      BY <3>2, <3>5
  <2>. QED
    BY <2>5, <2>6
<1>17. HeadLen(W) = L + 2
  <2>1. HeadLen(W) \in 0..Len(W) /\ HeadLen(W) # 0
    BY <1>7, <1>14, <1>15, HeadLenIs
  <2>2. HeadEndAt(W, HeadLen(W) - 3)
    BY <1>14, <2>1, HeadLenIs
  <2>3. HeadLen(W) - 3 \in Nat
    BY <1>14, <2>2 DEF HeadEndAt, EndAt
  <2>4. HeadLen(W) - 3 = L - 1
    BY <1>16, <2>2, <2>3
  <2>. QED
    BY <1>7, <1>14, <2>1, <2>4
<1>. DEFINE S == SubSeq(W, 1, Len(W) - 4)
<1>18. S \in Text /\ Len(S) = L - 2 /\ \A i \in 1..(L - 2) : S[i] = B[i]
  <2>. DEFINE c == L - 2
  <2>1. c \in Nat /\ 1 <= c + 1 /\ c <= Len(W) /\ Len(W) - 4 = c /\ c - 1 + 1 = c
    BY <1>7, <1>14
  <2>2. W \in Seq(Tokens)
    BY <1>14 DEF Text
  <2>. HIDE DEF c
  <2>3. /\ SubSeq(W, 1, c) \in Seq(Tokens) /\ Len(SubSeq(W, 1, c)) = c - 1 + 1
        /\ \A i \in 1..(c - 1 + 1) : SubSeq(W, 1, c)[i] = W[1 + i - 1]
    BY ONLY <2>1, <2>2, PartOf, 1 \in Nat, 1 <= 1
  <2>4. ASSUME NEW i \in 1..c PROVE SubSeq(W, 1, c)[i] = B[i]
    <3>1. 1 + i - 1 = i /\ i \in 1..L
      BY <1>7, <2>1, <2>4 DEF c
    <3>. QED
      BY <1>14, <2>1, <2>3, <3>1
  <2>. QED
    BY <2>1, <2>3, <2>4 DEF c, Text
<1>. HIDE DEF S
<1>19. Ordered(EndsOf(S), n, e)
  <2>1. \A i : i \in EndsOf(S) <=> EndAt(S, i) \/ i = L - 1
    <3>1. Len(S) + 1 = L - 1
      BY <1>7, <1>18
    <3>. QED
      BY <1>18, <3>1, PlacesOfEnds DEF EndsOf
  <2>2. \A i \in Nat : EndAt(S, i) <=> EndAt(B, i) /\ i + 1 <= L - 2
    <3>1. Len(S) <= Len(B) /\ \A i \in 1..Len(S) : S[i] = B[i]
      BY <1>7, <1>18
    <3>2. \A i \in Nat : EndAt(S, i) <=> EndAt(B, i) /\ i + 1 <= Len(S)
      BY <1>7, <1>18, <3>1, PrefixEnds
    <3>. QED
      BY <1>18, <3>2
  <2>3. ASSUME NEW i \in EndsOf(S) PROVE \E k \in 1..n : i = e[k]
    <3>1. CASE i = L - 1
      BY <1>7, <3>1
    <3>2. CASE EndAt(S, i)
      <4>1. i \in Nat
        BY <1>18, <3>2 DEF EndAt
      <4>. QED
        BY <1>8, <2>2, <3>2, <4>1
    <3>. QED
      BY <2>1, <3>1, <3>2
  <2>4. ASSUME NEW k \in 1..n PROVE e[k] \in EndsOf(S)
    <3>1. CASE k = n
      BY <1>7, <2>1, <3>1
    <3>2. CASE k # n
      <4>1. k < n
        BY <1>2, <3>2
      <4>2. e[k] + 3 <= e[n] /\ e[k] \in Nat
        BY <1>6, <1>7, <1>13, <4>1
      <4>3. e[k] + 1 <= L - 2
        BY <1>7, <4>2
      <4>4. EndAt(B, e[k])
        BY <1>8, <4>2
      <4>. QED
        BY <2>1, <2>2, <4>2, <4>3, <4>4
    <3>. QED
      BY <3>1, <3>2
  <2>5. EndsOf(S) = {e[k] : k \in 1..n}
    BY <2>3, <2>4
  <2>. QED
    BY <1>12, <2>5 DEF Ordered
<1>20. LinesOf(S) = [k \in 1..n |-> SubSeq(S, IF k = 1 THEN 1 ELSE e[k - 1] + 2, e[k] - 1)]
  BY <1>2, <1>10, <1>18, <1>19, LinesAre
<1>21. ASSUME NEW k \in 1..n
       PROVE  SubSeq(S, IF k = 1 THEN 1 ELSE e[k - 1] + 2, e[k] - 1) = ls[k]
  <2>. DEFINE a == l[k - 1] + 1
              c == l[k] - 2
              m == Len(ls[k])
  <2>1. l[k - 1] \in Nat /\ l[k] \in Nat /\ l[k] >= 2 /\ l[k] = l[k - 1] + m + 2 /\ l[k] <= L
    BY <1>5, <1>6
  <2>2. m \in Nat
    BY <1>2
  <2>3. (IF k = 1 THEN 1 ELSE e[k - 1] + 2) = a
    <3>1. CASE k = 1
      BY <1>5, <3>1
    <3>2. CASE k # 1
      <4>1. k - 1 \in 1..n
        BY <1>2, <3>2
      <4>2. e[k - 1] = l[k - 1] - 1
        BY <1>6, <4>1
      <4>. QED
        BY <2>1, <3>2, <4>2
    <3>. QED
      BY <3>1, <3>2
  <2>4. e[k] - 1 = c
    BY <1>6, <2>1
  <2>. HIDE DEF m
  <2>5. a \in Nat /\ c \in Nat /\ 1 <= a /\ a <= c + 1 /\ c <= L - 2 /\ c - a + 1 = m
    <3>1. L \in Nat
      BY <1>7
    <3>2. a \in Nat /\ 1 <= a
      BY ONLY <2>1
    <3>3. c \in Nat
      BY ONLY <2>1
    <3>4. a <= c + 1
      BY ONLY <2>1, <2>2
    <3>5. c <= L - 2
      BY ONLY <2>1, <3>1
    <3>6. c - a + 1 = m
      BY ONLY <2>1, <2>2
    <3>. QED
      BY ONLY <3>2, <3>3, <3>4, <3>5, <3>6
  <2>. HIDE DEF a, c
  <2>6. /\ SubSeq(S, a, c) \in Seq(Tokens) /\ Len(SubSeq(S, a, c)) = m
        /\ \A i \in 1..m : SubSeq(S, a, c)[i] = S[a + i - 1]
    <3>1. S \in Seq(Tokens) /\ c <= Len(S)
      BY <1>18, <2>5 DEF Text
    <3>2. /\ SubSeq(S, a, c) \in Seq(Tokens) /\ Len(SubSeq(S, a, c)) = c - a + 1
          /\ \A i \in 1..(c - a + 1) : SubSeq(S, a, c)[i] = S[a + i - 1]
      BY ONLY <2>5, <3>1, PartOf
    <3>. QED
      BY ONLY <2>5, <3>2
  <2>7. ASSUME NEW i \in 1..m PROVE SubSeq(S, a, c)[i] = ls[k][i]
    <3>1. a + i - 1 = l[k - 1] + i
      BY <2>1, <2>2 DEF a
    <3>2. l[k - 1] + i \in 1..(L - 2)
      <4>1. i \in Nat /\ 1 <= i /\ i <= m
        BY <2>2
      <4>2. l[k - 1] + i \in Nat /\ 1 <= l[k - 1] + i
        BY ONLY <2>1, <4>1
      <4>3. l[k - 1] + i <= L - 2
        <5>1. L \in Nat
          BY <1>7
        <5>. HIDE DEF L
        <5>. QED
          BY ONLY <2>1, <2>2, <4>1, <5>1
      <4>4. L - 2 \in Int
        BY ONLY <1>7
      <4>. QED
        BY ONLY <4>2, <4>3, <4>4
    <3>3. B[l[k - 1] + i] = ls[k][i]
      <4>1. B[Len(F[k - 1]) + i] = ls[k][i]
        BY <1>1 DEF Written, B, m
      <4>2. k - 1 \in 0..n
        BY <1>2
      <4>. QED
        BY <1>4, <4>1, <4>2
    <3>. QED
      BY <1>18, <2>6, <3>1, <3>2, <3>3
  <2>8. SubSeq(S, a, c) = ls[k]
    <3>1. ls[k] \in Seq(Tokens) /\ Len(ls[k]) = m
      BY <1>2 DEF Text, m
    <3>. QED
      BY <2>6, <2>7, <3>1, SeqEqual
  <2>. QED
    BY <2>3, <2>4, <2>8
<1>22. LinesOf(S) = ls
  <2>1. ls = [k \in 1..n |-> ls[k]]
    BY <1>2 DEF n
  <2>. QED
    BY <1>20, <1>21, <2>1
<1>23. HeadLines(W) = ls /\ Len(W) >= 4 /\ HeadLen(W) = Len(W)
  BY <1>7, <1>14, <1>17, <1>22 DEF HeadLines, S
<1>. QED
  BY <1>14, <1>23 DEF W
----------------------------------------------------------------------------
(* The rewritten head.                                                      *)

Lines(ls) == /\ ls \in Seq(Text) /\ Len(ls) # 0 /\ \A k \in 1..Len(ls) : Whole(ls[k])
             /\ \A k \in 2..Len(ls) : ls[k] # <<>>

(* The head of a text splits into lines that can be written.                *)
LEMMA HeadSplit ==
    ASSUME NEW s \in Text, HeadLen(s) # 0
    PROVE  /\ HeadOf(s) \in Text /\ Len(HeadOf(s)) = HeadLen(s)
           /\ \A i \in 1..HeadLen(s) : HeadOf(s)[i] = s[i]
           /\ Lines(HeadLines(HeadOf(s)))
<1>. DEFINE h == HeadLen(s)
            H == HeadOf(s)
<1>1. h \in Nat /\ h <= Len(s) /\ Len(s) \in Nat /\ s \in Seq(Tokens)
  BY HeadLenIs DEF Text
<1>2. HeadEndAt(s, h - 3) /\ \A i \in Nat : HeadEndAt(s, i) => h <= i + 3
  BY HeadLenIs
<1>. HIDE DEF h
<1>3. h >= 4
  BY <1>1, <1>2 DEF HeadEndAt, EndAt
<1>4. H \in Seq(Tokens) /\ Len(H) = h /\ \A i \in 1..h : H[i] = s[i]
  <2>1. 1 \in Nat /\ 1 <= 1 /\ 1 <= h + 1 /\ h - 1 + 1 = h
    BY <1>1, <1>3
  <2>2. /\ SubSeq(s, 1, h) \in Seq(Tokens) /\ Len(SubSeq(s, 1, h)) = h - 1 + 1
        /\ \A i \in 1..(h - 1 + 1) : SubSeq(s, 1, h)[i] = s[1 + i - 1]
    BY ONLY <1>1, <2>1, PartOf
  <2>3. \A i \in 1..h : 1 + i - 1 = i
    BY <1>1
  <2>. QED
    BY <2>1, <2>2, <2>3 DEF H, HeadOf, h
<1>. HIDE DEF H
<1>. DEFINE c == Len(H) - 4
            S == SubSeq(H, 1, c)
<1>5. c \in Nat /\ c = h - 4 /\ c <= h
  BY <1>1, <1>3, <1>4
<1>6. S \in Seq(Tokens) /\ Len(S) = c /\ \A i \in 1..c : S[i] = s[i]
  <2>1. 1 \in Nat /\ 1 <= 1 /\ 1 <= c + 1 /\ c - 1 + 1 = c /\ c <= Len(H)
    BY <1>4, <1>5
  <2>. HIDE DEF c
  <2>2. /\ SubSeq(H, 1, c) \in Seq(Tokens) /\ Len(SubSeq(H, 1, c)) = c - 1 + 1
        /\ \A i \in 1..(c - 1 + 1) : SubSeq(H, 1, c)[i] = H[1 + i - 1]
    BY ONLY <1>4, <1>5, <2>1, PartOf
  <2>3. \A i \in 1..c : 1 + i - 1 = i /\ i \in 1..h
    BY <1>1, <1>5
  <2>. QED
    BY <1>4, <2>1, <2>2, <2>3
<1>. HIDE DEF S, c
<1>7. \A i \in Nat : EndAt(S, i) <=> EndAt(s, i) /\ i + 1 <= c
  <2>1. S \in Text /\ Len(S) <= Len(s) /\ \A i \in 1..Len(S) : S[i] = s[i]
    BY <1>1, <1>5, <1>6 DEF Text
  <2>2. \A i \in Nat : EndAt(S, i) <=> EndAt(s, i) /\ i + 1 <= Len(S)
    BY <2>1, PrefixEnds
  <2>. QED
    BY <1>6, <2>2
<1>8. ASSUME NEW i \in Nat, HeadEndAt(S, i) PROVE FALSE
  <2>1. EndAt(S, i) /\ EndAt(S, i + 2) /\ i + 2 \in Nat
    BY <1>8 DEF HeadEndAt
  <2>2. EndAt(s, i) /\ EndAt(s, i + 2) /\ (i + 2) + 1 <= c
    BY <1>7, <2>1
  <2>3. h <= i + 3
    BY <1>2, <2>2 DEF HeadEndAt
  <2>. QED
    BY <1>1, <1>5, <2>2, <2>3
<1>9. ASSUME EndAt(S, Len(S) - 1) PROVE FALSE
  <2>1. c - 1 \in Nat /\ EndAt(S, c - 1)
    BY <1>5, <1>6, <1>9 DEF EndAt
  <2>2. EndAt(s, c - 1)
    BY <1>7, <2>1
  <2>3. EndAt(s, h - 3) /\ (c - 1) + 2 = h - 3
    BY <1>1, <1>2, <1>5 DEF HeadEndAt
  <2>4. HeadEndAt(s, c - 1)
    BY <2>2, <2>3 DEF HeadEndAt
  <2>5. h <= (c - 1) + 3
    BY <1>2, <2>1, <2>4
  <2>. QED
    BY <1>1, <1>5, <2>5
<1>10. Lines(LinesOf(S))
  <2>1. S \in Text
    BY <1>6 DEF Text
  <2>2. /\ LinesOf(S) \in Seq(Text) /\ Len(LinesOf(S)) \in Nat \ {0}
        /\ \A k \in 1..Len(LinesOf(S)) : Whole(LinesOf(S)[k])
        /\ \A k \in 2..Len(LinesOf(S)) : LinesOf(S)[k] # <<>>
    BY <1>8, <1>9, <2>1, LinesOfText
  <2>. QED
    BY <2>2 DEF Lines
<1>11. LinesOf(S) = HeadLines(H)
  BY DEF HeadLines, S, c
<1>. QED
  BY <1>4, <1>10, <1>11 DEF H, h, Text

(* The field the client puts in is a line, and a Host field.                *)
LEMMA NewHostIs == NewHost \in Text /\ Whole(NewHost) /\ NewHost # <<>> /\ IsHost(NewHost)
<1>1. NewHost \in Text /\ Len(NewHost) = 1 /\ NewHost # <<>> /\ Head(NewHost) = "new"
  BY DEF NewHost, Text, Tokens
<1>2. Whole(NewHost)
  BY <1>1 DEF Whole, EndAt
<1>. QED
  BY <1>1, <1>2 DEF IsHost

(* PutHost leaves one Host field at least, none but the new one, and the    *)
(* other lines as they were.                                                *)
LEMMA PutHostIs ==
    ASSUME NEW ls, Lines(ls)
    PROVE  /\ Lines(PutHost(ls))
           /\ \E k \in 2..Len(PutHost(ls)) : PutHost(ls)[k] = NewHost
           /\ \A k \in 2..Len(PutHost(ls)) : IsHost(PutHost(ls)[k]) => PutHost(ls)[k] = NewHost
           /\ OtherLines(PutHost(ls)) = OtherLines(ls)
<1>. DEFINE n == Len(ls)
            us == [k \in 1..n |-> IF k > 1 /\ IsHost(ls[k]) THEN NewHost ELSE ls[k]]
            ps == PutHost(ls)
            has == \E k \in 2..n : IsHost(ls[k])
<1>1. /\ n \in Nat \ {0} /\ \A k \in 1..n : ls[k] \in Text /\ Whole(ls[k])
      /\ \A k \in 2..n : ls[k] # <<>>
  BY DEF Lines
<1>2. us \in Seq(Text) /\ Len(us) = n
  BY <1>1, NewHostIs
<1>3. \A k \in 1..n : us[k] = IF k > 1 /\ IsHost(ls[k]) THEN NewHost ELSE ls[k]
  OBVIOUS
<1>4. ps = us \o (IF has THEN <<>> ELSE <<NewHost>>)
  BY DEF PutHost
<1>. HIDE DEF us, ps, n, has
<1>5. Lines(us)
  <2>1. ASSUME NEW k \in 1..n PROVE Whole(us[k]) /\ (k # 1 => us[k] # <<>>)
    <3>1. k # 1 => k \in 2..n
      BY <1>1
    <3>. QED
      BY <1>1, <1>3, <3>1, NewHostIs
  <2>2. \A k \in 2..n : k \in 1..n /\ k # 1
    BY <1>1
  <2>. QED
    BY <1>1, <1>2, <2>1, <2>2 DEF Lines
<1>6. \A k \in 2..n : IsHost(us[k]) => us[k] = NewHost
  <2>1. \A k \in 2..n : k \in 1..n /\ k > 1
    BY <1>1
  <2>. QED
    BY <1>3, <2>1
<1>. DEFINE O(xs) == [k \in 1..Len(xs) |-> IF IsHost(xs[k]) THEN <<>> ELSE <<xs[k]>>]
<1>7. O(us) = O(ls)
  <2>1. ASSUME NEW k \in 1..n
        PROVE  (IF IsHost(us[k]) THEN <<>> ELSE <<us[k]>>)
                 = (IF IsHost(ls[k]) THEN <<>> ELSE <<ls[k]>>)
    <3>1. us[k] = IF k > 1 /\ IsHost(ls[k]) THEN NewHost ELSE ls[k]
      BY <1>3
    <3>. QED
      BY <3>1, NewHostIs
  <2>2. Len(us) = n /\ Len(ls) = n
    BY <1>2 DEF n
  <2>. QED
    BY <2>1, <2>2
<1>8. CASE has
  <2>1. ps = us
    <3>1. us \o <<>> = us
      BY <1>2, ConcatEmptySeq
    <3>. QED
      BY <1>4, <1>8, <3>1
  <2>2. PICK k \in 2..n : IsHost(ls[k])
    BY <1>8 DEF has
  <2>3. us[k] = NewHost
    <3>1. k \in 1..n /\ k > 1
      BY <1>1
    <3>. QED
      BY <1>3, <2>2, <3>1
  <2>4. OtherLines(us) = OtherLines(ls)
    BY <1>7 DEF OtherLines
  <2>. QED
    BY <1>2, <1>5, <1>6, <2>1, <2>3, <2>4 DEF ps
<1>9. CASE ~has
  <2>1. ps = us \o <<NewHost>>
    BY <1>4, <1>9
  <2>2. ps = Append(us, NewHost)
    BY <1>2, <2>1, NewHostIs, AppendIsConcat
  <2>3. /\ ps \in Seq(Text) /\ Len(ps) = n + 1 /\ ps[n + 1] = NewHost
        /\ \A k \in 1..n : ps[k] = us[k]
    BY <1>2, <2>2, NewHostIs, AppendProperties
  <2>4. \A k \in 1..(n + 1) : k = n + 1 \/ k \in 1..n
    BY <1>1
  <2>5. Lines(ps)
    <3>1. \A k \in 1..(n + 1) : Whole(ps[k])
      BY <1>2, <1>5, <2>3, <2>4, NewHostIs DEF Lines
    <3>2. \A k \in 2..(n + 1) : k = n + 1 \/ k \in 2..n
      BY <1>1
    <3>3. \A k \in 2..n : k \in 1..n
      BY <1>1
    <3>4. \A k \in 2..(n + 1) : ps[k] # <<>>
      BY <1>2, <1>5, <2>3, <3>2, <3>3, NewHostIs DEF Lines
    <3>5. n + 1 # 0
      BY <1>1
    <3>. QED
      BY <2>3, <3>1, <3>4, <3>5 DEF Lines
  <2>6. n + 1 \in 2..(n + 1)
    BY <1>1
  <2>7. ASSUME NEW k \in 2..(n + 1), IsHost(ps[k]) PROVE ps[k] = NewHost
    <3>1. k = n + 1 \/ (k \in 2..n /\ k \in 1..n)
      BY <1>1
    <3>. QED
      BY <1>6, <2>3, <2>7, <3>1
  <2>8. OtherLines(ps) = OtherLines(ls)
    <3>. DEFINE oo == O(us)
    <3>1. oo \in Seq(Seq(Text)) /\ Len(oo) = n
      <4>1. \A k \in 1..n : us[k] \in Text
        BY <1>2
      <4>2. \A k \in 1..n : (IF IsHost(us[k]) THEN <<>> ELSE <<us[k]>>) \in Seq(Text)
        BY <4>1
      <4>3. Len(us) = n /\ n \in Nat
        BY <1>1, <1>2
      <4>. QED
        BY ONLY <4>2, <4>3
    <3>2. O(ps) = Append(oo, <<>>)
      <4>1. Append(oo, <<>>) \in Seq(Seq(Text)) /\ Len(Append(oo, <<>>)) = n + 1
        BY <3>1, AppendProperties
      <4>2. O(ps) \in Seq(Seq(Text)) /\ Len(O(ps)) = n + 1
        <5>1. \A k \in 1..(n + 1) : ps[k] \in Text
          BY <2>3
        <5>2. \A k \in 1..(n + 1) : (IF IsHost(ps[k]) THEN <<>> ELSE <<ps[k]>>) \in Seq(Text)
          BY <5>1
        <5>. QED
          BY <1>1, <2>3, <5>2
      <4>3. ASSUME NEW k \in 1..(n + 1) PROVE O(ps)[k] = Append(oo, <<>>)[k]
        <5>1. O(ps)[k] = IF IsHost(ps[k]) THEN <<>> ELSE <<ps[k]>>
          BY <2>3
        <5>2. CASE k = n + 1
          <6>1. Append(oo, <<>>)[k] = <<>>
            BY <3>1, <5>2, AppendProperties
          <6>. QED
            BY <2>3, <5>1, <5>2, <6>1, NewHostIs
        <5>3. CASE k \in 1..n
          <6>1. Append(oo, <<>>)[k] = oo[k]
            BY <3>1, <5>3, AppendProperties
          <6>2. oo[k] = IF IsHost(us[k]) THEN <<>> ELSE <<us[k]>>
            BY <1>2, <5>3
          <6>. QED
            BY <2>3, <5>1, <5>3, <6>1, <6>2
        <5>. QED
          BY <2>4, <5>2, <5>3
      <4>. HIDE DEF O
      <4>. QED
        BY <4>1, <4>2, <4>3, SeqEqual
    <3>. HIDE DEF oo, O
    <3>3. FlattenSeq(Append(oo, <<>>)) = FlattenSeq(oo) \o <<>>
      <4>1. <<>> \in Seq(Text)
        OBVIOUS
      <4>. QED
        BY <3>1, <4>1, FlattenMore
    <3>4. FlattenSeq(oo) \o <<>> = FlattenSeq(oo)
      <4>1. PICK F \in [0..Len(oo) -> Seq(Text)] : FlattenSeq(oo) = F[Len(oo)]
        BY <3>1, Flattening
      <4>2. Len(oo) \in 0..Len(oo)
        BY <1>1, <3>1
      <4>3. FlattenSeq(oo) \in Seq(Text)
        BY <4>1, <4>2
      <4>. QED
        BY <4>3, ConcatEmptySeq
    <3>5. OtherLines(ps) = FlattenSeq(O(ps)) /\ OtherLines(ls) = FlattenSeq(O(ls))
      BY DEF OtherLines, O
    <3>. QED
      BY <1>7, <3>2, <3>3, <3>4, <3>5 DEF oo
  <2>. QED
    BY <2>3, <2>5, <2>6, <2>7, <2>8 DEF ps
<1>. QED
  BY <1>8, <1>9

(* What rewriteHostHeader makes of the head of a request.                   *)
Rewritten(r, s) ==
    /\ r \in Text /\ HeadLen(r) = Len(r) /\ Len(r) >= 4
    /\ \E k \in 2..Len(HeadLines(r)) : HeadLines(r)[k] = NewHost
    /\ \A k \in 2..Len(HeadLines(r)) : IsHost(HeadLines(r)[k]) => HeadLines(r)[k] = NewHost
    /\ OtherLines(HeadLines(r)) = OtherLines(HeadLines(HeadOf(s)))

(* What rewriteHostHeader makes of any head: one head again, which carries  *)
(* the new Host field, no other Host field, and the other lines of the      *)
(* visitor's head, each as it was and in their order.                       *)
THEOREM HostRewritten ==
    ASSUME NEW s \in Text, HeadLen(s) # 0
    PROVE  Rewritten(rewriteHostHeader(HeadOf(s)), s)
<1>. DEFINE ls == HeadLines(HeadOf(s))
            ps == PutHost(ls)
            r  == WriteLines(ps)
<1>1. Lines(ls)
  BY HeadSplit
<1>. HIDE DEF ls
<1>2. /\ Lines(ps) /\ \E k \in 2..Len(ps) : ps[k] = NewHost
      /\ \A k \in 2..Len(ps) : IsHost(ps[k]) => ps[k] = NewHost
      /\ OtherLines(ps) = OtherLines(ls)
  BY <1>1, PutHostIs
<1>. HIDE DEF ps
<1>3. r \in Text /\ HeadLen(r) = Len(r) /\ Len(r) >= 4 /\ HeadLines(r) = ps
  BY <1>2, HeadWritten DEF Lines
<1>. HIDE DEF r
<1>4. Rewritten(r, s)
  BY <1>2, <1>3 DEF Rewritten, ls
<1>5. rewriteHostHeader(HeadOf(s)) = r
  BY DEF rewriteHostHeader, r, ps, ls
<1>. QED
  BY <1>4, <1>5

----------------------------------------------------------------------------
(* Prefixes.                                                                *)

Begins(s, t) == Len(s) <= Len(t) /\ \A i \in 1..Len(s) : s[i] = t[i]

(* The prefixes by places are those of SequencesExt.                        *)
LEMMA BeginsIsPrefix ==
    ASSUME NEW s \in Text, NEW t \in Text, Begins(s, t)
    PROVE  IsPrefix(s, t)
<1>1. s \in Seq(Tokens) /\ t \in Seq(Tokens) /\ Len(s) \in Nat /\ Len(t) \in Nat
  BY DEF Text
<1>. DEFINE n == Len(s)
<1>2. n \in Nat /\ 1 \in Nat /\ 1 <= 1 /\ 1 <= n + 1 /\ n <= Len(t) /\ n - 1 + 1 = n /\ n <= Len(s)
  BY <1>1 DEF Begins
<1>. HIDE DEF n
<1>3. ASSUME NEW u \in {s, t}
      PROVE  /\ SubSeq(u, 1, n) \in Seq(Tokens) /\ Len(SubSeq(u, 1, n)) = n
             /\ \A i \in 1..n : SubSeq(u, 1, n)[i] = u[i]
  <2>1. u \in Seq(Tokens) /\ n <= Len(u)
    BY <1>1, <1>2
  <2>2. /\ SubSeq(u, 1, n) \in Seq(Tokens) /\ Len(SubSeq(u, 1, n)) = n - 1 + 1
        /\ \A i \in 1..(n - 1 + 1) : SubSeq(u, 1, n)[i] = u[1 + i - 1]
    BY ONLY <1>2, <2>1, PartOf
  <2>3. \A i \in 1..n : 1 + i - 1 = i
    BY <1>2
  <2>. QED
    BY ONLY <1>2, <2>2, <2>3
<1>4. \A i \in 1..n : SubSeq(s, 1, n)[i] = SubSeq(t, 1, n)[i]
  BY <1>3 DEF Begins, n
<1>5. SubSeq(s, 1, n) = SubSeq(t, 1, n)
  BY <1>3, <1>4, SeqEqual
<1>. QED
  BY <1>2, <1>5 DEF IsPrefix, n

(* A prefix of a prefix is a prefix.                                        *)
LEMMA BeginsTransitive ==
    ASSUME NEW s \in Text, NEW t \in Text, NEW u \in Text, Begins(s, t), Begins(t, u)
    PROVE  Begins(s, u)
<1>1. Len(s) \in Nat /\ Len(t) \in Nat /\ Len(u) \in Nat
  BY DEF Text
<1>2. Len(s) <= Len(t) /\ Len(t) <= Len(u)
  BY DEF Begins
<1>3. Len(s) <= Len(u) /\ \A i \in 1..Len(s) : i \in 1..Len(t)
  BY ONLY <1>1, <1>2
<1>. QED
  BY <1>3 DEF Begins

(* A text begins what it is continued to.                                   *)
LEMMA BeginsConcat ==
    ASSUME NEW s \in Text, NEW t \in Text
    PROVE  s \o t \in Text /\ Begins(s, s \o t)
<1>1. s \in Seq(Tokens) /\ t \in Seq(Tokens) /\ Len(s) \in Nat /\ Len(t) \in Nat
  BY DEF Text
<1>2. /\ s \o t \in Seq(Tokens) /\ Len(s \o t) = Len(s) + Len(t)
      /\ \A i \in 1..Len(s) : (s \o t)[i] = s[i]
  BY ONLY <1>1, TextConcat
<1>3. Len(s) <= Len(s) + Len(t)
  BY ONLY <1>1
<1>. QED
  BY <1>2, <1>3 DEF Begins, Text

(* The first n bytes.                                                       *)
LEMMA BeginsPart ==
    ASSUME NEW s \in Text, NEW n \in Nat, n <= Len(s)
    PROVE  /\ SubSeq(s, 1, n) \in Text /\ Len(SubSeq(s, 1, n)) = n
           /\ \A i \in 1..n : SubSeq(s, 1, n)[i] = s[i]
           /\ Begins(SubSeq(s, 1, n), s)
<1>1. s \in Seq(Tokens) /\ 1 \in Nat /\ 1 <= 1 /\ 1 <= n + 1 /\ n - 1 + 1 = n
  BY DEF Text
<1>2. /\ SubSeq(s, 1, n) \in Seq(Tokens) /\ Len(SubSeq(s, 1, n)) = n - 1 + 1
      /\ \A i \in 1..(n - 1 + 1) : SubSeq(s, 1, n)[i] = s[1 + i - 1]
  BY <1>1, PartOf
<1>3. \A i \in 1..n : 1 + i - 1 = i
  OBVIOUS
<1>4. /\ SubSeq(s, 1, n) \in Seq(Tokens) /\ Len(SubSeq(s, 1, n)) = n
      /\ \A i \in 1..n : SubSeq(s, 1, n)[i] = s[i]
  BY ONLY <1>1, <1>2, <1>3
<1>. QED
  BY <1>4 DEF Begins, Text

(* What has been written to the upstream when a bytes have been read.       *)
Upstream(h, s, a) ==
    IF h = "rewritten" THEN RewrittenHead[s] \o SubSeq(s, HeadLen(s) + 1, a) ELSE SubSeq(s, 1, a)
Delivers(h, s, a) ==
    /\ s \in Text /\ a \in Nat /\ a <= Len(s)
    /\ h = "rewritten" => s \in Streams /\ HeadLen(s) > 0 /\ HeadLen(s) <= a

(* The table of rewritten heads holds them.                                 *)
LEMMA RewrittenHeadIs ==
    ASSUME NEW s \in Text, s \in Streams, HeadLen(s) > 0
    PROVE  Rewritten(RewrittenHead[s], s)
<1>1. HeadLen(s) # 0
  BY HeadLenIs DEF Text
<1>2. RewrittenHead[s] = rewriteHostHeader(HeadOf(s))
  BY DEF RewrittenHead
<1>. QED
  BY <1>1, <1>2, HostRewritten

(* Two parts of which one follows the other.                                *)
LEMMA PartFollows ==
    ASSUME NEW s \in Text, NEW c \in Nat, NEW a \in Nat, NEW b \in Nat,
           1 <= c, c <= a + 1, a <= b, b <= Len(s)
    PROVE  /\ SubSeq(s, c, a) \in Text /\ SubSeq(s, a + 1, b) \in Text
           /\ SubSeq(s, c, a) \o SubSeq(s, a + 1, b) = SubSeq(s, c, b)
<1>1. s \in Seq(Tokens) /\ Len(s) \in Nat
  BY DEF Text
<1>2. SubSeq(s, c, a) \in Text /\ SubSeq(s, a + 1, b) \in Text
  <2>1. a <= Len(s) /\ a + 1 \in Nat /\ 1 <= a + 1 /\ a + 1 <= b + 1
    BY <1>1
  <2>. QED
    BY <1>1, <2>1, PartOf DEF Text
<1>. DEFINE x == SubSeq(s, c, a)
            y == SubSeq(s, a + 1, b)
            z == SubSeq(s, c, b)
<1>3. Len(x) = a - c + 1 /\ \A i \in 1..(a - c + 1) : x[i] = s[c + i - 1]
  <2>1. a <= Len(s)
    BY <1>1
  <2>. QED
    BY <1>1, <2>1, PartOf
<1>4. Len(y) = b - a /\ \A i \in 1..(b - a) : y[i] = s[a + i]
  <2>. DEFINE d == a + 1
  <2>1. d \in Nat /\ 1 <= d /\ d <= b + 1 /\ b - d + 1 = b - a
    OBVIOUS
  <2>. HIDE DEF d
  <2>2. /\ Len(SubSeq(s, d, b)) = b - d + 1
        /\ \A i \in 1..(b - d + 1) : SubSeq(s, d, b)[i] = s[d + i - 1]
    BY <1>1, <2>1, PartOf
  <2>3. \A i \in 1..(b - a) : d + i - 1 = a + i
    BY DEF d
  <2>. QED
    BY <2>1, <2>2, <2>3 DEF d
<1>5. z \in Seq(Tokens) /\ Len(z) = b - c + 1 /\ \A i \in 1..(b - c + 1) : z[i] = s[c + i - 1]
  <2>1. c <= b + 1
    OBVIOUS
  <2>. QED
    BY <1>1, <2>1, PartOf
<1>. HIDE DEF x, y, z
<1>6. x \in Seq(Tokens) /\ y \in Seq(Tokens)
  BY <1>2 DEF Text, x, y
<1>7. /\ x \o y \in Seq(Tokens) /\ Len(x \o y) = Len(x) + Len(y)
      /\ \A i \in 1..Len(x) : (x \o y)[i] = x[i]
      /\ \A i \in 1..Len(y) : (x \o y)[Len(x) + i] = y[i]
  BY ONLY <1>6, TextConcat
<1>8. Len(x \o y) = Len(z)
  BY <1>3, <1>4, <1>5, <1>7
<1>9. ASSUME NEW i \in 1..(b - c + 1) PROVE (x \o y)[i] = z[i]
  <2>1. CASE i <= a - c + 1
    <3>1. i \in 1..(a - c + 1)
      BY <2>1
    <3>. QED
      BY <1>3, <1>5, <1>7, <3>1
  <2>2. CASE ~(i <= a - c + 1)
    <3>. DEFINE j == i - (a - c + 1)
    <3>1. j \in 1..(b - a) /\ (a - c + 1) + j = i /\ a + j = c + i - 1
      BY <2>2
    <3>. HIDE DEF j
    <3>2. (x \o y)[(a - c + 1) + j] = y[j]
      BY <1>3, <1>4, <1>7, <3>1
    <3>. QED
      BY <1>4, <1>5, <3>1, <3>2
  <2>. QED
    BY <2>1, <2>2
<1>10. x \o y = z
  BY <1>5, <1>7, <1>8, <1>9, SeqEqual
<1>. QED
  BY <1>2, <1>10 DEF x, y, z

(* What is written is text, and                                             *)
LEMMA UpstreamIs ==
    ASSUME NEW h, NEW s, NEW a, Delivers(h, s, a)
    PROVE  Upstream(h, s, a) \in Text
<1>1. s \in Text /\ a \in Nat /\ a <= Len(s) /\ Len(s) \in Nat
  BY DEF Delivers, Text
<1>2. CASE h = "rewritten"
  <2>1. s \in Streams /\ HeadLen(s) > 0 /\ HeadLen(s) <= a /\ HeadLen(s) \in Nat
    BY <1>1, <1>2, HeadLenIs DEF Delivers
  <2>2. RewrittenHead[s] \in Text
    BY <1>1, <2>1, RewrittenHeadIs DEF Rewritten
  <2>3. SubSeq(s, HeadLen(s) + 1, a) \in Text
    BY <1>1, <2>1, PartFollows
  <2>. QED
    BY <1>2, <2>2, <2>3, BeginsConcat DEF Upstream
<1>3. CASE h # "rewritten"
  BY <1>1, <1>3, BeginsPart DEF Upstream
<1>. QED
  BY <1>2, <1>3

(* what is written later continues it.                                      *)
LEMMA UpstreamMore ==
    ASSUME NEW h, NEW s, NEW a, NEW b \in Nat, Delivers(h, s, a), a <= b, b <= Len(s)
    PROVE  /\ SubSeq(s, a + 1, b) \in Text
           /\ Upstream(h, s, a) \o SubSeq(s, a + 1, b) = Upstream(h, s, b)
           /\ Begins(Upstream(h, s, a), Upstream(h, s, b)) /\ Delivers(h, s, b)
<1>1. s \in Text /\ a \in Nat /\ a <= Len(s) /\ Len(s) \in Nat
  BY DEF Delivers, Text
<1>2. Delivers(h, s, b)
  <2>1. h = "rewritten" => HeadLen(s) \in Nat /\ HeadLen(s) <= a /\ HeadLen(s) > 0
    BY <1>1, HeadLenIs DEF Delivers
  <2>2. h = "rewritten" => HeadLen(s) <= b
    BY <1>1, <2>1
  <2>. QED
    BY <1>1, <2>1, <2>2 DEF Delivers
<1>. DEFINE y == SubSeq(s, a + 1, b)
<1>3. y \in Text
  <2>1. 1 \in Nat /\ 1 <= 1 /\ 1 <= a + 1
    BY <1>1
  <2>. QED
    BY <1>1, <2>1, PartFollows
<1>4. ASSUME h = "rewritten" PROVE Upstream(h, s, a) \o y = Upstream(h, s, b)
  <2>. DEFINE c == HeadLen(s) + 1
              x == SubSeq(s, c, a)
              r == RewrittenHead[s]
  <2>1. s \in Streams /\ HeadLen(s) > 0 /\ HeadLen(s) <= a /\ HeadLen(s) \in Nat
    BY <1>1, <1>4, HeadLenIs DEF Delivers
  <2>2. r \in Text
    BY <1>1, <2>1, RewrittenHeadIs DEF Rewritten
  <2>3. c \in Nat /\ 1 <= c /\ c <= a + 1
    BY <1>1, <2>1
  <2>. HIDE DEF c, r
  <2>4. x \in Text /\ x \o y = SubSeq(s, c, b)
    BY <1>1, <2>3, PartFollows
  <2>. HIDE DEF x, y
  <2>5. (r \o x) \o y = r \o (x \o y)
    <3>1. r \in Seq(Tokens) /\ x \in Seq(Tokens) /\ y \in Seq(Tokens)
      BY <1>3, <2>2, <2>4 DEF Text
    <3>. QED
      BY ONLY <3>1, ConcatAssociative
  <2>. QED
    BY <1>4, <2>4, <2>5 DEF Upstream, c, r, x
<1>5. ASSUME h # "rewritten" PROVE Upstream(h, s, a) \o y = Upstream(h, s, b)
  <2>1. 1 \in Nat /\ 1 <= 1 /\ 1 <= a + 1
    BY <1>1
  <2>2. SubSeq(s, 1, a) \o y = SubSeq(s, 1, b)
    BY <1>1, <2>1, PartFollows
  <2>. QED
    BY <1>5, <2>2 DEF Upstream
<1>6. Upstream(h, s, a) \o y = Upstream(h, s, b)
  BY <1>4, <1>5
<1>. HIDE DEF y
<1>7. Begins(Upstream(h, s, a), Upstream(h, s, a) \o y)
  BY <1>3, UpstreamIs, BeginsConcat
<1>. QED
  BY <1>2, <1>3, <1>6, <1>7 DEF y
----------------------------------------------------------------------------
(* The inductive invariant.                                                 *)

Read == Arrived("request")
Counts ==
    /\ \A d \in Dirs : inflight[d] <= sent[d]
    /\ sent["request"] <= Len(stream)
    /\ kind = "rewrite" => stream \in Streams /\ sent["request"] = Len(stream)
    /\ kind # "rewrite" => head = "raw"
HeadFound ==
    /\ head = "read" => Read <= MaxHeaderBytes /\ HeadLen(SubSeq(stream, 1, Read)) = 0
    /\ head = "rewritten" => kind = "rewrite" /\ HeadLen(stream) > 0 /\ HeadLen(stream) <= Read
    /\ head = "raw" /\ kind = "rewrite" =>
          /\ Read > MaxHeaderBytes
          /\ HeadLen(stream) # 0 => HeadLen(stream) + MaxChunk > MaxHeaderBytes + 1
Delivered ==
    /\ copier["request"] = "run" =>
          out = IF head = "read" THEN <<>> ELSE Upstream(head, stream, Read)
    /\ Begins(out, Upstream(head, stream, Read))
    /\ copier["request"] # "run" /\ ~deadline /\ ~broken =>
          out = Upstream(head, stream, Read) /\ inflight["request"] = 0 /\ "request" \in eof
Previews ==
    kind # "plain" =>
        /\ \A d \in Dirs : kind = "capture" \/ d = "response" \/ head = "read" =>
              preview[d] = MinOf(PreviewLimit, Arrived(d))
        /\ head = "rewritten" => preview["request"] >= MinOf(PreviewLimit, HeadLen(stream))
        /\ kind = "rewrite" /\ head = "raw" =>
              preview["request"] >= MinOf(PreviewLimit, MaxHeaderBytes + 1)
Reports ==
    /\ \A d \in received \cup results : copier[d] = "sent"
    /\ kind # "plain" => \A d \in received : reported[d] = copied[d]
    /\ kind # "plain" /\ returned => received = Dirs
ProxyInv == TypeOK /\ Counts /\ HeadFound /\ Delivered /\ Previews /\ Reports

(* What the invariant says of the bytes read so far.                        *)
LEMMA ReadSoFar ==
    ASSUME TypeOK, Counts, HeadFound
    PROVE  /\ Read \in Nat /\ Read <= sent["request"] /\ Read <= Len(stream)
           /\ Read = sent["request"] - inflight["request"] /\ inflight["request"] \in Nat
           /\ stream \in Text /\ Len(stream) \in Nat /\ Delivers(head, stream, Read)
<1>1. stream \in Text /\ Len(stream) \in Nat
  BY DEF TypeOK, Text
<1>2. /\ sent["request"] \in Nat /\ inflight["request"] \in Nat
      /\ inflight["request"] <= sent["request"]
  BY DEF TypeOK, Counts, Dirs
<1>3. sent["request"] <= Len(stream)
  BY DEF Counts
<1>4. Read = sent["request"] - inflight["request"]
  BY DEF Read, Arrived
<1>5. Read \in Nat /\ Read <= sent["request"] /\ Read <= Len(stream)
  BY <1>1, <1>2, <1>3, <1>4
<1>6. Delivers(head, stream, Read)
  BY <1>1, <1>5 DEF Delivers, HeadFound, Counts
<1>. QED
  BY <1>1, <1>2, <1>4, <1>5, <1>6

(* A new connection satisfies the invariant.                                *)
LEMMA InitProxy == ASSUME ProxyAssumption, Init PROVE ProxyInv
<1>. USE DEF ProxyAssumption, Init
<1>1. stream \in Seq(Tokens) /\ Len(stream) \in Nat
  <2>1. CASE stream = [i \in 1..MaxBytes |-> "text"]
    BY <2>1 DEF Tokens
  <2>2. CASE stream \in Streams
    <3>1. stream \in Seq(Tokens \ {"new"})
      BY <2>2
    <3>2. \A S, T : S \subseteq T => Seq(S) \subseteq Seq(T)
      OBVIOUS
    <3>. QED
      BY <3>1
  <2>. QED
    BY <2>1, <2>2
<1>2. /\ sent \in [Dirs -> Nat] /\ inflight = sent
      /\ sent["request"] = IF kind = "rewrite" THEN Len(stream) ELSE 0
  BY <1>1 DEF Dirs
<1>3. \A d \in Dirs : Arrived(d) = 0
  BY <1>2 DEF Arrived
<1>4. Read = 0
  BY <1>3 DEF Read, Dirs
<1>5. head = "read" \/ head = "raw"
  OBVIOUS
<1>6. SubSeq(stream, 1, 0) = <<>>
  BY SubSeqEmpty
<1>7. HeadLen(<<>>) = 0
  <2>1. <<>> \in Text /\ Len(<<>>) = 0
    BY DEF Text
  <2>2. HeadLen(<<>>) \in 0..Len(<<>>)
    BY ONLY <2>1, HeadLenIs
  <2>. QED
    BY <2>1, <2>2
<1>8. TypeOK
  <2>1. 0 \in 0..PreviewLimit
    OBVIOUS
  <2>2. /\ copied \in [Dirs -> Nat] /\ reported \in [Dirs -> Nat]
        /\ copier \in [Dirs -> {"run", "ended", "sent"}]
    OBVIOUS
  <2>3. preview \in [Dirs -> 0..PreviewLimit]
    BY <2>1
  <2>4. out \in Seq(Tokens)
    OBVIOUS
  <2>5. kind \in {"plain", "capture", "rewrite"} /\ head \in {"read", "raw", "rewritten"}
    OBVIOUS
  <2>6. /\ eof \subseteq Dirs /\ results \subseteq Dirs /\ received \subseteq Dirs
        /\ deadline \in BOOLEAN /\ returned \in BOOLEAN /\ ctxDone \in BOOLEAN
        /\ broken \in BOOLEAN
    OBVIOUS
  <2>. QED
    BY ONLY <1>1, <1>2, <2>2, <2>3, <2>4, <2>5, <2>6 DEF TypeOK
<1>9. Counts
  BY <1>1, <1>2 DEF Counts, Dirs
<1>10. HeadFound
  <2>1. (head = "raw" => kind # "rewrite") /\ head # "rewritten"
    OBVIOUS
  <2>2. 0 <= MaxHeaderBytes
    OBVIOUS
  <2>. QED
    BY ONLY <1>4, <1>6, <1>7, <2>1, <2>2 DEF HeadFound
<1>11. Delivered
  <2>1. Upstream(head, stream, Read) = <<>>
    BY <1>4, <1>5, <1>6 DEF Upstream
  <2>2. out = <<>> /\ copier["request"] = "run"
    BY DEF Dirs
  <2>. QED
    BY <2>1, <2>2 DEF Delivered, Begins
<1>12. Previews
  <2>1. MinOf(PreviewLimit, 0) = 0
    BY DEF MinOf
  <2>2. head = "raw" => kind # "rewrite"
    OBVIOUS
  <2>. QED
    BY <1>3, <1>5, <2>1, <2>2 DEF Previews
<1>13. Reports
  BY DEF Reports
<1>. QED
  BY <1>8, <1>9, <1>10, <1>11, <1>12, <1>13 DEF ProxyInv

(* The visitor and the upstream, and the context.                           *)
LEMMA SourcesKeep ==
    ASSUME ProxyAssumption, ProxyInv, NEW d \in Dirs, NEW n \in 1..MaxChunk,
           SourceSends(d, n) \/ SourceEnds(d) \/ CtxCancel
    PROVE  ProxyInv'
<1>. USE DEF ProxyInv
<1>1. CASE SourceSends(d, n)
  <2>. USE <1>1 DEF SourceSends
  <2>0. /\ n \in Nat /\ inflight \in [Dirs -> Nat] /\ sent \in [Dirs -> Nat]
        /\ inflight' = [inflight EXCEPT ![d] = @ + n] /\ sent' = [sent EXCEPT ![d] = @ + n]
    BY DEF ProxyAssumption, TypeOK
  <2>1. TypeOK'
    <3>1. inflight' \in [Dirs -> Nat] /\ sent' \in [Dirs -> Nat]
      BY <2>0
    <3>. QED
      BY <3>1 DEF TypeOK, requestVars, mainVars
  <2>2. /\ \A c \in Dirs : Arrived(c)' = Arrived(c) /\ inflight'[c] <= sent'[c]
        /\ Read' = Read
    <3>1. \A c \in Dirs : /\ inflight[c] \in Nat /\ sent[c] \in Nat /\ inflight[c] <= sent[c]
                          /\ inflight'[c] = (IF c = d THEN inflight[c] + n ELSE inflight[c])
                          /\ sent'[c] = (IF c = d THEN sent[c] + n ELSE sent[c])
      BY <2>0 DEF Counts
    <3>2. \A c \in Dirs : Arrived(c)' = Arrived(c) /\ inflight'[c] <= sent'[c]
      BY <2>0, <3>1 DEF Arrived
    <3>. QED
      BY <3>2 DEF Read, Dirs
  <2>3. UNCHANGED <<kind, stream, head, out, eof, copied, preview, copier, results, received,
                    deadline, returned, reported, ctxDone, broken>>
    BY DEF requestVars, mainVars
  <2>4. Counts'
    <3>1. CASE d = "request"
      <4>1. sent'["request"] = sent["request"] + n /\ sent["request"] \in Nat /\ Len(stream) \in Nat
        BY <2>0, <3>1 DEF TypeOK
      <4>2. sent["request"] + n <= Len(stream)
        BY <3>1 DEF SendLimit
      <4>. QED
        BY <2>0, <2>2, <2>3, <4>1, <4>2 DEF Counts
    <3>2. CASE d # "request"
      <4>1. sent'["request"] = sent["request"]
        BY <2>0, <3>2 DEF Dirs
      <4>. QED
        BY <2>2, <2>3, <4>1 DEF Counts
    <3>. QED
      BY <3>1, <3>2
  <2>5. HeadFound'
    BY <2>2, <2>3 DEF HeadFound
  <2>6. Delivered'
    <3>1. "request" \in eof => inflight'["request"] = inflight["request"]
      BY <2>0 DEF Dirs
    <3>. QED
      BY <2>2, <2>3, <3>1 DEF Delivered
  <2>7. Previews'
    BY <2>2, <2>3 DEF Previews
  <2>8. Reports'
    BY <2>3 DEF Reports
  <2>. QED
    BY <2>1, <2>4, <2>5, <2>6, <2>7, <2>8
<1>2. CASE SourceEnds(d)
  <2>1. /\ UNCHANGED <<kind, stream, head, out, inflight, sent, copied, preview, copier, results,
                       received, deadline, returned, reported, ctxDone, broken>>
        /\ eof' = eof \cup {d}
    BY <1>2 DEF SourceEnds, requestVars, mainVars
  <2>2. TypeOK'
    BY <2>1 DEF TypeOK
  <2>3. Counts' /\ HeadFound' /\ Delivered' /\ Previews' /\ Reports'
    BY <2>1 DEF Counts, HeadFound, Delivered, Previews, Reports, Read, Arrived
  <2>. QED
    BY <2>2, <2>3
<1>3. CASE CtxCancel
  <2>1. /\ UNCHANGED <<kind, stream, head, out, inflight, sent, eof, copied, preview, copier,
                       results, received, deadline, returned, reported, broken>>
        /\ ctxDone' = TRUE
    BY <1>3 DEF CtxCancel, requestVars, sourceVars, mainVars
  <2>2. TypeOK'
    BY <2>1 DEF TypeOK
  <2>3. Counts' /\ HeadFound' /\ Delivered' /\ Previews' /\ Reports'
    BY <2>1 DEF Counts, HeadFound, Delivered, Previews, Reports, Read, Arrived
  <2>. QED
    BY <2>2, <2>3
<1>. QED
  BY <1>1, <1>2, <1>3

(* The function that waits, and what the copiers report to it.              *)
LEMMA MainKeeps ==
    ASSUME ProxyInv, NEW d \in Dirs, OnContext \/ OnResult(d) \/ SendResult(d)
    PROVE  ProxyInv'
<1>. USE DEF ProxyInv
<1>1. CASE OnContext
  <2>1. /\ UNCHANGED <<kind, stream, head, out, inflight, sent, eof, copied, preview, copier,
                       results, received, reported, ctxDone, broken>>
        /\ deadline' = TRUE /\ returned' = (kind = "plain")
    BY <1>1 DEF OnContext, requestVars, sourceVars
  <2>2. TypeOK'
    BY <2>1 DEF TypeOK
  <2>3. Counts' /\ HeadFound' /\ Delivered' /\ Previews' /\ Reports'
    BY <2>1 DEF Counts, HeadFound, Delivered, Previews, Reports, Read, Arrived
  <2>. QED
    BY <2>2, <2>3
<1>2. CASE OnResult(d)
  <2>1. /\ UNCHANGED <<kind, stream, head, out, inflight, sent, eof, copied, preview, copier,
                       ctxDone, broken>>
        /\ d \in results /\ results' = results \ {d} /\ received' = received \cup {d}
        /\ deadline' = TRUE /\ returned' = (kind = "plain" \/ received' = Dirs)
        /\ reported' = IF kind # "plain" THEN [reported EXCEPT ![d] = copied[d]] ELSE reported
    BY <1>2 DEF OnResult, requestVars, sourceVars
  <2>2. TypeOK'
    <3>1. reported' \in [Dirs -> Nat]
      BY <2>1 DEF TypeOK
    <3>. QED
      BY <2>1, <3>1 DEF TypeOK
  <2>3. Counts' /\ HeadFound' /\ Delivered' /\ Previews'
    BY <2>1 DEF Counts, HeadFound, Delivered, Previews, Read, Arrived
  <2>4. Reports'
    <3>1. kind # "plain" => \A c \in received' : reported'[c] = copied[c]
      BY <2>1 DEF Reports, TypeOK
    <3>. QED
      BY <2>1, <3>1 DEF Reports
  <2>. QED
    BY <2>2, <2>3, <2>4
<1>3. CASE SendResult(d)
  <2>1. /\ UNCHANGED <<kind, stream, head, out, inflight, sent, eof, copied, preview, received,
                       deadline, returned, reported, ctxDone, broken>>
        /\ copier[d] = "ended" /\ copier' = [copier EXCEPT ![d] = "sent"]
        /\ results' = results \cup {d}
    BY <1>3 DEF SendResult, requestVars, sourceVars
  <2>2. \A c \in Dirs : copier'[c] = IF c = d THEN "sent" ELSE copier[c]
    BY <2>1 DEF TypeOK
  <2>3. TypeOK'
    BY <2>1 DEF TypeOK
  <2>4. Counts' /\ HeadFound' /\ Previews'
    BY <2>1 DEF Counts, HeadFound, Previews, Read, Arrived
  <2>5. Delivered'
    <3>1. copier'["request"] = "run" <=> copier["request"] = "run"
      BY <2>1, <2>2 DEF Dirs
    <3>. QED
      BY <2>1, <3>1 DEF Delivered, Read, Arrived
  <2>6. Reports'
    <3>1. \A c \in received' \cup results' : copier'[c] = "sent"
      BY <2>1, <2>2 DEF Reports, TypeOK
    <3>. QED
      BY <2>1, <3>1 DEF Reports
  <2>. QED
    BY <2>3, <2>4, <2>5, <2>6
<1>. QED
  BY <1>1, <1>2, <1>3

(* A copier ends: it had not reported yet.                                  *)
LEMMA EndKeepsReports ==
    ASSUME ProxyInv, NEW d \in Dirs, copier[d] = "run", copier' = [copier EXCEPT ![d] = "ended"],
           UNCHANGED <<kind, results, received, returned, reported>>,
           copied' = copied \/ (copied' \in [Dirs -> Nat]
                                /\ \A c \in Dirs : c # d => copied'[c] = copied[c])
    PROVE  Reports'
<1>. USE DEF ProxyInv
<1>1. \A c \in Dirs : copier'[c] = IF c = d THEN "ended" ELSE copier[c]
  BY DEF TypeOK
<1>2. \A c \in received \cup results : c # d /\ c \in Dirs
  BY DEF Reports, TypeOK
<1>3. \A c \in received \cup results : copier'[c] = "sent"
  BY <1>1, <1>2 DEF Reports
<1>4. kind # "plain" => \A c \in received : reported[c] = copied'[c]
  BY <1>2 DEF Reports
<1>. QED
  BY <1>3, <1>4 DEF Reports

(* A copier ends: at the end of its source, on the deadline, or broken.     *)
LEMMA EndsKeep ==
    ASSUME ProxyAssumption, ProxyInv, NEW d \in Dirs,
           CopyReachesEOF(d) \/ CopyTimesOut(d) \/ CopyBreaks(d)
    PROVE  ProxyInv'
<1>. USE DEF ProxyInv
<1>0. /\ UNCHANGED <<kind, stream, head, inflight, sent, eof, copied, preview, results,
                     received, deadline, returned, reported, ctxDone>>
      /\ copier[d] = "run" /\ copier' = [copier EXCEPT ![d] = "ended"]
      /\ broken' = broken \/ broken' = TRUE
  BY DEF CopyReachesEOF, CopyTimesOut, CopyBreaks, CopyEnd, requestVars, sourceVars, mainVars
<1>1. Read' = Read /\ \A c \in Dirs : Arrived(c)' = Arrived(c)
  BY <1>0 DEF Read, Arrived
<1>2. \A c \in Dirs : copier'[c] = IF c = d THEN "ended" ELSE copier[c]
  BY <1>0 DEF TypeOK
<1>. DEFINE U == Upstream(head, stream, Read)
<1>3. /\ Read \in Nat /\ Read <= Len(stream) /\ stream \in Text /\ U \in Text
      /\ Read = sent["request"] - inflight["request"]
  BY ReadSoFar, UpstreamIs
<1>4. Begins(U, U)
  BY <1>3 DEF Begins, Text
<1>5. ASSUME NEW m \in 0..Read, head = "read"
      PROVE  SubSeq(stream, 1, m) \in Text /\ Begins(SubSeq(stream, 1, m), U)
  <2>1. m \in Nat /\ m <= Read /\ m <= Len(stream)
    BY <1>3
  <2>2. Begins(Upstream("raw", stream, m), Upstream("raw", stream, Read))
    <3>1. Delivers("raw", stream, m)
      BY <1>3, <2>1 DEF Delivers
    <3>. QED
      BY <1>3, <2>1, <3>1, UpstreamMore
  <2>3. Upstream("raw", stream, m) = SubSeq(stream, 1, m) /\ U = Upstream("raw", stream, Read)
    BY <1>5 DEF Upstream
  <2>4. SubSeq(stream, 1, m) \in Text
    BY <1>3, <2>1, BeginsPart
  <2>. QED
    BY <2>2, <2>3, <2>4
<1>6. out \in Text /\ Begins(out, U)
  BY DEF Delivered, TypeOK, Text
<1>7. copier["request"] = "run" /\ head # "read" => out = U
  BY DEF Delivered
<1>. HIDE DEF U
<1>8. /\ out' \in Text /\ Begins(out', U)
      /\ d # "request" => out' = out
      /\ d = "request" /\ ~deadline' /\ ~broken' =>
            out' = U /\ inflight["request"] = 0 /\ "request" \in eof
  <2>1. CASE CopyReachesEOF(d)
    <3>1. out' = IF deadline THEN out ELSE Flushed(d)
      BY <2>1 DEF CopyReachesEOF
    <3>2. d \in eof /\ inflight[d] = 0
      BY <2>1 DEF CopyReachesEOF
    <3>3. CASE Buffering(d)
      <4>1. d = "request" /\ head = "read"
        BY <3>3 DEF Buffering
      <4>2. Flushed(d) = SubSeq(stream, 1, Read)
        BY <3>3, <4>1 DEF Flushed, Read
      <4>3. Read \in 0..Read
        BY <1>3
      <4>4. SubSeq(stream, 1, Read) \in Text /\ Begins(SubSeq(stream, 1, Read), U)
        BY <1>5, <4>1, <4>3
      <4>5. U = SubSeq(stream, 1, Read)
        BY <4>1 DEF U, Upstream
      <4>. QED
        BY <1>0, <1>6, <3>1, <3>2, <4>1, <4>2, <4>4, <4>5
    <3>4. CASE ~Buffering(d)
      <4>1. Flushed(d) = out
        BY <3>4 DEF Flushed
      <4>2. d = "request" => head # "read"
        BY <3>4 DEF Buffering
      <4>. QED
        BY <1>0, <1>6, <1>7, <3>1, <3>2, <4>1, <4>2
    <3>. QED
      BY <3>3, <3>4
  <2>2. CASE CopyTimesOut(d)
    <3>1. out' = out /\ deadline
      BY <2>2 DEF CopyTimesOut, requestVars
    <3>. QED
      BY <1>0, <1>6, <3>1
  <2>3. CASE CopyBreaks(d)
    <3>1. /\ broken' = TRUE
          /\ out' \in IF Buffering(d) THEN {SubSeq(stream, 1, m) : m \in 0..Arrived(d)} ELSE {out}
      BY <2>3 DEF CopyBreaks
    <3>2. CASE Buffering(d)
      <4>1. d = "request" /\ head = "read" /\ Arrived(d) = Read
        BY <3>2 DEF Buffering, Read
      <4>2. PICK m \in 0..Read : out' = SubSeq(stream, 1, m)
        BY <3>1, <3>2, <4>1
      <4>. QED
        BY <1>5, <3>1, <4>1, <4>2
    <3>3. CASE ~Buffering(d)
      BY <1>6, <3>1, <3>3
    <3>. QED
      BY <3>2, <3>3
  <2>. QED
    BY <2>1, <2>2, <2>3
<1>9. TypeOK'
  <2>1. copier' \in [Dirs -> {"run", "ended", "sent"}] /\ broken' \in BOOLEAN
    BY <1>0 DEF TypeOK
  <2>. QED
    BY <1>0, <1>8, <2>1 DEF TypeOK, Text
<1>10. Counts' /\ HeadFound' /\ Previews'
  BY <1>0, <1>1 DEF Counts, HeadFound, Previews
<1>11. Delivered'
  <2>1. Upstream(head, stream, Read)' = U
    BY <1>0, <1>1 DEF U
  <2>2. CASE d = "request"
    <3>1. copier'["request"] = "ended"
      BY <1>2, <2>2
    <3>. QED
      BY <1>0, <1>8, <2>1, <2>2, <3>1 DEF Delivered
  <2>3. CASE d # "request"
    <3>1. copier'["request"] = copier["request"] /\ out' = out
      BY <1>2, <1>8, <2>3 DEF Dirs
    <3>2. ~broken' => ~broken
      BY <1>0
    <3>. QED
      BY <1>0, <1>1, <2>1, <3>1, <3>2 DEF Delivered, U
  <2>. QED
    BY <2>2, <2>3
<1>12. Reports'
  BY <1>0, EndKeepsReports
<1>. QED
  BY <1>9, <1>10, <1>11, <1>12

(* A chunk of n bytes is read.                                              *)
LEMMA KeptOf ==
    ASSUME PreviewLimit \in Nat, NEW d \in Dirs, NEW a \in Nat, NEW n \in Nat,
           preview[d] = MinOf(PreviewLimit, a)
    PROVE  Keep(d, n) = MinOf(PreviewLimit, a + n) /\ Keep(d, n) \in 0..PreviewLimit
<1>1. CASE PreviewLimit < a
  BY <1>1 DEF Keep, MinOf
<1>2. CASE ~(PreviewLimit < a)
  BY <1>2 DEF Keep, MinOf
<1>. QED
  BY <1>1, <1>2

(* Reading a chunk moves it from what is in flight to what has arrived.     *)
LEMMA ChunkRead ==
    ASSUME ProxyAssumption, ProxyInv, NEW d \in Dirs, NEW n \in 1..MaxChunk, n <= inflight[d],
           inflight' = [inflight EXCEPT ![d] = @ - n], UNCHANGED sent
    PROVE  /\ inflight' \in [Dirs -> Nat] /\ \A c \in Dirs : inflight'[c] <= sent[c]
           /\ Arrived(d)' = Arrived(d) + n /\ n \in Nat /\ Arrived(d) \in Nat
           /\ Arrived(d) + n <= sent[d]
           /\ \A c \in Dirs : c # d => Arrived(c)' = Arrived(c)
<1>1. inflight \in [Dirs -> Nat] /\ sent \in [Dirs -> Nat]
  BY DEF ProxyInv, TypeOK
<1>2. n \in Nat
  BY DEF ProxyAssumption
<1>3. \A c \in Dirs : /\ inflight[c] \in Nat /\ sent[c] \in Nat /\ inflight[c] <= sent[c]
                      /\ inflight'[c] = IF c = d THEN inflight[c] - n ELSE inflight[c]
  BY <1>1 DEF ProxyInv, Counts
<1>4. inflight' \in [Dirs -> Nat]
  BY <1>1, <1>2
<1>5. \A c \in Dirs : inflight'[c] <= sent[c]
  BY <1>2, <1>3
<1>6. /\ sent[d] - inflight'[d] = (sent[d] - inflight[d]) + n /\ sent[d] - inflight[d] \in Nat
      /\ (sent[d] - inflight[d]) + n <= sent[d]
  BY <1>2, <1>3
<1>. QED
  BY <1>2, <1>3, <1>4, <1>5, <1>6 DEF Arrived

(* Counts and previews when a chunk is read that is not buffered.           *)
LEMMA ChunkPassed ==
    ASSUME ProxyAssumption, ProxyInv, NEW d \in Dirs, NEW n \in 1..MaxChunk, n <= inflight[d],
           ~Buffering(d), inflight' = [inflight EXCEPT ![d] = @ - n], preview' = Seen(d, n),
           UNCHANGED <<kind, stream, head, sent>>
    PROVE  /\ inflight' \in [Dirs -> Nat] /\ preview' \in [Dirs -> 0..PreviewLimit]
           /\ Counts' /\ HeadFound' /\ Previews'
<1>. USE DEF ProxyInv
<1>1. /\ inflight' \in [Dirs -> Nat] /\ \A c \in Dirs : inflight'[c] <= sent[c]
      /\ Arrived(d)' = Arrived(d) + n /\ n \in Nat /\ Arrived(d) \in Nat
      /\ \A c \in Dirs : c # d => Arrived(c)' = Arrived(c)
  BY ChunkRead
<1>2. Counts'
  BY <1>1 DEF Counts
<1>3. d = "request" => head # "read"
  BY DEF Buffering
<1>4. Read' >= Read /\ Read \in Nat /\ Read' \in Nat /\ (d # "request" => Read' = Read)
  <2>1. CASE d = "request"
    BY <1>1, <2>1 DEF Read
  <2>2. CASE d # "request"
    <3>1. Read' = Read
      BY <1>1, <2>2 DEF Read, Dirs
    <3>. QED
      BY <2>2, <3>1, ReadSoFar
  <2>. QED
    BY <2>1, <2>2
<1>5. HeadFound'
  <2>1. HeadLen(stream) \in Nat /\ MaxHeaderBytes \in Nat
    BY ReadSoFar, HeadLenIs DEF ProxyAssumption
  <2>2. head = "read" => Read' = Read
    BY <1>3, <1>4
  <2>3. HeadLen(stream) <= Read => HeadLen(stream) <= Read'
    BY <1>4, <2>1
  <2>4. Read > MaxHeaderBytes => Read' > MaxHeaderBytes
    BY <1>4, <2>1
  <2>. QED
    BY <2>2, <2>3, <2>4 DEF HeadFound
<1>. DEFINE kept == kind = "capture" \/ (kind = "rewrite" /\ d = "response")
<1>6. preview' = IF kept THEN [preview EXCEPT ![d] = Keep(d, n)] ELSE preview
  BY <1>3 DEF Seen, TypeOK, Dirs
<1>7. kept => Keep(d, n) = MinOf(PreviewLimit, Arrived(d) + n) /\ Keep(d, n) \in 0..PreviewLimit
  <2>. SUFFICES ASSUME kept PROVE Keep(d, n) = MinOf(PreviewLimit, Arrived(d) + n)
                                  /\ Keep(d, n) \in 0..PreviewLimit
    OBVIOUS
  <2>1. preview[d] = MinOf(PreviewLimit, Arrived(d))
    BY DEF Previews
  <2>. QED
    BY <1>1, <2>1, KeptOf DEF ProxyAssumption
<1>8. preview' \in [Dirs -> 0..PreviewLimit]
  BY <1>6, <1>7 DEF TypeOK
<1>9. \A c \in Dirs : preview'[c] = IF kept /\ c = d THEN MinOf(PreviewLimit, Arrived(d) + n)
                                    ELSE preview[c]
  BY <1>6, <1>7 DEF TypeOK
<1>10. Previews'
  <2>. SUFFICES ASSUME kind # "plain" PROVE Previews'
    BY DEF Previews
  <2>1. ASSUME NEW c \in Dirs, kind = "capture" \/ c = "response" \/ head = "read"
        PROVE  preview'[c] = MinOf(PreviewLimit, Arrived(c)')
    <3>1. CASE c = d
      <4>1. kept
        BY <1>3, <2>1, <3>1 DEF TypeOK, Counts, Dirs
      <4>. QED
        BY <1>1, <1>9, <3>1, <4>1
    <3>2. CASE c # d
      BY <1>1, <1>9, <2>1, <3>2 DEF Previews
    <3>. QED
      BY <3>1, <3>2
  <2>2. kind = "rewrite" => preview'["request"] = preview["request"]
    BY <1>9 DEF Dirs
  <2>3. kind # "rewrite" => head = "raw"
    BY DEF Counts
  <2>. QED
    BY <2>1, <2>2, <2>3 DEF Previews
<1>. QED
  BY <1>1, <1>2, <1>5, <1>8, <1>10

(* What the upstream has when m bytes of such a chunk were written.         *)
LEMMA BytesOut ==
    ASSUME ProxyAssumption, ProxyInv, NEW d \in Dirs, NEW n \in 1..MaxChunk, NEW m \in 0..n,
           n <= inflight[d], ~Buffering(d), copier[d] = "run",
           inflight' = [inflight EXCEPT ![d] = @ - n], UNCHANGED <<stream, head, sent>>,
           out' = IF d = "request" THEN out \o NextBytes(m) ELSE out
    PROVE  /\ out' \in Text /\ Begins(out', Upstream(head, stream, Read)')
           /\ d = "request" /\ m = n => out' = Upstream(head, stream, Read)' /\ head # "read"
           /\ d # "request" => Read' = Read
<1>. USE DEF ProxyInv
<1>1. /\ Arrived(d)' = Arrived(d) + n /\ n \in Nat /\ Arrived(d) \in Nat
      /\ Arrived(d) + n <= sent[d] /\ \A c \in Dirs : c # d => Arrived(c)' = Arrived(c)
  BY ChunkRead
<1>2. CASE d # "request"
  <2>1. Read' = Read
    BY <1>1, <1>2 DEF Read, Dirs
  <2>. QED
    BY <1>2, <2>1 DEF Delivered, TypeOK, Text
<1>3. CASE d = "request"
  <2>. DEFINE a == Read
              b == Read + m
              c == Read + n
              U(x) == Upstream(head, stream, x)
  <2>1. Read' = c /\ a \in Nat /\ n \in Nat /\ m \in Nat /\ m <= n
    BY <1>1, <1>3 DEF Read
  <2>2. b \in Nat /\ c \in Nat /\ a <= b /\ b <= c
    BY <2>1
  <2>3. c <= Len(stream) /\ stream \in Text
    <3>1. c <= sent["request"] /\ sent["request"] <= Len(stream)
      BY <1>1, <1>3 DEF Read, Counts
    <3>2. Len(stream) \in Nat /\ sent["request"] \in Nat /\ stream \in Text
      BY DEF TypeOK, Text, Dirs
    <3>. QED
      BY <2>2, <3>1, <3>2
  <2>4. b <= Len(stream) /\ Len(stream) \in Nat
    BY <2>2, <2>3 DEF Text
  <2>5. Delivers(head, stream, a)
    BY ReadSoFar
  <2>6. NextBytes(m) = SubSeq(stream, a + 1, b)
    BY DEF NextBytes, Read
  <2>7. head # "read" /\ out = U(a)
    BY <1>3 DEF Buffering, Delivered
  <2>. HIDE DEF a, b, c
  <2>8. U(a) \o SubSeq(stream, a + 1, b) = U(b) /\ Delivers(head, stream, b)
    BY <2>2, <2>4, <2>5, UpstreamMore
  <2>9. Begins(U(b), U(c)) /\ U(b) \in Text
    BY <2>2, <2>3, <2>8, UpstreamMore, UpstreamIs
  <2>10. out' = U(b)
    BY <1>3, <2>6, <2>7, <2>8
  <2>11. m = n => b = c
    BY DEF b, c
  <2>12. Upstream(head, stream, Read)' = U(c)
    BY <2>1
  <2>. QED
    BY <1>3, <2>7, <2>9, <2>10, <2>11, <2>12
<1>. QED
  BY <1>2, <1>3

(* io.Copy passes a chunk on, or                                            *)
LEMMA CopyKeeps ==
    ASSUME ProxyAssumption, ProxyInv, NEW d \in Dirs, NEW n \in 1..MaxChunk, Copy(d, n)
    PROVE  ProxyInv'
<1>. USE DEF ProxyInv
<1>1. /\ copier[d] = "run" /\ ~Buffering(d) /\ n <= inflight[d]
      /\ inflight' = [inflight EXCEPT ![d] = @ - n] /\ copied' = [copied EXCEPT ![d] = @ + n]
      /\ preview' = Seen(d, n) /\ out' = IF d = "request" THEN out \o NextBytes(n) ELSE out
      /\ UNCHANGED <<kind, stream, head, sent, eof, copier, results, received, deadline, returned,
                     reported, ctxDone, broken>>
  BY DEF Copy, mainVars
<1>2. /\ inflight' \in [Dirs -> Nat] /\ preview' \in [Dirs -> 0..PreviewLimit]
      /\ Counts' /\ HeadFound' /\ Previews'
  BY <1>1, ChunkPassed
<1>3. n \in 0..n /\ n \in Nat
  BY DEF ProxyAssumption
<1>4. /\ out' \in Text /\ Begins(out', Upstream(head, stream, Read)')
      /\ d = "request" => out' = Upstream(head, stream, Read)' /\ head # "read"
      /\ d # "request" => Read' = Read
  BY <1>1, <1>3, BytesOut
<1>5. copied' \in [Dirs -> Nat] /\ \A c \in Dirs : c # d => copied'[c] = copied[c]
  BY <1>1, <1>3 DEF TypeOK
<1>6. TypeOK'
  BY <1>1, <1>2, <1>4, <1>5 DEF TypeOK, Text
<1>7. Delivered'
  <2>1. CASE d = "request"
    BY <1>1, <1>4, <2>1 DEF Delivered
  <2>2. CASE d # "request"
    <3>1. out' = out /\ Read' = Read
      BY <1>1, <1>4, <2>2
    <3>2. inflight'["request"] = inflight["request"]
      BY <1>1, <2>2 DEF TypeOK, Dirs
    <3>. QED
      BY <1>1, <3>1, <3>2 DEF Delivered
  <2>. QED
    BY <2>1, <2>2
<1>8. Reports'
  <2>1. \A c \in received \cup results : c # d /\ c \in Dirs
    BY <1>1 DEF Reports, TypeOK
  <2>2. kind # "plain" => \A c \in received : reported[c] = copied'[c]
    BY <1>5, <2>1 DEF Reports
  <2>. QED
    BY <1>1, <2>2 DEF Reports
<1>. QED
  BY <1>2, <1>6, <1>7, <1>8

(* could not write all of it.                                               *)
LEMMA WriteFailsKeeps ==
    ASSUME ProxyAssumption, ProxyInv, NEW d \in Dirs, NEW n \in 1..MaxChunk, NEW m \in 0..MaxChunk,
           CopyWriteFails(d, n, m)
    PROVE  ProxyInv'
<1>. USE DEF ProxyInv
<1>1. /\ copier[d] = "run" /\ ~Buffering(d) /\ m < n /\ n <= inflight[d]
      /\ inflight' = [inflight EXCEPT ![d] = @ - n] /\ copied' = [copied EXCEPT ![d] = @ + m]
      /\ preview' = Seen(d, n) /\ out' = IF d = "request" THEN out \o NextBytes(m) ELSE out
      /\ copier' = [copier EXCEPT ![d] = "ended"] /\ broken' = (broken \/ ~deadline)
      /\ UNCHANGED <<kind, stream, head, sent, eof, results, received, deadline, returned,
                     reported, ctxDone>>
  BY DEF CopyWriteFails, CopyEnd, mainVars
<1>2. /\ inflight' \in [Dirs -> Nat] /\ preview' \in [Dirs -> 0..PreviewLimit]
      /\ Counts' /\ HeadFound' /\ Previews'
  BY <1>1, ChunkPassed
<1>3. m \in 0..n /\ m \in Nat
  BY <1>1 DEF ProxyAssumption
<1>4. /\ out' \in Text /\ Begins(out', Upstream(head, stream, Read)')
      /\ d # "request" => Read' = Read
  BY <1>1, <1>3, BytesOut
<1>5. copied' \in [Dirs -> Nat] /\ \A c \in Dirs : c # d => copied'[c] = copied[c]
  BY <1>1, <1>3 DEF TypeOK
<1>6. TypeOK'
  <2>1. broken' \in BOOLEAN /\ copier' \in [Dirs -> {"run", "ended", "sent"}]
    BY <1>1 DEF TypeOK
  <2>. QED
    BY <1>1, <1>2, <1>4, <1>5, <2>1 DEF TypeOK, Text
<1>7. \A c \in Dirs : copier'[c] = IF c = d THEN "ended" ELSE copier[c]
  BY <1>1 DEF TypeOK
<1>8. Delivered'
  <2>1. CASE d = "request"
    <3>1. copier'["request"] = "ended" /\ (~deadline' => broken')
      BY <1>1, <1>7, <2>1
    <3>. QED
      BY <1>4, <3>1 DEF Delivered
  <2>2. CASE d # "request"
    <3>1. out' = out /\ Read' = Read /\ (~deadline' /\ ~broken' => ~deadline /\ ~broken)
      BY <1>1, <1>4, <2>2
    <3>2. inflight'["request"] = inflight["request"] /\ copier'["request"] = copier["request"]
      BY <1>1, <1>7, <2>2 DEF TypeOK, Dirs
    <3>. QED
      BY <1>1, <3>1, <3>2 DEF Delivered
  <2>. QED
    BY <2>1, <2>2
<1>9. Reports'
  BY <1>1, <1>5, EndKeepsReports
<1>. QED
  BY <1>2, <1>6, <1>8, <1>9

(* A round of reading the head.                                             *)
LEMMA PartOfPart ==
    ASSUME NEW s \in Text, NEW c \in Nat, NEW b \in Nat, 1 <= c, c <= b + 1, b <= Len(s)
    PROVE  SubSeq(SubSeq(s, 1, b), c, b) = SubSeq(s, c, b)
<1>. DEFINE t == SubSeq(s, 1, b)
<1>1. t \in Text /\ Len(t) = b /\ \A i \in 1..b : t[i] = s[i]
  BY BeginsPart
<1>. HIDE DEF t
<1>2. s \in Seq(Tokens) /\ t \in Seq(Tokens) /\ b <= Len(t)
  BY <1>1 DEF Text
<1>3. /\ SubSeq(t, c, b) \in Seq(Tokens) /\ Len(SubSeq(t, c, b)) = b - c + 1
      /\ \A i \in 1..(b - c + 1) : SubSeq(t, c, b)[i] = t[c + i - 1]
  BY <1>2, PartOf
<1>4. /\ SubSeq(s, c, b) \in Seq(Tokens) /\ Len(SubSeq(s, c, b)) = b - c + 1
      /\ \A i \in 1..(b - c + 1) : SubSeq(s, c, b)[i] = s[c + i - 1]
  BY <1>2, PartOf
<1>5. \A i \in 1..(b - c + 1) : c + i - 1 \in 1..b
  OBVIOUS
<1>6. \A i \in 1..(b - c + 1) : SubSeq(t, c, b)[i] = SubSeq(s, c, b)[i]
  BY <1>1, <1>3, <1>4, <1>5
<1>7. SubSeq(t, c, b) = SubSeq(s, c, b)
  BY <1>3, <1>4, <1>6, SeqEqual
<1>. QED
  BY <1>7 DEF t

(* What a buffer is found to hold, and what goes out for it.                *)
LEMMA HeadRead ==
    ASSUME ProxyAssumption, TypeOK, Counts, HeadFound, head = "read",
           NEW n \in 1..MaxChunk, n <= inflight["request"],
           NEW buf, buf = SubSeq(stream, 1, Read + n)
    PROVE  /\ HeadOutcome(buf) \in {"read", "raw", "rewritten"}
           /\ HeadOutcome(buf) = "read" => Read + n <= MaxHeaderBytes /\ HeadLen(buf) = 0
           /\ HeadOutcome(buf) = "rewritten" => HeadLen(stream) > 0 /\ HeadLen(stream) <= Read + n
           /\ HeadOutcome(buf) = "raw" =>
                 /\ Read + n > MaxHeaderBytes
                 /\ HeadLen(stream) # 0 => HeadLen(stream) + MaxChunk > MaxHeaderBytes + 1
           /\ HeadOutput(buf) \in Text
           /\ Begins(HeadOutput(buf), Upstream(HeadOutcome(buf), stream, Read + n))
           /\ HeadOutput(buf) = IF HeadOutcome(buf) = "read" THEN <<>>
                                ELSE Upstream(HeadOutcome(buf), stream, Read + n)
<1>1. /\ Read \in Nat /\ Read <= Len(stream) /\ stream \in Text /\ Len(stream) \in Nat
      /\ sent["request"] \in Nat /\ inflight["request"] \in Nat
      /\ Read = sent["request"] - inflight["request"] /\ sent["request"] <= Len(stream)
  BY ReadSoFar DEF TypeOK, Dirs, Counts
<1>. DEFINE a == Read
            b == Read + n
            h == HeadOutcome(buf)
<1>2. n \in Nat /\ b \in Nat /\ b <= Len(stream) /\ a < b /\ b <= a + MaxChunk
      /\ MaxChunk \in Nat /\ MaxHeaderBytes \in Nat
  <2>1. MaxChunk \in Nat /\ MaxHeaderBytes \in Nat
    BY DEF ProxyAssumption
  <2>2. n \in Nat /\ 1 <= n /\ n <= MaxChunk /\ n <= inflight["request"]
    BY <2>1
  <2>3. Read + n <= Len(stream)
    BY ONLY <1>1, <2>2
  <2>4. Read + n \in Nat /\ Read < Read + n /\ Read + n <= Read + MaxChunk
    BY ONLY <1>1, <2>1, <2>2
  <2>. QED
    BY <2>1, <2>2, <2>3, <2>4
<1>3. kind = "rewrite" /\ stream \in Streams
  BY DEF Counts
<1>4. a \in Nat /\ a <= Len(stream) /\ a <= MaxHeaderBytes /\ HeadLen(SubSeq(stream, 1, a)) = 0
  BY <1>1 DEF HeadFound
<1>5. buf = SubSeq(stream, 1, b)
  OBVIOUS
<1>. HIDE DEF a, b
<1>6. buf \in Text /\ Len(buf) = b /\ \A i \in 1..b : buf[i] = stream[i]
  BY <1>1, <1>2, <1>5, BeginsPart
<1>7. HeadLen(stream) \in 0..Len(stream) /\ HeadLen(buf) \in 0..b
  BY <1>1, <1>6, HeadLenIs
<1>8. HeadLen(stream) # 0 => a < HeadLen(stream)
  <2>. DEFINE t == SubSeq(stream, 1, a)
  <2>1. t \in Text /\ Len(t) = a /\ \A i \in 1..a : t[i] = stream[i]
    BY <1>1, <1>4, BeginsPart
  <2>2. HeadLen(t) = 0
    BY <1>4
  <2>. HIDE DEF t
  <2>3. Len(t) <= Len(stream) /\ \A i \in 1..Len(t) : t[i] = stream[i]
    BY <1>4, <2>1
  <2>4. HeadLen(stream) # 0 => Len(t) < HeadLen(stream)
    BY <1>1, <2>1, <2>2, <2>3, HeadOfPrefix
  <2>. QED
    BY <2>1, <2>4
<1>9. HeadLen(buf) # 0 => HeadLen(stream) = HeadLen(buf)
  <2>1. Len(buf) <= Len(stream) /\ \A i \in 1..Len(buf) : buf[i] = stream[i]
    BY <1>2, <1>6
  <2>. QED
    BY <1>1, <1>6, <2>1, HeadOfPrefix
<1>10. h = IF b > MaxHeaderBytes THEN "raw" ELSE IF HeadLen(buf) > 0 THEN "rewritten" ELSE "read"
  BY <1>6 DEF HeadOutcome
<1>11. HeadOutput(buf) = IF h = "raw" THEN buf
                         ELSE IF h = "rewritten"
                              THEN RewrittenHead[stream] \o SubSeq(buf, HeadLen(buf) + 1, b)
                              ELSE <<>>
  BY <1>6, <1>10 DEF HeadOutput
<1>. HIDE DEF h
<1>12. h = "read" => b <= MaxHeaderBytes /\ HeadLen(buf) = 0
  BY <1>2, <1>7, <1>10
<1>13. h = "rewritten" => /\ HeadLen(buf) > 0 /\ HeadLen(stream) = HeadLen(buf)
                          /\ HeadLen(stream) > 0 /\ HeadLen(stream) <= b
  BY <1>2, <1>7, <1>9, <1>10
<1>14. h = "raw" => /\ b > MaxHeaderBytes
                    /\ HeadLen(stream) # 0 => HeadLen(stream) + MaxChunk > MaxHeaderBytes + 1
  <2>. SUFFICES ASSUME h = "raw"
                PROVE  /\ b > MaxHeaderBytes
                       /\ HeadLen(stream) # 0 => HeadLen(stream) + MaxChunk > MaxHeaderBytes + 1
    OBVIOUS
  <2>1. b > MaxHeaderBytes
    BY <1>2, <1>10
  <2>2. HeadLen(stream) \in Nat
    BY <1>1, <1>7
  <2>3. a < HeadLen(stream) => HeadLen(stream) + MaxChunk > MaxHeaderBytes + 1
    BY <1>2, <1>4, <2>1, <2>2
  <2>. QED
    BY <1>8, <2>1, <2>3
<1>15. Delivers(h, stream, b)
  BY <1>1, <1>2, <1>3, <1>13 DEF Delivers
<1>16. Upstream(h, stream, b) \in Text
  BY <1>15, UpstreamIs
<1>17. h # "read" => HeadOutput(buf) = Upstream(h, stream, b)
  <2>1. ASSUME h = "rewritten"
        PROVE  SubSeq(buf, HeadLen(buf) + 1, b) = SubSeq(stream, HeadLen(stream) + 1, b)
    <3>. DEFINE c == HeadLen(stream) + 1
    <3>1. c \in Nat /\ 1 <= c /\ c <= b + 1
      BY <1>2, <1>7, <1>13, <2>1
    <3>. HIDE DEF c
    <3>2. SubSeq(SubSeq(stream, 1, b), c, b) = SubSeq(stream, c, b)
      BY <1>1, <1>2, <3>1, PartOfPart
    <3>. QED
      BY <1>5, <1>13, <2>1, <3>2 DEF c
  <2>2. h \in {"read", "raw", "rewritten"}
    BY <1>10
  <2>. QED
    BY <1>5, <1>11, <2>1, <2>2 DEF Upstream
<1>18. h = "read" => HeadOutput(buf) = <<>>
  BY <1>11
<1>19. Begins(<<>>, Upstream(h, stream, b)) /\ <<>> \in Text
  <2>1. Len(<<>>) = 0 /\ Len(Upstream(h, stream, b)) \in Nat /\ <<>> \in Text
    BY <1>16 DEF Text
  <2>. QED
    BY <2>1 DEF Begins
<1>20. Begins(Upstream(h, stream, b), Upstream(h, stream, b))
  BY <1>16 DEF Begins, Text
<1>21. HeadOutput(buf) \in Text /\ Begins(HeadOutput(buf), Upstream(h, stream, b))
  BY <1>16, <1>17, <1>18, <1>19, <1>20
<1>22. h \in {"read", "raw", "rewritten"}
  BY <1>10
<1>. QED
  BY <1>12, <1>13, <1>14, <1>17, <1>18, <1>21, <1>22 DEF h, b

(* One round of the loop, whether all it writes goes out or a part.         *)
LEMMA ReadHeadKeeps ==
    ASSUME ProxyAssumption, ProxyInv, NEW n \in 1..MaxChunk, ReadHead(n)
    PROVE  ProxyInv'
<1>. USE DEF ProxyInv
<1>. DEFINE buf  == SubSeq(stream, 1, Arrived("request") + n)
            text == HeadOutput(buf)
            b    == Read + n
<1>1. /\ copier["request"] = "run" /\ head = "read" /\ n <= inflight["request"]
      /\ inflight' = [inflight EXCEPT !["request"] = @ - n]
      /\ copied' = [copied EXCEPT !["request"] = @ + n]
      /\ preview' = Seen("request", n) /\ head' = HeadOutcome(buf)
      /\ \/ ~deadline /\ out' = text /\ UNCHANGED <<copier, broken>>
         \/ /\ \E m \in 0..(Len(text) - 1) : out' = SubSeq(text, 1, m)
            /\ CopyEnd("request") /\ broken' = (broken \/ ~deadline)
      /\ UNCHANGED <<kind, stream, sent, eof, results, received, deadline, returned, reported,
                     ctxDone>>
  BY DEF ReadHead, mainVars
<1>2. buf = SubSeq(stream, 1, b)
  BY DEF Read
<1>. HIDE DEF buf
<1>3. /\ head' \in {"read", "raw", "rewritten"}
      /\ head' = "read" => b <= MaxHeaderBytes /\ HeadLen(buf) = 0
      /\ head' = "rewritten" => HeadLen(stream) > 0 /\ HeadLen(stream) <= b
      /\ head' = "raw" =>
            /\ b > MaxHeaderBytes
            /\ HeadLen(stream) # 0 => HeadLen(stream) + MaxChunk > MaxHeaderBytes + 1
      /\ text \in Text /\ Begins(text, Upstream(head', stream, b))
      /\ text = IF head' = "read" THEN <<>> ELSE Upstream(head', stream, b)
  BY <1>1, <1>2, HeadRead
<1>. HIDE DEF text
<1>4. "request" \in Dirs
  BY DEF Dirs
<1>5. /\ inflight' \in [Dirs -> Nat] /\ \A c \in Dirs : inflight'[c] <= sent[c]
      /\ Arrived("request")' = Arrived("request") + n /\ n \in Nat /\ Arrived("request") \in Nat
      /\ Arrived("request") + n <= sent["request"]
      /\ \A c \in Dirs : c # "request" => Arrived(c)' = Arrived(c)
  BY <1>1, <1>4, ChunkRead
<1>6. Read' = b /\ b \in Nat /\ b <= sent["request"]
  BY <1>5 DEF Read
<1>. HIDE DEF b
<1>7. kind = "rewrite"
  BY <1>1 DEF Counts
<1>8. Counts'
  BY <1>1, <1>5, <1>7 DEF Counts
<1>9. HeadFound'
  BY <1>1, <1>2, <1>3, <1>6, <1>7 DEF HeadFound
<1>10. /\ preview' \in [Dirs -> 0..PreviewLimit]
       /\ preview'["request"] = MinOf(PreviewLimit, b)
       /\ preview'["response"] = preview["response"]
  <2>1. preview' = [preview EXCEPT !["request"] = Keep("request", n)]
    BY <1>1, <1>7 DEF Seen
  <2>2. preview["request"] = MinOf(PreviewLimit, Read)
    BY <1>1, <1>4, <1>7 DEF Previews, Read
  <2>3. Keep("request", n) = MinOf(PreviewLimit, b) /\ Keep("request", n) \in 0..PreviewLimit
    <3>1. Read \in Nat /\ PreviewLimit \in Nat
      BY <1>5 DEF Read, ProxyAssumption
    <3>2. /\ Keep("request", n) = MinOf(PreviewLimit, Read + n)
          /\ Keep("request", n) \in 0..PreviewLimit
      BY <1>4, <1>5, <2>2, <3>1, KeptOf
    <3>. QED
      BY <3>2 DEF b
  <2>. QED
    BY <1>4, <2>1, <2>3 DEF TypeOK, Dirs
<1>11. Previews'
  <2>1. \A c \in Dirs : kind = "capture" \/ c = "response" \/ head' = "read" =>
              preview'[c] = MinOf(PreviewLimit, Arrived(c)')
    <3>1. preview'["request"] = MinOf(PreviewLimit, Arrived("request")')
      BY <1>6, <1>10 DEF Read
    <3>2. preview'["response"] = MinOf(PreviewLimit, Arrived("response")')
      <4>1. "response" \in Dirs
        BY DEF Dirs
      <4>2. Arrived("response")' = Arrived("response")
        BY <1>5, <4>1
      <4>3. preview["response"] = MinOf(PreviewLimit, Arrived("response"))
        BY <1>7, <4>1 DEF Previews
      <4>. QED
        BY <1>10, <4>2, <4>3
    <3>. QED
      BY <3>1, <3>2 DEF Dirs
  <2>2. \A x \in Nat : x <= b => MinOf(PreviewLimit, b) >= MinOf(PreviewLimit, x)
    BY <1>6 DEF MinOf, ProxyAssumption
  <2>3. HeadLen(stream) \in Nat
    BY ReadSoFar, HeadLenIs
  <2>4. head' = "rewritten" => preview'["request"] >= MinOf(PreviewLimit, HeadLen(stream))
    BY <1>3, <1>10, <2>2, <2>3
  <2>5. head' = "raw" => preview'["request"] >= MinOf(PreviewLimit, MaxHeaderBytes + 1)
    <3>1. MaxHeaderBytes + 1 \in Nat /\ (b > MaxHeaderBytes => MaxHeaderBytes + 1 <= b)
      BY <1>6 DEF ProxyAssumption
    <3>. QED
      BY <1>3, <1>10, <2>2, <3>1
  <2>. QED
    BY <1>1, <1>7, <2>1, <2>4, <2>5 DEF Previews
<1>12. copied' \in [Dirs -> Nat] /\ \A c \in Dirs : c # "request" => copied'[c] = copied[c]
  BY <1>1, <1>5 DEF TypeOK
<1>13. Upstream(head, stream, Read)' = Upstream(head', stream, b)
  BY <1>1, <1>6
<1>14. CASE ~deadline /\ out' = text /\ UNCHANGED <<copier, broken>>
  <2>1. TypeOK'
    BY <1>1, <1>3, <1>5, <1>10, <1>12, <1>14 DEF TypeOK, Text
  <2>2. Delivered'
    BY <1>1, <1>3, <1>13, <1>14 DEF Delivered
  <2>3. Reports'
    <3>1. \A c \in received \cup results : c # "request" /\ c \in Dirs
      BY <1>1 DEF Reports, TypeOK
    <3>2. kind # "plain" => \A c \in received : reported[c] = copied'[c]
      BY <1>12, <3>1 DEF Reports
    <3>. QED
      BY <1>1, <1>14, <3>2 DEF Reports
  <2>. QED
    BY <1>8, <1>9, <1>11, <2>1, <2>2, <2>3
<1>15. CASE /\ \E m \in 0..(Len(text) - 1) : out' = SubSeq(text, 1, m)
            /\ CopyEnd("request") /\ broken' = (broken \/ ~deadline)
  <2>1. PICK m \in 0..(Len(text) - 1) : out' = SubSeq(text, 1, m)
    BY <1>15
  <2>2. m \in Nat /\ m <= Len(text)
    BY <1>3, <2>1 DEF Text
  <2>3. out' \in Text /\ Begins(out', text)
    BY <1>3, <2>1, <2>2, BeginsPart
  <2>4. Begins(out', Upstream(head', stream, b))
    <3>1. Upstream(head', stream, b) \in Text
      <4>1. b <= Len(stream)
        <5>1. sent["request"] <= Len(stream) /\ Len(stream) \in Nat /\ sent["request"] \in Nat
          BY DEF Counts, TypeOK, Dirs
        <5>. QED
          BY ONLY <1>6, <5>1
      <4>2. Delivers(head', stream, b)
        BY <1>3, <1>6, <1>7, <4>1, ReadSoFar DEF Delivers, Counts
      <4>. QED
        BY <4>2, UpstreamIs
    <3>. QED
      BY <1>3, <2>3, <3>1, BeginsTransitive
  <2>5. copier' = [copier EXCEPT !["request"] = "ended"]
    BY <1>15 DEF CopyEnd
  <2>6. TypeOK'
    <3>1. copier' \in [Dirs -> {"run", "ended", "sent"}] /\ broken' \in BOOLEAN
      BY <1>15, <2>5 DEF TypeOK
    <3>. QED
      BY <1>1, <1>3, <1>5, <1>10, <1>12, <2>3, <3>1 DEF TypeOK, Text
  <2>7. Delivered'
    <3>1. copier'["request"] = "ended" /\ (~deadline' => broken')
      BY <1>1, <1>4, <1>15, <2>5 DEF TypeOK
    <3>. QED
      BY <1>13, <2>4, <3>1 DEF Delivered
  <2>8. Reports'
    BY <1>1, <1>4, <1>12, <2>5, EndKeepsReports
  <2>. QED
    BY <1>8, <1>9, <1>11, <2>6, <2>7, <2>8
<1>. QED
  BY <1>1, <1>14, <1>15

----------------------------------------------------------------------------
(* The specification.                                                       *)

(* Every step keeps the invariant.                                          *)
LEMMA NextKeeps == ASSUME ProxyAssumption, ProxyInv, [Next]_vars PROVE ProxyInv'
<1>1. CASE Copiers
  <2>1. ASSUME NEW d \in Dirs, NEW n \in 1..MaxChunk, Copy(d, n) PROVE ProxyInv'
    BY <2>1, CopyKeeps
  <2>2. ASSUME NEW d \in Dirs, CopyReachesEOF(d) \/ CopyTimesOut(d) PROVE ProxyInv'
    BY <2>2, EndsKeep
  <2>3. ASSUME NEW d \in Dirs, SendResult(d) PROVE ProxyInv'
    BY <2>3, MainKeeps
  <2>4. ASSUME NEW n \in 1..MaxChunk, ReadHead(n) PROVE ProxyInv'
    BY <2>4, ReadHeadKeeps
  <2>. QED
    BY <1>1, <2>1, <2>2, <2>3, <2>4 DEF Copiers
<1>2. CASE Main
  <2>1. ASSUME OnContext PROVE ProxyInv'
    <3>1. "request" \in Dirs
      BY DEF Dirs
    <3>. QED
      BY <2>1, <3>1, MainKeeps
  <2>2. ASSUME NEW d \in Dirs, OnResult(d) PROVE ProxyInv'
    BY <2>2, MainKeeps
  <2>. QED
    BY <1>2, <2>1, <2>2 DEF Main
<1>3. CASE Environment
  <2>0. 1 \in 1..MaxChunk /\ "request" \in Dirs
    BY DEF ProxyAssumption, Dirs
  <2>1. ASSUME CtxCancel PROVE ProxyInv'
    BY <2>0, <2>1, SourcesKeep
  <2>2. ASSUME NEW d \in Dirs, NEW n \in 1..MaxChunk, SourceSends(d, n) PROVE ProxyInv'
    BY <2>2, SourcesKeep
  <2>3. ASSUME NEW d \in Dirs, SourceEnds(d) PROVE ProxyInv'
    BY <2>0, <2>3, SourcesKeep
  <2>4. ASSUME NEW d \in Dirs, NEW n \in 1..MaxChunk, NEW m \in 0..MaxChunk,
               CopyWriteFails(d, n, m)
        PROVE  ProxyInv'
    BY <2>4, WriteFailsKeeps
  <2>5. ASSUME NEW d \in Dirs, CopyBreaks(d) PROVE ProxyInv'
    BY <2>5, EndsKeep
  <2>. QED
    BY <1>3, <2>1, <2>2, <2>3, <2>4, <2>5 DEF Environment
<1>4. CASE UNCHANGED vars
  <2>1. UNCHANGED <<kind, stream, head, out, inflight, sent, eof, copied, preview, copier,
                    results, received, deadline, returned, reported, ctxDone, broken>>
    BY <1>4 DEF vars, requestVars
  <2>2. TypeOK' /\ Counts' /\ HeadFound'
    BY <2>1 DEF ProxyInv, TypeOK, Counts, HeadFound, Read, Arrived
  <2>3. Delivered' /\ Previews' /\ Reports'
    BY <2>1 DEF ProxyInv, Delivered, Previews, Reports, Read, Arrived
  <2>. QED
    BY <2>2, <2>3 DEF ProxyInv
<1>. QED
  BY <1>1, <1>2, <1>3, <1>4 DEF Next

(* The invariant holds of every connection, whatever is sent through it,    *)
(* however it is cut into reads, and wherever it fails.                     *)
THEOREM ProxyInvariant == Spec => []ProxyInv
<1>1. Init => ProxyInv
  BY ProxyAssumption, InitProxy
<1>2. ProxyInv /\ [Next]_vars => ProxyInv'
  BY ProxyAssumption, NextKeeps
<1>. QED
  BY <1>1, <1>2, PTL DEF Spec

(* Every variable has its type.                                             *)
THEOREM ProxyTypes == Spec => []TypeOK
<1>1. ProxyInv => TypeOK
  BY DEF ProxyInv
<1>. QED
  BY <1>1, ProxyInvariant, PTL

(* A copy that has ended always finds room in the result channel of         *)
(* proxyBidirectional, also when the function that made the channel has     *)
(* returned: its goroutine is never blocked on the send. This is the safety *)
(* half of NoCopierLeaks.                                                   *)
THEOREM ResultsFindRoom ==
    Spec => [](\A d \in Dirs : copier[d] = "ended" => Cardinality(results) < ChannelCapacity)
<1>1. ASSUME ProxyInv, NEW d \in Dirs, copier[d] = "ended"
      PROVE  Cardinality(results) < ChannelCapacity
  <2>1. results \subseteq Dirs \ {d}
    BY <1>1 DEF ProxyInv, Reports, TypeOK
  <2>2. PICK c \in Dirs : Dirs \ {d} = {c}
    BY DEF Dirs
  <2>3. IsFiniteSet({c}) /\ Cardinality({c}) = 1
    BY FS_Singleton
  <2>4. Cardinality(results) <= 1 /\ Cardinality(results) \in Nat
    BY <2>1, <2>2, <2>3, FS_Subset, FS_CardinalityType
  <2>. QED
    BY <2>4 DEF ChannelCapacity
<1>2. ProxyInv => \A d \in Dirs : copier[d] = "ended" => Cardinality(results) < ChannelCapacity
  BY <1>1
<1>. QED
  BY <1>2, ProxyInvariant, PTL

(* What the inspector records is final when the function returns, and a     *)
(* preview is the first bytes that were read (CaptureIsFinal): for every    *)
(* limit of the preview and of the head, every stream and every way to cut  *)
(* it.                                                                      *)
THEOREM CapturesAreFinal == Spec => []CaptureIsFinal
<1>1. ASSUME ProxyInv, kind # "plain" PROVE CaptureIsFinal
  <2>. USE <1>1 DEF ProxyInv
  <2>1. \A d \in Dirs : kind = "capture" \/ d = "response" =>
            preview[d] = MinOf(PreviewLimit, Arrived(d))
    BY <1>1 DEF Previews
  <2>2. ASSUME kind = "rewrite"
        PROVE  preview["request"] >= MinOf(PreviewLimit,
                  CASE head = "read" -> Arrived("request")
                    [] head = "rewritten" -> HeadLen(stream)
                    [] head = "raw" -> MaxHeaderBytes + 1)
    <3>0. "request" \in Dirs
      BY DEF Dirs
    <3>1. CASE head = "read"
      <4>1. preview["request"] = MinOf(PreviewLimit, Arrived("request"))
        BY <1>1, <3>0, <3>1 DEF Previews
      <4>2. preview["request"] \in Nat
        BY <3>0, ProxyAssumption DEF TypeOK, ProxyAssumption
      <4>. QED
        BY <3>1, <4>1, <4>2
    <3>2. CASE head = "rewritten"
      BY <1>1, <3>2 DEF Previews
    <3>3. CASE head = "raw"
      BY <1>1, <2>2, <3>3 DEF Previews
    <3>. QED
      BY <3>1, <3>2, <3>3 DEF TypeOK
  <2>3. returned => \A d \in Dirs : copier[d] = "sent" /\ reported[d] = copied[d]
    BY <1>1 DEF Reports
  <2>. QED
    BY <2>1, <2>2, <2>3 DEF CaptureIsFinal
<1>2. ProxyInv => CaptureIsFinal
  BY <1>1 DEF CaptureIsFinal
<1>. QED
  BY <1>2, ProxyInvariant, PTL

(* The upstream gets a prefix of what the visitor sent, with the head       *)
(* rewritten if the client does so, and all of it if the visitor ends first *)
(* and nothing breaks (RequestArrivesWhole).                                *)
THEOREM RequestsArriveWhole == Spec => []RequestArrivesWhole
<1>1. ASSUME ProxyInv PROVE RequestArrivesWhole
  <2>. USE <1>1 DEF ProxyInv
  <2>. DEFINE b        == sent["request"]
              whole    == SubSeq(stream, 1, b)
              behind   == SubSeq(whole, HeadLen(whole) + 1, Len(whole))
              expected == IF head = "rewritten" THEN RewrittenHead[stream] \o behind ELSE whole
  <2>1. /\ Read \in Nat /\ Read <= b /\ stream \in Text /\ Len(stream) \in Nat
        /\ Read = b - inflight["request"] /\ inflight["request"] \in Nat
        /\ Delivers(head, stream, Read)
    BY ReadSoFar
  <2>2. b \in Nat /\ b <= Len(stream)
    BY DEF TypeOK, Dirs, Counts
  <2>3. whole \in Text /\ Len(whole) = b
    BY <2>1, <2>2, BeginsPart
  <2>4. head = "rewritten" => whole = stream /\ b = Len(stream)
    <3>1. head = "rewritten" => b = Len(stream)
      BY DEF HeadFound, Counts
    <3>2. SubSeq(stream, 1, Len(stream)) = stream
      <4>1. stream \in Seq(Tokens)
        BY DEF TypeOK
      <4>. QED
        BY <4>1, SubSeqFull
    <3>. QED
      BY <3>1, <3>2
  <2>5. expected = Upstream(head, stream, b)
    BY <2>3, <2>4 DEF Upstream
  <2>6. /\ Upstream(head, stream, Read) \in Text /\ Upstream(head, stream, b) \in Text
        /\ Begins(Upstream(head, stream, Read), Upstream(head, stream, b))
    <3>1. /\ Delivers(head, stream, b)
          /\ Begins(Upstream(head, stream, Read), Upstream(head, stream, b))
      BY <2>1, <2>2, UpstreamMore
    <3>. QED
      BY <2>1, <3>1, UpstreamIs
  <2>. HIDE DEF expected, whole, b
  <2>7. out \in Text /\ Begins(out, Upstream(head, stream, Read))
    BY DEF TypeOK, Text, Delivered
  <2>8. IsPrefix(out, expected)
    <3>1. Begins(out, Upstream(head, stream, b))
      BY <2>6, <2>7, BeginsTransitive
    <3>. QED
      BY <2>5, <2>6, <2>7, <3>1, BeginsIsPrefix
  <2>9. copier["request"] # "run" /\ ~deadline /\ ~broken => out = expected
    <3>1. inflight["request"] = 0 => Read = b
      BY <2>1, <2>2
    <3>. QED
      BY <2>5, <3>1 DEF Delivered
  <2>. QED
    BY <2>8, <2>9 DEF RequestArrivesWhole, expected, whole, b
<1>. QED
  BY <1>1, ProxyInvariant, PTL

(* A head that reaches the upstream of a rewriting tunnel carries the new   *)
(* Host field, no other, and the visitor's other lines in their order       *)
(* (HostIsRewritten).                                                       *)
THEOREM HostsAreRewritten == Spec => []HostIsRewritten
<1>1. ASSUME ProxyInv, kind = "rewrite", HeadLen(out) > 0,
             HeadLen(stream) + MaxChunk - 1 <= MaxHeaderBytes
      PROVE  Rewritten(HeadOf(out), stream)
  <2>. USE <1>1 DEF ProxyInv
  <2>. DEFINE U == Upstream(head, stream, Read)
  <2>1. /\ Read \in Nat /\ Read <= Len(stream) /\ stream \in Text /\ Len(stream) \in Nat
        /\ Delivers(head, stream, Read)
    BY ReadSoFar
  <2>2. U \in Text
    BY <2>1, UpstreamIs
  <2>. HIDE DEF U
  <2>3. /\ out \in Text /\ Len(out) \in Nat /\ Len(out) <= Len(U)
        /\ \A i \in 1..Len(out) : out[i] = U[i]
    BY DEF TypeOK, Text, Delivered, Begins, U
  <2>4. HeadLen(out) \in Nat /\ HeadLen(out) # 0 /\ HeadLen(out) <= Len(out)
    BY <2>3, HeadLenIs
  <2>5. HeadLen(U) = HeadLen(out)
    BY <2>2, <2>3, <2>4, HeadOfPrefix
  <2>6. CASE head = "read"
    <3>1. U = SubSeq(stream, 1, Read)
      BY <2>6 DEF U, Upstream
    <3>2. HeadLen(U) = 0
      BY <2>6, <3>1 DEF HeadFound
    <3>. QED
      BY <2>4, <2>5, <3>2
  <2>7. CASE head = "raw"
    <3>1. HeadLen(stream) \in Nat /\ MaxChunk \in Nat /\ MaxHeaderBytes \in Nat
      BY <2>1, HeadLenIs, ProxyAssumption DEF ProxyAssumption
    <3>2. ~(HeadLen(stream) + MaxChunk > MaxHeaderBytes + 1)
      BY <3>1
    <3>3. HeadLen(stream) = 0
      BY <2>7, <3>2 DEF HeadFound
    <3>4. U = SubSeq(stream, 1, Read)
      BY <2>7 DEF U, Upstream
    <3>5. Len(U) <= Len(stream) /\ \A i \in 1..Len(U) : U[i] = stream[i]
      BY <2>1, <3>4, BeginsPart
    <3>6. HeadLen(stream) = HeadLen(U)
      BY <2>1, <2>2, <2>4, <2>5, <3>5, HeadOfPrefix
    <3>. QED
      BY <2>4, <2>5, <3>3, <3>6
  <2>8. CASE head = "rewritten"
    <3>. DEFINE r == RewrittenHead[stream]
                x == SubSeq(stream, HeadLen(stream) + 1, Read)
    <3>1. Rewritten(r, stream)
      BY <2>1, <2>8, RewrittenHeadIs DEF Delivers
    <3>2. x \in Text /\ U = r \o x
      <4>1. HeadLen(stream) \in Nat /\ HeadLen(stream) <= Read
        BY <2>1, <2>8, HeadLenIs DEF Delivers
      <4>. QED
        BY <2>1, <2>8, <4>1, PartFollows DEF U, Upstream
    <3>. HIDE DEF r, x
    <3>3. r \in Text /\ Len(r) \in Nat /\ HeadLen(r) = Len(r) /\ Len(r) # 0
      BY <3>1 DEF Rewritten, Text
    <3>4. Begins(r, U)
      BY <3>2, <3>3, BeginsConcat
    <3>5. HeadLen(U) = Len(r)
      BY <2>2, <3>3, <3>4, HeadOfPrefix DEF Begins
    <3>6. Len(r) <= Len(out) /\ HeadOf(out) = SubSeq(out, 1, Len(r))
      BY <2>4, <2>5, <3>5 DEF HeadOf
    <3>7. /\ SubSeq(out, 1, Len(r)) \in Seq(Tokens) /\ Len(SubSeq(out, 1, Len(r))) = Len(r)
          /\ \A i \in 1..Len(r) : SubSeq(out, 1, Len(r))[i] = out[i]
      BY <2>3, <3>3, <3>6, BeginsPart DEF Text
    <3>8. \A i \in 1..Len(r) : out[i] = r[i]
      BY <2>3, <3>3, <3>4, <3>6 DEF Begins
    <3>9. SubSeq(out, 1, Len(r)) = r
      <4>1. r \in Seq(Tokens)
        BY <3>3 DEF Text
      <4>2. \A i \in 1..Len(r) : SubSeq(out, 1, Len(r))[i] = r[i]
        BY <3>7, <3>8
      <4>. QED
        BY <3>7, <4>1, <4>2, SeqEqual
    <3>. QED
      BY <3>1, <3>6, <3>9
  <2>. QED
    BY <2>6, <2>7, <2>8 DEF TypeOK
<1>2. ProxyInv => HostIsRewritten
  BY <1>1 DEF HostIsRewritten, Rewritten
<1>. QED
  BY <1>2, ProxyInvariant, PTL

(* The function that waits: no result is lost on its way.                   *)
Noticed ==
    /\ \A d \in Dirs : copier[d] = "sent" => d \in results \cup received
    /\ kind = "plain" /\ ~returned => received = {}
    /\ kind # "plain" /\ received = Dirs => returned
    /\ received # {} \/ returned => deadline

(* A step of another kind takes nothing away from it.                       *)
LEMMA OthersKeepNoticed ==
    ASSUME TypeOK, Noticed, UNCHANGED <<kind, mainVars>>, NEW d \in Dirs,
           copier' = copier \/ copier' = [copier EXCEPT ![d] = "ended"]
    PROVE  Noticed'
<1>1. \A c \in Dirs : copier'[c] = "sent" => copier[c] = "sent"
  BY DEF TypeOK
<1>. QED
  BY <1>1 DEF Noticed, mainVars

(* Every step keeps Noticed.                                                *)
LEMMA NoticedStep == ASSUME TypeOK, Noticed, [Next]_vars PROVE Noticed'
<1>0. "request" \in Dirs
  BY DEF Dirs
<1>1. ASSUME NEW d \in Dirs, SendResult(d) PROVE Noticed'
  <2>1. /\ copier' = [copier EXCEPT ![d] = "sent"] /\ results' = results \cup {d}
        /\ UNCHANGED <<kind, received, deadline, returned>>
    BY <1>1 DEF SendResult
  <2>2. \A c \in Dirs : copier'[c] = "sent" => c = d \/ copier[c] = "sent"
    BY <2>1 DEF TypeOK
  <2>. QED
    BY <2>1, <2>2 DEF Noticed
<1>2. ASSUME OnContext PROVE Noticed'
  BY <1>2 DEF OnContext, Noticed
<1>3. ASSUME NEW d \in Dirs, OnResult(d) PROVE Noticed'
  <2>1. /\ d \in results /\ results' = results \ {d} /\ received' = received \cup {d}
        /\ deadline' = TRUE /\ returned' = (kind = "plain" \/ received' = Dirs)
        /\ UNCHANGED <<kind, copier>>
    BY <1>3 DEF OnResult
  <2>2. results' \cup received' = results \cup received
    BY <2>1
  <2>. QED
    BY <2>1, <2>2 DEF Noticed
<1>4. ASSUME NEW d \in Dirs, CopyReachesEOF(d) \/ CopyTimesOut(d) \/ CopyBreaks(d) PROVE Noticed'
  <2>1. UNCHANGED <<kind, mainVars>> /\ copier' = [copier EXCEPT ![d] = "ended"]
    BY <1>4 DEF CopyReachesEOF, CopyTimesOut, CopyBreaks, CopyEnd
  <2>. QED
    BY <2>1, OthersKeepNoticed
<1>5. ASSUME NEW d \in Dirs, NEW n \in 1..MaxChunk,
             Copy(d, n) \/ SourceSends(d, n) \/ \E m \in 0..MaxChunk : CopyWriteFails(d, n, m)
      PROVE  Noticed'
  <2>1. /\ UNCHANGED <<kind, mainVars>>
        /\ copier' = copier \/ copier' = [copier EXCEPT ![d] = "ended"]
    BY <1>5 DEF Copy, SourceSends, CopyWriteFails, CopyEnd
  <2>. QED
    BY <2>1, OthersKeepNoticed
<1>6. ASSUME NEW n \in 1..MaxChunk, ReadHead(n) PROVE Noticed'
  <2>1. /\ UNCHANGED <<kind, mainVars>>
        /\ copier' = copier \/ copier' = [copier EXCEPT !["request"] = "ended"]
    BY <1>6 DEF ReadHead, CopyEnd
  <2>. QED
    BY <1>0, <2>1, OthersKeepNoticed
<1>7. ASSUME CtxCancel \/ (\E d \in Dirs : SourceEnds(d)) \/ UNCHANGED vars PROVE Noticed'
  <2>1. UNCHANGED <<kind, mainVars, copier>>
    BY <1>7 DEF CtxCancel, SourceEnds, vars, mainVars
  <2>. QED
    BY <1>0, <2>1, OthersKeepNoticed
<1>. QED
  BY <1>1, <1>2, <1>3, <1>4, <1>5, <1>6, <1>7 DEF Next, Copiers, Main, Environment

(* The function that waits never waits for nothing: if both copies have     *)
(* reported and it has not returned, there is a result in the channel,      *)
(* whether it returns at the first or counts two.  From its first result    *)
(* on, and after it has returned, a deadline stops the other copy.  These   *)
(* are the safety halves of OneEndClosesBoth and NoCopierLeaks.             *)
THEOREM EndsAreNoticed ==
    Spec => []( /\ ~returned /\ (\A d \in Dirs : copier[d] = "sent") => results # {}
                /\ received # {} \/ returned => deadline )
<1>1. Init => Noticed
  BY DEF Init, Noticed, Dirs
<1>2. TypeOK /\ Noticed /\ [Next]_vars => Noticed'
  BY NoticedStep
<1>3. TypeOK /\ Noticed =>
         /\ ~returned /\ (\A d \in Dirs : copier[d] = "sent") => results # {}
         /\ received # {} \/ returned => deadline
  <2>. SUFFICES ASSUME TypeOK, Noticed, ~returned, \A d \in Dirs : copier[d] = "sent"
                PROVE  results # {}
    BY DEF Noticed
  <2>1. CASE kind = "plain"
    BY <2>1 DEF Noticed, Dirs
  <2>2. CASE kind # "plain" /\ ~(Dirs \subseteq received)
    BY <2>2 DEF Noticed
  <2>3. CASE kind # "plain" /\ Dirs \subseteq received
    BY <2>3 DEF Noticed, TypeOK
  <2>. QED
    BY <2>1, <2>2, <2>3
<1>. QED
  BY <1>1, <1>2, <1>3, ProxyTypes, PTL DEF Spec
================================================================================
