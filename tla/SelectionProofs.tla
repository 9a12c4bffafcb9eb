-------------------------- MODULE SelectionProofs --------------------------
(***************************************************************************)
(* Proofs about Selection: what the sequences of mechanisms that           *)
(* expand_password and MECHANISMS build contain, and in which order, and   *)
(* from that which mechanism the loop of pick_mechanism finds first.       *)
(* FlattenSeq is recursive; what it returns is shown by induction on the   *)
(* number of its sequences, from the well-foundedness of <.                *)
(***************************************************************************)
EXTENDS Selection, SequenceTheorems, WellFoundedInduction, TLAPS

\* A set of natural numbers has a least one.
LEMMA Least ==
    ASSUME NEW T \in SUBSET Nat, T # {}
    PROVE  \E x \in T : \A y \in T : x <= y
<1> DEFINE R == OpToRel(<, Nat)
<1>1. IsWellFoundedOn(R, Nat)
  BY NatLessThanWellFounded
<1>3. \A x, y \in Nat : x < y => <<x, y>> \in R
  BY DEF OpToRel
<1> HIDE DEF R
<1>2. PICK x \in T : \A y \in T : ~ (<<y, x>> \in R)
  BY <1>1, WFMin
<1>4. ASSUME NEW y \in T
      PROVE  x <= y
  <2>1. x \in Nat /\ y \in Nat
    OBVIOUS
  <2>2. ~(y < x)
    BY <1>2, <1>3, <2>1
  <2> QED
    BY <2>1, <2>2
<1> QED
  BY <1>4

-----------------------------------------------------------------------------
(* Induction, and FlattenSeq *)

\* A set that has 0, and with a number its successor, has them all.
LEMMA Induction ==
    ASSUME NEW T, 0 \in T, \A n \in Nat : n \in T => n + 1 \in T
    PROVE  Nat \subseteq T
<1> SUFFICES ASSUME Nat \ T # {}
             PROVE  FALSE
  OBVIOUS
<1>1. PICK x \in Nat \ T : \A y \in Nat \ T : x <= y
  BY Least
<1>2. x # 0 /\ x - 1 \in Nat /\ (x - 1) + 1 = x
  BY <1>1
<1>3. x - 1 \in T
  BY <1>1, <1>2
<1> QED
  BY <1>1, <1>2, <1>3

\* The first n of the sequences in ss, one after the other, and where each of
\* them ends.
Joined(ss, n, f, e) ==
    /\ e \in [0..n -> Nat] /\ e[0] = 0 /\ e[n] = Len(f)
    /\ \A i \in 1..n : /\ e[i] = e[i - 1] + Len(ss[i])
                       /\ \A k \in 1..Len(ss[i]) : f[e[i - 1] + k] = ss[i][k]
    /\ \A i, j \in 0..n : i <= j => e[i] <= e[j]
    /\ \A p \in 1..Len(f) : \E i \in 1..n : \E k \in 1..Len(ss[i]) : p = e[i - 1] + k

\* FlattenSeq's recursion, for the first n.
Flattens(g, ss, n) == g = [i \in 1..n |-> IF i = 1 THEN ss[i] ELSE g[i - 1] \o ss[i]]

LEMMA FlattenExists ==
    ASSUME NEW ss, NEW m \in Nat
    PROVE  \E g : Flattens(g, ss, m)
<1> DEFINE T == {n \in Nat : \E g : Flattens(g, ss, n)}
<1>1. 0 \in T
  <2> DEFINE none == [i \in 1..0 |-> 0]
  <2>1. Flattens(none, ss, 0)
    BY DEF Flattens
  <2> QED
    BY <2>1
<1>2. ASSUME NEW n \in Nat, n \in T
      PROVE  n + 1 \in T
  <2>1. PICK g : Flattens(g, ss, n)
    BY <1>2
  <2> DEFINE h == [i \in 1..(n + 1) |-> IF i = n + 1
                                       THEN IF i = 1 THEN ss[i] ELSE g[n] \o ss[i]
                                       ELSE g[i]]
  <2>2. \A i \in 1..(n + 1) : h[i] = IF i = 1 THEN ss[i] ELSE h[i - 1] \o ss[i]
    <3> SUFFICES ASSUME NEW i \in 1..(n + 1)
                 PROVE  h[i] = IF i = 1 THEN ss[i] ELSE h[i - 1] \o ss[i]
      OBVIOUS
    <3>1. CASE i = n + 1
      BY <3>1
    <3>2. CASE i # n + 1
      <4>1. i \in 1..n /\ (i # 1 => i - 1 \in 1..n)
        BY <3>2
      <4>2. h[i] = g[i] /\ (i # 1 => h[i - 1] = g[i - 1])
        BY <3>2, <4>1
      <4> HIDE DEF h
      <4> QED
        BY <2>1, <4>1, <4>2 DEF Flattens
    <3> QED
      BY <3>1, <3>2
  <2>3. Flattens(h, ss, n + 1)
    <3>1. h = [i \in 1..(n + 1) |-> h[i]]
      OBVIOUS
    <3> HIDE DEF h
    <3> QED
      BY <2>2, <3>1 DEF Flattens
  <2> QED
    BY <2>3
<1> QED
  BY <1>1, <1>2, Induction

LEMMA FlattenIs ==
    ASSUME NEW ss, Len(ss) \in Nat \ {0}
    PROVE  \E g : Flattens(g, ss, Len(ss)) /\ FlattenSeq(ss) = g[Len(ss)]
<1> DEFINE F == CHOOSE f : f = [i \in 1..Len(ss) |-> IF i = 1 THEN ss[i] ELSE f[i - 1] \o ss[i]]
<1>1. FlattenSeq(ss) = F[Len(ss)]
  BY DEF FlattenSeq
<1>2. \E g : g = [i \in 1..Len(ss) |-> IF i = 1 THEN ss[i] ELSE g[i - 1] \o ss[i]]
  BY FlattenExists DEF Flattens
<1>3. F = [i \in 1..Len(ss) |-> IF i = 1 THEN ss[i] ELSE F[i - 1] \o ss[i]]
  BY <1>2
<1> QED
  BY <1>1, <1>3 DEF Flattens

LEMMA JoinedNone == \A ss : Joined(ss, 0, <<>>, [i \in 0..0 |-> 0])
  BY DEF Joined

LEMMA JoinedStep ==
    ASSUME NEW S, NEW ss, NEW n \in Nat, NEW f \in Seq(S), NEW e,
           \A i \in 1..(n + 1) : ss[i] \in Seq(S), Joined(ss, n, f, e)
    PROVE  /\ f \o ss[n + 1] \in Seq(S)
           /\ \E e2 : Joined(ss, n + 1, f \o ss[n + 1], e2)
<1> DEFINE s == ss[n + 1]
           f2 == f \o s
           e2 == [i \in 0..(n + 1) |-> IF i = n + 1 THEN e[n] + Len(s) ELSE e[i]]
<1>1. s \in Seq(S) /\ Len(s) \in Nat /\ Len(f) \in Nat
  BY LenProperties
<1> HIDE DEF s
<1>2. /\ f2 \in Seq(S) /\ Len(f2) = Len(f) + Len(s)
      /\ \A p \in 1..Len(f) : f2[p] = f[p]
      /\ \A k \in 1..Len(s) : f2[Len(f) + k] = s[k]
  <2>1. /\ f2 \in Seq(S) /\ Len(f2) = Len(f) + Len(s)
        /\ \A p \in 1..(Len(f) + Len(s)) : f2[p] = IF p <= Len(f) THEN f[p] ELSE s[p - Len(f)]
    BY <1>1, ConcatProperties
  <2> HIDE DEF f2
  <2>2. \A p \in 1..Len(f) : p \in 1..(Len(f) + Len(s)) /\ p <= Len(f)
    BY <1>1
  <2>3. \A k \in 1..Len(s) : /\ Len(f) + k \in 1..(Len(f) + Len(s)) /\ ~(Len(f) + k <= Len(f))
                             /\ (Len(f) + k) - Len(f) = k
    BY <1>1
  <2> QED
    BY <2>1, <2>2, <2>3
<1> HIDE DEF f2
<1>3. /\ e \in [0..n -> Nat] /\ e[0] = 0 /\ e[n] = Len(f)
      /\ \A i \in 1..n : /\ e[i] = e[i - 1] + Len(ss[i])
                         /\ \A k \in 1..Len(ss[i]) : f[e[i - 1] + k] = ss[i][k]
      /\ \A i, j \in 0..n : i <= j => e[i] <= e[j]
      /\ \A p \in 1..Len(f) : \E i \in 1..n : \E k \in 1..Len(ss[i]) : p = e[i - 1] + k
  BY DEF Joined
<1>4. /\ e2 \in [0..(n + 1) -> Nat]
      /\ e2[n + 1] = Len(f) + Len(s)
      /\ \A i \in 0..n : e2[i] = e[i] /\ e[i] \in Nat
  BY <1>1, <1>3
<1> HIDE DEF e2
<1>5. ASSUME NEW i \in 1..(n + 1)
      PROVE  /\ e2[i] = e2[i - 1] + Len(ss[i])
             /\ \A k \in 1..Len(ss[i]) : f2[e2[i - 1] + k] = ss[i][k]
  <2>1. CASE i = n + 1
    <3>1. e2[i - 1] = Len(f) /\ ss[i] = s
      BY <1>3, <1>4, <2>1 DEF s
    <3> QED
      BY <1>2, <1>4, <2>1, <3>1
  <2>2. CASE i # n + 1
    <3>1. i \in 1..n /\ i - 1 \in 0..n /\ i \in 0..n
      BY <2>2
    <3>2. e2[i] = e[i] /\ e2[i - 1] = e[i - 1] /\ e[i] = e[i - 1] + Len(ss[i])
      BY <1>3, <1>4, <3>1
    <3>3. ASSUME NEW k \in 1..Len(ss[i])
          PROVE  f2[e2[i - 1] + k] = ss[i][k]
      <4>1. e[i] <= Len(f) /\ e[i - 1] \in Nat /\ e[i] \in Nat
        <5>1. n \in 0..n /\ i <= n
          BY <3>1
        <5> QED
          BY <1>3, <1>4, <3>1, <5>1
      <4>2. e[i - 1] + k \in 1..Len(f)
        <5> DEFINE l == Len(ss[i])
        <5>1. e[i] = e[i - 1] + l /\ k \in 1..l /\ l \in Nat
          BY <3>2, LenProperties
        <5> HIDE DEF l
        <5> QED
          BY <1>1, <4>1, <5>1
      <4>3. f[e[i - 1] + k] = ss[i][k]
        BY <1>3, <3>1
      <4> QED
        BY <1>2, <3>2, <4>2, <4>3
    <3> QED
      BY <3>2, <3>3
  <2> QED
    BY <2>1, <2>2
<1>6. ASSUME NEW i \in 0..(n + 1), NEW j \in 0..(n + 1), i <= j
      PROVE  e2[i] <= e2[j]
  <2>1. \A k \in 0..n : e[k] <= Len(f)
    <3>1. n \in 0..n /\ \A k \in 0..n : k <= n
      OBVIOUS
    <3> QED
      BY <1>3, <3>1
  <2>2. CASE j = n + 1 /\ i # n + 1
    <3>1. i \in 0..n
      BY <2>2
    <3>2. e2[i] <= Len(f) /\ e2[i] \in Nat
      BY <1>4, <2>1, <3>1
    <3> QED
      BY <1>1, <1>4, <2>2, <3>2
  <2>3. CASE j = n + 1 /\ i = n + 1
    BY <1>1, <1>4, <2>3
  <2>4. CASE j # n + 1
    <3>1. i \in 0..n /\ j \in 0..n
      BY <1>6, <2>4
    <3> QED
      BY <1>3, <1>4, <1>6, <3>1
  <2> QED
    BY <2>2, <2>3, <2>4
<1>7. ASSUME NEW p \in 1..Len(f2)
      PROVE  \E i \in 1..(n + 1) : \E k \in 1..Len(ss[i]) : p = e2[i - 1] + k
  <2>1. CASE p <= Len(f)
    <3>1. p \in 1..Len(f)
      BY <1>1, <1>2, <2>1
    <3>2. PICK i \in 1..n : \E k \in 1..Len(ss[i]) : p = e[i - 1] + k
      BY <1>3, <3>1
    <3>3. i \in 1..(n + 1) /\ i - 1 \in 0..n
      OBVIOUS
    <3>4. e2[i - 1] = e[i - 1]
      BY <1>4, <3>3
    <3> QED
      BY <3>2, <3>3, <3>4
  <2>2. CASE p > Len(f)
    <3>1. p - Len(f) \in 1..Len(s) /\ p = Len(f) + (p - Len(f))
      BY <1>1, <1>2, <2>2
    <3>2. n + 1 \in 1..(n + 1) /\ (n + 1) - 1 = n /\ n \in 0..n
      OBVIOUS
    <3>3. e2[(n + 1) - 1] = Len(f)
      BY <1>3, <1>4, <3>2
    <3> QED
      BY <3>1, <3>2, <3>3 DEF s
  <2> QED
    BY <1>1, <1>2, <2>1, <2>2
<1>8. e2[0] = 0 /\ e2[n + 1] = Len(f2)
  BY <1>2, <1>3, <1>4
<1>9. Joined(ss, n + 1, f2, e2)
  BY <1>4, <1>5, <1>6, <1>7, <1>8 DEF Joined
<1> QED
  BY <1>2, <1>9 DEF f2, s

\* FlattenSeq joins the sequences it is given.
LEMMA FlattenJoins ==
    ASSUME NEW S, NEW ss, Len(ss) \in Nat, Len(ss) = 0 => ss = <<>>,
           \A i \in 1..Len(ss) : ss[i] \in Seq(S)
    PROVE  /\ FlattenSeq(ss) \in Seq(S)
           /\ \E e : Joined(ss, Len(ss), FlattenSeq(ss), e)
<1>1. CASE Len(ss) = 0
  <2>1. FlattenSeq(ss) = <<>>
    BY <1>1 DEF FlattenSeq
  <2> QED
    BY <1>1, <2>1, JoinedNone
<1>2. CASE Len(ss) # 0
  <2>1. PICK g : Flattens(g, ss, Len(ss)) /\ FlattenSeq(ss) = g[Len(ss)]
    BY <1>2, FlattenIs
  <2> DEFINE L == Len(ss)
  <2>2. L \in Nat \ {0} /\ \A i \in 1..L : ss[i] \in Seq(S)
    BY <1>2
  <2>3. \A i \in 1..L : g[i] = IF i = 1 THEN ss[i] ELSE g[i - 1] \o ss[i]
    BY <2>1 DEF Flattens
  <2> HIDE DEF L
  <2> DEFINE T == {n \in Nat : n \in 1..L => g[n] \in Seq(S) /\ \E e : Joined(ss, n, g[n], e)}
  <2>4. 0 \in T
    OBVIOUS
  <2>5. ASSUME NEW n \in Nat, n \in T
        PROVE  n + 1 \in T
    <3> SUFFICES ASSUME n + 1 \in 1..L
                 PROVE  g[n + 1] \in Seq(S) /\ \E e : Joined(ss, n + 1, g[n + 1], e)
      OBVIOUS
    <3>1. ss[n + 1] \in Seq(S) /\ \A i \in 1..(n + 1) : ss[i] \in Seq(S)
      BY <2>2
    <3>2. CASE n = 0
      <4>1. g[n + 1] = <<>> \o ss[n + 1] /\ <<>> \in Seq(S)
        <5>1. g[n + 1] = ss[n + 1]
          BY <2>3, <3>2
        <5>2. <<>> \o ss[n + 1] = ss[n + 1]
          BY <3>1, ConcatEmptySeq
        <5> QED
          BY <5>1, <5>2
      <4>2. \E e : Joined(ss, n, <<>>, e)
        BY <3>2, JoinedNone
      <4> QED
        BY <3>1, <4>1, <4>2, JoinedStep
    <3>3. CASE n # 0
      <4>1. n \in 1..L
        BY <2>2, <3>3
      <4>2. g[n] \in Seq(S) /\ \E e : Joined(ss, n, g[n], e)
        BY <2>5, <4>1
      <4>3. g[n + 1] = g[n] \o ss[n + 1]
        <5>1. n + 1 # 1 /\ (n + 1) - 1 = n
          BY <3>3
        <5> QED
          BY <2>3, <5>1
      <4> QED
        BY <3>1, <4>2, <4>3, JoinedStep
    <3> QED
      BY <3>2, <3>3
  <2>6. L \in T
    BY <2>2, <2>4, <2>5, Induction
  <2> QED
    BY <2>1, <2>2, <2>6 DEF L
<1> QED
  BY <1>1, <1>2

\* The sequence F has what is in the first n sequences of ss, and nothing
\* without what comes before it.
InOrder(F, ss, n) ==
    /\ \A i \in 1..n : \A k \in 1..Len(ss[i]) : \E p \in 1..Len(F) : F[p] = ss[i][k]
    /\ \A p \in 1..Len(F) :
          \E i \in 1..n : \E k \in 1..Len(ss[i]) :
             /\ F[p] = ss[i][k]
             /\ \A j \in 1..n : \A l \in 1..Len(ss[j]) :
                   j < i \/ (j = i /\ l < k) => \E q \in 1..(p - 1) : F[q] = ss[j][l]

LEMMA FlattenOrder ==
    ASSUME NEW S, NEW ss, NEW n \in Nat, Len(ss) = n, n = 0 => ss = <<>>,
           \A i \in 1..n : ss[i] \in Seq(S),
           NEW F, F = FlattenSeq(ss)
    PROVE  F \in Seq(S) /\ InOrder(F, ss, n)
<1>1. F \in Seq(S) /\ \E e : Joined(ss, n, F, e)
  BY FlattenJoins
<1>2. PICK e : Joined(ss, n, F, e)
  BY <1>1
<1>3. Len(F) \in Nat /\ \A i \in 1..n : Len(ss[i]) \in Nat
  BY <1>1, LenProperties
<1>4. /\ e \in [0..n -> Nat] /\ e[0] = 0 /\ e[n] = Len(F)
      /\ \A i \in 1..n : /\ e[i] = e[i - 1] + Len(ss[i])
                         /\ \A k \in 1..Len(ss[i]) : F[e[i - 1] + k] = ss[i][k]
      /\ \A i, j \in 0..n : i <= j => e[i] <= e[j]
      /\ \A p \in 1..Len(F) : \E i \in 1..n : \E k \in 1..Len(ss[i]) : p = e[i - 1] + k
  BY <1>2 DEF Joined
<1>5. ASSUME NEW i \in 1..n
      PROVE  /\ i - 1 \in 0..n /\ e[i - 1] \in Nat /\ e[i] \in Nat
             /\ e[i] = e[i - 1] + Len(ss[i]) /\ e[i] <= Len(F)
  <2>1. i \in 0..n /\ n \in 0..n /\ i <= n /\ i - 1 \in 0..n
    BY <1>3
  <2> QED
    BY <1>4, <2>1
<1>6. ASSUME NEW i \in 1..n, NEW k \in 1..Len(ss[i])
      PROVE  \E p \in 1..Len(F) : F[p] = ss[i][k]
  <2> DEFINE l == Len(ss[i])
             p == e[i - 1] + k
  <2>1. l \in Nat /\ e[i] = e[i - 1] + l /\ e[i] <= Len(F) /\ e[i - 1] \in Nat /\ k \in 1..l
    BY <1>3, <1>5
  <2>2. F[p] = ss[i][k]
    BY <1>4
  <2>3. p \in 1..Len(F)
    <3> HIDE DEF l
    <3> QED
      BY <1>3, <2>1
  <2> QED
    BY <2>2, <2>3
<1>7. ASSUME NEW p \in 1..Len(F)
      PROVE  \E i \in 1..n : \E k \in 1..Len(ss[i]) :
                /\ F[p] = ss[i][k]
                /\ \A j \in 1..n : \A l \in 1..Len(ss[j]) :
                      j < i \/ (j = i /\ l < k) => \E q \in 1..(p - 1) : F[q] = ss[j][l]
  <2>1. PICK i \in 1..n : \E k \in 1..Len(ss[i]) : p = e[i - 1] + k
    BY <1>4
  <2>2. PICK k \in 1..Len(ss[i]) : p = e[i - 1] + k
    BY <2>1
  <2>3. F[p] = ss[i][k]
    BY <1>4, <2>2
  <2>4. ASSUME NEW j \in 1..n, NEW l \in 1..Len(ss[j]), j < i \/ (j = i /\ l < k)
        PROVE  \E q \in 1..(p - 1) : F[q] = ss[j][l]
    <3> DEFINE m == Len(ss[j])
               q == e[j - 1] + l
    <3>1. F[q] = ss[j][l]
      BY <1>4
    <3>2. /\ m \in Nat /\ l \in 1..m /\ k \in Nat \ {0} /\ e[j] = e[j - 1] + m
          /\ e[j - 1] \in Nat /\ e[j] \in Nat /\ e[i - 1] \in Nat
      BY <1>3, <1>5
    <3>4. /\ e[j] <= e[i - 1] => q \in 1..(p - 1)
          /\ j = i /\ l < k => q \in 1..(p - 1)
      <4> DEFINE a == e[j - 1]
                 b == e[i - 1]
                 c == e[j]
      <4>1. /\ a \in Nat /\ b \in Nat /\ c \in Nat /\ c = a + m /\ p = b + k
            /\ m \in Nat /\ l \in 1..m /\ k \in Nat \ {0} /\ (j = i => a = b)
        BY <2>2, <3>2
      <4> HIDE DEF a, b, c, m
      <4>2. /\ c <= b => a + l \in 1..(p - 1)
            /\ j = i /\ l < k => a + l \in 1..(p - 1)
        BY <4>1
      <4> QED
        BY <4>2 DEF a, b, c
    <3>3. q \in 1..(p - 1)
      <4>1. CASE j < i
        <5>1. j \in 0..n /\ i - 1 \in 0..n /\ j <= i - 1
          BY <1>3, <4>1
        <5>2. e[j] <= e[i - 1]
          BY <1>4, <5>1
        <5> QED
          BY <3>4, <5>2
      <4>2. CASE j = i /\ l < k
        BY <3>4, <4>2
      <4> QED
        BY <2>4, <4>1, <4>2
    <3> QED
      BY <3>1, <3>3
  <2> QED
    BY <2>3, <2>4
<1> QED
  BY <1>1, <1>6, <1>7 DEF InOrder

-----------------------------------------------------------------------------
(* The mechanisms a host has *)

Hosts == SUBSET {"scramp", "gssapi"}

\* The last one, and only that, is PLAIN.
PlainLast(s) ==
    /\ s \in Seq(PasswordBased \cup {"GSSAPI"})
    /\ Len(s) \in Nat \ {0}
    /\ \A j \in 1..Len(s) : s[j] = "PLAIN" <=> j = Len(s)

LEMMA Prepended ==
    ASSUME NEW s, PlainLast(s),
           NEW x \in (PasswordBased \cup {"GSSAPI"}) \ {"PLAIN"}
    PROVE  /\ PlainLast(<<x>> \o s)
           /\ ToSet(<<x>> \o s) = {x} \cup ToSet(s)
<1> DEFINE S == PasswordBased \cup {"GSSAPI"}
           one == <<x>>
           t == one \o s
           n == Len(s)
<1>1. one \in Seq(S) /\ Len(one) = 1 /\ one[1] = x
  OBVIOUS
<1>2. s \in Seq(S) /\ n \in Nat \ {0} /\ DOMAIN s = 1..n
      /\ \A j \in 1..n : s[j] = "PLAIN" <=> j = n
  BY LenProperties DEF PlainLast
<1> HIDE DEF one, n
<1>3. /\ t \in Seq(S) /\ Len(t) = 1 + n
      /\ \A i \in 1..(1 + n) : t[i] = IF i <= 1 THEN x ELSE s[i - 1]
  <2>1. /\ t \in Seq(S) /\ Len(t) = Len(one) + Len(s)
        /\ \A i \in 1..(Len(one) + Len(s)) :
              t[i] = IF i <= Len(one) THEN one[i] ELSE s[i - Len(one)]
    <3>1. one \in Seq(S) /\ s \in Seq(S)
      BY <1>1, <1>2
    <3> HIDE DEF S
    <3>2. /\ one \o s \in Seq(S) /\ Len(one \o s) = Len(one) + Len(s)
          /\ \A i \in 1..(Len(one) + Len(s)) :
                (one \o s)[i] = IF i <= Len(one) THEN one[i] ELSE s[i - Len(one)]
      BY <3>1, ConcatProperties
    <3> QED
      BY <3>2
  <2> HIDE DEF t, S
  <2>2. Len(s) = n
    BY DEF n
  <2>3. \A i \in 1..(1 + n) : t[i] = IF i <= 1 THEN one[i] ELSE s[i - 1]
    BY <1>1, <2>1, <2>2
  <2>4. \A i \in 1..(1 + n) : i <= 1 => i = 1
    BY <1>2
  <2> QED
    BY <1>1, <2>1, <2>2, <2>3, <2>4
<1>4. DOMAIN t = 1..(1 + n)
  BY <1>3, LenProperties
<1> HIDE DEF t
<1>5. t[1] = x /\ \A i \in 1..n : t[i + 1] = s[i]
  <2>1. \A i \in 1..n : i + 1 \in 1..(1 + n) /\ ~(i + 1 <= 1) /\ (i + 1) - 1 = i
    BY <1>2
  <2> QED
    BY <1>2, <1>3, <2>1
<1>6. \A i \in 1..(1 + n) : i = 1 \/ \E j \in 1..n : i = j + 1
  <2> SUFFICES ASSUME NEW i \in 1..(1 + n), i # 1
               PROVE  \E j \in 1..n : i = j + 1
    OBVIOUS
  <2>1. i - 1 \in 1..n /\ i = (i - 1) + 1
    BY <1>2
  <2> QED
    BY <2>1
<1>7. ASSUME NEW i \in 1..(1 + n)
      PROVE  t[i] = "PLAIN" <=> i = 1 + n
  <2>1. CASE i = 1
    BY <1>2, <1>5, <2>1
  <2>2. CASE i # 1
    <3>1. PICK j \in 1..n : i = j + 1
      BY <1>6, <2>2
    <3>2. t[i] = s[j] /\ (i = 1 + n <=> j = n)
      BY <1>2, <1>5, <3>1
    <3> QED
      BY <1>2, <3>2
  <2> QED
    BY <2>1, <2>2
<1>8. PlainLast(t)
  BY <1>2, <1>3, <1>7 DEF PlainLast
<1>9. ToSet(t) = {x} \cup ToSet(s)
  <2>1. 1 \in 1..(1 + n) /\ \A i \in 1..n : i + 1 \in 1..(1 + n)
    BY <1>2
  <2>2. ToSet(t) \subseteq {x} \cup ToSet(s)
    <3> SUFFICES ASSUME NEW i \in 1..(1 + n)
                 PROVE  t[i] \in {x} \cup ToSet(s)
      BY <1>4 DEF ToSet
    <3>1. CASE i = 1
      BY <1>5, <3>1
    <3>2. CASE i # 1
      <4>1. PICK j \in 1..n : i = j + 1
        BY <1>6, <3>2
      <4>2. t[i] = s[j] /\ j \in DOMAIN s
        BY <1>2, <1>5, <4>1
      <4> QED
        BY <4>2 DEF ToSet
    <3> QED
      BY <3>1, <3>2
  <2>3. {x} \cup ToSet(s) \subseteq ToSet(t)
    BY <1>2, <1>4, <1>5, <2>1 DEF ToSet
  <2> QED
    BY <2>2, <2>3
<1> QED
  BY <1>8, <1>9 DEF t, one

LEMMA Mechs ==
    ASSUME NEW ms \in Hosts
    PROVE  /\ PlainLast(MECHANISMS(ms))
           /\ ToSet(MECHANISMS(ms)) = ToSet(BuiltIn)
                 \cup (IF "scramp" \in ms THEN {"SCRAM-SHA-256"} ELSE {})
                 \cup (IF "gssapi" \in ms THEN {"GSSAPI"} ELSE {})
<1> DEFINE S == PasswordBased \cup {"GSSAPI"}
           scram == IF "scramp" \in ms THEN <<"SCRAM-SHA-256">> ELSE <<>>
           gssapi == IF "gssapi" \in ms THEN <<"GSSAPI">> ELSE <<>>
           two == scram \o BuiltIn
           three == gssapi \o two
<1>1. PlainLast(BuiltIn)
  BY DEF PlainLast, BuiltIn, PasswordBased
<1>2. /\ PlainLast(two)
      /\ ToSet(two) = ToSet(BuiltIn) \cup (IF "scramp" \in ms THEN {"SCRAM-SHA-256"} ELSE {})
  <2>1. CASE "scramp" \in ms
    <3>1. two = <<"SCRAM-SHA-256">> \o BuiltIn
      BY <2>1
    <3>2. "SCRAM-SHA-256" \in S \ {"PLAIN"}
      BY DEF PasswordBased
    <3>3. PlainLast(two) /\ ToSet(two) = {"SCRAM-SHA-256"} \cup ToSet(BuiltIn)
      BY <1>1, <3>1, <3>2, Prepended
    <3> HIDE DEF two
    <3> QED
      BY <2>1, <3>3
  <2>2. CASE "scramp" \notin ms
    <3>1. two = BuiltIn
      <4>1. BuiltIn \in Seq(S)
        BY <1>1 DEF PlainLast
      <4> QED
        BY <2>2, <4>1, ConcatEmptySeq
    <3> HIDE DEF two
    <3> QED
      BY <1>1, <2>2, <3>1
  <2> QED
    BY <2>1, <2>2
<1> HIDE DEF two
<1>3. /\ PlainLast(three)
      /\ ToSet(three) = ToSet(two) \cup (IF "gssapi" \in ms THEN {"GSSAPI"} ELSE {})
  <2>1. CASE "gssapi" \in ms
    <3>1. three = <<"GSSAPI">> \o two
      BY <2>1
    <3>2. "GSSAPI" \in S \ {"PLAIN"}
      OBVIOUS
    <3>3. PlainLast(three) /\ ToSet(three) = {"GSSAPI"} \cup ToSet(two)
      BY <1>2, <3>1, <3>2, Prepended
    <3> HIDE DEF three
    <3> QED
      BY <2>1, <3>3
  <2>2. CASE "gssapi" \notin ms
    <3>1. three = two
      <4>1. two \in Seq(S)
        BY <1>2 DEF PlainLast
      <4> QED
        BY <2>2, <4>1, ConcatEmptySeq
    <3> HIDE DEF three
    <3> QED
      BY <1>2, <2>2, <3>1
  <2> QED
    BY <2>1, <2>2
<1>4. MECHANISMS(ms) = three
  <2>1. scram \in Seq(S) /\ gssapi \in Seq(S) /\ BuiltIn \in Seq(S)
    <3>1. <<"SCRAM-SHA-256">> \in Seq(S) /\ <<"GSSAPI">> \in Seq(S) /\ <<>> \in Seq(S)
      BY DEF PasswordBased
    <3> QED
      BY <1>1, <3>1 DEF PlainLast
  <2>2. MECHANISMS(ms) = (gssapi \o scram) \o BuiltIn
    BY DEF MECHANISMS
  <2> HIDE DEF scram, gssapi
  <2>3. (gssapi \o scram) \o BuiltIn = gssapi \o (scram \o BuiltIn)
    BY <2>1, ConcatAssociative
  <2> QED
    BY <2>2, <2>3 DEF two
<1> HIDE DEF three
<1> QED
  BY <1>2, <1>3, <1>4

-----------------------------------------------------------------------------
(* expand_password *)

LEMMA LenOfMap ==
    ASSUME NEW n \in Nat, NEW Q, NEW ss \in [1..n -> Q]
    PROVE  ss \in Seq(Q) /\ Len(ss) = n /\ (Len(ss) = 0 => ss = <<>>)
<1>1. ss \in Seq(Q)
  BY SeqDef
<1>2. Len(ss) \in Nat /\ DOMAIN ss = 1..Len(ss)
  BY <1>1, LenProperties
<1>3. Len(ss) = n
  BY <1>2
<1>4. Len(ss) = 0 => ss = <<>>
  BY <1>1, EmptySeq
<1> QED
  BY <1>1, <1>3, <1>4

\* What PASSWORD stands for: the password mechanisms of the host, PLAIN last.
Stands(P, M) ==
    /\ P \in Seq(PasswordBased)
    /\ \A k \in 1..Len(P) : P[k] \in PasswordBased \cap ToSet(M)
    /\ \A m \in PasswordBased \cap ToSet(M) : \E k \in 1..Len(P) : P[k] = m
    /\ \A k \in 1..Len(P) : P[k] = "PLAIN" =>
          \A m \in (PasswordBased \cap ToSet(M)) \ {"PLAIN"} : \E l \in 1..(k - 1) : P[l] = m

LEMMA Passwords ==
    ASSUME NEW M, PlainLast(M)
    PROVE  Stands(OfPassword(M), M)
<1> DEFINE n == Len(M)
           ss == [j \in 1..n |-> IF M[j] \in PasswordBased THEN <<M[j]>> ELSE <<>>]
           P == FlattenSeq(ss)
<1>1. /\ n \in Nat \ {0} /\ DOMAIN M = 1..n
      /\ \A j \in 1..n : M[j] = "PLAIN" <=> j = n
  BY LenProperties DEF PlainLast
<1>2. OfPassword(M) = P
  BY <1>1 DEF OfPassword
<1>3. \A j \in 1..n : ss[j] \in Seq(PasswordBased)
  OBVIOUS
<1>4. ss \in [1..n -> Seq(PasswordBased)]
  OBVIOUS
<1>5. Len(ss) = n /\ (Len(ss) = 0 => ss = <<>>)
  BY <1>1, <1>4, LenOfMap, ZenonT(30)
<1>6. /\ \A j \in 1..n : /\ M[j] \in PasswordBased => Len(ss[j]) = 1 /\ ss[j][1] = M[j]
                         /\ M[j] \notin PasswordBased => Len(ss[j]) = 0
  OBVIOUS
<1> HIDE DEF n, ss, P
<1>14. P = FlattenSeq(ss)
  BY DEF P
<1>7. /\ P \in Seq(PasswordBased)
      /\ \A i \in 1..n : \A k \in 1..Len(ss[i]) : \E p \in 1..Len(P) : P[p] = ss[i][k]
      /\ \A p \in 1..Len(P) :
            \E i \in 1..n : \E k \in 1..Len(ss[i]) :
               /\ P[p] = ss[i][k]
               /\ \A j \in 1..n : \A l \in 1..Len(ss[j]) :
                     j < i \/ (j = i /\ l < k) => \E q \in 1..(p - 1) : P[q] = ss[j][l]
  <2> DEFINE S == PasswordBased
  <2>1. \A j \in 1..n : ss[j] \in Seq(S)
    BY <1>3
  <2> HIDE DEF S
  <2>2. P \in Seq(S) /\ InOrder(P, ss, n)
    BY <1>1, <1>5, <1>14, <2>1, FlattenOrder
  <2> QED
    BY <2>2 DEF S, InOrder
\* An entry of ss is there only for a password mechanism, and once.
<1>8. ASSUME NEW i \in 1..n, NEW k \in 1..Len(ss[i])
      PROVE  M[i] \in PasswordBased /\ k = 1 /\ ss[i][k] = M[i]
  <2>1. M[i] \in PasswordBased
    BY <1>6
  <2>2. Len(ss[i]) = 1 /\ ss[i][1] = M[i]
    BY <1>6, <2>1
  <2> QED
    BY <2>1, <2>2
<1>9. ASSUME NEW p \in 1..Len(P)
      PROVE  P[p] \in PasswordBased \cap ToSet(M)
  <2>1. PICK i \in 1..n : \E k \in 1..Len(ss[i]) : P[p] = ss[i][k]
    BY <1>7
  <2>2. P[p] = M[i] /\ M[i] \in PasswordBased
    BY <1>8, <2>1
  <2> QED
    BY <1>1, <2>2 DEF ToSet
<1>10. ASSUME NEW m \in PasswordBased \cap ToSet(M)
       PROVE  /\ \E j \in 1..n : M[j] = m /\ 1 \in 1..Len(ss[j]) /\ ss[j][1] = m
              /\ \E k \in 1..Len(P) : P[k] = m
  <2>1. PICK j \in 1..n : M[j] = m
    BY <1>1 DEF ToSet
  <2>2. 1 \in 1..Len(ss[j]) /\ ss[j][1] = m
    BY <1>6, <2>1
  <2>3. \E k \in 1..Len(P) : P[k] = ss[j][1]
    BY <1>7, <2>2
  <2> QED
    BY <2>1, <2>2, <2>3, Zenon
<1>11. ASSUME NEW p \in 1..Len(P), P[p] = "PLAIN",
              NEW m \in (PasswordBased \cap ToSet(M)) \ {"PLAIN"}
       PROVE  \E q \in 1..(p - 1) : P[q] = m
  <2>1. PICK i \in 1..n : \E k \in 1..Len(ss[i]) :
               /\ P[p] = ss[i][k]
               /\ \A j \in 1..n : \A l \in 1..Len(ss[j]) :
                     j < i \/ (j = i /\ l < k) => \E q \in 1..(p - 1) : P[q] = ss[j][l]
    BY <1>7
  <2>2. M[i] = "PLAIN"
    BY <1>8, <1>11, <2>1
  <2>3. PICK j \in 1..n : M[j] = m /\ 1 \in 1..Len(ss[j]) /\ ss[j][1] = m
    BY <1>10
  <2>4. j < i
    BY <1>1, <2>2, <2>3
  <2> QED
    BY <2>1, <2>3, <2>4
<1> QED
  BY <1>2, <1>7, <1>9, <1>10, <1>11 DEF Stands

\* The mechanisms that a list of names stands for: those that match one of
\* them, in the order of the names, and PLAIN last unless it is named.
Expands(X, names, M) ==
    /\ X \in Seq(Name)
    /\ names # <<>> => X # <<>>
    /\ names = <<>> => X = <<>>
    /\ \A p \in 1..Len(X) : X[p] \in ToSet(M) =>
          \E i \in 1..Len(names) :
             /\ Matches(X[p], names[i])
             /\ \A m \in ToSet(M) : \A j \in 1..(i - 1) :
                   Matches(m, names[j]) => \E q \in 1..(p - 1) : X[q] = m
             /\ X[p] = "PLAIN" /\ names[i] # "PLAIN" =>
                   \A m \in (PasswordBased \cap ToSet(M)) \ {"PLAIN"} :
                      \E q \in 1..(p - 1) : X[q] = m
    /\ \A m \in ToSet(M) : \A i \in 1..Len(names) :
          Matches(m, names[i]) => \E p \in 1..Len(X) : X[p] = m

LEMMA Expanded ==
    ASSUME NEW M, PlainLast(M), NEW names \in Seq(Name)
    PROVE  Expands(ExpandPassword(names, M), names, M)
<1> DEFINE n == Len(names)
           P == OfPassword(M)
           ss == [j \in 1..n |-> IF names[j] = "PASSWORD" THEN P ELSE <<names[j]>>]
           X == FlattenSeq(ss)
<1>1. n \in Nat /\ DOMAIN names = 1..n /\ \A j \in 1..n : names[j] \in Name
  BY LenProperties
<1>2. ExpandPassword(names, M) = X
  BY <1>1 DEF ExpandPassword
<1>3. Stands(P, M) /\ P \in Seq(PasswordBased) /\ P \in Seq(Name)
  <2>1. Stands(P, M)
    BY Passwords
  <2> HIDE DEF P
  <2>2. PasswordBased \subseteq Name
    BY DEF Name
  <2> QED
    BY <2>1, <2>2, SeqMonotonic DEF Stands
<1> HIDE DEF P
<1>4. \A j \in 1..n : ss[j] \in Seq(Name)
  <2> SUFFICES ASSUME NEW j \in 1..n
               PROVE  ss[j] \in Seq(Name)
    OBVIOUS
  <2> DEFINE S == Name
  <2>1. names[j] \in S
    BY <1>1
  <2> HIDE DEF S
  <2>2. <<names[j]>> \in Seq(S)
    BY <2>1
  <2> QED
    BY <1>3, <2>2 DEF S
<1>5. Len(ss) = n /\ (Len(ss) = 0 => ss = <<>>)
  <2>1. ss \in [1..n -> Seq(Name)]
    <3> DEFINE Q == Seq(Name)
    <3>1. \A j \in 1..n : ss[j] \in Q
      BY <1>4
    <3> HIDE DEF Q
    <3>2. ss \in [1..n -> Q]
      BY <3>1
    <3> QED
      BY <3>2 DEF Q
  <2> HIDE DEF ss
  <2> QED
    BY <1>1, <2>1, LenOfMap
<1>6. \A j \in 1..n : /\ names[j] = "PASSWORD" => ss[j] = P
                      /\ names[j] # "PASSWORD" => Len(ss[j]) = 1 /\ ss[j][1] = names[j]
  OBVIOUS
<1> HIDE DEF n, ss, X
<1>14. X = FlattenSeq(ss)
  BY DEF X
<1>7. /\ X \in Seq(Name)
      /\ \A i \in 1..n : \A k \in 1..Len(ss[i]) : \E p \in 1..Len(X) : X[p] = ss[i][k]
      /\ \A p \in 1..Len(X) :
            \E i \in 1..n : \E k \in 1..Len(ss[i]) :
               /\ X[p] = ss[i][k]
               /\ \A j \in 1..n : \A l \in 1..Len(ss[j]) :
                     j < i \/ (j = i /\ l < k) => \E q \in 1..(p - 1) : X[q] = ss[j][l]
  <2> DEFINE S == Name
  <2>1. \A j \in 1..n : ss[j] \in Seq(S)
    BY <1>4
  <2> HIDE DEF S
  <2>2. X \in Seq(S) /\ InOrder(X, ss, n)
    BY <1>1, <1>5, <1>14, <2>1, FlattenOrder
  <2> QED
    BY <2>2 DEF S, InOrder
\* A mechanism that matches a name is in its part, and only such are.
<1>8. ASSUME NEW m \in ToSet(M), NEW j \in 1..n, Matches(m, names[j])
      PROVE  \E l \in 1..Len(ss[j]) : ss[j][l] = m
  <2>1. m # "PASSWORD"
    <3>1. m \in PasswordBased \cup {"GSSAPI"}
      BY ElementOfSeq, LenProperties DEF PlainLast, ToSet
    <3> QED
      BY <3>1 DEF PasswordBased
  <2>2. CASE names[j] = "PASSWORD"
    <3>1. m \in PasswordBased /\ ss[j] = P
      BY <1>6, <1>8, <2>1, <2>2 DEF Matches
    <3> QED
      BY <1>3, <3>1 DEF Stands
  <2>3. CASE names[j] # "PASSWORD"
    <3>1. m = names[j] /\ Len(ss[j]) = 1 /\ ss[j][1] = names[j]
      BY <1>6, <1>8, <2>3 DEF Matches
    <3>2. 1 \in 1..Len(ss[j])
      BY <3>1
    <3> QED
      BY <3>1, <3>2
  <2> QED
    BY <2>2, <2>3
<1>9. ASSUME NEW i \in 1..n, NEW k \in 1..Len(ss[i])
      PROVE  Matches(ss[i][k], names[i])
  <2>1. CASE names[i] = "PASSWORD"
    <3>1. ss[i] = P
      BY <1>6, <2>1
    <3>2. ss[i][k] \in PasswordBased
      BY <1>3, <3>1 DEF Stands
    <3> QED
      BY <2>1, <3>2 DEF Matches
  <2>2. CASE names[i] # "PASSWORD"
    <3>1. Len(ss[i]) = 1 /\ ss[i][1] = names[i]
      BY <1>6, <2>2
    <3>2. k = 1
      BY <3>1
    <3> QED
      BY <3>1, <3>2 DEF Matches
  <2> QED
    BY <2>1, <2>2
<1>10. ASSUME NEW p \in 1..Len(X), X[p] \in ToSet(M)
       PROVE  \E i \in 1..n :
                 /\ Matches(X[p], names[i])
                 /\ \A m \in ToSet(M) : \A j \in 1..(i - 1) :
                       Matches(m, names[j]) => \E q \in 1..(p - 1) : X[q] = m
                 /\ X[p] = "PLAIN" /\ names[i] # "PLAIN" =>
                       \A m \in (PasswordBased \cap ToSet(M)) \ {"PLAIN"} :
                          \E q \in 1..(p - 1) : X[q] = m
  <2>1. PICK i \in 1..n : \E k \in 1..Len(ss[i]) :
               /\ X[p] = ss[i][k]
               /\ \A j \in 1..n : \A l \in 1..Len(ss[j]) :
                     j < i \/ (j = i /\ l < k) => \E q \in 1..(p - 1) : X[q] = ss[j][l]
    BY <1>7
  <2>2. PICK k \in 1..Len(ss[i]) :
               /\ X[p] = ss[i][k]
               /\ \A j \in 1..n : \A l \in 1..Len(ss[j]) :
                     j < i \/ (j = i /\ l < k) => \E q \in 1..(p - 1) : X[q] = ss[j][l]
    BY <2>1
  <2>3. Matches(X[p], names[i])
    BY <1>9, <2>2
  <2>4. ASSUME NEW m \in ToSet(M), NEW j \in 1..(i - 1), Matches(m, names[j])
        PROVE  \E q \in 1..(p - 1) : X[q] = m
    <3>1. j \in 1..n /\ j < i
      BY <1>1
    <3>2. PICK l \in 1..Len(ss[j]) : ss[j][l] = m
      BY <1>8, <2>4, <3>1
    <3>3. \E q \in 1..(p - 1) : X[q] = ss[j][l]
      BY <2>2, <3>1
    <3> QED
      BY <3>2, <3>3
  <2>5. ASSUME X[p] = "PLAIN", names[i] # "PLAIN",
               NEW m \in (PasswordBased \cap ToSet(M)) \ {"PLAIN"}
        PROVE  \E q \in 1..(p - 1) : X[q] = m
    <3>1. names[i] = "PASSWORD" /\ ss[i] = P
      BY <1>6, <2>3, <2>5 DEF Matches
    <3>5. k \in 1..Len(P) /\ P[k] = "PLAIN"
      BY <2>2, <2>5, <3>1
    <3>2. PICK l \in 1..(k - 1) : P[l] = m
      BY <1>3, <2>5, <3>5 DEF Stands
    <3>3. l \in 1..Len(ss[i]) /\ l < k
      <4>1. Len(P) \in Nat
        BY <1>3, LenProperties
      <4> QED
        BY <3>1, <4>1
    <3>4. \E q \in 1..(p - 1) : X[q] = ss[i][l]
      BY <2>2, <3>3
    <3> QED
      BY <3>1, <3>2, <3>4
  <2> QED
    BY <2>3, <2>4, <2>5
<1>11. ASSUME NEW m \in ToSet(M), NEW i \in 1..n, Matches(m, names[i])
       PROVE  \E p \in 1..Len(X) : X[p] = m
  <2>1. PICK l \in 1..Len(ss[i]) : ss[i][l] = m
    BY <1>8, <1>11
  <2> QED
    BY <1>7, <2>1
<1>12. names # <<>> => X # <<>>
  <2> SUFFICES ASSUME names # <<>>
               PROVE  \E p \in 1..Len(X) : TRUE
    OBVIOUS
  <2>1. n \in Nat \ {0}
    BY EmptySeq DEF n
  <2>2. PICK j \in 1..n : TRUE
    BY <2>1
  <2>3. CASE names[j] = "PASSWORD"
    <3> DEFINE last == Len(M)
    <3>1. last \in DOMAIN M /\ M[last] = "PLAIN"
      BY LenProperties DEF PlainLast
    <3>2. "PLAIN" \in ToSet(M) /\ Matches("PLAIN", names[j])
      BY <2>3, <3>1 DEF ToSet, Matches, PasswordBased
    <3> QED
      BY <1>11, <3>2
  <2>4. CASE names[j] # "PASSWORD"
    <3>1. 1 \in 1..Len(ss[j])
      BY <1>6, <2>4
    <3> QED
      BY <1>7, <3>1
  <2> QED
    BY <2>3, <2>4
<1>13. names = <<>> => X = <<>>
  <2> SUFFICES ASSUME names = <<>>
               PROVE  X = <<>>
    OBVIOUS
  <2>1. n = 0
    BY DEF n
  <2>2. ~ \E p \in 1..Len(X) : TRUE
    BY <1>7, <2>1
  <2>3. Len(X) \in Nat
    BY <1>7, LenProperties
  <2>4. Len(X) = 0
    BY <2>2, <2>3
  <2> QED
    BY <1>7, <2>4, EmptySeq
<1> QED
  BY <1>2, <1>7, <1>10, <1>11, <1>12, <1>13 DEF Expands, n

-----------------------------------------------------------------------------
(* pick_mechanism *)

Has == MECHANISMS(setting.clientHas)

\* What the client may use at all: it has it, the server offers it and the
\* command line lets it pass.
Fitting == ToSet(Has) \cap Restrictions

LEMMA SettingKnown ==
    ASSUME setting \in Setting
    PROVE  /\ PlainLast(Has)
           /\ setting.client # NotGiven => setting.client \in Seq(Name) \ {<<>>}
           /\ setting.url # NotGiven => setting.url \in Seq(Name) \ {<<>>}
           /\ setting.clientHas \in Hosts /\ setting.serverHas \in Hosts
           /\ Deciding \in Seq(Name) \ {<<>>}
<1>1. /\ setting.clientHas \in Modules /\ setting.serverHas \in Modules
      /\ setting.client \in ClientLists \cup {NotGiven}
      /\ setting.url \in UrlLists \cup {NotGiven}
  BY DEF Setting
<1>2. setting.clientHas \in Hosts /\ setting.serverHas \in Hosts
  BY <1>1, SelectionAssumption DEF Hosts
<1>3. /\ setting.client # NotGiven => setting.client \in Seq(Name) \ {<<>>}
      /\ setting.url # NotGiven => setting.url \in Seq(Name) \ {<<>>}
  BY <1>1, SelectionAssumption
<1>4. <<"PASSWORD">> \in Seq(Name) \ {<<>>}
  <2>1. "PASSWORD" \in Name
    BY DEF Name
  <2> DEFINE S == Name
  <2> HIDE DEF S
  <2>2. "PASSWORD" \in S => <<"PASSWORD">> \in Seq(S) \ {<<>>}
    OBVIOUS
  <2> QED
    BY <2>1, <2>2 DEF S
<1> QED
  BY <1>2, <1>3, <1>4, Mechs DEF Has, Deciding

\* The candidates are the expansion of the list that decides.
LEMMA CandidatesKnown ==
    ASSUME setting \in Setting
    PROVE  /\ Expands(Candidates, Deciding, Has)
           /\ setting.client = NotGiven => CliNames = <<>>
           /\ setting.client # NotGiven =>
                 CliNames # <<>> /\ Expands(CliNames, setting.client, Has)
<1>1. <<>> \in Seq(Name) /\ <<"PASSWORD">> \in Seq(Name)
  BY EmptySeq DEF Name
<1>2. /\ setting.client = NotGiven => CliNames = <<>>
      /\ setting.client # NotGiven =>
            CliNames # <<>> /\ Expands(CliNames, setting.client, Has)
  <2>1. CASE setting.client = NotGiven
    <3>1. CliNames = ExpandPassword(<<>>, Has)
      BY <2>1 DEF CliNames, Given, Has
    <3>2. Expands(CliNames, <<>>, Has)
      BY <1>1, <3>1, SettingKnown, Expanded
    <3> QED
      BY <2>1, <3>2 DEF Expands
  <2>2. CASE setting.client # NotGiven
    <3>1. CliNames = ExpandPassword(setting.client, Has)
      BY <2>2 DEF CliNames, Given, Has
    <3>2. Expands(CliNames, setting.client, Has)
      BY <2>2, <3>1, SettingKnown, Expanded
    <3> QED
      BY <2>2, <3>2, SettingKnown DEF Expands
  <2> QED
    BY <2>1, <2>2
<1>3. /\ setting.url = NotGiven => UrlNames = <<>>
      /\ setting.url # NotGiven =>
            UrlNames # <<>> /\ UrlNames = ExpandPassword(setting.url, Has)
  <2>1. CASE setting.url = NotGiven
    <3>1. UrlNames = ExpandPassword(<<>>, Has)
      BY <2>1 DEF UrlNames, Given, Has
    <3>2. Expands(UrlNames, <<>>, Has)
      BY <1>1, <3>1, SettingKnown, Expanded
    <3> QED
      BY <2>1, <3>2 DEF Expands
  <2>2. CASE setting.url # NotGiven
    <3>1. UrlNames = ExpandPassword(setting.url, Has)
      BY <2>2 DEF UrlNames, Given, Has
    <3>2. Expands(UrlNames, setting.url, Has)
      BY <2>2, <3>1, SettingKnown, Expanded
    <3> QED
      BY <2>2, <3>1, <3>2, SettingKnown DEF Expands
  <2> QED
    BY <2>1, <2>2
<1>4. Candidates = ExpandPassword(Deciding, Has)
  <2>1. CASE setting.url # NotGiven
    BY <1>3, <2>1 DEF Candidates, Deciding
  <2>2. CASE setting.url = NotGiven /\ setting.client # NotGiven
    <3>1. CliNames = ExpandPassword(setting.client, Has)
      BY <2>2 DEF CliNames, Given, Has
    <3> QED
      BY <1>2, <1>3, <2>2, <3>1 DEF Candidates, Deciding
  <2>3. CASE setting.url = NotGiven /\ setting.client = NotGiven
    BY <1>2, <1>3, <2>3 DEF Candidates, Deciding, Has
  <2> QED
    BY <2>1, <2>2, <2>3
<1>5. Expands(Candidates, Deciding, Has)
  BY <1>4, SettingKnown, Expanded
<1> QED
  BY <1>2, <1>5

\* A mechanism is usable if it fits and one of the deciding names matches it.
LEMMA UsableKnown ==
    ASSUME setting \in Setting
    PROVE  Usable = {m \in Fitting : \E i \in 1..Len(Deciding) : Matches(m, Deciding[i])}
<1>1. DOMAIN Deciding = 1..Len(Deciding)
  BY SettingKnown, LenProperties
<1>2. ASSUME NEW m \in ToSet(Has)
      PROVE  m \in Restrictions <=>
                /\ m \in offer
                /\ \/ setting.client = NotGiven
                   \/ \E i \in DOMAIN setting.client : Matches(m, setting.client[i])
  <2>1. CASE setting.client = NotGiven
    BY <2>1, CandidatesKnown DEF Restrictions
  <2>2. CASE setting.client # NotGiven
    <3> DEFINE X == CliNames
               C == setting.client
    <3>1. X # <<>> /\ Expands(X, C, Has)
      BY <2>2, CandidatesKnown
    <3>2. DOMAIN C = 1..Len(C)
      BY <2>2, SettingKnown, LenProperties
    <3>3. DOMAIN X = 1..Len(X)
      BY <3>1, LenProperties DEF Expands
    <3> HIDE DEF X, C
    <3>4. m \in ToSet(X) <=> \E i \in DOMAIN C : Matches(m, C[i])
      <4>1. ASSUME NEW p \in 1..Len(X), X[p] = m
            PROVE  \E i \in 1..Len(C) : Matches(m, C[i])
        BY <3>1, <4>1 DEF Expands
      <4>2. ASSUME NEW i \in 1..Len(C), Matches(m, C[i])
            PROVE  \E p \in 1..Len(X) : X[p] = m
        BY <3>1, <4>2 DEF Expands
      <4> QED
        BY <3>2, <3>3, <4>1, <4>2 DEF ToSet
    <3>5. Restrictions = offer \cap ToSet(X)
      BY <3>1 DEF Restrictions, X
    <3> QED
      BY <2>2, <3>4, <3>5 DEF C
  <2> QED
    BY <2>1, <2>2
<1> QED
  BY <1>1, <1>2 DEF Usable, Fitting, Has

\* pick_mechanism returns the first candidate that fits, if there is one.
LEMMA PickKnown ==
    ASSUME setting \in Setting, Pick
    PROVE  \/ /\ choice' = "none"
              /\ \A p \in 1..Len(Candidates) : Candidates[p] \notin Fitting
           \/ \E p \in 1..Len(Candidates) :
                 /\ choice' = Candidates[p]
                 /\ Candidates[p] \in Fitting
                 /\ \A q \in 1..(p - 1) : Candidates[q] \notin Fitting
<1> DEFINE X == Candidates
           I == {i \in 1..Len(X) : X[i] \in Fitting}
           first == IF I # {} THEN Min(I) ELSE 0
<1>1. choice' = IF first = 0 THEN "none" ELSE X[first]
  BY DEF Pick, SelectInSeq, Fitting, Has
<1>2. Len(X) \in Nat
  BY CandidatesKnown, LenProperties DEF Expands
<1> HIDE DEF X
<1>3. CASE I = {}
  BY <1>1, <1>3 DEF X
<1>4. CASE I # {}
  <2>1. I \subseteq Nat
    BY <1>2
  <2>2. \E x \in I : \A y \in I : x <= y
    BY <1>4, <2>1, Least
  <2>3. Min(I) \in I /\ \A y \in I : Min(I) <= y
    <3> HIDE DEF I
    <3> QED
      BY <2>2 DEF Min
  <2> DEFINE p == Min(I)
  <2>4. p \in 1..Len(X) /\ X[p] \in Fitting /\ first = p
    BY <1>4, <2>3
  <2>5. \A y \in I : p <= y
    BY <2>3
  <2>6. choice' = X[p]
    <3>1. first # 0
      BY <1>2, <2>4
    <3> QED
      BY <1>1, <2>4, <3>1
  <2> HIDE DEF p
  <2>7. ASSUME NEW q \in 1..(p - 1)
        PROVE  X[q] \notin Fitting
    <3>1. q \in 1..Len(X) /\ ~(p <= q)
      BY <1>2, <2>4
    <3> QED
      BY <2>5, <3>1
  <2> QED
    BY <2>4, <2>6, <2>7 DEF X
<1> QED
  BY <1>3, <1>4

-----------------------------------------------------------------------------
(* The theorems *)

IInv ==
    /\ SelectionTypeOK
    /\ choice # NotGiven => offer # NotGiven
    /\ UrlDecidesCommandLineRestricts
    /\ PlainIsLastResort

LEMMA HostsBelow == \A ms \in Hosts : ToSet(MECHANISMS(ms)) \subseteq ToSet(MECHANISMS({"scramp", "gssapi"}))
<1> TAKE ms \in Hosts
<1>1. {"scramp", "gssapi"} \in Hosts
  BY DEF Hosts
<1> QED
  BY <1>1, Mechs

LEMMA InitInv ==
    ASSUME Init
    PROVE  IInv
<1> DEFINE A == ToSet(MECHANISMS({"scramp", "gssapi"}))
<1>1. SelectionTypeOK
  <2>1. setting \in Setting /\ offer = NotGiven /\ choice = NotGiven
    BY DEF Init
  <2> HIDE DEF A
  <2>2. offer \in (SUBSET A) \cup {NotGiven} /\ choice \in A \cup {"none", NotGiven}
    BY <2>1
  <2> USE DEF A
  <2> QED
    BY <2>1, <2>2, Zenon DEF SelectionTypeOK
<1>2. NotGiven # "PLAIN"
  BY SelectionAssumption DEF Name, PasswordBased
<1> HIDE DEF A
<1> QED
  BY <1>1, <1>2 DEF Init, IInv, UrlDecidesCommandLineRestricts, PlainIsLastResort

LEMMA OfferStep ==
    ASSUME IInv, Offer
    PROVE  IInv'
<1>1. /\ offer = NotGiven /\ setting' = setting /\ choice' = choice /\ choice = NotGiven
      /\ offer' = PickMechanisms(setting.server, MECHANISMS(setting.serverHas))
  BY DEF IInv, Offer
<1>2. SelectionTypeOK'
  <2>1. offer' \subseteq ToSet(MECHANISMS(setting.serverHas))
    BY <1>1 DEF PickMechanisms
  <2>2. setting.serverHas \in Hosts
    BY SettingKnown DEF IInv, SelectionTypeOK
  <2> QED
    BY <1>1, <2>1, <2>2, HostsBelow DEF IInv, SelectionTypeOK
<1>3. NotGiven # "PLAIN"
  BY SelectionAssumption DEF Name, PasswordBased
<1> QED
  BY <1>1, <1>2, <1>3 DEF IInv, UrlDecidesCommandLineRestricts, PlainIsLastResort

LEMMA PickStep ==
    ASSUME IInv, Pick
    PROVE  IInv'
<1>1. /\ offer # NotGiven /\ setting' = setting /\ offer' = offer /\ setting \in Setting
  BY DEF IInv, Pick, SelectionTypeOK
<1>2. /\ Usable' = Usable /\ Deciding' = Deciding
  BY <1>1 DEF Usable, Deciding
<1> DEFINE X == Candidates
           D == Deciding
           U == {m \in Fitting : \E i \in 1..Len(D) : Matches(m, D[i])}
<1>3. Usable = U /\ DOMAIN D = 1..Len(D) /\ Len(D) \in Nat
  BY <1>1, UsableKnown, SettingKnown, LenProperties
<1>4. Expands(X, D, Has)
  BY <1>1, CandidatesKnown
<1>5. Fitting \subseteq ToSet(Has)
  BY DEF Fitting
<1>6. CASE /\ choice' = "none"
           /\ \A p \in 1..Len(X) : X[p] \notin Fitting
  <2>1. U = {}
    <3> SUFFICES ASSUME NEW m \in U
                 PROVE  FALSE
      OBVIOUS
    <3> HIDE DEF X, D
    <3>1. PICK i \in 1..Len(D) : Matches(m, D[i])
      OBVIOUS
    <3>2. PICK p \in 1..Len(X) : X[p] = m
      BY <1>4, <1>5, <3>1 DEF Expands
    <3> QED
      BY <1>6, <3>2
  <2>2. SelectionTypeOK'
    BY <1>1, <1>6 DEF IInv, SelectionTypeOK
  <2> QED
    BY <1>1, <1>2, <1>3, <1>6, <2>1, <2>2
    DEF IInv, UrlDecidesCommandLineRestricts, PlainIsLastResort
<1>7. ASSUME NEW p \in 1..Len(X), choice' = X[p], X[p] \in Fitting,
             \A q \in 1..(p - 1) : X[q] \notin Fitting
      PROVE  IInv'
  <2> DEFINE c == X[p]
  <2>1. PICK i \in 1..Len(D) :
           /\ Matches(c, D[i])
           /\ \A m \in ToSet(Has) : \A j \in 1..(i - 1) :
                 Matches(m, D[j]) => \E q \in 1..(p - 1) : X[q] = m
           /\ c = "PLAIN" /\ D[i] # "PLAIN" =>
                 \A m \in (PasswordBased \cap ToSet(Has)) \ {"PLAIN"} :
                    \E q \in 1..(p - 1) : X[q] = m
    <3> HIDE DEF X, D
    <3> QED
      BY <1>4, <1>5, <1>7 DEF Expands
  <2>2. c \in U
    BY <1>7, <2>1
  <2>3. \A m \in U : m \in ToSet(Has) /\ ~ \E q \in 1..(p - 1) : X[q] = m
    BY <1>5, <1>7
  <2> HIDE DEF U, X, D
  <2>4. \A m \in U, j \in 1..(i - 1) : ~Matches(m, D[j])
    BY <2>1, <2>3
  <2>5. c = "PLAIN" => U \cap PasswordBased = {"PLAIN"} \/ D[i] = "PLAIN"
    <3> SUFFICES ASSUME c = "PLAIN", D[i] # "PLAIN"
                 PROVE  U \cap PasswordBased = {"PLAIN"}
      OBVIOUS
    <3>1. \A m \in U \cap PasswordBased : m = "PLAIN"
      BY <2>1, <2>3
    <3>2. "PLAIN" \in U \cap PasswordBased
      BY <2>2 DEF PasswordBased
    <3> QED
      BY <3>1, <3>2
  <2>6. c \in ToSet(MECHANISMS({"scramp", "gssapi"}))
    <3>1. c \in ToSet(Has) /\ setting.clientHas \in Hosts
      BY <1>1, <1>5, <1>7, SettingKnown
    <3> QED
      BY <3>1, HostsBelow DEF Has
  <2>7. SelectionTypeOK'
    BY <1>1, <1>7, <2>6 DEF IInv, SelectionTypeOK
  <2>8. UrlDecidesCommandLineRestricts'
    <3>1. Usable' = U /\ U # {} /\ choice' \in U /\ choice' = c
      BY <1>2, <1>3, <1>7, <2>2
    <3>2. i \in DOMAIN Deciding' /\ Deciding' = D
      BY <1>2, <1>3 DEF D
    <3> QED
      BY <2>1, <2>4, <3>1, <3>2 DEF UrlDecidesCommandLineRestricts
  <2>9. PlainIsLastResort'
    <3>1. Usable' = U /\ choice' = c
      BY <1>2, <1>3, <1>7
    <3>2. i \in DOMAIN Deciding' /\ Deciding' = D
      BY <1>2, <1>3 DEF D
    <3> QED
      BY <2>5, <3>1, <3>2 DEF PlainIsLastResort
  <2> QED
    BY <1>1, <2>7, <2>8, <2>9 DEF IInv
<1> QED
  BY <1>1, <1>6, <1>7, PickKnown

LEMMA Invariant == Spec => []IInv
<1>1. ASSUME IInv, [Next]_vars
      PROVE  IInv'
  <2>1. CASE UNCHANGED vars
    <3>1. setting' = setting /\ offer' = offer /\ choice' = choice
      BY <2>1 DEF vars
    <3>2. Usable' = Usable /\ Deciding' = Deciding
      BY <3>1 DEF Usable, Deciding
    <3> QED
      BY <1>1, <3>1, <3>2 DEF IInv, SelectionTypeOK, UrlDecidesCommandLineRestricts, PlainIsLastResort
  <2> QED
    BY <1>1, <2>1, OfferStep, PickStep DEF Next
<1> QED
  BY InitInv, <1>1, PTL DEF Spec

\* What the server offers and what the client takes are mechanisms.
THEOREM SelectionTypeCorrect == Spec => []SelectionTypeOK
<1>1. IInv => SelectionTypeOK
  BY DEF IInv
<1> QED
  BY <1>1, Invariant, PTL

\* pick_mechanism follows the rule in its comment, whatever the two lists of
\* names are and however long, and whatever modules either host has.
THEOREM RuleFollowed == Spec => []UrlDecidesCommandLineRestricts
<1>1. IInv => UrlDecidesCommandLineRestricts
  BY DEF IInv
<1> QED
  BY <1>1, Invariant, PTL

\* A password goes out in the clear only where nothing else would do, or
\* where PLAIN was asked for.
THEOREM PlainComesLast == Spec => []PlainIsLastResort
<1>1. IInv => PlainIsLastResort
  BY DEF IInv
<1> QED
  BY <1>1, Invariant, PTL
=============================================================================
