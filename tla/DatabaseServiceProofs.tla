------------------------- MODULE DatabaseServiceProofs -------------------------
(***************************************************************************)
(* The properties of database-service, for any number of workers, keys,    *)
(* payloads and queries: what is stored stays readable, answers are not    *)
(* misread and come in order, callers see RecordStore, and QueryView       *)
(* evaluates a query as the service does.                                  *)
(*                                                                         *)
(* The invariant DbInv says what a file can hold while writers overlap and *)
(* what each handler has made sure of before the step it is at.  The       *)
(* hypotheses of the theorems are about the texts and the queries alone:   *)
(* TextsAreRead, which NothingIsMisread checks, and the conditions of      *)
(* FieldAssumption.                                                        *)
(*                                                                         *)
(* The recursive functions of the model go over numbers.  What they        *)
(* compute is shown by the least number at which it would fail.            *)
(***************************************************************************)
EXTENDS QueryView, SequenceTheorems, FiniteSetTheorems, TLAPS

-----------------------------------------------------------------------------
(* Numbers and the order of a sequence *)

(* A set of numbers that is not empty has a least one.                     *)
LEMMA LeastNumber ==
    ASSUME NEW T, T \subseteq Nat, T # {}
    PROVE  \E n \in T : \A m \in T : n <= m
<1> DEFINE Below == {0 .. n : n \in T}
<1>1. Below \subseteq FiniteSubsetsOf(Nat) /\ Below # {}
  <2>1. \A n \in T : IsFiniteSet(0 .. n) /\ 0 .. n \subseteq Nat
    BY FS_Interval
  <2> QED
    BY <2>1 DEF FiniteSubsetsOf
<1>2. PICK X \in Below : \A Y \in Below : <<Y, X>> \notin StrictSubsetOrdering(Nat)
  <2> HIDE DEF Below
  <2> QED
    BY <1>1, FS_StrictSubsetOrderingWellFounded, WFMin
<1>3. PICK n \in T : X = 0 .. n
  BY <1>2
<1>4. ASSUME NEW m \in T, m < n PROVE FALSE
  <2>1. 0 .. m \subseteq 0 .. n /\ 0 .. m # 0 .. n
    <3>1. n \in 0 .. n /\ n \notin 0 .. m
      BY <1>4
    <3> QED
      BY <1>4, <3>1
  <2>2. 0 .. m \in Below /\ 0 .. m \in SUBSET Nat /\ 0 .. n \in SUBSET Nat
    OBVIOUS
  <2>3. <<0 .. m, 0 .. n>> \in StrictSubsetOrdering(Nat)
    BY <2>1, <2>2 DEF StrictSubsetOrdering
  <2> QED
    BY <1>2, <1>3, <2>2, <2>3
<1> QED
  BY <1>3, <1>4

(* A part of 1 .. n that is not empty has a greatest number.               *)
LEMMA MaxIsLast ==
    ASSUME NEW n \in Nat, NEW I, I \subseteq 1 .. n, I # {}
    PROVE  Max(I) \in I /\ \A i \in I : i <= Max(I)
<1> DEFINE T == {n - i : i \in I}
<1>1. T \subseteq Nat /\ T # {}
  <2>1. \A i \in I : n - i \in Nat
    OBVIOUS
  <2> QED
    BY <2>1
<1>2. PICK m \in T : \A k \in T : m <= k
  <2> HIDE DEF T
  <2> QED
    BY <1>1, LeastNumber
<1>3. PICK i \in I : m = n - i
  BY <1>2
<1>4. \A j \in I : i >= j
  <2> SUFFICES ASSUME NEW j \in I PROVE i >= j
    OBVIOUS
  <2>1. n - j \in T
    OBVIOUS
  <2>2. n - i <= n - j
    BY <1>2, <1>3, <2>1
  <2> QED
    BY <2>2
<1> QED
  BY <1>3, <1>4 DEF Max

(* A part of 1 .. n that is not empty has a least number.                  *)
LEMMA MinIsFirst ==
    ASSUME NEW n \in Nat, NEW I, I \subseteq 1 .. n, I # {}
    PROVE  Min(I) \in I /\ \A i \in I : Min(I) <= i
<1>1. I \subseteq Nat
  OBVIOUS
<1>2. PICK i \in I : \A j \in I : i <= j
  BY <1>1, LeastNumber
<1> QED
  BY <1>1, <1>2 DEF Min

-----------------------------------------------------------------------------
(* The insertion sort *)

(* The definition of InsertAt, for a place that is no variable.            *)
LEMMA InsertAtIs ==
    ASSUME NEW s, NEW i, NEW e
    PROVE  InsertAt(s, i, e) = SubSeq(s, 1, i - 1) \o <<e>> \o SubSeq(s, i, Len(s))
BY DEF InsertAt

\* r is t with x behind its first p elements, where the comparator puts it.
IsPutAt(r, t, x, before, p) ==
    /\ \A i \in 1 .. p : r[i] = t[i]
    /\ r[p + 1] = x
    /\ \A i \in p + 1 .. Len(t) : r[i + 1] = t[i]
    /\ p > 0 => /\ <<x, t[1]>> \notin before
                /\ <<x, t[p]>> \notin before
                /\ \A i \in p + 1 .. Len(t) : <<x, t[i]>> \in before
    /\ p = 0 /\ Len(t) > 0 => <<x, t[1]>> \in before

(* One round of it puts x somewhere between the elements.                  *)
LEMMA InsertPutsBetween ==
    ASSUME NEW S, NEW t \in Seq(S), NEW x \in S, NEW before
    PROVE  /\ Insert(t, x, before) \in Seq(S)
           /\ Len(Insert(t, x, before)) = Len(t) + 1
           /\ \E p \in 0 .. Len(t) : IsPutAt(Insert(t, x, before), t, x, before, p)
<1> DEFINE r == Insert(t, x, before)
           ahead == {i \in DOMAIN t : <<x, t[i]>> \notin before}
<1>1. DOMAIN t = 1 .. Len(t) /\ Len(t) \in Nat
  OBVIOUS
<1>2. CASE 1 \in ahead
  <2> DEFINE p == Max(ahead)
  <2>1. p \in ahead /\ \A i \in ahead : i <= p
    BY <1>1, <1>2, MaxIsLast
  <2>2. r = InsertAt(t, p + 1, x)
    BY <1>2 DEF Insert
  <2>3. p \in 1 .. Len(t)
    BY <2>1, <1>1
  <2>3a. r = SubSeq(t, 1, p) \o <<x>> \o SubSeq(t, p + 1, Len(t))
    <3> HIDE DEF p, r
    <3> DEFINE j == p + 1
    <3>1. j - 1 = p
      BY <2>3
    <3> HIDE DEF j
    <3>2. InsertAt(t, j, x) = SubSeq(t, 1, j - 1) \o <<x>> \o SubSeq(t, j, Len(t))
      BY InsertAtIs
    <3>3. InsertAt(t, j, x) = SubSeq(t, 1, p) \o <<x>> \o SubSeq(t, j, Len(t))
      BY <3>1, <3>2
    <3> QED
      BY <2>2, <3>3 DEF j
  <2> HIDE DEF p, r
  <2> DEFINE front == SubSeq(t, 1, p)
             back  == SubSeq(t, p + 1, Len(t))
  <2>4. /\ front \in Seq(S) /\ Len(front) = p
        /\ \A i \in 1 .. p : front[i] = t[i]
    BY <2>3, <1>1
  <2>5. /\ back \in Seq(S) /\ Len(back) = Len(t) - p
        /\ \A i \in 1 .. Len(t) - p : back[i] = t[p + i]
    <3>1. \A i \in p + 1 .. Len(t) : t[i] \in S
      BY <2>3, <1>1
    <3>2. p + 1 \in Int /\ Len(t) \in Int
      BY <2>3
    <3>3. /\ back \in Seq(S)
          /\ Len(back) = IF p + 1 <= Len(t) THEN Len(t) - (p + 1) + 1 ELSE 0
          /\ \A i \in 1 .. Len(t) - (p + 1) + 1 : back[i] = t[p + 1 + i - 1]
      BY <3>1, <3>2, SubSeqProperties
    <3> HIDE DEF back
    <3>4. \A i \in 1 .. Len(t) - p : back[i] = t[p + i]
      <4> SUFFICES ASSUME NEW i \in 1 .. Len(t) - p PROVE back[i] = t[p + i]
        OBVIOUS
      <4>1. i \in 1 .. Len(t) - (p + 1) + 1 /\ p + 1 + i - 1 = p + i
        BY <2>3
      <4> QED
        BY <3>3, <4>1
    <3> QED
      BY <3>3, <3>4, <2>3
  <2> HIDE DEF front, back
  <2>6. r = (front \o <<x>>) \o back
    BY <2>3a DEF front, back
  <2>7. /\ <<x>> \in Seq(S) /\ Len(<<x>>) = 1 /\ <<x>>[1] = x
    OBVIOUS
  <2>8. /\ front \o <<x>> \in Seq(S) /\ Len(front \o <<x>>) = p + 1
        /\ \A i \in 1 .. p + 1 :
            (front \o <<x>>)[i] = IF i <= p THEN front[i] ELSE <<x>>[i - p]
    BY <2>4, <2>7, <2>3, ConcatProperties
  <2>9. /\ r \in Seq(S) /\ Len(r) = Len(t) + 1
        /\ \A i \in 1 .. Len(t) + 1 :
            r[i] = IF i <= p + 1 THEN (front \o <<x>>)[i] ELSE back[i - (p + 1)]
    <3> DEFINE most == front \o <<x>>
    <3>1. most \in Seq(S) /\ Len(most) = p + 1
      BY <2>8
    <3>2. p + 1 + (Len(t) - p) = Len(t) + 1
      BY <2>3
    <3> HIDE DEF most
    <3>3. /\ most \o back \in Seq(S)
          /\ Len(most \o back) = Len(most) + Len(back)
          /\ \A i \in 1 .. Len(most) + Len(back) :
                (most \o back)[i] = IF i <= Len(most) THEN most[i] ELSE back[i - Len(most)]
      BY <2>5, <3>1, ConcatProperties
    <3>4. r = most \o back
      BY <2>6 DEF most
    <3>5. /\ r \in Seq(S) /\ Len(r) = Len(t) + 1
          /\ \A i \in 1 .. Len(t) + 1 :
                r[i] = IF i <= p + 1 THEN most[i] ELSE back[i - (p + 1)]
      BY <2>5, <3>1, <3>2, <3>3, <3>4
    <3> QED
      BY <3>5 DEF most
  <2>10. \A i \in 1 .. p : r[i] = t[i]
    BY <2>3, <2>4, <2>8, <2>9
  <2>11. r[p + 1] = x
    BY <2>3, <2>7, <2>8, <2>9
  <2>12. \A i \in p + 1 .. Len(t) : r[i + 1] = t[i]
    <3> SUFFICES ASSUME NEW i \in p + 1 .. Len(t) PROVE r[i + 1] = t[i]
      OBVIOUS
    <3>1. r[i + 1] = back[i - p]
      BY <2>3, <2>9
    <3> QED
      BY <3>1, <2>3, <2>5
  <2>13. \A i \in p + 1 .. Len(t) : <<x, t[i]>> \in before
    <3> SUFFICES ASSUME NEW i \in p + 1 .. Len(t) PROVE <<x, t[i]>> \in before
      OBVIOUS
    <3>1. i \in DOMAIN t /\ ~ (i <= p)
      BY <1>1, <2>3
    <3>2. i \notin ahead
      BY <2>1, <3>1
    <3> QED
      BY <3>1, <3>2
  <2>14. <<x, t[1]>> \notin before /\ <<x, t[p]>> \notin before
    BY <2>1, <1>2
  <2>15. p \in 0 .. Len(t) /\ p # 0
    BY <2>3
  <2> HIDE DEF ahead
  <2> QED
    BY <2>9, <2>10, <2>11, <2>12, <2>13, <2>14, <2>15 DEF r, IsPutAt
<1>3. CASE 1 \notin ahead
  <2>1. r = <<x>> \o t
    BY <1>3 DEF Insert
  <2> HIDE DEF r
  <2>2. /\ <<x>> \in Seq(S) /\ Len(<<x>>) = 1 /\ <<x>>[1] = x
    OBVIOUS
  <2>3. /\ r \in Seq(S) /\ Len(r) = Len(t) + 1
        /\ \A i \in 1 .. Len(t) + 1 : r[i] = IF i <= 1 THEN <<x>>[i] ELSE t[i - 1]
    BY <2>1, <2>2, ConcatProperties
  <2>4. \A i \in 1 .. Len(t) : r[i + 1] = t[i]
    BY <2>3
  <2>5. Len(t) > 0 => <<x, t[1]>> \in before
    BY <1>1, <1>3
  <2> QED
    BY <2>2, <2>3, <2>4, <2>5 DEF r, IsPutAt
<1> QED
  BY <1>2, <1>3

(* The rounds of the sort, one per element.                                *)
LEMMA StdSortRounds ==
    ASSUME NEW s, NEW before, Len(s) \in Nat
    PROVE  \E f : /\ f[0] = <<>>
                  /\ \A n \in 1 .. Len(s) : f[n] = Insert(f[n - 1], s[n], before)
                  /\ StdSort(s, before) = f[Len(s)]
<1> DEFINE Round(m, f) == f = [n \in 0 .. m |->
                IF n = 0 THEN <<>> ELSE Insert(f[n - 1], s[n], before)]
           T == {m \in 0 .. Len(s) : ~ \E f : Round(m, f)}
<1>1. T = {}
  <2> SUFFICES ASSUME T # {} PROVE FALSE
    OBVIOUS
  <2>1. PICK m \in T : \A k \in T : m <= k
    <3>1. T \subseteq Nat
      OBVIOUS
    <3> HIDE DEF T
    <3> QED
      BY <3>1, LeastNumber
  <2>2. m # 0
    <3>1. Round(0, [n \in 0 .. 0 |-> <<>>])
      OBVIOUS
    <3> QED
      BY <3>1, <2>1
  <2>3. PICK g : Round(m - 1, g)
    BY <2>1, <2>2
  <2> DEFINE h == [n \in 0 .. m |-> IF n = m THEN Insert(g[m - 1], s[m], before) ELSE g[n]]
  <2>4. \A n \in 0 .. m :
            h[n] = IF n = 0 THEN <<>> ELSE Insert(h[n - 1], s[n], before)
    <3> SUFFICES ASSUME NEW n \in 0 .. m
                 PROVE  h[n] = IF n = 0 THEN <<>> ELSE Insert(h[n - 1], s[n], before)
      OBVIOUS
    <3>1. CASE n = 0
      BY <3>1, <2>2, <2>3
    <3>2. CASE n # 0 /\ n # m
      <4>1. n \in 1 .. m - 1 /\ n - 1 \in 0 .. m /\ n - 1 # m
        BY <3>2
      <4>2. h[n] = g[n] /\ h[n - 1] = g[n - 1]
        BY <4>1, <3>2
      <4>3. g[n] = Insert(g[n - 1], s[n], before)
        BY <4>1, <2>3
      <4> QED
        BY <4>1, <4>2, <4>3
    <3>3. CASE n = m
      <4>1. h[n] = Insert(g[m - 1], s[m], before)
        BY <3>3
      <4>2. h[m - 1] = g[m - 1]
        BY <2>1, <2>2
      <4> QED
        BY <4>1, <4>2, <3>3, <2>2
    <3> QED
      BY <3>1, <3>2, <3>3
  <2>5. Round(m, h)
    BY <2>4, Zenon
  <2> QED
    BY <2>1, <2>5
<1>2. \E f : Round(Len(s), f)
  BY <1>1
<1> DEFINE g == CHOOSE f : Round(Len(s), f)
<1>3. Round(Len(s), g)
  BY <1>2
<1>4. StdSort(s, before) = g[Len(s)]
  BY DEF StdSort
<1> HIDE DEF g
<1>5. g[0] = <<>>
  BY <1>3
<1>6. \A n \in 1 .. Len(s) : g[n] = Insert(g[n - 1], s[n], before)
  BY <1>3
<1> QED
  BY <1>4, <1>5, <1>6


\* In t, what comes first is related to what comes after it.
Ranked(t, G) == \A i, j \in DOMAIN t : i < j => <<t[i], t[j]>> \in G

\* What before says of two elements of S is what G says, at least.
Agrees(before, G, S) ==
    /\ \A x, y \in S : IF <<x, y>> \in before THEN <<x, y>> \in G ELSE <<y, x>> \in G
    /\ \A x, y, z \in S : <<x, y>> \in G /\ <<y, z>> \in G => <<x, z>> \in G

(* A round keeps the order that the comparator agrees with, and adds the   *)
(* element.                                                                *)
LEMMA InsertKeepsOrder ==
    ASSUME NEW S, NEW t \in Seq(S), NEW x \in S, NEW before
    PROVE  LET r == Insert(t, x, before)
           IN  /\ r \in Seq(S) /\ Len(r) = Len(t) + 1
               /\ ToSet(r) = ToSet(t) \union {x}
               /\ IsInjective(t) /\ x \notin ToSet(t) => IsInjective(r)
               /\ \A G : Agrees(before, G, S) /\ Ranked(t, G) => Ranked(r, G)
<1> DEFINE r == Insert(t, x, before)
<1>1. r \in Seq(S) /\ Len(r) = Len(t) + 1
  BY InsertPutsBetween
<1>0. PICK p \in 0 .. Len(t) : IsPutAt(r, t, x, before, p)
  BY InsertPutsBetween
<1> HIDE DEF r
<1>2. /\ \A i \in 1 .. p : r[i] = t[i]
      /\ r[p + 1] = x
      /\ \A i \in p + 1 .. Len(t) : r[i + 1] = t[i]
      /\ p > 0 => /\ <<x, t[p]>> \notin before
                  /\ \A i \in p + 1 .. Len(t) : <<x, t[i]>> \in before
      /\ p = 0 /\ Len(t) > 0 => <<x, t[1]>> \in before
  BY <1>0, Zenon DEF IsPutAt
<1>3. /\ Len(t) \in Nat /\ DOMAIN t = 1 .. Len(t)
      /\ DOMAIN r = 1 .. Len(t) + 1
      /\ \A i \in 1 .. Len(t) : t[i] \in S
  BY <1>1
\* Where the elements of r come from.
<1> DEFINE from(i) == IF i <= p THEN i ELSE i - 1
<1>4. \A i \in DOMAIN r : i # p + 1 => from(i) \in DOMAIN t /\ r[i] = t[from(i)]
  <2> SUFFICES ASSUME NEW i \in DOMAIN r, i # p + 1
               PROVE  from(i) \in DOMAIN t /\ r[i] = t[from(i)]
    OBVIOUS
  <2>1. CASE i <= p
    BY <2>1, <1>2, <1>3
  <2>2. CASE i > p
    <3>1. i - 1 \in p + 1 .. Len(t) /\ i - 1 + 1 = i
      BY <2>2, <1>3
    <3>2. r[i] = t[i - 1]
      BY <1>2, <3>1
    <3> QED
      BY <2>2, <1>3, <3>1, <3>2
  <2> QED
    BY <2>1, <2>2, <1>3
<1>5. p + 1 \in DOMAIN r
  BY <1>3
<1>6. ToSet(r) = ToSet(t) \union {x}
  <2>1. \A i \in DOMAIN r : r[i] \in ToSet(t) \union {x}
    BY <1>2, <1>4 DEF ToSet
  <2>2. \A i \in DOMAIN t : t[i] \in ToSet(r)
    <3> SUFFICES ASSUME NEW i \in DOMAIN t PROVE t[i] \in ToSet(r)
      OBVIOUS
    <3>1. CASE i <= p
      BY <3>1, <1>2, <1>3 DEF ToSet
    <3>2. CASE i > p
      <4>1. i + 1 \in DOMAIN r /\ i \in p + 1 .. Len(t)
        BY <3>2, <1>3
      <4> QED
        BY <4>1, <1>2 DEF ToSet
    <3> QED
      BY <3>1, <3>2, <1>3
  <2>3. x \in ToSet(r)
    BY <1>2, <1>5 DEF ToSet
  <2> QED
    BY <2>1, <2>2, <2>3 DEF ToSet
<1>7. ASSUME IsInjective(t), x \notin ToSet(t) PROVE IsInjective(r)
  <2> SUFFICES ASSUME NEW i \in DOMAIN r, NEW j \in DOMAIN r, r[i] = r[j]
               PROVE  i = j
    BY DEF IsInjective
  <2>1. \A k \in DOMAIN t : t[k] # x
    BY <1>7 DEF ToSet
  <2>2. CASE i = p + 1 \/ j = p + 1
    BY <2>1, <2>2, <1>2, <1>4
  <2>3. CASE i # p + 1 /\ j # p + 1
    <3>1. from(i) = from(j)
      <4>1. from(i) \in DOMAIN t /\ from(j) \in DOMAIN t /\ t[from(i)] = t[from(j)]
        BY <2>3, <1>4
      <4> HIDE DEF from
      <4> QED
        BY <4>1, <1>7 DEF IsInjective
    <3> QED
      BY <3>1, <2>3, <1>3
  <2> QED
    BY <2>2, <2>3
<1>8. ASSUME NEW G, Agrees(before, G, S), Ranked(t, G) PROVE Ranked(r, G)
  <2>1. \A i \in 1 .. p : <<t[i], x>> \in G
    <3> SUFFICES ASSUME NEW i \in 1 .. p PROVE <<t[i], x>> \in G
      OBVIOUS
    <3>1. p \in DOMAIN t /\ i \in DOMAIN t /\ t[p] \in S /\ t[i] \in S
      BY <1>3
    <3>2. <<x, t[p]>> \notin before
      BY <1>2, <1>3
    <3>3. <<t[p], x>> \in G
      BY <1>8, <3>1, <3>2 DEF Agrees
    <3>4. i = p \/ <<t[i], t[p]>> \in G
      BY <1>8, <3>1, <1>3 DEF Ranked
    <3> QED
      BY <1>8, <3>1, <3>3, <3>4 DEF Agrees
  <2>2. \A i \in p + 1 .. Len(t) : <<x, t[i]>> \in G
    <3> SUFFICES ASSUME NEW i \in p + 1 .. Len(t) PROVE <<x, t[i]>> \in G
      OBVIOUS
    <3>1. i \in DOMAIN t /\ t[i] \in S
      BY <1>3
    <3>2. CASE p > 0
      <4>1. <<x, t[i]>> \in before
        BY <1>2, <3>2
      <4> QED
        BY <4>1, <3>1, <1>8 DEF Agrees
    <3>3. CASE p = 0
      <4>1. 1 \in DOMAIN t /\ t[1] \in S /\ Len(t) > 0
        BY <1>3
      <4>2. <<x, t[1]>> \in G
        BY <4>1, <1>2, <3>3, <1>8 DEF Agrees
      <4>3. i = 1 \/ <<t[1], t[i]>> \in G
        BY <3>1, <4>1, <1>3, <1>8 DEF Ranked
      <4> QED
        BY <3>1, <4>1, <4>2, <4>3, <1>8 DEF Agrees
    <3> QED
      BY <3>2, <3>3
  <2> SUFFICES ASSUME NEW i \in DOMAIN r, NEW j \in DOMAIN r, i < j
               PROVE  <<r[i], r[j]>> \in G
    BY DEF Ranked
  <2>3. CASE i = p + 1
    <3>1. j - 1 \in p + 1 .. Len(t) /\ j # p + 1 /\ from(j) = j - 1
      BY <2>3, <1>3
    <3> QED
      BY <3>1, <2>2, <2>3, <1>2, <1>4
  <2>4. CASE j = p + 1
    <3>1. i \in 1 .. p /\ i # p + 1 /\ from(i) = i
      BY <2>4, <1>3
    <3> QED
      BY <3>1, <2>1, <2>4, <1>2, <1>4
  <2>5. CASE i # p + 1 /\ j # p + 1
    <3>1. from(i) < from(j)
      BY <2>5, <1>3
    <3>2. /\ from(i) \in DOMAIN t /\ from(j) \in DOMAIN t
          /\ r[i] = t[from(i)] /\ r[j] = t[from(j)]
      BY <2>5, <1>4
    <3> HIDE DEF from
    <3> QED
      BY <3>1, <3>2, <1>8 DEF Ranked
  <2> QED
    BY <2>3, <2>4, <2>5
<1> QED
  BY <1>1, <1>6, <1>7, <1>8 DEF r

(* std::sort as libstdc++ sorts up to 16 elements: whatever the comparator *)
(* says, the result has the elements of the sequence; and it is in every   *)
(* order that the comparator agrees with, be that a strict one or, as that *)
(* of a descending ORDER_BY, one by which equals come before one another.  *)
LEMMA StdSortSorts ==
    ASSUME NEW S, NEW s \in Seq(S), NEW before
    PROVE  LET t == StdSort(s, before)
           IN  /\ t \in Seq(S) /\ Len(t) = Len(s)
               /\ ToSet(t) = ToSet(s)
               /\ IsInjective(s) => IsInjective(t)
               /\ \A G : Agrees(before, G, S) => Ranked(t, G)
<1>1. Len(s) \in Nat /\ DOMAIN s = 1 .. Len(s) /\ \A i \in 1 .. Len(s) : s[i] \in S
  OBVIOUS
<1>2. PICK f : /\ f[0] = <<>>
               /\ \A n \in 1 .. Len(s) : f[n] = Insert(f[n - 1], s[n], before)
               /\ StdSort(s, before) = f[Len(s)]
  BY <1>1, StdSortRounds
<1> DEFINE upTo(n) == {s[i] : i \in 1 .. n}
           P(n) == /\ f[n] \in Seq(S) /\ Len(f[n]) = n
                   /\ ToSet(f[n]) = upTo(n)
                   /\ IsInjective(s) => IsInjective(f[n])
                   /\ \A G : Agrees(before, G, S) => Ranked(f[n], G)
           T == {n \in 0 .. Len(s) : ~ P(n)}
<1>3. P(0)
  <2>1. <<>> \in Seq(S) /\ Len(<<>>) = 0 /\ DOMAIN <<>> = {}
    OBVIOUS
  <2>2. ToSet(<<>>) = upTo(0)
    BY <2>1 DEF ToSet
  <2>3. IsInjective(<<>>) /\ \A G : Ranked(<<>>, G)
    BY <2>1 DEF IsInjective, Ranked
  <2> QED
    BY <1>2, <2>1, <2>2, <2>3
<1>4. ASSUME NEW n \in 1 .. Len(s), P(n - 1) PROVE P(n)
  <2>1. /\ f[n] = Insert(f[n - 1], s[n], before) /\ s[n] \in S
        /\ n - 1 + 1 = n /\ n \in DOMAIN s
    BY <1>1, <1>2
  <2>2. /\ f[n] \in Seq(S) /\ Len(f[n]) = Len(f[n - 1]) + 1
        /\ ToSet(f[n]) = ToSet(f[n - 1]) \union {s[n]}
        /\ IsInjective(f[n - 1]) /\ s[n] \notin ToSet(f[n - 1]) => IsInjective(f[n])
        /\ \A G : Agrees(before, G, S) /\ Ranked(f[n - 1], G) => Ranked(f[n], G)
    BY <1>4, <2>1, InsertKeepsOrder
  <2>3. ToSet(f[n]) = upTo(n)
    <3>1. upTo(n) = upTo(n - 1) \union {s[n]}
      OBVIOUS
    <3> QED
      BY <1>4, <2>2, <3>1
  <2>4. IsInjective(s) => s[n] \notin upTo(n - 1)
    BY <1>1, <2>1 DEF IsInjective
  <2>5. IsInjective(s) => IsInjective(f[n])
    BY <1>4, <2>2, <2>4
  <2>6. \A G : Agrees(before, G, S) => Ranked(f[n], G)
    BY <1>4, <2>2
  <2>7. Len(f[n]) = n
    BY <1>4, <2>1, <2>2
  <2> QED
    BY <2>2, <2>3, <2>5, <2>6, <2>7
<1>5. T = {}
  <2> SUFFICES ASSUME T # {} PROVE FALSE
    OBVIOUS
  <2>1. PICK n \in T : \A m \in T : n <= m
    <3>1. T \subseteq Nat
      OBVIOUS
    <3> HIDE DEF T
    <3> QED
      BY <3>1, LeastNumber
  <2>2. n \in 0 .. Len(s) /\ ~ P(n)
    OBVIOUS
  <2> HIDE DEF P
  <2>3. n \in 1 .. Len(s) /\ n - 1 \in 0 .. Len(s) /\ ~ (n <= n - 1)
    BY <2>2, <1>3, <1>1
  <2>4. P(n - 1)
    BY <2>1, <2>3
  <2> QED
    BY <2>2, <2>3, <2>4, <1>4
<1>6. P(Len(s))
  <2> HIDE DEF P
  <2> QED
    BY <1>5, <1>1
<1>7. upTo(Len(s)) = ToSet(s)
  BY <1>1 DEF ToSet
<1> QED
  BY <1>2, <1>6, <1>7

-----------------------------------------------------------------------------
(* The inductive invariant *)

Upserts == [stage : UpsertStages, key : Keys, payload : Payloads]

Lookups ==
    [stage : {"list", "read", "answer", "failed"}, query : Queries,
     todo : SUBSET Keys, found : Seq(Keys \X Texts)]

Jobs == {IdleJob} \union Upserts \union Lookups

DbTypeOK ==
    /\ dir \in BOOLEAN
    /\ file \in [Keys -> Texts \union {Empty, Absent}]
    /\ job \in [Workers -> Jobs]
    /\ stored \in [Keys -> Payloads \union {Absent}]
    /\ cut \in BOOLEAN

\* Where no directory is, no file is; a text in a file has a value that some
\* payload has, or none if it was cut short.
FilesAreRead ==
    \A k \in Keys :
        /\ ~ dir => file[k] = Absent
        /\ file[k] \in Texts =>
            /\ Parsed[file[k]] \in Values \union {Fail}
            /\ cut \/ Parsed[file[k]] # Fail

\* An upsert that opens the file has its directory; one that writes has made
\* the file, and has JSON to write.
WritersAreReady ==
    \A w \in Workers :
        /\ job[w].stage = "open" => dir
        /\ job[w].stage = "write" =>
            file[job[w].key] # Absent /\ Meaning[job[w].payload] # Fail

HasStep(q, type) == \E i \in DOMAIN q : q[i].type = type

\* Each record is found once, and has a value that the query could look at.
FoundOnce(jb) ==
    /\ jb.stage = "list" => jb.found = <<>>
    /\ \A i, j \in DOMAIN jb.found : i # j => jb.found[i][1] # jb.found[j][1]
    /\ \A i \in DOMAIN jb.found :
        /\ jb.found[i][1] \notin jb.todo
        /\ Parsed[jb.found[i][2]] \in Values \union {Fail}
        /\ HasStep(jb.query, "WHERE") => Parsed[jb.found[i][2]] # Fail

ReadersAreReady ==
    \A w \in Workers : job[w] \in Lookups =>
        /\ \A k \in job[w].todo : file[k] # Absent
        /\ FoundOnce(job[w])
        /\ cut \/ \A i \in DOMAIN job[w].found : Parsed[job[w].found[i][2]] # Fail
        /\ job[w].stage = "answer" /\ HasStep(job[w].query, "ORDER_BY") =>
            \A i \in DOMAIN job[w].found : Parsed[job[w].found[i][2]] # Fail

DbInv ==
    /\ DbTypeOK
    /\ FilesAreRead
    /\ WritersAreReady
    /\ StoredIsReadable
    /\ ReadersAreReady

-----------------------------------------------------------------------------
(* Queries *)

(* LastStep finds a step of the type if there is one, and 0 if not.        *)
LEMMA LastStepIs ==
    ASSUME NEW q \in Queries, NEW type
    PROVE  /\ HasStep(q, type) => /\ LastStep(q, type) \in DOMAIN q
                                  /\ q[LastStep(q, type)].type = type
                                  /\ LastStep(q, type) # 0
           /\ ~ HasStep(q, type) => LastStep(q, type) = 0
<1> DEFINE I == {i \in 1 .. Len(q) : q[i].type = type}
<1>1. Len(q) \in Nat /\ DOMAIN q = 1 .. Len(q)
  BY QueryAssumption
<1>2. LastStep(q, type) = IF I # {} THEN Max(I) ELSE 0
  BY DEF LastStep, SelectLastInSubSeq
<1>3. HasStep(q, type) <=> I # {}
  BY <1>1 DEF HasStep
<1>4. I # {} => Max(I) \in I
  <2>1. I \subseteq 1 .. Len(q)
    OBVIOUS
  <2> HIDE DEF I
  <2> QED
    BY <1>1, <2>1, MaxIsLast
<1> QED
  BY <1>1, <1>2, <1>3, <1>4

(* Evaluate has three results; a text that is no JSON meets no WHERE, and  *)
(* a value that has the fields is no error.                                *)
LEMMA EvaluateIs ==
    ASSUME NEW q \in Queries, NEW v
    PROVE  /\ Evaluate(v, q) \in {"match", "error", "no match"}
           /\ v = Fail /\ HasStep(q, "WHERE") => Evaluate(v, q) # "match"
           /\ (\A i \in DOMAIN q : q[i].type = "WHERE" =>
                   ExtractFieldValue(v, q[i].field) # Fail)
              => Evaluate(v, q) # "error"
<1> DEFINE conditions == {i \in DOMAIN q : q[i].type = "WHERE"}
           value == [i \in conditions |-> ExtractFieldValue(v, q[i].field)]
           ends  == {i \in conditions :
                       \/ value[i] = Fail
                       \/ ~ CompareValues(value[i], q[i].operator, q[i].value)}
<1>1. Evaluate(v, q) = IF ends = {} THEN "match"
                       ELSE IF value[Min(ends)] = Fail THEN "error" ELSE "no match"
  BY DEF Evaluate
<1>2. ASSUME v = Fail, HasStep(q, "WHERE") PROVE ends # {}
  <2>1. PICK i \in conditions : TRUE
    BY <1>2 DEF HasStep
  <2>2. value[i] = Fail
    BY <1>2 DEF ExtractFieldValue
  <2> QED
    BY <2>1, <2>2
<1>3. ASSUME \A i \in DOMAIN q : q[i].type = "WHERE" =>
                ExtractFieldValue(v, q[i].field) # Fail, ends # {}
      PROVE  value[Min(ends)] # Fail
  <2>1. Len(q) \in Nat /\ ends \subseteq 1 .. Len(q)
    BY QueryAssumption
  <2>2. ends \subseteq conditions
    OBVIOUS
  <2>3. Min(ends) \in ends
    <3> HIDE DEF ends
    <3> QED
      BY <1>3, <2>1, MinIsFirst
  <2>4. Min(ends) \in conditions
    BY <2>2, <2>3
  <2> HIDE DEF ends
  <2> QED
    BY <1>3, <2>4
<1> HIDE DEF ends, value
<1> QED
  BY <1>1, <1>2, <1>3

(* What a query finds, in the order that it asks for.                      *)
LEMMA SortedIs ==
    ASSUME NEW q \in Queries, NEW found \in Seq(Keys \X Texts)
    PROVE  LET t == Sorted(q, found)
           IN  /\ t \in Seq(Keys \X Texts)
               /\ Len(t) = Len(found)
               /\ ToSet(t) = ToSet(found)
               /\ IsInjective(found) => IsInjective(t)
<1>1. CASE LastStep(q, "ORDER_BY") = 0
  BY <1>1 DEF Sorted
<1>2. CASE LastStep(q, "ORDER_BY") # 0
  <2> DEFINE orderBy == q[LastStep(q, "ORDER_BY")]
             before == {ab \in ToSet(found) \X ToSet(found) :
                           Less(Parsed[ab[1][2]], Parsed[ab[2][2]], orderBy.field)
                               = (orderBy.direction = "asc")}
  <2>1. Sorted(q, found) = StdSort(found, before)
    BY <1>2 DEF Sorted, SortRecords
  <2> HIDE DEF before
  <2>2. LET t == StdSort(found, before)
        IN  /\ t \in Seq(Keys \X Texts) /\ Len(t) = Len(found)
            /\ ToSet(t) = ToSet(found)
            /\ IsInjective(found) => IsInjective(t)
    BY StdSortSorts, Zenon
  <2> QED
    BY <2>1, <2>2
<1> QED
  BY <1>1, <1>2

(* The answer is the beginning of that, as long as LIMIT allows.           *)
LEMMA AnswerIs ==
    ASSUME NEW q \in Queries, NEW found \in Seq(Keys \X Texts)
    PROVE  LET t == Sorted(q, found)
               r == Answer(q, found)
           IN  /\ r \in Seq(Keys \X Texts)
               /\ Len(r) <= Len(t)
               /\ \A i \in 1 .. Len(r) : r[i] = t[i]
               /\ Len(r) = Len(t) \/ (LimitOf(q) > 0 /\ Len(r) = LimitOf(q))
               /\ LimitOf(q) > 0 => Len(r) <= LimitOf(q)
<1> DEFINE t == Sorted(q, found)
           n == LimitOf(q)
<1>1. t \in Seq(Keys \X Texts) /\ Len(t) \in Nat
  BY SortedIs
<1>2. n \in Nat
  <2>1. CASE ~ HasStep(q, "LIMIT")
    BY <2>1, LastStepIs DEF LimitOf
  <2>2. CASE HasStep(q, "LIMIT")
    BY <2>2, LastStepIs, QueryAssumption DEF LimitOf
  <2> QED
    BY <2>1, <2>2
<1>3. Answer(q, found) = Truncated(t, n)
  BY DEF Answer
<1> HIDE DEF t, n
<1>4. CASE n > 0 /\ Len(t) > n
  <2>1. Truncated(t, n) = SubSeq(t, 1, n)
    BY <1>4 DEF Truncated
  <2>2. /\ SubSeq(t, 1, n) \in Seq(Keys \X Texts) /\ Len(SubSeq(t, 1, n)) = n
        /\ \A i \in 1 .. n : SubSeq(t, 1, n)[i] = t[i]
    BY <1>1, <1>2, <1>4
  <2> QED
    BY <1>1, <1>2, <1>3, <1>4, <2>1, <2>2 DEF t, n
<1>5. CASE ~ (n > 0 /\ Len(t) > n)
  <2>1. Truncated(t, n) = t
    BY <1>5 DEF Truncated
  <2> QED
    BY <1>1, <1>2, <1>3, <1>5, <2>1 DEF t, n
<1> QED
  BY <1>4, <1>5

(* Records with keys of their own keep them in the answer, which has no    *)
(* others.                                                                 *)
LEMMA AnswerKeeps ==
    ASSUME NEW q \in Queries, NEW found \in Seq(Keys \X Texts),
           \A i, j \in DOMAIN found : i # j => found[i][1] # found[j][1]
    PROVE  LET t == Sorted(q, found)
               r == Answer(q, found)
           IN  /\ \A i, j \in DOMAIN t : i # j => t[i][1] # t[j][1]
               /\ \A i, j \in DOMAIN r : i # j => r[i][1] # r[j][1]
               /\ \A i \in DOMAIN r : \E j \in DOMAIN found : r[i] = found[j]
<1> DEFINE t == Sorted(q, found)
           r == Answer(q, found)
<1>1. IsInjective(found)
  BY DEF IsInjective
<1>2. IsInjective(t) /\ ToSet(t) = ToSet(found) /\ t \in Seq(Keys \X Texts)
  BY <1>1, SortedIs
<1>3. /\ r \in Seq(Keys \X Texts) /\ Len(r) <= Len(t)
      /\ \A i \in 1 .. Len(r) : r[i] = t[i]
  BY AnswerIs
<1> HIDE DEF t, r
<1>4. \A i \in DOMAIN t : \E j \in DOMAIN found : t[i] = found[j]
  BY <1>2 DEF ToSet
<1>5. \A i, j \in DOMAIN t : i # j => t[i][1] # t[j][1]
  <2> SUFFICES ASSUME NEW i \in DOMAIN t, NEW j \in DOMAIN t, i # j
               PROVE  t[i][1] # t[j][1]
    OBVIOUS
  <2>1. t[i] # t[j]
    BY <1>2 DEF IsInjective
  <2>2. PICK a \in DOMAIN found : t[i] = found[a]
    BY <1>4
  <2>3. PICK b \in DOMAIN found : t[j] = found[b]
    BY <1>4
  <2> QED
    BY <2>1, <2>2, <2>3
<1>6. \A i \in DOMAIN r : i \in DOMAIN t /\ r[i] = t[i]
  <2>1. DOMAIN t = 1 .. Len(t) /\ DOMAIN r = 1 .. Len(r)
    BY <1>2, <1>3
  <2>2. Len(t) \in Nat /\ Len(r) \in Nat
    BY <1>2, <1>3
  <2> QED
    BY <1>3, <2>1, <2>2
<1> QED
  BY <1>4, <1>5, <1>6 DEF t, r

-----------------------------------------------------------------------------
(* The order of values *)

\* The first n bytes of s and t are the same, and s ends there or has the
\* smaller one behind.
PartsBelow(s, t, n) ==
    /\ n <= Len(s) /\ n < Len(t)
    /\ \A i \in 1 .. n : s[i] = t[i]
    /\ n < Len(s) => s[n + 1] < t[n + 1]

(* The order of std::string compares the first bytes that differ.          *)
LEMMA LessStringIs ==
    ASSUME NEW s \in Seq(Int), NEW t \in Seq(Int)
    PROVE  LessString(s, t) <=> \E n \in Nat : PartsBelow(s, t, n)
<1>1. /\ Len(s) \in Nat /\ DOMAIN s = 1 .. Len(s)
      /\ Len(t) \in Nat /\ DOMAIN t = 1 .. Len(t)
      /\ \A i \in 1 .. Len(s) : s[i] \in Int
      /\ \A i \in 1 .. Len(t) : t[i] \in Int
  OBVIOUS
<1>1a. Len(s) \in Nat /\ Len(t) \in Nat
  OBVIOUS
<1>2. \A n \in Nat : n <= Len(s) /\ n <= Len(t) =>
        (SubSeq(s, 1, n) = SubSeq(t, 1, n) <=> \A i \in 1 .. n : s[i] = t[i])
  <2> SUFFICES ASSUME NEW n \in Nat, n <= Len(s), n <= Len(t)
               PROVE  SubSeq(s, 1, n) = SubSeq(t, 1, n) <=> \A i \in 1 .. n : s[i] = t[i]
    OBVIOUS
  <2>1. /\ SubSeq(s, 1, n) \in Seq(Int) /\ Len(SubSeq(s, 1, n)) = n
        /\ \A i \in 1 .. n : SubSeq(s, 1, n)[i] = s[i]
    BY <1>1
  <2>2. /\ SubSeq(t, 1, n) \in Seq(Int) /\ Len(SubSeq(t, 1, n)) = n
        /\ \A i \in 1 .. n : SubSeq(t, 1, n)[i] = t[i]
    BY <1>1
  <2> DEFINE a == SubSeq(s, 1, n)
             b == SubSeq(t, 1, n)
  <2> HIDE DEF a, b
  <2>3. a = b <=> \A i \in 1 .. n : a[i] = b[i]
    <3>1. /\ a \in Seq(Int) /\ Len(a) = n /\ b \in Seq(Int) /\ Len(b) = n
      BY <2>1, <2>2 DEF a, b
    <3> QED
      BY <3>1, SeqEqual
  <2> QED
    BY <2>1, <2>2, <2>3 DEF a, b
<1>3. IsPrefix(s, t) <=> Len(s) <= Len(t) /\ \A i \in 1 .. Len(s) : s[i] = t[i]
  BY <1>1, <1>2 DEF IsPrefix
<1>4. ASSUME Len(s) = Len(t), \A i \in 1 .. Len(s) : s[i] = t[i] PROVE s = t
  BY <1>1, <1>4, SeqEqual
<1>5. ASSUME IsStrictPrefix(s, t) PROVE PartsBelow(s, t, Len(s))
  <2>1. Len(s) <= Len(t) /\ s # t /\ \A i \in 1 .. Len(s) : s[i] = t[i]
    BY <1>3, <1>5 DEF IsStrictPrefix
  <2>2. Len(s) # Len(t)
    BY <2>1, <1>4
  <2>3. Len(s) <= Len(s) /\ Len(s) < Len(t) /\ ~ (Len(s) < Len(s))
    BY <1>1a, <2>1, <2>2
  <2> QED
    BY <2>1, <2>3, Zenon DEF PartsBelow
<1>6. ASSUME NEW i \in DOMAIN s \intersect DOMAIN t,
             s[i] < t[i], SubSeq(s, 1, i - 1) = SubSeq(t, 1, i - 1)
      PROVE  PartsBelow(s, t, i - 1)
  <2>1. i - 1 \in Nat /\ i - 1 < Len(s) /\ i - 1 < Len(t) /\ i - 1 + 1 = i
    BY <1>1
  <2>2. \A j \in 1 .. i - 1 : s[j] = t[j]
    BY <1>2, <1>6, <2>1
  <2> QED
    BY <1>1, <1>6, <2>1, <2>2 DEF PartsBelow
<1>7. ASSUME NEW n \in Nat, PartsBelow(s, t, n) PROVE LessString(s, t)
  <2>1. CASE n = Len(s)
    <3>1. IsPrefix(s, t) /\ s # t
      BY <1>1, <1>3, <1>7, <2>1 DEF PartsBelow
    <3> QED
      BY <3>1 DEF LessString, IsStrictPrefix
  <2>2. CASE n < Len(s)
    <3>1. n + 1 \in DOMAIN s \intersect DOMAIN t /\ n + 1 - 1 = n
      BY <1>1, <1>7, <2>2 DEF PartsBelow
    <3>2. SubSeq(s, 1, n) = SubSeq(t, 1, n) /\ s[n + 1] < t[n + 1]
      BY <1>1, <1>2, <1>7, <2>2 DEF PartsBelow
    <3> DEFINE i == n + 1
    <3>3. /\ i \in DOMAIN s \intersect DOMAIN t /\ s[i] < t[i]
          /\ SubSeq(s, 1, i - 1) = SubSeq(t, 1, i - 1)
      BY <3>1, <3>2
    <3> HIDE DEF i
    <3> QED
      BY <3>3 DEF LessString
  <2>3. n <= Len(s)
    BY <1>7 DEF PartsBelow
  <2>4. n = Len(s) \/ n < Len(s)
    BY <1>1a, <2>3
  <2> QED
    BY <2>1, <2>2, <2>4
<1>8. ASSUME LessString(s, t) PROVE \E n \in Nat : PartsBelow(s, t, n)
  <2>1. CASE IsStrictPrefix(s, t)
    BY <1>1, <1>5, <2>1
  <2>2. CASE \E i \in DOMAIN s \intersect DOMAIN t :
                s[i] < t[i] /\ SubSeq(s, 1, i - 1) = SubSeq(t, 1, i - 1)
    <3>1. PICK i \in DOMAIN s \intersect DOMAIN t :
                s[i] < t[i] /\ SubSeq(s, 1, i - 1) = SubSeq(t, 1, i - 1)
      BY <2>2
    <3>2. i - 1 \in Nat
      BY <1>1
    <3> QED
      BY <1>6, <3>1, <3>2
  <2> QED
    BY <1>8, <2>1, <2>2 DEF LessString
<1> QED
  BY <1>7, <1>8

(* It is a strict order,                                                   *)
LEMMA LessStringIsStrict ==
    ASSUME NEW s \in Seq(Int), NEW t \in Seq(Int), LessString(s, t)
    PROVE  ~ LessString(t, s)
<1>1. SUFFICES ASSUME LessString(t, s) PROVE FALSE
  OBVIOUS
<1>2. PICK n \in Nat : PartsBelow(s, t, n)
  BY LessStringIs
<1>3. PICK m \in Nat : PartsBelow(t, s, m)
  BY <1>1, LessStringIs
<1>4. /\ Len(s) \in Nat /\ Len(t) \in Nat
      /\ \A i \in 1 .. Len(s) : s[i] \in Int
      /\ \A i \in 1 .. Len(t) : t[i] \in Int
  OBVIOUS
<1>5. CASE n = m
  BY <1>2, <1>3, <1>4, <1>5 DEF PartsBelow
<1>6. CASE n < m
  <2>1. s[n + 1] = t[n + 1] /\ n + 1 \in 1 .. Len(s)
    BY <1>3, <1>4, <1>6 DEF PartsBelow
  <2> QED
    BY <1>2, <1>4, <1>6, <2>1 DEF PartsBelow
<1>7. CASE m < n
  <2>1. s[m + 1] = t[m + 1] /\ m + 1 \in 1 .. Len(s) /\ m + 1 \in 1 .. Len(t)
    BY <1>2, <1>4, <1>7 DEF PartsBelow
  <2> QED
    BY <1>3, <1>4, <1>7, <2>1 DEF PartsBelow
<1> QED
  BY <1>5, <1>6, <1>7

(* one that can be chained,                                                *)
LEMMA LessStringIsTransitive ==
    ASSUME NEW s \in Seq(Int), NEW t \in Seq(Int), NEW u \in Seq(Int),
           LessString(s, t), LessString(t, u)
    PROVE  LessString(s, u)
<1>1. PICK n \in Nat : PartsBelow(s, t, n)
  BY LessStringIs
<1>2. PICK m \in Nat : PartsBelow(t, u, m)
  BY LessStringIs
<1>3. /\ Len(s) \in Nat /\ Len(t) \in Nat /\ Len(u) \in Nat
      /\ \A i \in 1 .. Len(s) : s[i] \in Int
      /\ \A i \in 1 .. Len(t) : t[i] \in Int
      /\ \A i \in 1 .. Len(u) : u[i] \in Int
  OBVIOUS
<1>4. CASE n <= m
  <2>1. \A i \in 1 .. n : s[i] = u[i]
    BY <1>1, <1>2, <1>4 DEF PartsBelow
  <2>2. n < Len(u)
    BY <1>1, <1>2, <1>3, <1>4 DEF PartsBelow
  <2>3. ASSUME n < Len(s) PROVE s[n + 1] < u[n + 1]
    <3>1. s[n + 1] < t[n + 1] /\ n + 1 \in 1 .. Len(s) /\ n + 1 \in 1 .. Len(t)
          /\ n + 1 \in 1 .. Len(u)
      BY <1>1, <1>3, <2>2, <2>3 DEF PartsBelow
    <3>2. t[n + 1] <= u[n + 1]
      <4>1. CASE n = m
        BY <4>1, <1>2, <1>3, <3>1 DEF PartsBelow
      <4>2. CASE n < m
        BY <4>2, <1>2, <1>3, <3>1 DEF PartsBelow
      <4> QED
        BY <1>4, <4>1, <4>2
    <3> QED
      BY <1>3, <3>1, <3>2
  <2>4. PartsBelow(s, u, n)
    BY <1>1, <2>1, <2>2, <2>3 DEF PartsBelow
  <2> QED
    BY <2>4, LessStringIs
<1>5. CASE m < n
  <2>1. \A i \in 1 .. m : s[i] = u[i]
    BY <1>1, <1>2, <1>5 DEF PartsBelow
  <2>2. m < Len(s) /\ m < Len(t) /\ m < Len(u)
    BY <1>1, <1>2, <1>3, <1>5 DEF PartsBelow
  <2>3. s[m + 1] = t[m + 1] /\ t[m + 1] < u[m + 1]
    BY <1>1, <1>2, <1>3, <1>5, <2>2 DEF PartsBelow
  <2>4. PartsBelow(s, u, m)
    BY <2>1, <2>2, <2>3 DEF PartsBelow
  <2> QED
    BY <2>4, LessStringIs
<1> QED
  BY <1>4, <1>5

(* and one that compares any two strings.                                  *)
LEMMA LessStringIsTotal ==
    ASSUME NEW s \in Seq(Int), NEW t \in Seq(Int)
    PROVE  s = t \/ LessString(s, t) \/ LessString(t, s)
<1> DEFINE D == {n \in Nat : /\ n < Len(s) /\ n < Len(t)
                             /\ s[n + 1] # t[n + 1]}
<1>1. /\ Len(s) \in Nat /\ Len(t) \in Nat
      /\ \A i \in 1 .. Len(s) : s[i] \in Int
      /\ \A i \in 1 .. Len(t) : t[i] \in Int
  OBVIOUS
<1>2. CASE D = {}
  <2>1. ASSUME NEW i \in Nat, i > 0, i <= Len(s), i <= Len(t) PROVE s[i] = t[i]
    <3> DEFINE j == i - 1
    <3>1. j \in Nat /\ j < Len(s) /\ j < Len(t) /\ j + 1 = i
      BY <1>1, <2>1
    <3> HIDE DEF j
    <3>2. j \notin D
      BY <1>2
    <3> QED
      BY <3>1, <3>2
  <2>2. CASE Len(s) = Len(t)
    <3>1. \A i \in 1 .. Len(s) : s[i] = t[i]
      BY <1>1, <2>1, <2>2
    <3> QED
      BY <2>2, <3>1, SeqEqual
  <2>3. CASE Len(s) < Len(t)
    <3>1. PartsBelow(s, t, Len(s))
      BY <1>1, <2>1, <2>3 DEF PartsBelow
    <3> QED
      BY <1>1, <3>1, LessStringIs
  <2>4. CASE Len(t) < Len(s)
    <3>1. PartsBelow(t, s, Len(t))
      BY <1>1, <2>1, <2>4 DEF PartsBelow
    <3> QED
      BY <1>1, <3>1, LessStringIs
  <2> QED
    BY <1>1, <2>2, <2>3, <2>4
<1>3. CASE D # {}
  <2>1. PICK n \in D : \A m \in D : n <= m
    <3>1. D \subseteq Nat
      OBVIOUS
    <3> HIDE DEF D
    <3> QED
      BY <1>3, <3>1, LeastNumber
  <2>2. ASSUME NEW i \in 1 .. n PROVE s[i] = t[i]
    <3> DEFINE j == i - 1
    <3>1. j \in Nat /\ j < n /\ j < Len(s) /\ j < Len(t) /\ j + 1 = i
      BY <1>1
    <3> HIDE DEF j
    <3>2. j \notin D
      <4> HIDE DEF D
      <4>1. n \in Nat
        BY <2>1 DEF D
      <4> QED
        BY <2>1, <3>1, <4>1
    <3> QED
      BY <3>1, <3>2
  <2>3. n \in Nat /\ n < Len(s) /\ n < Len(t) /\ s[n + 1] # t[n + 1]
    OBVIOUS
  <2>4. s[n + 1] \in Int /\ t[n + 1] \in Int
    BY <1>1, <2>3
  <2>5. PartsBelow(s, t, n) \/ PartsBelow(t, s, n)
    BY <1>1, <2>2, <2>3, <2>4 DEF PartsBelow
  <2> QED
    BY <2>3, <2>5, LessStringIs
<1> QED
  BY <1>2, <1>3

(* A field of one type puts values in a strict weak order, the one         *)
(* std::sort asks for.                                                     *)
LEMMA LessIsAnOrder ==
    ASSUME FieldsAreComparable, NEW q \in Queries, NEW i \in DOMAIN q,
           q[i].type = "ORDER_BY",
           NEW u \in Values, ExtractFieldValue(u, q[i].field) # Fail,
           NEW v \in Values, ExtractFieldValue(v, q[i].field) # Fail,
           NEW w \in Values, ExtractFieldValue(w, q[i].field) # Fail
    PROVE  /\ Less(u, v, q[i].field) => ~ Less(v, u, q[i].field)
           /\ ~ Less(v, u, q[i].field) /\ ~ Less(w, v, q[i].field)
              => ~ Less(w, u, q[i].field)
<1> DEFINE fields == {ExtractFieldValue(x, q[i].field) : x \in Values} \ {Fail}
           a == ExtractFieldValue(u, q[i].field)
           b == ExtractFieldValue(v, q[i].field)
           c == ExtractFieldValue(w, q[i].field)
<1>1. a \in fields /\ b \in fields /\ c \in fields
  OBVIOUS
<1>2. \/ \A f \in fields : f[1] = "int" /\ f[2] \in Int
      \/ \A f \in fields : f[1] = "string" /\ f[2] \in Seq(Int)
      \/ \A f \in fields : f[1] \notin {"int", "string"}
  BY DEF FieldsAreComparable
<1>3. /\ Less(u, v, q[i].field) = CompareJsonObjects(a, b)
      /\ Less(v, u, q[i].field) = CompareJsonObjects(b, a)
      /\ Less(w, v, q[i].field) = CompareJsonObjects(c, b)
      /\ Less(w, u, q[i].field) = CompareJsonObjects(c, a)
  BY DEF Less
<1> HIDE DEF fields, a, b, c
<1>4. CASE \A f \in fields : f[1] = "int" /\ f[2] \in Int
  BY <1>1, <1>3, <1>4 DEF CompareJsonObjects
<1>5. CASE \A f \in fields : f[1] = "string" /\ f[2] \in Seq(Int)
  <2>1. /\ CompareJsonObjects(a, b) = LessString(a[2], b[2])
        /\ CompareJsonObjects(b, a) = LessString(b[2], a[2])
        /\ CompareJsonObjects(c, b) = LessString(c[2], b[2])
        /\ CompareJsonObjects(c, a) = LessString(c[2], a[2])
    BY <1>1, <1>5 DEF CompareJsonObjects, LessString
  <2>2. a[2] \in Seq(Int) /\ b[2] \in Seq(Int) /\ c[2] \in Seq(Int)
    BY <1>1, <1>5
  <2>3. LessString(a[2], b[2]) => ~ LessString(b[2], a[2])
    BY <2>2, LessStringIsStrict
  <2>4. ASSUME ~ LessString(b[2], a[2]), ~ LessString(c[2], b[2]), LessString(c[2], a[2])
        PROVE  FALSE
    <3>1. a[2] = b[2] \/ LessString(a[2], b[2])
      BY <2>2, <2>4, LessStringIsTotal
    <3>2. b[2] = c[2] \/ LessString(b[2], c[2])
      BY <2>2, <2>4, LessStringIsTotal
    <3>3. a[2] = c[2] \/ LessString(a[2], c[2])
      BY <2>2, <3>1, <3>2, LessStringIsTransitive
    <3>4. ~ LessString(a[2], c[2])
      BY <2>2, <2>4, LessStringIsStrict
    <3>5. a[2] = c[2]
      BY <3>3, <3>4
    <3>6. LessString(a[2], a[2])
      BY <2>4, <3>5
    <3> QED
      BY <2>2, <3>6, LessStringIsStrict
  <2> QED
    BY <1>3, <2>1, <2>3, <2>4
<1>6. CASE \A f \in fields : f[1] \notin {"int", "string"}
  BY <1>1, <1>3, <1>6 DEF CompareJsonObjects
<1> QED
  BY <1>2, <1>4, <1>5, <1>6

\* Whether v may come before w in an answer to q.
InOrder(q, v, w) ==
    LET step == q[LastStep(q, "ORDER_BY")]
    IN  IF step.direction = "asc" THEN ~ Less(w, v, step.field) ELSE ~ Less(v, w, step.field)

(* What can be sorted comes out in the order that the query asks for, up   *)
(* or down.                                                                *)
LEMMA SortedIsRanked ==
    ASSUME FieldsAreComparable, NEW q \in Queries, NEW found \in Seq(Keys \X Texts),
           HasStep(q, "ORDER_BY"), Sortable(q, found),
           \A i \in DOMAIN found : Parsed[found[i][2]] \in Values \union {Fail}
    PROVE  LET t == Sorted(q, found)
           IN  \A i, j \in DOMAIN t : i < j => InOrder(q, Parsed[t[i][2]], Parsed[t[j][2]])
<1> DEFINE last == LastStep(q, "ORDER_BY")
           field == q[last].field
           S == ToSet(found)
           before == {ab \in S \X S : Less(Parsed[ab[1][2]], Parsed[ab[2][2]], field)
                                          = (q[last].direction = "asc")}
           G == {ab \in S \X S : InOrder(q, Parsed[ab[1][2]], Parsed[ab[2][2]])}
<1>1. last \in DOMAIN q /\ q[last].type = "ORDER_BY" /\ last # 0
  BY LastStepIs
<1>2. \A x \in S : /\ Parsed[x[2]] \in Values
                   /\ ExtractFieldValue(Parsed[x[2]], field) # Fail
  <2> SUFFICES ASSUME NEW i \in DOMAIN found
               PROVE  /\ Parsed[found[i][2]] \in Values
                      /\ ExtractFieldValue(Parsed[found[i][2]], field) # Fail
    BY DEF ToSet
  <2>1. ExtractFieldValue(Parsed[found[i][2]], field) # Fail
    BY <1>1 DEF Sortable
  <2>2. Parsed[found[i][2]] # Fail
    BY <2>1 DEF ExtractFieldValue
  <2> QED
    BY <2>1, <2>2
<1>3. \A x, y \in S :
        /\ Less(Parsed[x[2]], Parsed[y[2]], field) \in BOOLEAN
        /\ Less(Parsed[x[2]], Parsed[y[2]], field)
            => ~ Less(Parsed[y[2]], Parsed[x[2]], field)
  <2>1. \A v, w : Less(v, w, field) \in BOOLEAN
    BY DEF Less, CompareJsonObjects
  <2> SUFFICES ASSUME NEW x \in S, NEW y \in S
               PROVE  Less(Parsed[x[2]], Parsed[y[2]], field)
                        => ~ Less(Parsed[y[2]], Parsed[x[2]], field)
    BY <2>1
  <2> HIDE DEF last, S
  <2> QED
    BY <1>1, <1>2, LessIsAnOrder
<1>4. \A x, y, z \in S :
        ~ Less(Parsed[y[2]], Parsed[x[2]], field) /\ ~ Less(Parsed[z[2]], Parsed[y[2]], field)
            => ~ Less(Parsed[z[2]], Parsed[x[2]], field)
  <2> HIDE DEF last, S
  <2> QED
    BY <1>1, <1>2, LessIsAnOrder
<1>5. \A x, y \in S : <<x, y>> \in G <=>
        IF q[last].direction = "asc" THEN ~ Less(Parsed[y[2]], Parsed[x[2]], field)
                                     ELSE ~ Less(Parsed[x[2]], Parsed[y[2]], field)
  BY DEF InOrder
<1>6. \A x, y \in S : <<x, y>> \in before <=>
        (Less(Parsed[x[2]], Parsed[y[2]], field) = (q[last].direction = "asc"))
  OBVIOUS
<1>7. Sorted(q, found) = StdSort(found, before)
  BY <1>1 DEF Sorted, SortRecords
<1>8. \A x, y : <<x, y>> \in G => InOrder(q, Parsed[x[2]], Parsed[y[2]])
  OBVIOUS
<1>9. found \in Seq(S)
  BY DEF ToSet
<1> HIDE DEF before, G, last, S
<1>10. Agrees(before, G, S)
  <2>1. \A x, y \in S : IF <<x, y>> \in before THEN <<x, y>> \in G ELSE <<y, x>> \in G
    <3> SUFFICES ASSUME NEW x \in S, NEW y \in S
                 PROVE  IF <<x, y>> \in before THEN <<x, y>> \in G ELSE <<y, x>> \in G
      OBVIOUS
    <3>1. CASE q[last].direction = "asc"
      <4>1. <<x, y>> \in before <=> Less(Parsed[x[2]], Parsed[y[2]], field)
        BY <1>3, <1>6, <3>1
      <4>2. <<x, y>> \in G <=> ~ Less(Parsed[y[2]], Parsed[x[2]], field)
        BY <1>5, <3>1
      <4>3. <<y, x>> \in G <=> ~ Less(Parsed[x[2]], Parsed[y[2]], field)
        BY <1>5, <3>1
      <4> QED
        BY <1>3, <4>1, <4>2, <4>3
    <3>2. CASE q[last].direction # "asc"
      <4>1. <<x, y>> \in before <=> ~ Less(Parsed[x[2]], Parsed[y[2]], field)
        BY <1>3, <1>6, <3>2
      <4>2. <<x, y>> \in G <=> ~ Less(Parsed[x[2]], Parsed[y[2]], field)
        BY <1>5, <3>2
      <4>3. <<y, x>> \in G <=> ~ Less(Parsed[y[2]], Parsed[x[2]], field)
        BY <1>5, <3>2
      <4> QED
        BY <1>3, <4>1, <4>2, <4>3
    <3> QED
      BY <3>1, <3>2
  <2>2. \A x, y, z \in S : <<x, y>> \in G /\ <<y, z>> \in G => <<x, z>> \in G
    <3> SUFFICES ASSUME NEW x \in S, NEW y \in S, NEW z \in S,
                        <<x, y>> \in G, <<y, z>> \in G
                 PROVE  <<x, z>> \in G
      OBVIOUS
    <3>1. CASE q[last].direction = "asc"
      BY <1>4, <1>5, <3>1
    <3>2. CASE q[last].direction # "asc"
      BY <1>4, <1>5, <3>2
    <3> QED
      BY <3>1, <3>2
  <2> QED
    BY <2>1, <2>2 DEF Agrees
<1>11. Ranked(StdSort(found, before), G)
  BY <1>9, <1>10, StdSortSorts
<1> QED
  BY <1>7, <1>8, <1>11 DEF Ranked

-----------------------------------------------------------------------------
(* The steps preserve the invariant *)

(* The stage tells which kind of handler a worker runs.                    *)
LEMMA JobShapes ==
    ASSUME NEW jb \in Jobs
    PROVE  /\ jb.stage = "idle" => jb = IdleJob
           /\ jb.stage \in {"enter", "mkdir", "open", "write", "ok"} => jb \in Upserts
           /\ jb.stage \in {"list", "read", "answer"} => jb \in Lookups
           /\ jb \in Upserts => jb \notin Lookups /\ jb # IdleJob
           /\ jb \in Lookups => jb # IdleJob
<1>1. ASSUME NEW r \in Upserts
      PROVE  "payload" \in DOMAIN r /\ r.stage \in UpsertStages /\ "todo" \notin DOMAIN r
  BY DEF Upserts, UpsertStages
<1>2. ASSUME NEW r \in Lookups
      PROVE  /\ "todo" \in DOMAIN r
             /\ r.stage \in {"list", "read", "answer", "failed"}
  BY DEF Lookups
<1>3. IdleJob.stage = "idle"
  BY DEF IdleJob
<1> QED
  BY <1>1, <1>2, <1>3 DEF Jobs, UpsertStages

(* Only w takes a step, in a handler that is no query.                     *)
LEMMA ReadersWait ==
    ASSUME DbInv, NEW w \in Workers,
           \A u \in Workers \ {w} : job'[u] = job[u],
           job'[w] \notin Lookups,
           \A k \in Keys : file[k] # Absent => file'[k] # Absent,
           cut => cut'
    PROVE  ReadersAreReady'
<1> SUFFICES ASSUME NEW u \in Workers, job'[u] \in Lookups
             PROVE  /\ \A k \in job'[u].todo : file'[k] # Absent
                    /\ FoundOnce(job'[u])
                    /\ cut' \/ \A i \in DOMAIN job'[u].found :
                                    Parsed[job'[u].found[i][2]] # Fail
                    /\ job'[u].stage = "answer" /\ HasStep(job'[u].query, "ORDER_BY") =>
                        \A i \in DOMAIN job'[u].found : Parsed[job'[u].found[i][2]] # Fail
  BY DEF ReadersAreReady, FoundOnce
<1>1. u # w /\ job'[u] = job[u]
  OBVIOUS
<1>2. \A k \in job[u].todo : k \in Keys
  BY <1>1 DEF Lookups
<1> QED
  BY <1>1, <1>2 DEF DbInv, ReadersAreReady

(* The files stay as they are.                                             *)
LEMMA FilesWait ==
    ASSUME DbInv, dir => dir', UNCHANGED <<file, cut>>
    PROVE  FilesAreRead'
BY DEF DbInv, FilesAreRead

(* Only w takes a step, and what it writes stays to be written.            *)
LEMMA WritersWait ==
    ASSUME DbInv, NEW w \in Workers, \A u \in Workers \ {w} : job'[u] = job[u],
           dir => dir',
           \A k \in Keys : file[k] # Absent => file'[k] # Absent,
           job'[w].stage = "open" => dir',
           job'[w].stage = "write" =>
                file'[job'[w].key] # Absent /\ Meaning[job'[w].payload] # Fail
    PROVE  WritersAreReady'
<1> SUFFICES ASSUME NEW u \in Workers
             PROVE  /\ job'[u].stage = "open" => dir'
                    /\ job'[u].stage = "write" =>
                        file'[job'[u].key] # Absent /\ Meaning[job'[u].payload] # Fail
  BY DEF WritersAreReady
<1>1. CASE u = w
  BY <1>1
<1>2. CASE u # w
  <2>1. job[u].stage = "write" => job[u].key \in Keys
    <3>1. job[u] \in Jobs
      BY DEF DbInv, DbTypeOK
    <3> QED
      BY <3>1, JobShapes DEF Upserts
  <2> QED
    BY <1>2, <2>1 DEF DbInv, WritersAreReady
<1> QED
  BY <1>1, <1>2

(* No record is written, and no writer is done.                            *)
LEMMA StoredWaits ==
    ASSUME DbInv, UNCHANGED <<file, stored>>,
           \A u \in Workers : job[u].stage = "write" => job'[u] = job[u]
    PROVE  StoredIsReadable'
<1> SUFFICES ASSUME NEW k \in Keys, stored'[k] # Absent
             PROVE  \/ /\ file'[k] = Empty
                       /\ \E u \in Workers : job'[u].stage = "write" /\ job'[u].key = k
                    \/ file'[k] # Empty /\ Parsed[file'[k]] = Meaning[stored'[k]]
  BY DEF StoredIsReadable
<1>1. \/ file[k] = Empty /\ \E u \in Workers : job[u].stage = "write" /\ job[u].key = k
      \/ file[k] # Empty /\ Parsed[file[k]] = Meaning[stored[k]]
  BY DEF DbInv, StoredIsReadable
<1>2. CASE file[k] = Empty
  <2>1. PICK u \in Workers : job[u].stage = "write" /\ job[u].key = k
    BY <1>1, <1>2
  <2> QED
    BY <1>2, <2>1
<1>3. CASE file[k] # Empty
  BY <1>1, <1>3
<1> QED
  BY <1>2, <1>3

(* The first state.                                                        *)
LEMMA DbInitInv == DbInit => DbInv
<1> SUFFICES ASSUME DbInit PROVE DbInv
  OBVIOUS
<1>1. \A w \in Workers : job[w] = IdleJob /\ job[w].stage = "idle" /\ job[w] \notin Lookups
  <2>1. IdleJob \in Jobs
    BY DEF Jobs
  <2>2. IdleJob.stage = "idle" /\ IdleJob \notin Lookups
    <3>1. IdleJob.stage = "idle"
      BY DEF IdleJob
    <3> QED
      BY <2>1, <3>1, JobShapes
  <2> QED
    BY <2>2 DEF DbInit
<1>2. DbTypeOK
  BY DEF DbInit, DbTypeOK, Jobs
<1>3. FilesAreRead /\ StoredIsReadable
  BY DatabaseAssumption DEF DbInit, FilesAreRead, StoredIsReadable
<1>4. WritersAreReady
  BY <1>1 DEF WritersAreReady
<1>5. ReadersAreReady
  BY <1>1 DEF ReadersAreReady
<1> QED
  BY <1>2, <1>3, <1>4, <1>5 DEF DbInv

(* A handler is taken on.                                                  *)
LEMMA AcceptInv ==
    ASSUME DbInv, NEW w \in Workers,
           \/ \E k \in Keys, p \in Payloads : AcceptUpsert(w, k, p)
           \/ \E q \in Queries : AcceptQuery(w, q)
    PROVE  DbInv'
<1>1. CASE \E k \in Keys, p \in Payloads : AcceptUpsert(w, k, p)
  <2>1. PICK k \in Keys, p \in Payloads : AcceptUpsert(w, k, p)
    BY <1>1
  <2> DEFINE new == [stage |-> "enter", key |-> k, payload |-> p]
  <2>2. new \in Upserts /\ new.stage = "enter"
    BY DEF Upserts, UpsertStages
  <2>3. new \in Jobs /\ new \notin Lookups
    BY <2>2, JobShapes DEF Jobs
  <2>4. /\ job' = [job EXCEPT ![w] = new] /\ job \in [Workers -> Jobs]
        /\ UNCHANGED <<dir, file, stored, cut>> /\ job[w] = IdleJob
    BY <2>1 DEF AcceptUpsert, DbInv, DbTypeOK
  <2> HIDE DEF new
  <2>5. /\ job'[w] = new /\ \A u \in Workers \ {w} : job'[u] = job[u]
        /\ job[w].stage = "idle"
    BY <2>4 DEF IdleJob
  <2>6. DbTypeOK'
    BY <2>3, <2>4 DEF DbInv, DbTypeOK
  <2>7. FilesAreRead'
    BY <2>4, FilesWait
  <2>8. WritersAreReady'
    BY <2>2, <2>4, <2>5, WritersWait
  <2>9. StoredIsReadable'
    BY <2>4, <2>5, StoredWaits
  <2>10. ReadersAreReady'
    BY <2>3, <2>4, <2>5, ReadersWait
  <2> QED
    BY <2>6, <2>7, <2>8, <2>9, <2>10 DEF DbInv
<1>2. CASE \E q \in Queries : AcceptQuery(w, q)
  <2>1. PICK q \in Queries : AcceptQuery(w, q)
    BY <1>2
  <2> DEFINE new == [stage |-> "list", query |-> q, todo |-> {}, found |-> <<>>]
  <2>2. /\ new \in Lookups /\ new.stage = "list" /\ new.todo = {} /\ DOMAIN new.found = {}
        /\ new.found = <<>> /\ new \in Jobs
    BY DEF Lookups, Jobs
  <2>3. /\ job' = [job EXCEPT ![w] = new] /\ job \in [Workers -> Jobs]
        /\ UNCHANGED <<dir, file, stored, cut>> /\ job[w] = IdleJob
    BY <2>1 DEF AcceptQuery, DbInv, DbTypeOK
  <2> HIDE DEF new
  <2>4. /\ job'[w] = new /\ \A u \in Workers \ {w} : job'[u] = job[u]
        /\ job[w].stage = "idle"
    BY <2>3 DEF IdleJob
  <2>5. DbTypeOK'
    BY <2>2, <2>3 DEF DbInv, DbTypeOK
  <2>6. FilesAreRead'
    BY <2>3, FilesWait
  <2>7. WritersAreReady'
    BY <2>2, <2>3, <2>4, WritersWait
  <2>8. StoredIsReadable'
    BY <2>3, <2>4, StoredWaits
  <2>9. ReadersAreReady'
    <3> SUFFICES ASSUME NEW u \in Workers, job'[u] \in Lookups
                 PROVE  /\ \A k \in job'[u].todo : file'[k] # Absent
                        /\ FoundOnce(job'[u])
                        /\ cut' \/ \A i \in DOMAIN job'[u].found :
                                        Parsed[job'[u].found[i][2]] # Fail
                        /\ job'[u].stage = "answer" /\ HasStep(job'[u].query, "ORDER_BY") =>
                            \A i \in DOMAIN job'[u].found : Parsed[job'[u].found[i][2]] # Fail
      BY DEF ReadersAreReady, FoundOnce
    <3>1. CASE u = w
      BY <3>1, <2>2, <2>4 DEF FoundOnce
    <3>2. CASE u # w
      BY <3>2, <2>3, <2>4 DEF DbInv, ReadersAreReady
    <3> QED
      BY <3>1, <3>2
  <2> QED
    BY <2>5, <2>6, <2>7, <2>8, <2>9 DEF DbInv
<1> QED
  BY <1>1, <1>2

(* An upsert that does not get to the file.                                *)
LEMMA BeforeTheFileInv ==
    ASSUME DbInv, NEW w \in Workers,
           \/ EnterUpsert(w) \/ MakeDirectory(w) \/ RefusePayload(w)
    PROVE  DbInv'
<1>1. PICK s \in {"open", "mkdir", "failed"} :
        /\ job' = [job EXCEPT ![w].stage = s]
        /\ s = "open" => dir'
  BY DEF EnterUpsert, MakeDirectory, RefusePayload, DbInv, DbTypeOK
<1>2. /\ job[w].stage \in {"enter", "mkdir", "open"}
      /\ UNCHANGED <<file, stored, cut>>
      /\ dir' \in BOOLEAN /\ (dir => dir')
  BY DEF EnterUpsert, MakeDirectory, RefusePayload, DbInv, DbTypeOK
<1>3. job \in [Workers -> Jobs] /\ job[w] \in Upserts
  BY <1>2, JobShapes DEF DbInv, DbTypeOK
<1> DEFINE new == [job[w] EXCEPT !.stage = s]
<1>4. new \in Upserts /\ new.stage = s
  BY <1>3 DEF Upserts, UpsertStages
<1>5. job' = [job EXCEPT ![w] = new]
  BY <1>1, <1>3
<1> HIDE DEF new
<1>6. new \in Jobs /\ new \notin Lookups
  BY <1>4, JobShapes DEF Jobs
<1>7. job'[w] = new /\ \A u \in Workers \ {w} : job'[u] = job[u]
  BY <1>3, <1>5
<1>8. DbTypeOK'
  BY <1>2, <1>3, <1>5, <1>6 DEF DbInv, DbTypeOK
<1>9. FilesAreRead'
  BY <1>2, FilesWait
<1>10. WritersAreReady'
  BY <1>1, <1>2, <1>4, <1>7, WritersWait
<1>11. StoredIsReadable'
  BY <1>2, <1>7, StoredWaits
<1>12. ReadersAreReady'
  BY <1>2, <1>6, <1>7, ReadersWait
<1> QED
  BY <1>8, <1>9, <1>10, <1>11, <1>12 DEF DbInv

(* A handler ends.                                                         *)
LEMMA ReplyInv ==
    ASSUME DbInv, NEW w \in Workers, UpsertReply(w) \/ QueryReply(w)
    PROVE  DbInv'
<1>1. /\ job' = [job EXCEPT ![w] = IdleJob]
      /\ job[w].stage # "write"
      /\ UNCHANGED <<dir, file, stored, cut>>
  BY DEF UpsertReply, QueryReply
<1>2. job \in [Workers -> Jobs]
  BY DEF DbInv, DbTypeOK
<1>3. IdleJob \in Jobs /\ IdleJob.stage = "idle" /\ IdleJob \notin Lookups
  <2>1. IdleJob.stage = "idle" /\ IdleJob \in Jobs
    BY DEF IdleJob, Jobs
  <2> QED
    BY <2>1, JobShapes
<1>4. job'[w] = IdleJob /\ \A u \in Workers \ {w} : job'[u] = job[u]
  BY <1>1, <1>2
<1>5. DbTypeOK'
  BY <1>1, <1>2, <1>3 DEF DbInv, DbTypeOK
<1>6. FilesAreRead'
  BY <1>1, FilesWait
<1>7. WritersAreReady'
  BY <1>1, <1>3, <1>4, WritersWait
<1>8. StoredIsReadable'
  BY <1>1, <1>4, StoredWaits
<1>9. ReadersAreReady'
  BY <1>1, <1>3, <1>4, ReadersWait
<1> QED
  BY <1>5, <1>6, <1>7, <1>8, <1>9 DEF DbInv

(* The process dies.                                                       *)
LEMMA DbCrashInv ==
    ASSUME DbInv, DbCrash
    PROVE  DbInv'
<1>1. /\ job' = [w \in Workers |-> IdleJob] /\ UNCHANGED <<dir, file, cut>>
      /\ stored' = [k \in Keys |-> IF file[k] = Empty THEN Absent ELSE stored[k]]
  BY DEF DbCrash
<1>2. \A w \in Workers : /\ job'[w] = IdleJob /\ job'[w].stage = "idle"
                         /\ job'[w] \notin Lookups /\ job'[w] \in Jobs
  <2>1. IdleJob.stage = "idle" /\ IdleJob \in Jobs
    BY DEF IdleJob, Jobs
  <2> QED
    BY <1>1, <2>1, JobShapes
<1>3. DbTypeOK'
  BY <1>1, <1>2 DEF DbInv, DbTypeOK, Jobs
<1>4. FilesAreRead'
  BY <1>1, FilesWait
<1>5. WritersAreReady'
  BY <1>2 DEF WritersAreReady
<1>6. StoredIsReadable'
  <2> SUFFICES ASSUME NEW k \in Keys, stored'[k] # Absent
               PROVE  file'[k] # Empty /\ Parsed[file'[k]] = Meaning[stored'[k]]
    BY DEF StoredIsReadable
  <2>1. file[k] # Empty /\ stored'[k] = stored[k]
    BY <1>1
  <2> QED
    BY <1>1, <2>1 DEF DbInv, StoredIsReadable
<1>7. ReadersAreReady'
  BY <1>2 DEF ReadersAreReady
<1> QED
  BY <1>3, <1>4, <1>5, <1>6, <1>7 DEF DbInv

(* The record is truncated: from here to the write it is empty.            *)
LEMMA OpenInv ==
    ASSUME TextsAreRead, DbInv, NEW w \in Workers, OpenRecord(w)
    PROVE  DbInv'
<1>1. /\ job \in [Workers -> Jobs] /\ job[w] \in Upserts /\ job[w].stage = "open"
      /\ file \in [Keys -> Texts \union {Empty, Absent}]
      /\ dir
  BY JobShapes DEF OpenRecord, DbInv, DbTypeOK, WritersAreReady
<1> DEFINE key == job[w].key
           payload == job[w].payload
           new == [job[w] EXCEPT !.stage = "write"]
<1>2. /\ key \in Keys /\ payload \in Payloads
      /\ new \in Upserts /\ new.stage = "write" /\ new.key = key /\ new.payload = payload
  BY <1>1 DEF Upserts, UpsertStages
<1>3. /\ job' = [job EXCEPT ![w] = new]
      /\ file' = [file EXCEPT ![key] = Empty]
      /\ UNCHANGED <<dir, stored, cut>>
      /\ Meaning[payload] # Fail
  BY <1>1, <1>2, DatabaseAssumption DEF OpenRecord, TextsAreRead
<1> HIDE DEF new, key, payload
<1>4. new \in Jobs /\ new \notin Lookups
  BY <1>2, JobShapes DEF Jobs
<1>5. job'[w] = new /\ \A u \in Workers \ {w} : job'[u] = job[u]
  BY <1>1, <1>3
<1>6. file'[key] = Empty /\ \A k \in Keys \ {key} : file'[k] = file[k]
  BY <1>1, <1>2, <1>3
<1>7. Empty # Absent /\ Empty \notin Texts
  BY DatabaseAssumption
<1>8. DbTypeOK'
  BY <1>1, <1>3, <1>4 DEF DbInv, DbTypeOK
<1>9. FilesAreRead'
  BY <1>1, <1>3, <1>6, <1>7 DEF DbInv, FilesAreRead
<1>10. WritersAreReady'
  BY <1>1, <1>2, <1>3, <1>5, <1>6, <1>7, WritersWait
<1>11. StoredIsReadable'
  <2> SUFFICES ASSUME NEW k \in Keys, stored'[k] # Absent
               PROVE  \/ /\ file'[k] = Empty
                         /\ \E u \in Workers : job'[u].stage = "write" /\ job'[u].key = k
                      \/ file'[k] # Empty /\ Parsed[file'[k]] = Meaning[stored'[k]]
    BY DEF StoredIsReadable
  <2>1. CASE k = key
    BY <2>1, <1>2, <1>5, <1>6
  <2>2. CASE k # key
    <3>1. \/ file[k] = Empty /\ \E u \in Workers : job[u].stage = "write" /\ job[u].key = k
          \/ file[k] # Empty /\ Parsed[file[k]] = Meaning[stored[k]]
      BY <1>3 DEF DbInv, StoredIsReadable
    <3>2. file'[k] = file[k] /\ stored'[k] = stored[k]
      BY <2>2, <1>3, <1>6
    <3>3. \A u \in Workers : job[u].stage = "write" => job'[u] = job[u]
      BY <1>1, <1>5
    <3> QED
      BY <3>1, <3>2, <3>3
  <2> QED
    BY <2>1, <2>2
<1>12. ReadersAreReady'
  BY <1>3, <1>4, <1>5, <1>6, <1>7, ReadersWait
<1> QED
  BY <1>8, <1>9, <1>10, <1>11, <1>12 DEF DbInv

(* The record is written over what is there, all of it or a beginning.     *)
LEMMA WriteInv ==
    ASSUME TextsAreRead, DbInv, NEW w \in Workers, WriteRecord(w) \/ WriteIsCutShort(w)
    PROVE  DbInv'
<1>1. /\ job \in [Workers -> Jobs] /\ job[w] \in Upserts /\ job[w].stage = "write"
      /\ file \in [Keys -> Texts \union {Empty, Absent}]
      /\ stored \in [Keys -> Payloads \union {Absent}]
  BY JobShapes DEF WriteRecord, WriteIsCutShort, DbInv, DbTypeOK
<1> DEFINE key == job[w].key
           payload == job[w].payload
           new == [job[w] EXCEPT !.stage = "ok"]
<1>2. /\ key \in Keys /\ payload \in Payloads
      /\ new \in Upserts /\ new.stage = "ok"
      /\ file[key] \in Texts \union {Empty}
      /\ Meaning[payload] # Fail
      /\ dir
  BY <1>1 DEF Upserts, UpsertStages, DbInv, WritersAreReady, FilesAreRead, DbTypeOK
<1>3. job' = [job EXCEPT ![w] = new] /\ dir' = dir
  BY <1>1 DEF WriteRecord, WriteIsCutShort
\* What the file and the history get.
<1>4. \E text \in Texts \union {Empty}, done \in Payloads \union {Absent} :
        /\ file' = [file EXCEPT ![key] = text]
        /\ stored' = [stored EXCEPT ![key] = done]
        /\ \/ /\ text \in Texts /\ Parsed[text] = Meaning[payload]
              /\ done = payload /\ cut' = cut
           \/ /\ text # Empty => Parsed[text] \in {Fail, Meaning[payload]}
              /\ done = Absent /\ cut'
  <2>1. CASE WriteRecord(w)
    <3> DEFINE text == Overlay(payload, file[key])
    <3>1. text \in Texts /\ Parsed[text] = Meaning[payload]
      BY <1>2 DEF TextsAreRead
    <3>2. /\ file' = [file EXCEPT ![key] = text]
          /\ stored' = [stored EXCEPT ![key] = payload]
          /\ cut' = cut
      BY <2>1, <1>1, <1>2 DEF WriteRecord
    <3> HIDE DEF text, key, payload
    <3> QED
      BY <1>2, <3>1, <3>2
  <2>2. CASE WriteIsCutShort(w)
    <3>1. PICK text \in Texts \union {Empty} :
            /\ IsStrictPrefix(text, payload)
            /\ file' = [file EXCEPT ![key] = text]
      BY <2>2 DEF WriteIsCutShort
    <3>2. stored' = [stored EXCEPT ![key] = Absent] /\ cut'
      BY <2>2 DEF WriteIsCutShort
    <3>3. text # Empty => Parsed[text] \in {Fail, Meaning[payload]}
      BY <1>2, <3>1 DEF TextsAreRead
    <3> HIDE DEF key, payload
    <3> QED
      BY <3>1, <3>2, <3>3
  <2> QED
    BY <2>1, <2>2
<1> HIDE DEF new, key, payload
<1>5. PICK text \in Texts \union {Empty}, done \in Payloads \union {Absent} :
        /\ file' = [file EXCEPT ![key] = text]
        /\ stored' = [stored EXCEPT ![key] = done]
        /\ \/ /\ text \in Texts /\ Parsed[text] = Meaning[payload]
              /\ done = payload /\ cut' = cut
           \/ /\ text # Empty => Parsed[text] \in {Fail, Meaning[payload]}
              /\ done = Absent /\ cut'
  BY <1>4
<1>6. new \in Jobs /\ new \notin Lookups
  BY <1>2, JobShapes DEF Jobs
<1>7. job'[w] = new /\ \A u \in Workers \ {w} : job'[u] = job[u]
  BY <1>1, <1>3
<1>8. file'[key] = text /\ \A k \in Keys \ {key} : file'[k] = file[k]
  BY <1>1, <1>2, <1>5
<1>9. stored'[key] = done /\ \A k \in Keys \ {key} : stored'[k] = stored[k]
  BY <1>1, <1>2, <1>5
<1>10. text # Absent /\ Empty \notin Texts
  BY DatabaseAssumption
<1>11. Meaning[payload] \in Values /\ cut' \in BOOLEAN /\ (cut => cut')
  BY <1>2, <1>5 DEF Values, DbInv, DbTypeOK
<1>12. DbTypeOK'
  <2>1. file' \in [Keys -> Texts \union {Empty, Absent}]
    BY <1>1, <1>5
  <2>2. stored' \in [Keys -> Payloads \union {Absent}]
    BY <1>1, <1>5
  <2> QED
    BY <1>1, <1>3, <1>6, <1>11, <2>1, <2>2 DEF DbInv, DbTypeOK
<1>13. FilesAreRead'
  <2> SUFFICES ASSUME NEW k \in Keys
               PROVE  /\ ~ dir' => file'[k] = Absent
                      /\ file'[k] \in Texts =>
                            /\ Parsed[file'[k]] \in Values \union {Fail}
                            /\ cut' \/ Parsed[file'[k]] # Fail
    BY DEF FilesAreRead
  <2>1. CASE k = key
    BY <2>1, <1>2, <1>3, <1>5, <1>8, <1>10, <1>11
  <2>2. CASE k # key
    BY <2>2, <1>3, <1>8, <1>11 DEF DbInv, FilesAreRead
  <2> QED
    BY <2>1, <2>2
<1>14. WritersAreReady'
  BY <1>2, <1>3, <1>7, <1>8, <1>10, WritersWait
<1>15. StoredIsReadable'
  <2> SUFFICES ASSUME NEW k \in Keys, stored'[k] # Absent
               PROVE  \/ /\ file'[k] = Empty
                         /\ \E u \in Workers : job'[u].stage = "write" /\ job'[u].key = k
                      \/ file'[k] # Empty /\ Parsed[file'[k]] = Meaning[stored'[k]]
    BY DEF StoredIsReadable
  <2>1. CASE k = key
    BY <2>1, <1>5, <1>8, <1>9, <1>10
  <2>2. CASE k # key
    <3>1. \/ file[k] = Empty /\ \E u \in Workers : job[u].stage = "write" /\ job[u].key = k
          \/ file[k] # Empty /\ Parsed[file[k]] = Meaning[stored[k]]
      BY <2>2, <1>9 DEF DbInv, StoredIsReadable
    <3>2. file'[k] = file[k] /\ stored'[k] = stored[k]
      BY <2>2, <1>8, <1>9
    <3>3. \A u \in Workers : job[u].stage = "write" /\ job[u].key = k => job'[u] = job[u]
      BY <2>2, <1>7 DEF key
    <3> QED
      BY <3>1, <3>2, <3>3
  <2> QED
    BY <2>1, <2>2
<1>16. ReadersAreReady'
  BY <1>6, <1>7, <1>8, <1>10, <1>11, ReadersWait
<1> QED
  BY <1>12, <1>13, <1>14, <1>15, <1>16 DEF DbInv

(* Only w takes a step, in a query: what it has found must be as it has to *)
(* be.                                                                     *)
LEMMA ReaderStepInv ==
    ASSUME DbInv, NEW w \in Workers, NEW new \in Lookups,
           job' = [job EXCEPT ![w] = new],
           UNCHANGED <<dir, file, stored, cut>>,
           job[w].stage # "write",
           \A k \in new.todo : file[k] # Absent,
           FoundOnce(new),
           cut \/ \A i \in DOMAIN new.found : Parsed[new.found[i][2]] # Fail,
           new.stage = "answer" /\ HasStep(new.query, "ORDER_BY") =>
                \A i \in DOMAIN new.found : Parsed[new.found[i][2]] # Fail
    PROVE  DbInv'
<1>1. job \in [Workers -> Jobs] /\ new \in Jobs
  BY DEF DbInv, DbTypeOK, Jobs
<1>2. job'[w] = new /\ \A u \in Workers \ {w} : job'[u] = job[u]
  BY <1>1
<1>3. new.stage \notin {"open", "write"}
  BY DEF Lookups
<1>4. DbTypeOK'
  BY <1>1 DEF DbInv, DbTypeOK
<1>5. FilesAreRead'
  BY FilesWait
<1>6. WritersAreReady'
  BY <1>2, <1>3, WritersWait
<1>7. StoredIsReadable'
  BY <1>2, StoredWaits
<1>8. ReadersAreReady'
  <2> SUFFICES ASSUME NEW u \in Workers, job'[u] \in Lookups
               PROVE  /\ \A k \in job'[u].todo : file'[k] # Absent
                      /\ FoundOnce(job'[u])
                      /\ cut' \/ \A i \in DOMAIN job'[u].found :
                                      Parsed[job'[u].found[i][2]] # Fail
                      /\ job'[u].stage = "answer" /\ HasStep(job'[u].query, "ORDER_BY") =>
                          \A i \in DOMAIN job'[u].found : Parsed[job'[u].found[i][2]] # Fail
    BY DEF ReadersAreReady, FoundOnce
  <2>1. CASE u = w
    BY <2>1, <1>2
  <2>2. CASE u # w
    BY <2>2, <1>2 DEF DbInv, ReadersAreReady
  <2> QED
    BY <2>1, <2>2
<1> QED
  BY <1>4, <1>5, <1>6, <1>7, <1>8 DEF DbInv

(* The files are listed.                                                   *)
LEMMA ListInv ==
    ASSUME DbInv, NEW w \in Workers, ListRecords(w)
    PROVE  DbInv'
<1>1. job \in [Workers -> Jobs] /\ job[w] \in Lookups /\ job[w].stage = "list"
  BY JobShapes DEF ListRecords, DbInv, DbTypeOK
<1> DEFINE todo == IF dir THEN {k \in Keys : file[k] # Absent} ELSE {}
           new == [job[w] EXCEPT !.stage = "read", !.todo = todo]
<1>2. todo \in SUBSET Keys /\ \A k \in todo : file[k] # Absent
  OBVIOUS
<1>3. /\ job' = [job EXCEPT ![w] = new]
      /\ UNCHANGED <<dir, file, stored, cut>>
  BY <1>1 DEF ListRecords
<1> HIDE DEF todo
<1>4. /\ new \in Lookups /\ new.stage = "read" /\ new.todo = todo
      /\ new.found = job[w].found /\ new.query = job[w].query
  BY <1>1, <1>2 DEF Lookups
<1>5. DOMAIN job[w].found = {}
  BY <1>1 DEF DbInv, ReadersAreReady, FoundOnce
<1>6. FoundOnce(new)
  BY <1>4, <1>5 DEF FoundOnce
<1> HIDE DEF new
<1> QED
  BY <1>1, <1>2, <1>3, <1>4, <1>5, <1>6, ReaderStepInv

(* A record is looked at.                                                  *)
LEMMA ReadInv ==
    ASSUME DbInv, NEW w \in Workers, NEW k \in Keys, ReadRecord(w, k)
    PROVE  DbInv'
<1>1. /\ job \in [Workers -> Jobs] /\ job[w] \in Lookups /\ job[w].stage = "read"
      /\ k \in job[w].todo
  BY JobShapes DEF ReadRecord, DbInv, DbTypeOK
<1> DEFINE q == job[w].query
           found == job[w].found
           verdict == IF file[k] = Empty THEN "no match"
                      ELSE Evaluate(Parsed[file[k]], q)
           now == IF verdict = "match" THEN Append(found, <<k, file[k]>>) ELSE found
           new == [job[w] EXCEPT !.stage = IF verdict = "error" THEN "failed" ELSE "read",
                                 !.todo = @ \ {k},
                                 !.found = now]
<1>2. /\ q \in Queries /\ found \in Seq(Keys \X Texts)
      /\ FoundOnce(job[w])
      /\ cut \/ \A i \in DOMAIN found : Parsed[found[i][2]] # Fail
      /\ \A x \in job[w].todo : file[x] # Absent
  BY <1>1 DEF DbInv, ReadersAreReady, Lookups
<1>3. /\ job' = [job EXCEPT ![w] = new]
      /\ UNCHANGED <<dir, file, stored, cut>>
  BY <1>1 DEF ReadRecord
\* What is found is a text that can be read.
<1>4. verdict = "match" =>
        /\ file[k] \in Texts
        /\ Parsed[file[k]] \in Values \union {Fail}
        /\ cut \/ Parsed[file[k]] # Fail
        /\ HasStep(q, "WHERE") => Parsed[file[k]] # Fail
  <2> SUFFICES ASSUME verdict = "match"
               PROVE  /\ file[k] \in Texts
                      /\ Parsed[file[k]] \in Values \union {Fail}
                      /\ cut \/ Parsed[file[k]] # Fail
                      /\ HasStep(q, "WHERE") => Parsed[file[k]] # Fail
    OBVIOUS
  <2>1. file[k] # Empty /\ Evaluate(Parsed[file[k]], q) = "match"
    OBVIOUS
  <2>2. file[k] \in Texts
    BY <1>1, <1>2, <2>1 DEF DbInv, DbTypeOK
  <2>3. HasStep(q, "WHERE") => Parsed[file[k]] # Fail
    BY <1>2, <2>1, EvaluateIs
  <2> QED
    BY <2>2, <2>3 DEF DbInv, FilesAreRead
<1> HIDE DEF verdict
<1>5. /\ now \in Seq(Keys \X Texts)
      /\ \A i \in DOMAIN now :
            \/ i \in DOMAIN found /\ now[i] = found[i]
            \/ verdict = "match" /\ i = Len(found) + 1 /\ now[i] = <<k, file[k]>>
  <2>1. Len(found) \in Nat /\ DOMAIN found = 1 .. Len(found)
    BY <1>2
  <2>2. CASE verdict = "match"
    <3>1. <<k, file[k]>> \in Keys \X Texts /\ now = Append(found, <<k, file[k]>>)
      BY <1>4, <2>2
    <3> HIDE DEF now
    <3>2. /\ now \in Seq(Keys \X Texts) /\ Len(now) = Len(found) + 1
          /\ \A i \in 1 .. Len(found) : now[i] = found[i]
          /\ now[Len(found) + 1] = <<k, file[k]>>
      BY <1>2, <3>1, AppendProperties
    <3> QED
      BY <2>1, <2>2, <3>2
  <2>3. CASE verdict # "match"
    BY <1>2, <2>3
  <2> QED
    BY <2>2, <2>3
<1> HIDE DEF now
<1>6. /\ new \in Lookups /\ new.stage \in {"read", "failed"} /\ new.query = q
      /\ new.todo = job[w].todo \ {k} /\ new.found = now
  BY <1>1, <1>5 DEF Lookups
<1> HIDE DEF new, found, q
<1>7. \A i \in DOMAIN now :
        /\ now[i][1] \notin new.todo
        /\ Parsed[now[i][2]] \in Values \union {Fail}
        /\ HasStep(q, "WHERE") => Parsed[now[i][2]] # Fail
        /\ cut \/ Parsed[now[i][2]] # Fail
  <2> SUFFICES ASSUME NEW i \in DOMAIN now
               PROVE  /\ now[i][1] \notin new.todo
                      /\ Parsed[now[i][2]] \in Values \union {Fail}
                      /\ HasStep(q, "WHERE") => Parsed[now[i][2]] # Fail
                      /\ cut \/ Parsed[now[i][2]] # Fail
    OBVIOUS
  <2>1. CASE i \in DOMAIN found /\ now[i] = found[i]
    BY <2>1, <1>2, <1>6 DEF FoundOnce, found, q
  <2>2. CASE verdict = "match" /\ now[i] = <<k, file[k]>>
    BY <2>2, <1>4, <1>6
  <2> QED
    BY <1>5, <2>1, <2>2
<1>8. \A i, j \in DOMAIN now : i # j => now[i][1] # now[j][1]
  <2>1. \A i \in DOMAIN found : found[i][1] # k
    BY <1>1, <1>2 DEF FoundOnce, found
  <2>2. \A i, j \in DOMAIN found : i # j => found[i][1] # found[j][1]
    BY <1>2 DEF FoundOnce, found
  <2>3. \A i \in DOMAIN now :
            \/ i \in DOMAIN found /\ now[i][1] = found[i][1]
            \/ i = Len(found) + 1 /\ now[i][1] = k
    BY <1>5
  <2> QED
    BY <2>1, <2>2, <2>3
<1>9. FoundOnce(new)
  BY <1>6, <1>7, <1>8 DEF FoundOnce
<1> QED
  BY <1>1, <1>2, <1>3, <1>6, <1>7, <1>9, ReaderStepInv

(* The records found are sorted, and the answer is made of them.           *)
LEMMA SortInv ==
    ASSUME DbInv, NEW w \in Workers, SortAndLimit(w)
    PROVE  DbInv'
<1>1. /\ job \in [Workers -> Jobs] /\ job[w] \in Lookups /\ job[w].stage = "read"
      /\ job[w].todo = {}
  BY JobShapes DEF SortAndLimit, DbInv, DbTypeOK
<1> DEFINE q == job[w].query
           found == job[w].found
           new == IF Sortable(q, found)
                  THEN [job[w] EXCEPT !.stage = "answer", !.found = Answer(q, found)]
                  ELSE [job[w] EXCEPT !.stage = "failed"]
<1>2. /\ q \in Queries /\ found \in Seq(Keys \X Texts)
      /\ FoundOnce(job[w])
      /\ cut \/ \A i \in DOMAIN found : Parsed[found[i][2]] # Fail
  BY <1>1 DEF DbInv, ReadersAreReady, Lookups
<1>3. /\ job' = [job EXCEPT ![w] = new]
      /\ UNCHANGED <<dir, file, stored, cut>>
  BY <1>1 DEF SortAndLimit
<1>4. CASE Sortable(q, found)
  <2> DEFINE r == Answer(q, found)
  <2>1. r \in Seq(Keys \X Texts)
    BY <1>2, AnswerIs
  <2>2. /\ \A i, j \in DOMAIN r : i # j => r[i][1] # r[j][1]
        /\ \A i \in DOMAIN r : \E j \in DOMAIN found : r[i] = found[j]
    BY <1>2, AnswerKeeps DEF FoundOnce
  <2> HIDE DEF r
  <2>3. /\ new \in Lookups /\ new.query = q /\ new.todo = {} /\ new.found = r
        /\ new.stage = "answer"
    BY <1>1, <1>4, <2>1 DEF Lookups, r
  <2> HIDE DEF new
  <2>4. \A i \in DOMAIN found :
            /\ Parsed[found[i][2]] \in Values \union {Fail}
            /\ HasStep(q, "WHERE") => Parsed[found[i][2]] # Fail
    BY <1>2 DEF FoundOnce
  <2>5. HasStep(q, "ORDER_BY") => \A i \in DOMAIN found : Parsed[found[i][2]] # Fail
    <3>1. HasStep(q, "ORDER_BY") => LastStep(q, "ORDER_BY") # 0
      BY <1>2, LastStepIs
    <3> QED
      BY <1>4, <3>1 DEF Sortable, ExtractFieldValue
  <2> HIDE DEF q, found
  <2>6. FoundOnce(new)
    BY <2>2, <2>3, <2>4 DEF FoundOnce
  <2>7. /\ cut \/ \A i \in DOMAIN r : Parsed[r[i][2]] # Fail
        /\ HasStep(q, "ORDER_BY") => \A i \in DOMAIN r : Parsed[r[i][2]] # Fail
    BY <1>2, <2>2, <2>5
  <2> QED
    BY <1>1, <1>3, <2>3, <2>6, <2>7, ReaderStepInv
<1>5. CASE ~ Sortable(q, found)
  <2>1. /\ new \in Lookups /\ new.query = q /\ new.todo = {} /\ new.found = found
        /\ new.stage = "failed"
    BY <1>1, <1>5 DEF Lookups
  <2> HIDE DEF new
  <2>2. FoundOnce(new)
    BY <1>1, <1>2, <2>1 DEF FoundOnce
  <2> QED
    BY <1>1, <1>2, <1>3, <2>1, <2>2, ReaderStepInv
<1> QED
  BY <1>4, <1>5

(* Every step preserves the invariant.                                     *)
LEMMA DbNextInv ==
    ASSUME TextsAreRead, DbInv, [DbNext]_dbVars
    PROVE  DbInv'
<1>1. CASE UNCHANGED dbVars
  <2>1. UNCHANGED <<dir, file, job, stored, cut>>
    BY <1>1 DEF dbVars
  <2> QED
    BY <2>1 DEF DbInv, DbTypeOK, FilesAreRead, WritersAreReady, StoredIsReadable,
                ReadersAreReady, FoundOnce
<1>2. CASE DbNext
  <2>1. CASE DbInternal
    <3> PICK w \in Workers :
            \/ EnterUpsert(w) \/ MakeDirectory(w) \/ RefusePayload(w)
            \/ OpenRecord(w) \/ WriteRecord(w) \/ WriteIsCutShort(w)
            \/ ListRecords(w) \/ (\E k \in Keys : ReadRecord(w, k)) \/ SortAndLimit(w)
      BY <2>1 DEF DbInternal
    <3> QED
      BY BeforeTheFileInv, OpenInv, WriteInv, ListInv, ReadInv, SortInv
  <2>2. CASE DbCrash
    BY <2>2, DbCrashInv
  <2>3. CASE \E w \in Workers :
                \/ \E k \in Keys, p \in Payloads : AcceptUpsert(w, k, p)
                \/ UpsertReply(w)
                \/ \E q \in Queries : AcceptQuery(w, q)
                \/ QueryReply(w)
    BY <2>3, AcceptInv, ReplyInv
  <2> QED
    BY <1>2, <2>1, <2>2, <2>3 DEF DbNext
<1> QED
  BY <1>1, <1>2

-----------------------------------------------------------------------------
(* The theorems *)

(* The invariant holds: in every state of the service, the types are       *)
(* right, every text in a file is read as a value that some client sent or *)
(* as none, writers have JSON to write, and queries have found each record *)
(* once.                                                                   *)
THEOREM DbInvariant ==
    ASSUME TextsAreRead
    PROVE  DbSpec => []DbInv
<1>1. DbInit => DbInv
  BY DbInitInv
<1>2. DbInv /\ [DbNext]_dbVars => DbInv'
  BY DbNextInv
<1> QED
  BY <1>1, <1>2, PTL DEF DbSpec

(* What UpsertRPC has completely written can be read until the next upsert *)
(* of the key truncates it, for any number of workers, keys and payloads   *)
(* and whatever is on the disk when the process dies.                      *)
THEOREM RecordsStayReadable ==
    ASSUME TextsAreRead
    PROVE  DbSpec => []StoredIsReadable
<1>1. DbInv => StoredIsReadable
  BY DEF DbInv
<1> QED
  BY <1>1, DbInvariant, PTL

(* A query that looks at fields answers with no record that nobody stored, *)
(* though a write may have been cut short.                                 *)
THEOREM QueriesMisreadNothing ==
    ASSUME TextsAreRead
    PROVE  DbSpec => []NothingIsMisread
<1>1. DbInv => NothingIsMisread
  <2> SUFFICES ASSUME DbInv, NEW w \in Workers, job[w].stage = "answer",
                      NEW s \in DOMAIN job[w].query, job[w].query[s].type # "LIMIT",
                      NEW i \in DOMAIN job[w].found
               PROVE  Parsed[job[w].found[i][2]] \in Values \ {Fail}
    BY DEF NothingIsMisread
  <2>1. job[w] \in Lookups
    BY JobShapes DEF DbInv, DbTypeOK
  <2>2. job[w].query \in Queries
    BY <2>1 DEF Lookups
  <2>3. HasStep(job[w].query, "WHERE") \/ HasStep(job[w].query, "ORDER_BY")
    BY <2>2, QueryAssumption DEF HasStep
  <2>4. /\ Parsed[job[w].found[i][2]] \in Values \union {Fail}
        /\ HasStep(job[w].query, "WHERE") => Parsed[job[w].found[i][2]] # Fail
    BY <2>1 DEF DbInv, ReadersAreReady, FoundOnce
  <2>5. HasStep(job[w].query, "ORDER_BY") => Parsed[job[w].found[i][2]] # Fail
    BY <2>1 DEF DbInv, ReadersAreReady
  <2> QED
    BY <2>3, <2>4, <2>5
<1> QED
  BY <1>1, DbInvariant, PTL

\* The part of AnswersAreOrdered about one handler.
AnswerIsOrdered(jb) ==
    \A i, j \in DOMAIN jb.found : i < j =>
        /\ jb.found[i][1] # jb.found[j][1]
        /\ LastStep(jb.query, "ORDER_BY") # 0 =>
            InOrder(jb.query, Parsed[jb.found[i][2]], Parsed[jb.found[j][2]])

(* What SortAndLimit answers is in order.                                  *)
LEMMA SortAndLimitOrders ==
    ASSUME DbInv, FieldsAreComparable, NEW w \in Workers, SortAndLimit(w),
           job'[w].stage = "answer"
    PROVE  AnswerIsOrdered(job'[w])
<1>1. /\ job \in [Workers -> Jobs] /\ job[w] \in Lookups /\ job[w].stage = "read"
  BY JobShapes DEF SortAndLimit, DbInv, DbTypeOK
<1> DEFINE q == job[w].query
           found == job[w].found
           t == Sorted(q, found)
           r == Answer(q, found)
<1>2. /\ q \in Queries /\ found \in Seq(Keys \X Texts)
      /\ \A i, j \in DOMAIN found : i # j => found[i][1] # found[j][1]
      /\ \A i \in DOMAIN found : Parsed[found[i][2]] \in Values \union {Fail}
  BY <1>1 DEF DbInv, ReadersAreReady, Lookups, FoundOnce
<1>3. Sortable(q, found)
  <2> SUFFICES ASSUME ~ Sortable(q, found) PROVE FALSE
    OBVIOUS
  <2>1. job'[w] = [job[w] EXCEPT !.stage = "failed"]
    BY <1>1 DEF SortAndLimit
  <2>2. job'[w].stage = "failed"
    BY <1>1, <2>1 DEF Lookups
  <2> QED
    BY <2>2
<1>4. job'[w].query = q /\ job'[w].found = r
  <2>1. job'[w] = [job[w] EXCEPT !.stage = "answer", !.found = r]
    BY <1>1, <1>3 DEF SortAndLimit
  <2> HIDE DEF r
  <2> QED
    BY <1>1, <2>1 DEF Lookups
<1>5. \A i, j \in DOMAIN r : i # j => r[i][1] # r[j][1]
  BY <1>2, AnswerKeeps
<1>6. /\ r \in Seq(Keys \X Texts) /\ Len(r) <= Len(t)
      /\ \A i \in 1 .. Len(r) : r[i] = t[i]
  BY <1>2, AnswerIs
<1>7. t \in Seq(Keys \X Texts)
  BY <1>2, SortedIs
<1>8. ASSUME LastStep(q, "ORDER_BY") # 0
      PROVE  \A i, j \in DOMAIN t : i < j => InOrder(q, Parsed[t[i][2]], Parsed[t[j][2]])
  <2>1. HasStep(q, "ORDER_BY")
    BY <1>2, <1>8, LastStepIs
  <2> HIDE DEF q, found
  <2> QED
    BY <1>2, <1>3, <2>1, SortedIsRanked
<1> HIDE DEF t, r, q, found
<1>9. \A i \in DOMAIN r : i \in DOMAIN t /\ r[i] = t[i]
  <2>1. DOMAIN t = 1 .. Len(t) /\ DOMAIN r = 1 .. Len(r) /\ Len(t) \in Nat /\ Len(r) \in Nat
    BY <1>6, <1>7
  <2> QED
    BY <1>6, <2>1
<1>10. DOMAIN r \subseteq Nat
  BY <1>6
<1> QED
  BY <1>4, <1>5, <1>8, <1>9, <1>10 DEF AnswerIsOrdered

(* No other step makes an answer.                                          *)
LEMMA CauseOfAnswer ==
    ASSUME DbInv, DbNext, NEW w \in Workers, job'[w].stage = "answer"
    PROVE  job'[w] = job[w] \/ SortAndLimit(w)
<1>1. job \in [Workers -> Jobs]
  BY DEF DbInv, DbTypeOK
<1>2. \A u \in Workers : job[u].stage = "enter" \/ job[u].stage = "mkdir"
            \/ job[u].stage = "open" \/ job[u].stage = "write" =>
        \A s : [job EXCEPT ![u].stage = s][u].stage = s
  <2> SUFFICES ASSUME NEW u \in Workers,
                      job[u].stage = "enter" \/ job[u].stage = "mkdir"
                        \/ job[u].stage = "open" \/ job[u].stage = "write", NEW s
               PROVE  [job EXCEPT ![u].stage = s][u].stage = s
    OBVIOUS
  <2>1. job[u] \in Upserts
    BY <1>1, JobShapes
  <2> QED
    BY <1>1, <2>1 DEF Upserts
<1>3. CASE DbCrash
  BY <1>3 DEF DbCrash, IdleJob
<1>4. ASSUME NEW u \in Workers,
             \/ EnterUpsert(u) \/ MakeDirectory(u) \/ RefusePayload(u)
             \/ OpenRecord(u) \/ WriteRecord(u) \/ WriteIsCutShort(u)
      PROVE  job'[w] = job[w]
  <2>1. PICK s \in {"open", "mkdir", "failed", "write", "ok"} :
            job' = [job EXCEPT ![u].stage = s]
    BY <1>4 DEF EnterUpsert, MakeDirectory, RefusePayload, OpenRecord, WriteRecord,
                WriteIsCutShort
  <2>2. job[u].stage = "enter" \/ job[u].stage = "mkdir"
            \/ job[u].stage = "open" \/ job[u].stage = "write"
    BY <1>4 DEF EnterUpsert, MakeDirectory, RefusePayload, OpenRecord, WriteRecord,
                WriteIsCutShort
  <2>3. job'[u].stage # "answer"
    BY <1>2, <2>1, <2>2
  <2> QED
    BY <1>1, <2>1, <2>3
<1>5. ASSUME NEW u \in Workers, ListRecords(u) \/ \E k \in Keys : ReadRecord(u, k)
      PROVE  job'[w] = job[w]
  <2>1. job[u] \in Lookups
    BY <1>1, <1>5, JobShapes DEF ListRecords, ReadRecord
  <2>2. CASE ListRecords(u)
    <3>1. job'[u].stage = "read"
      BY <1>1, <2>1, <2>2 DEF ListRecords, Lookups
    <3> QED
      BY <1>1, <2>2, <3>1 DEF ListRecords
  <2>3. CASE \E k \in Keys : ReadRecord(u, k)
    <3>1. PICK k \in Keys : ReadRecord(u, k)
      BY <2>3
    <3> DEFINE verdict == IF file[k] = Empty THEN "no match"
                          ELSE Evaluate(Parsed[file[k]], job[u].query)
               s == IF verdict = "error" THEN "failed" ELSE "read"
               todo == job[u].todo \ {k}
               now == IF verdict = "match" THEN Append(job[u].found, <<k, file[k]>>)
                      ELSE job[u].found
    <3>2. job' = [job EXCEPT ![u] = [job[u] EXCEPT !.stage = s, !.todo = todo,
                                                   !.found = now]]
      BY <1>1, <3>1 DEF ReadRecord
    <3>3. s # "answer"
      OBVIOUS
    <3> HIDE DEF s, todo, now, verdict
    <3>4. job'[u].stage = s
      BY <1>1, <2>1, <3>2 DEF Lookups
    <3> QED
      BY <1>1, <3>2, <3>3, <3>4
  <2> QED
    BY <1>5, <2>2, <2>3
<1>6. ASSUME NEW u \in Workers, SortAndLimit(u)
      PROVE  job'[w] = job[w] \/ SortAndLimit(w)
  BY <1>1, <1>6 DEF SortAndLimit
<1>7. ASSUME NEW u \in Workers,
             \/ \E k \in Keys, p \in Payloads : AcceptUpsert(u, k, p)
             \/ \E q \in Queries : AcceptQuery(u, q)
             \/ UpsertReply(u) \/ QueryReply(u)
      PROVE  job'[w] = job[w]
  BY <1>1, <1>7 DEF AcceptUpsert, AcceptQuery, UpsertReply, QueryReply, IdleJob
<1> QED
  BY <1>3, <1>4, <1>5, <1>6, <1>7 DEF DbNext, DbInternal

(* Answers hold each record once, in the order that the last ORDER_BY asks *)
(* for: the comparator of a descending one, which is no strict weak order, *)
(* still makes std::sort sort.                                             *)
THEOREM AnswersComeOrdered ==
    ASSUME TextsAreRead, FieldsAreComparable
    PROVE  DbSpec => []AnswersAreOrdered
<1>1. DbInit => AnswersAreOrdered
  BY DEF DbInit, IdleJob, AnswersAreOrdered
<1>2. AnswersAreOrdered <=>
        \A w \in Workers : job[w].stage = "answer" => AnswerIsOrdered(job[w])
  BY DEF AnswersAreOrdered, AnswerIsOrdered, InOrder
<1>3. AnswersAreOrdered' <=>
        \A w \in Workers : job'[w].stage = "answer" => AnswerIsOrdered(job'[w])
  BY DEF AnswersAreOrdered, AnswerIsOrdered, InOrder
<1>4. AnswersAreOrdered /\ DbInv /\ [DbNext]_dbVars => AnswersAreOrdered'
  <2> SUFFICES ASSUME AnswersAreOrdered, DbInv, [DbNext]_dbVars,
                      NEW w \in Workers, job'[w].stage = "answer"
               PROVE  AnswerIsOrdered(job'[w])
    BY <1>3
  <2>1. CASE job'[w] = job[w]
    BY <2>1, <1>2
  <2>2. CASE SortAndLimit(w)
    BY <2>2, SortAndLimitOrders
  <2>3. CASE UNCHANGED dbVars
    BY <2>3, <2>1 DEF dbVars
  <2> QED
    BY <2>1, <2>2, <2>3, CauseOfAnswer
<1> QED
  BY <1>1, <1>4, DbInvariant, PTL DEF DbSpec

-----------------------------------------------------------------------------
(* The refinement *)

(* What the callers see of a handler, by its shape.                        *)
LEMMA CallShapes ==
    /\ CallOf(IdleJob) = IdleJob
    /\ \A jb \in Upserts :
        CallOf(jb) = [stage |-> CASE jb.stage \in {"enter", "mkdir", "open"} -> "begun"
                                  [] jb.stage = "write" -> "removed"
                                  [] OTHER -> jb.stage,
                      key |-> jb.key, payload |-> Meaning[jb.payload]]
    /\ \A jb \in Lookups :
        CallOf(jb) = Store!QueryOp(jb.stage, jb.query, jb.todo, ShownPairs(jb.found))
<1>1. CallOf(IdleJob) = IdleJob
  BY DEF CallOf, IdleJob
<1>2. ASSUME NEW jb \in Upserts PROVE jb.stage \in UpsertStages /\ "payload" \in DOMAIN jb
  BY DEF Upserts
<1>3. ASSUME NEW jb \in Lookups
      PROVE  CallOf(jb) = Store!QueryOp(jb.stage, jb.query, jb.todo, ShownPairs(jb.found))
  <2>1. "payload" \notin DOMAIN jb /\ jb # IdleJob
    BY JobShapes DEF Lookups, Jobs
  <2>2. CallOf(jb) = [jb EXCEPT !.found = ShownPairs(jb.found)]
    BY <2>1 DEF CallOf, Lookups
  <2> DEFINE pairs == ShownPairs(jb.found)
  <2> HIDE DEF pairs
  <2>3. CallOf(jb) = [jb EXCEPT !.found = pairs]
    BY <2>2 DEF pairs
  <2>4. [jb EXCEPT !.found = pairs] = Store!QueryOp(jb.stage, jb.query, jb.todo, pairs)
    BY DEF Lookups, Store!QueryOp
  <2> QED
    BY <2>3, <2>4 DEF pairs
<1> QED
  BY <1>1, <1>2, <1>3 DEF CallOf

(* Only w takes a step: so do the calls.                                   *)
LEMMA CallsMove ==
    ASSUME job \in [Workers -> Jobs], NEW w \in Workers, NEW new,
           job' = [job EXCEPT ![w] = new]
    PROVE  /\ ShownCalls' = [ShownCalls EXCEPT ![w] = CallOf(new)]
           /\ ShownCalls[w] = CallOf(job[w])
<1>1. ShownCalls' = [u \in Workers |-> CallOf(job'[u])]
  BY DEF ShownCalls, CallOf, ShownPairs
<1>2. ShownCalls = [u \in Workers |-> CallOf(job[u])]
  BY DEF ShownCalls
<1> QED
  BY <1>1, <1>2

(* The records stay as they are.                                           *)
LEMMA RecordsWait ==
    ASSUME UNCHANGED file
    PROVE  UNCHANGED ShownRecords
BY DEF ShownRecords, Shown

(* A record is written: so is the one that is seen.                        *)
LEMMA RecordsMove ==
    ASSUME file \in [Keys -> Texts \union {Empty, Absent}], NEW k \in Keys, NEW text,
           file' = [file EXCEPT ![k] = text]
    PROVE  ShownRecords' = [ShownRecords EXCEPT ![k] = Shown(text)]
BY DEF ShownRecords, Shown

(* Upserts implement those of RecordStore: the open removes the record, the *)
(* write puts the new one.                                                 *)
LEMMA UpsertSteps ==
    ASSUME TextsAreRead, DbInv, NEW w \in Workers,
           \/ EnterUpsert(w) \/ MakeDirectory(w) \/ RefusePayload(w)
           \/ OpenRecord(w) \/ WriteRecord(w)
    PROVE  UNCHANGED Store!vars \/ Store!Step(w)
<1>1. /\ job \in [Workers -> Jobs] /\ job[w] \in Upserts
      /\ file \in [Keys -> Texts \union {Empty, Absent}]
  BY JobShapes DEF EnterUpsert, MakeDirectory, RefusePayload, OpenRecord, WriteRecord,
                   DbInv, DbTypeOK
<1> DEFINE key == job[w].key
           payload == job[w].payload
           call == [stage |-> "begun", key |-> key, payload |-> Meaning[payload]]
<1>2. /\ key \in Keys /\ payload \in Payloads
      /\ ShownCalls \in [Workers -> {CallOf(job[u]) : u \in Workers}]
  BY <1>1 DEF Upserts, ShownCalls
\* A step that only moves the handler to stage s.
<1>3. ASSUME NEW s \in UpsertStages, job' = [job EXCEPT ![w].stage = s]
      PROVE  LET new == [job[w] EXCEPT !.stage = s]
             IN  /\ new \in Upserts /\ new.stage = s
                 /\ new.key = key /\ new.payload = payload
                 /\ ShownCalls' = [ShownCalls EXCEPT ![w] = CallOf(new)]
                 /\ ShownCalls[w] = CallOf(job[w])
  <2> DEFINE new == [job[w] EXCEPT !.stage = s]
  <2>1. /\ new \in Upserts /\ new.stage = s
        /\ new.key = key /\ new.payload = payload
    BY <1>1 DEF Upserts
  <2>2. job' = [job EXCEPT ![w] = new]
    BY <1>1, <1>3
  <2> HIDE DEF new
  <2>3. /\ ShownCalls' = [ShownCalls EXCEPT ![w] = CallOf(new)]
        /\ ShownCalls[w] = CallOf(job[w])
    BY <1>1, <2>2, CallsMove
  <2> QED
    BY <2>1, <2>3 DEF new
<1>4. ASSUME NEW s \in {"open", "mkdir"}, job[w].stage \in {"enter", "mkdir"},
             job' = [job EXCEPT ![w].stage = s], UNCHANGED file
      PROVE  UNCHANGED Store!vars
  <2> DEFINE new == [job[w] EXCEPT !.stage = s]
  <2>1. /\ new \in Upserts /\ new.stage = s /\ new.key = key /\ new.payload = payload
        /\ ShownCalls' = [ShownCalls EXCEPT ![w] = CallOf(new)]
        /\ ShownCalls[w] = CallOf(job[w])
    BY <1>3, <1>4 DEF UpsertStages
  <2> HIDE DEF new
  <2>2. CallOf(new) = call /\ CallOf(job[w]) = call
    BY <1>1, <1>4, <2>1, CallShapes
  <2>3. UNCHANGED ShownCalls
    BY <1>2, <2>1, <2>2
  <2> QED
    BY <1>4, <2>3, RecordsWait DEF Store!vars
<1>5. ASSUME job[w].stage \in {"mkdir", "open"}, job' = [job EXCEPT ![w].stage = "failed"],
             UNCHANGED file
      PROVE  Store!FailUpsert(w)
  <2> DEFINE new == [job[w] EXCEPT !.stage = "failed"]
  <2>1. /\ new \in Upserts /\ new.stage = "failed" /\ new.key = key /\ new.payload = payload
        /\ ShownCalls' = [ShownCalls EXCEPT ![w] = CallOf(new)]
        /\ ShownCalls[w] = CallOf(job[w])
    BY <1>3, <1>5 DEF UpsertStages
  <2> HIDE DEF new
  <2>2. CallOf(new) = [call EXCEPT !.stage = "failed"] /\ CallOf(job[w]) = call
    BY <1>1, <1>5, <2>1, CallShapes
  <2>3. ShownCalls' = [ShownCalls EXCEPT ![w].stage = "failed"]
    BY <1>2, <2>1, <2>2
  <2> QED
    BY <1>5, <2>1, <2>2, <2>3, RecordsWait DEF Store!FailUpsert
<1>6. CASE EnterUpsert(w)
  <2>1. CASE dir
    BY <1>4, <1>6, <2>1 DEF EnterUpsert
  <2>2. CASE ~ dir
    BY <1>4, <1>6, <2>2 DEF EnterUpsert
  <2> QED
    BY <2>1, <2>2
<1>7. CASE MakeDirectory(w)
  <2>1. CASE dir
    <3>1. Store!FailUpsert(w)
      BY <1>5, <1>7, <2>1 DEF MakeDirectory
    <3> QED
      BY <3>1 DEF Store!Step
  <2>2. CASE ~ dir
    BY <1>4, <1>7, <2>2 DEF MakeDirectory
  <2> QED
    BY <2>1, <2>2
<1>8. CASE RefusePayload(w)
  <2>1. Store!FailUpsert(w)
    BY <1>5, <1>8 DEF RefusePayload
  <2> QED
    BY <2>1 DEF Store!Step
<1>9. CASE OpenRecord(w)
  <2> DEFINE new == [job[w] EXCEPT !.stage = "write"]
  <2>1. /\ job[w].stage = "open" /\ job' = [job EXCEPT ![w].stage = "write"]
        /\ file' = [file EXCEPT ![key] = Empty]
    BY <1>9 DEF OpenRecord
  <2>2. /\ new \in Upserts /\ new.stage = "write" /\ new.key = key /\ new.payload = payload
        /\ ShownCalls' = [ShownCalls EXCEPT ![w] = CallOf(new)]
        /\ ShownCalls[w] = CallOf(job[w])
    BY <1>3, <2>1 DEF UpsertStages
  <2> HIDE DEF new
  <2>3. CallOf(new) = [call EXCEPT !.stage = "removed"] /\ CallOf(job[w]) = call
    BY <1>1, <2>1, <2>2, CallShapes
  <2>4. ShownCalls' = [ShownCalls EXCEPT ![w].stage = "removed"]
    BY <1>2, <2>2, <2>3
  <2>5. ShownRecords' = [ShownRecords EXCEPT ![key] = Absent]
    <3> HIDE DEF key
    <3>1. ShownRecords' = [ShownRecords EXCEPT ![key] = Shown(Empty)]
      BY <1>1, <1>2, <2>1, RecordsMove
    <3> QED
      BY <3>1 DEF Shown
  <2>6. ShownCalls[w].key = key /\ ShownCalls[w].stage = "begun"
    BY <2>2, <2>3
  <2>7. Store!Remove(w)
    BY <2>4, <2>5, <2>6 DEF Store!Remove
  <2> QED
    BY <2>7 DEF Store!Step
<1>10. CASE WriteRecord(w)
  <2> DEFINE new == [job[w] EXCEPT !.stage = "ok"]
             text == Overlay(payload, file[key])
  <2>1. /\ job[w].stage = "write" /\ job' = [job EXCEPT ![w].stage = "ok"]
        /\ file' = [file EXCEPT ![key] = text]
    BY <1>1, <1>2, <1>10 DEF WriteRecord
  <2>2. /\ new \in Upserts /\ new.stage = "ok" /\ new.key = key /\ new.payload = payload
        /\ ShownCalls' = [ShownCalls EXCEPT ![w] = CallOf(new)]
        /\ ShownCalls[w] = CallOf(job[w])
    BY <1>3, <2>1 DEF UpsertStages
  <2>3. Shown(text) = Meaning[payload]
    <3>1. Meaning[payload] # Fail /\ file[key] \in Texts \union {Empty}
      BY <1>1, <1>2, <2>1 DEF DbInv, WritersAreReady
    <3>2. text \in Texts /\ Parsed[text] = Meaning[payload]
      BY <1>2, <3>1 DEF TextsAreRead
    <3>3. text \notin {Empty, Absent}
      BY <3>2, DatabaseAssumption
    <3> QED
      BY <3>2, <3>3 DEF Shown
  <2> HIDE DEF new, text
  <2>4. /\ CallOf(new) = [call EXCEPT !.stage = "ok"]
        /\ CallOf(job[w]) = [call EXCEPT !.stage = "removed"]
    BY <1>1, <2>1, <2>2, CallShapes
  <2>5. ShownCalls' = [ShownCalls EXCEPT ![w].stage = "ok"]
    <3>1. CallOf(new) = [CallOf(job[w]) EXCEPT !.stage = "ok"]
      BY <2>4
    <3>2. CallOf(new) = [ShownCalls[w] EXCEPT !.stage = "ok"]
      BY <2>2, <3>1
    <3> QED
      BY <1>2, <2>2, <3>2
  <2>6. ShownRecords' = [ShownRecords EXCEPT ![key] = Meaning[payload]]
    <3> HIDE DEF key, payload
    <3>1. ShownRecords' = [ShownRecords EXCEPT ![key] = Shown(text)]
      BY <1>1, <1>2, <2>1, RecordsMove
    <3> QED
      BY <2>3, <3>1
  <2>7. /\ ShownCalls[w].key = key /\ ShownCalls[w].stage = "removed"
        /\ ShownCalls[w].payload = Meaning[payload]
    BY <2>2, <2>4
  <2>8. Store!Put(w)
    BY <2>5, <2>6, <2>7 DEF Store!Put
  <2> QED
    BY <2>8 DEF Store!Step
<1> QED
  BY <1>6, <1>7, <1>8, <1>9, <1>10

(* Calls begin and end as in RecordStore.                                  *)
LEMMA CallSteps ==
    ASSUME DbInv, NEW w \in Workers,
           \/ \E k \in Keys, p \in Payloads : AcceptUpsert(w, k, p)
           \/ \E q \in Queries : AcceptQuery(w, q)
           \/ UpsertReply(w) \/ QueryReply(w)
    PROVE  Store!Next
<1>1. job \in [Workers -> Jobs] /\ job[w] \in Jobs /\ UNCHANGED file
  BY DEF DbInv, DbTypeOK, AcceptUpsert, AcceptQuery, UpsertReply, QueryReply
<1>2. UNCHANGED ShownRecords
  BY <1>1, RecordsWait
<1>3. Store!NoOp = IdleJob
  BY DEF Store!NoOp, IdleJob
<1>4. CASE \E k \in Keys, p \in Payloads : AcceptUpsert(w, k, p)
  <2>1. PICK k \in Keys, p \in Payloads : AcceptUpsert(w, k, p)
    BY <1>4
  <2> DEFINE new == [stage |-> "enter", key |-> k, payload |-> p]
  <2>2. /\ new \in Upserts /\ new.stage = "enter" /\ new.key = k /\ new.payload = p
        /\ job' = [job EXCEPT ![w] = new] /\ job[w] = IdleJob
    BY <2>1 DEF Upserts, UpsertStages, AcceptUpsert
  <2> HIDE DEF new
  <2>3. CallOf(new) = [stage |-> "begun", key |-> k, payload |-> Meaning[p]]
    BY <2>2, CallShapes
  <2>4. /\ ShownCalls' = [ShownCalls EXCEPT ![w] = CallOf(new)]
        /\ ShownCalls[w] = IdleJob
    BY <1>1, <2>2, CallsMove, CallShapes
  <2>5. Store!BeginUpsert(w, k, Meaning[p])
    BY <1>2, <1>3, <2>3, <2>4 DEF Store!BeginUpsert
  <2>6. Meaning[p] \in Values
    BY DEF Values
  <2> QED
    BY <2>5, <2>6 DEF Store!Next
<1>5. CASE \E q \in Queries : AcceptQuery(w, q)
  <2>1. PICK q \in Queries : AcceptQuery(w, q)
    BY <1>5
  <2> DEFINE new == [stage |-> "list", query |-> q, todo |-> {}, found |-> <<>>]
  <2>2. /\ new \in Lookups /\ new.stage = "list" /\ new.query = q /\ new.todo = {}
        /\ ShownPairs(new.found) = {}
        /\ job' = [job EXCEPT ![w] = new] /\ job[w] = IdleJob
    BY <2>1 DEF Lookups, AcceptQuery, ShownPairs
  <2> HIDE DEF new
  <2>3. CallOf(new) = Store!QueryOp("list", q, {}, {})
    BY <2>2, CallShapes
  <2>4. /\ ShownCalls' = [ShownCalls EXCEPT ![w] = CallOf(new)]
        /\ ShownCalls[w] = IdleJob
    BY <1>1, <2>2, CallsMove, CallShapes
  <2>5. Store!BeginQuery(w, q)
    BY <1>2, <1>3, <2>3, <2>4 DEF Store!BeginQuery
  <2> QED
    BY <2>5 DEF Store!Next
<1>6. CASE UpsertReply(w) \/ QueryReply(w)
  <2>1. job' = [job EXCEPT ![w] = IdleJob] /\ job[w].stage \in {"ok", "failed", "answer"}
    BY <1>6 DEF UpsertReply, QueryReply
  <2>2. /\ ShownCalls' = [ShownCalls EXCEPT ![w] = Store!NoOp]
        /\ ShownCalls[w] = CallOf(job[w])
    <3>1. /\ ShownCalls' = [ShownCalls EXCEPT ![w] = CallOf(IdleJob)]
          /\ ShownCalls[w] = CallOf(job[w])
      BY <1>1, <2>1, CallsMove
    <3> QED
      BY <1>3, <3>1, CallShapes
  <2>3. CallOf(job[w]).stage = job[w].stage
    <3>1. job[w] \in Upserts \/ job[w] \in Lookups
      BY <1>1, <2>1 DEF Jobs, IdleJob
    <3>2. CASE job[w] \in Upserts
      BY <3>2, <2>1, JobShapes, CallShapes DEF Jobs, Lookups
    <3>3. CASE job[w] \in Lookups
      BY <3>3, CallShapes DEF Store!QueryOp
    <3> QED
      BY <3>1, <3>2, <3>3
  <2>4. Store!EndUpsert(w) \/ Store!EndQuery(w)
    BY <1>2, <2>1, <2>2, <2>3 DEF Store!EndUpsert, Store!EndQuery
  <2> QED
    BY <2>4 DEF Store!Next
<1> QED
  BY <1>4, <1>5, <1>6

(* A crash ends the calls.                                                 *)
LEMMA CrashStep ==
    ASSUME DbCrash
    PROVE  Store!Crash
<1>1. job' = [w \in Workers |-> IdleJob] /\ UNCHANGED file
  BY DEF DbCrash
<1>2. Store!NoOp = IdleJob
  BY DEF Store!NoOp, IdleJob
<1>3. ShownCalls' = [w \in Workers |-> CallOf(job'[w])]
  BY DEF ShownCalls, CallOf, ShownPairs
<1>4. ShownCalls' = [w \in Workers |-> Store!NoOp]
  BY <1>1, <1>2, <1>3, CallShapes
<1> QED
  BY <1>1, <1>4, RecordsWait DEF Store!Crash

(* Records with keys of their own show as as many pairs.                   *)
LEMMA PairsCounted ==
    ASSUME NEW s \in Seq(Keys \X Texts),
           \A i, j \in DOMAIN s : i # j => s[i][1] # s[j][1]
    PROVE  Cardinality(ShownPairs(s)) = Len(s)
<1> DEFINE pair == [i \in 1 .. Len(s) |-> <<s[i][1], Parsed[s[i][2]]>>]
<1>1. Len(s) \in Nat /\ DOMAIN s = 1 .. Len(s)
  OBVIOUS
<1>2. IsFiniteSet(1 .. Len(s)) /\ Cardinality(1 .. Len(s)) = Len(s)
  <2> DEFINE n == Len(s)
  <2>1. n \in Nat
    BY <1>1
  <2> HIDE DEF n
  <2>2. IsFiniteSet(1 .. n) /\ Cardinality(1 .. n) = IF 1 > n THEN 0 ELSE n - 1 + 1
    BY <2>1, FS_Interval
  <2>3. Cardinality(1 .. n) = n
    BY <2>1, <2>2
  <2> QED
    BY <2>2, <2>3 DEF n
<1>3. pair \in [1 .. Len(s) -> ShownPairs(s)]
  BY <1>1 DEF ShownPairs
<1>4. \A i, j \in 1 .. Len(s) : pair[i] = pair[j] => i = j
  BY <1>1
<1>5. \A x \in ShownPairs(s) : \E i \in 1 .. Len(s) : pair[i] = x
  BY <1>1 DEF ShownPairs
<1> HIDE DEF pair
<1>6. pair \in Bijection(1 .. Len(s), ShownPairs(s))
  BY <1>3, <1>4, <1>5 DEF Bijection, Injection, Surjection, IsInjective
<1>7. ExistsBijection(1 .. Len(s), ShownPairs(s))
  BY <1>6 DEF ExistsBijection
<1> QED
  BY <1>2, <1>7, FS_Bijection

(* There are as many values as payloads, at most.                          *)
LEMMA ValuesAreFinite == IsFiniteSet(Values)
<1> DEFINE f == [p \in Payloads |-> Meaning[p]]
<1>1. f \in Surjection(Payloads, Values)
  BY DEF Surjection, Values
<1> QED
  BY <1>1, DatabaseAssumption, FS_Surjection

(* What may come first has no more values ahead of it.                     *)
LEMMA RankKeepsOrder ==
    ASSUME FieldsArePresent, FieldsAreComparable, NEW q \in Queries,
           NEW v \in Values \ {Fail}, NEW x \in Values \ {Fail},
           LastStep(q, "ORDER_BY") # 0 => InOrder(q, v, x)
    PROVE  RankOf[q][v] <= RankOf[q][x]
<1> DEFINE last == LastStep(q, "ORDER_BY")
<1>1. Ahead(q, v) \subseteq Ahead(q, x)
  <2> SUFFICES ASSUME NEW y \in Ahead(q, v) PROVE y \in Ahead(q, x)
    OBVIOUS
  <2>1. /\ y \in Values \ {Fail} /\ last # 0
        /\ IF q[last].direction = "asc" THEN Less(y, v, q[last].field)
                                        ELSE Less(v, y, q[last].field)
    BY DEF Ahead
  <2>2. last \in DOMAIN q /\ q[last].type = "ORDER_BY"
    <3>1. HasStep(q, "ORDER_BY")
      BY <2>1, LastStepIs
    <3> QED
      BY <3>1, LastStepIs
  <2>3. /\ ExtractFieldValue(v, q[last].field) # Fail
        /\ ExtractFieldValue(x, q[last].field) # Fail
        /\ ExtractFieldValue(y, q[last].field) # Fail
    BY <2>1, <2>2 DEF FieldsArePresent
  <2>4. InOrder(q, v, x)
    BY <2>1
  <2>5. CASE q[last].direction = "asc"
    <3>1. Less(y, v, q[last].field) /\ ~ Less(x, v, q[last].field)
      BY <2>1, <2>4, <2>5 DEF InOrder
    <3> HIDE DEF last
    <3>2. Less(y, x, q[last].field)
      BY <2>1, <2>2, <2>3, <3>1, LessIsAnOrder
    <3> QED
      BY <2>1, <2>5, <3>2 DEF Ahead, last
  <2>6. CASE q[last].direction # "asc"
    <3>1. Less(v, y, q[last].field) /\ ~ Less(v, x, q[last].field)
      BY <2>1, <2>4, <2>6 DEF InOrder
    <3> HIDE DEF last
    <3>2. Less(x, y, q[last].field)
      BY <2>1, <2>2, <2>3, <3>1, LessIsAnOrder
    <3> QED
      BY <2>1, <2>6, <3>2 DEF Ahead, last
  <2> QED
    BY <2>5, <2>6
<1>2. Ahead(q, x) \subseteq Values
  BY DEF Ahead
<1>3. IsFiniteSet(Ahead(q, x))
  BY <1>2, ValuesAreFinite, FS_Subset
<1>4. Cardinality(Ahead(q, v)) <= Cardinality(Ahead(q, x))
  BY <1>1, <1>3, FS_Subset
<1> QED
  BY <1>4 DEF RankOf

(* The answer is one that RecordStore allows.                              *)
LEMMA AnswersAgree ==
    ASSUME FieldsArePresent, FieldsAreComparable, NEW q \in Queries,
           NEW found \in Seq(Keys \X Texts),
           \A i, j \in DOMAIN found : i # j => found[i][1] # found[j][1],
           \A i \in DOMAIN found : Parsed[found[i][2]] \in Values \ {Fail}
    PROVE  /\ Sortable(q, found)
           /\ ShownPairs(Answer(q, found)) \in Store!Answers(q, ShownPairs(found))
<1> DEFINE t == Sorted(q, found)
           r == Answer(q, found)
           seen == ShownPairs(found)
           R == ShownPairs(r)
<1>1. Sortable(q, found)
  <2> SUFFICES ASSUME LastStep(q, "ORDER_BY") # 0, NEW n \in DOMAIN found
               PROVE  ExtractFieldValue(Parsed[found[n][2]],
                                        q[LastStep(q, "ORDER_BY")].field) # Fail
    BY DEF Sortable
  <2>1. HasStep(q, "ORDER_BY")
    BY LastStepIs
  <2> QED
    BY <2>1, LastStepIs DEF FieldsArePresent
<1>2. /\ t \in Seq(Keys \X Texts) /\ Len(t) = Len(found) /\ ToSet(t) = ToSet(found)
  BY SortedIs
<1>3. /\ r \in Seq(Keys \X Texts) /\ Len(r) <= Len(t)
      /\ \A i \in 1 .. Len(r) : r[i] = t[i]
      /\ Len(r) = Len(t) \/ (LimitOf(q) > 0 /\ Len(r) = LimitOf(q))
      /\ LimitOf(q) > 0 => Len(r) <= LimitOf(q)
  BY AnswerIs
<1>4. /\ \A i, j \in DOMAIN r : i # j => r[i][1] # r[j][1]
      /\ \A i, j \in DOMAIN t : i # j => t[i][1] # t[j][1]
  BY AnswerKeeps
<1>5. LastStep(q, "ORDER_BY") # 0 =>
        \A i, j \in DOMAIN t : i < j => InOrder(q, Parsed[t[i][2]], Parsed[t[j][2]])
  <2>1. LastStep(q, "ORDER_BY") # 0 => HasStep(q, "ORDER_BY")
    BY LastStepIs
  <2> QED
    BY <1>1, <2>1, SortedIsRanked
<1> HIDE DEF t, r
<1>6. seen = ShownPairs(t)
  <2>1. seen = {<<x[1], Parsed[x[2]]>> : x \in ToSet(found)}
    BY DEF ShownPairs, ToSet
  <2>2. ShownPairs(t) = {<<x[1], Parsed[x[2]]>> : x \in ToSet(t)}
    BY DEF ShownPairs, ToSet
  <2> QED
    BY <1>2, <2>1, <2>2
<1>7. /\ DOMAIN t = 1 .. Len(t) /\ DOMAIN r = 1 .. Len(r)
      /\ Len(t) \in Nat /\ Len(r) \in Nat
  BY <1>2, <1>3
<1>7a. \A i \in DOMAIN r : i \in DOMAIN t /\ r[i] = t[i]
  <2>1. Len(r) <= Len(t) /\ \A i \in 1 .. Len(r) : r[i] = t[i]
    BY <1>3
  <2> QED
    BY <1>7, <2>1
<1>8. R \subseteq seen
  BY <1>6, <1>7a DEF ShownPairs
<1>9. Cardinality(R) = Len(r)
  BY <1>3, <1>4, PairsCounted
<1>10. R = seen \/ (LimitOf(q) > 0 /\ Cardinality(R) = LimitOf(q))
  <2>1. CASE Len(r) = Len(t)
    <3>1. r = t
      BY <1>2, <1>3, <2>1, SeqEqual
    <3> QED
      BY <1>6, <3>1
  <2> QED
    BY <1>3, <1>9, <2>1
<1>11. \A i \in DOMAIN t : Parsed[t[i][2]] \in Values \ {Fail}
  <2>1. \A i \in DOMAIN t : \E j \in DOMAIN found : t[i] = found[j]
    BY <1>2 DEF ToSet
  <2> QED
    BY <2>1
<1>12. ASSUME NEW a \in R, NEW b \in seen \ R PROVE RankOf[q][a[2]] <= RankOf[q][b[2]]
  <2>1. PICK i \in DOMAIN r : a = <<r[i][1], Parsed[r[i][2]]>>
    BY DEF ShownPairs
  <2>2. PICK j \in DOMAIN t : b = <<t[j][1], Parsed[t[j][2]]>>
    BY <1>6 DEF ShownPairs
  <2>3. i \in DOMAIN t /\ r[i] = t[i]
    BY <1>7a
  <2>4. j \notin DOMAIN r
    BY <1>7a, <2>2 DEF ShownPairs
  <2>5. i < j
    BY <1>7, <2>4
  <2>6. /\ a[2] = Parsed[t[i][2]] /\ b[2] = Parsed[t[j][2]]
        /\ a[2] \in Values \ {Fail} /\ b[2] \in Values \ {Fail}
    BY <1>11, <2>1, <2>2, <2>3
  <2>7. LastStep(q, "ORDER_BY") # 0 => InOrder(q, a[2], b[2])
    BY <1>5, <2>3, <2>5, <2>6
  <2> QED
    BY <2>6, <2>7, RankKeepsOrder
<1>13. LimitsOf[q] = LimitOf(q) /\ Store!Cardinality(R) = Cardinality(R)
  BY DEF LimitsOf, Store!Cardinality, Cardinality
<1> HIDE DEF R, seen
<1>14. R \in Store!Answers(q, seen)
  <2>1. LimitOf(q) > 0 => Cardinality(R) <= LimitOf(q)
    BY <1>3, <1>9
  <2>2. /\ R = seen \/ (LimitsOf[q] > 0 /\ Store!Cardinality(R) = LimitsOf[q])
        /\ LimitsOf[q] > 0 => Store!Cardinality(R) <= LimitsOf[q]
        /\ \A a \in R, b \in seen \ R : RankOf[q][a[2]] <= RankOf[q][b[2]]
    BY <1>10, <1>12, <1>13, <2>1
  <2> QED
    BY <1>8, <2>2, Zenon DEF Store!Answers
<1> QED
  BY <1>1, <1>14 DEF R, seen, r

(* Queries implement those of RecordStore, as long as no write was cut     *)
(* short: they list a superset of the records, look at one by one, and     *)
(* answer with the first of those that match.                              *)
LEMMA QuerySteps ==
    ASSUME TextsAreRead, FieldsArePresent, FieldsAreComparable, DbInv, ~ cut,
           NEW w \in Workers,
           \/ ListRecords(w) \/ (\E k \in Keys : ReadRecord(w, k)) \/ SortAndLimit(w)
    PROVE  Store!Step(w)
<1>1. /\ job \in [Workers -> Jobs] /\ job[w] \in Lookups
      /\ file \in [Keys -> Texts \union {Empty, Absent}]
  BY JobShapes DEF ListRecords, ReadRecord, SortAndLimit, DbInv, DbTypeOK
<1> DEFINE q == job[w].query
           found == job[w].found
           todo == job[w].todo
<1>2. /\ q \in Queries /\ found \in Seq(Keys \X Texts) /\ todo \in SUBSET Keys
      /\ \A i, j \in DOMAIN found : i # j => found[i][1] # found[j][1]
      /\ \A i \in DOMAIN found : Parsed[found[i][2]] \in Values \ {Fail}
      /\ \A k \in todo : file[k] # Absent
  BY <1>1 DEF DbInv, ReadersAreReady, Lookups, FoundOnce
<1>3. UNCHANGED ShownRecords
  BY RecordsWait DEF ListRecords, ReadRecord, SortAndLimit
<1>4. /\ ShownCalls[w] = CallOf(job[w])
      /\ CallOf(job[w]) = Store!QueryOp(job[w].stage, q, todo, ShownPairs(found))
  BY <1>1, CallShapes DEF ShownCalls
<1>5. /\ ShownCalls[w].stage = job[w].stage
      /\ ShownCalls[w].query = q
      /\ ShownCalls[w].todo = todo
      /\ ShownCalls[w].found = ShownPairs(found)
  BY <1>4 DEF Store!QueryOp
\* What a step does that moves the query to another state.
<1>6. ASSUME NEW new \in Lookups, job' = [job EXCEPT ![w] = new]
      PROVE  ShownCalls' = [ShownCalls EXCEPT ![w] =
                Store!QueryOp(new.stage, new.query, new.todo, ShownPairs(new.found))]
  BY <1>1, <1>6, CallsMove, CallShapes
<1>7. CASE ListRecords(w)
  <2> DEFINE T == IF dir THEN {k \in Keys : file[k] # Absent} ELSE {}
             new == [job[w] EXCEPT !.stage = "read", !.todo = T]
  <2>1. T \in SUBSET Keys /\ \A k \in Keys : file[k] # Absent => k \in T
    BY DEF DbInv, FilesAreRead
  <2>2. job' = [job EXCEPT ![w] = new] /\ job[w].stage = "list"
    BY <1>1, <1>7 DEF ListRecords
  <2>3. {k \in Keys : ShownRecords[k] # Absent} \subseteq T
    BY <2>1 DEF ShownRecords, Shown
  <2> HIDE DEF T
  <2>4. /\ new \in Lookups /\ new.stage = "read" /\ new.query = q /\ new.todo = T
        /\ new.found = found
    BY <1>1, <2>1 DEF Lookups
  <2>5. ShownPairs(found) = {}
    BY <1>1, <2>2 DEF DbInv, ReadersAreReady, FoundOnce, ShownPairs
  <2> HIDE DEF new
  <2>6. ShownCalls' = [ShownCalls EXCEPT ![w] = Store!QueryOp("read", q, T, {})]
    BY <1>6, <2>2, <2>4, <2>5
  <2> HIDE DEF q, todo, found
  <2>7. Store!List(w)
    BY <1>3, <1>5, <2>1, <2>2, <2>3, <2>6 DEF Store!List
  <2> QED
    BY <2>7 DEF Store!Step
<1>8. CASE \E k \in Keys : ReadRecord(w, k)
  <2>1. PICK k \in Keys : ReadRecord(w, k)
    BY <1>8
  <2> DEFINE verdict == IF file[k] = Empty THEN "no match"
                        ELSE Evaluate(Parsed[file[k]], q)
             now == IF verdict = "match" THEN Append(found, <<k, file[k]>>) ELSE found
             new == [job[w] EXCEPT !.stage = IF verdict = "error" THEN "failed" ELSE "read",
                                   !.todo = todo \ {k}, !.found = now]
             seen == IF ShownRecords[k] \in MatchOf[q] THEN {<<k, ShownRecords[k]>>} ELSE {}
  <2>2. job' = [job EXCEPT ![w] = new] /\ job[w].stage = "read" /\ k \in todo
    BY <1>1, <2>1 DEF ReadRecord
  <2>3. file[k] \in Texts \union {Empty}
    BY <1>1, <1>2, <2>2
  <2>4. file[k] # Empty =>
            /\ file[k] \in Texts /\ ShownRecords[k] = Parsed[file[k]]
            /\ Parsed[file[k]] \in Values \ {Fail}
    <3>1. file[k] # Empty => file[k] \in Texts /\ file[k] # Absent
      BY <2>3, DatabaseAssumption
    <3> QED
      BY <3>1 DEF DbInv, FilesAreRead, ShownRecords, Shown
  <2>5. file[k] = Empty => ShownRecords[k] = Absent
    BY DEF ShownRecords, Shown
  <2>6. verdict # "error"
    <3>1. file[k] # Empty => \A i \in DOMAIN q : q[i].type = "WHERE" =>
                ExtractFieldValue(Parsed[file[k]], q[i].field) # Fail
      BY <1>2, <2>4 DEF FieldsArePresent
    <3> HIDE DEF q
    <3> QED
      BY <1>2, <3>1, EvaluateIs
  <2>7. verdict = "match" <=> ShownRecords[k] \in MatchOf[q]
    <3>1. MatchOf[q] = {v \in Values : Evaluate(v, q) = "match"}
      BY <1>2 DEF MatchOf
    <3>2. Absent \notin Values
      BY DatabaseAssumption DEF Values
    <3> QED
      BY <2>4, <2>5, <3>1, <3>2
  <2>8. verdict = "match" =>
            file[k] \in Texts /\ ShownRecords[k] = Parsed[file[k]]
    BY <2>4
  <2> HIDE DEF verdict, q, found, todo
  <2>9. now \in Seq(Keys \X Texts) /\ ShownPairs(now) = ShownPairs(found) \union seen
    <3>1. CASE verdict = "match"
      <4> DEFINE x == <<k, file[k]>>
      <4>1. x \in Keys \X Texts /\ now = Append(found, x)
        BY <2>8, <3>1
      <4>2. x[1] = k /\ Parsed[x[2]] = ShownRecords[k]
        BY <2>8, <3>1
      <4> HIDE DEF now, x
      <4>3. /\ now \in Seq(Keys \X Texts) /\ Len(now) = Len(found) + 1
            /\ \A i \in 1 .. Len(found) : now[i] = found[i]
            /\ now[Len(found) + 1] = x
        BY <1>2, <4>1, AppendProperties
      <4>4. /\ Len(found) \in Nat /\ DOMAIN found = 1 .. Len(found)
            /\ DOMAIN now = 1 .. Len(found) + 1
        BY <1>2, <4>3
      <4>5. ShownPairs(now) = ShownPairs(found) \union {<<k, ShownRecords[k]>>}
        <5>1. \A y \in ShownPairs(now) : y \in ShownPairs(found) \union {<<k, ShownRecords[k]>>}
          <6> SUFFICES ASSUME NEW i \in DOMAIN now
                       PROVE  <<now[i][1], Parsed[now[i][2]]>>
                                \in ShownPairs(found) \union {<<k, ShownRecords[k]>>}
            BY DEF ShownPairs
          <6>1. i \in DOMAIN found \/ i = Len(found) + 1
            BY <4>4
          <6> QED
            BY <4>2, <4>3, <4>4, <6>1 DEF ShownPairs
        <5>2. \A y \in ShownPairs(found) : y \in ShownPairs(now)
          <6> SUFFICES ASSUME NEW i \in DOMAIN found
                       PROVE  <<found[i][1], Parsed[found[i][2]]>> \in ShownPairs(now)
            BY DEF ShownPairs
          <6>1. i \in DOMAIN now /\ now[i] = found[i]
            BY <4>3, <4>4
          <6> QED
            BY <6>1 DEF ShownPairs
        <5>3. <<k, ShownRecords[k]>> \in ShownPairs(now)
          <6>1. Len(found) + 1 \in DOMAIN now
            BY <4>4
          <6> QED
            BY <4>2, <4>3, <6>1 DEF ShownPairs
        <5> QED
          BY <5>1, <5>2, <5>3
      <4> QED
        BY <2>7, <3>1, <4>3, <4>5
    <3>2. CASE verdict # "match"
      BY <1>2, <2>7, <3>2
    <3> QED
      BY <3>1, <3>2
  <2> HIDE DEF now, seen
  <2>10. /\ new \in Lookups /\ new.stage = "read" /\ new.query = q
         /\ new.todo = todo \ {k} /\ new.found = now
    BY <1>1, <1>2, <2>6, <2>9 DEF Lookups, q
  <2> HIDE DEF new
  <2>11. ShownCalls' = [ShownCalls EXCEPT ![w] =
                Store!QueryOp("read", q, todo \ {k}, ShownPairs(found) \union seen)]
    BY <1>6, <2>2, <2>9, <2>10
  <2>12. Store!See(w, k)
    BY <1>3, <1>5, <2>2, <2>11 DEF Store!See, seen
  <2> QED
    BY <2>12 DEF Store!Step
<1>9. CASE SortAndLimit(w)
  <2> DEFINE r == Answer(q, found)
             new == [job[w] EXCEPT !.stage = "answer", !.found = r]
  <2>1. Sortable(q, found) /\ ShownPairs(r) \in Store!Answers(q, ShownPairs(found))
    <3> HIDE DEF q, found
    <3> QED
      BY <1>2, AnswersAgree
  <2>2. r \in Seq(Keys \X Texts)
    <3> HIDE DEF q, found
    <3> QED
      BY <1>2, AnswerIs
  <2>3. job' = [job EXCEPT ![w] = new] /\ job[w].stage = "read" /\ todo = {}
    BY <1>1, <1>9, <2>1 DEF SortAndLimit
  <2> HIDE DEF r
  <2>4. /\ new \in Lookups /\ new.stage = "answer" /\ new.query = q
        /\ new.todo = {} /\ new.found = r
    BY <1>1, <2>2, <2>3 DEF Lookups
  <2> HIDE DEF new, q, found, todo
  <2>5. ShownCalls' = [ShownCalls EXCEPT ![w] =
                Store!QueryOp("answer", q, {}, ShownPairs(r))]
    BY <1>6, <2>3, <2>4
  <2>6. Store!AnswerQuery(w)
    BY <1>3, <1>5, <2>1, <2>3, <2>5 DEF Store!AnswerQuery
  <2> QED
    BY <2>6 DEF Store!Step
<1> QED
  BY <1>7, <1>8, <1>9

(* The collection implements RecordStore, for any number of workers, keys, *)
(* payloads and queries, until a write is cut short: the file protocol of  *)
(* UpsertRPC, the reading of files by QueryRPC one after the other, the    *)
(* sort and the limit together show their callers records that upserts     *)
(* remove and put at single instants.                                      *)
THEOREM CollectionIsRecordStore ==
    ASSUME TextsAreRead, FieldsArePresent, FieldsAreComparable
    PROVE  DbSpec => ImplementsRecordStore
<1>1. DbInit => Store!Init
  <2> SUFFICES ASSUME DbInit PROVE Store!Init
    OBVIOUS
  <2>1. ShownRecords = [k \in Keys |-> Absent]
    BY DEF DbInit, ShownRecords, Shown
  <2>2. ShownCalls = [w \in Workers |-> Store!NoOp]
    BY CallShapes DEF DbInit, ShownCalls, Store!NoOp, IdleJob
  <2> QED
    BY <2>1, <2>2 DEF Store!Init
<1>2. DbInv /\ [DbNext]_dbVars => [Store!Next \/ cut']_Store!vars
  <2> SUFFICES ASSUME DbInv, [DbNext]_dbVars, ~ cut'
               PROVE  [Store!Next]_Store!vars
    OBVIOUS
  <2>1. CASE UNCHANGED dbVars
    BY <2>1 DEF dbVars, Store!vars, ShownRecords, ShownCalls, Shown, CallOf, ShownPairs
  <2>2. CASE DbCrash
    BY <2>2, CrashStep DEF Store!Next
  <2>3. CASE DbInternal
    <3>1. PICK w \in Workers :
            \/ EnterUpsert(w) \/ MakeDirectory(w) \/ RefusePayload(w)
            \/ OpenRecord(w) \/ WriteRecord(w) \/ WriteIsCutShort(w)
            \/ ListRecords(w) \/ (\E k \in Keys : ReadRecord(w, k)) \/ SortAndLimit(w)
      BY <2>3 DEF DbInternal
    <3>2. ASSUME \/ EnterUpsert(w) \/ MakeDirectory(w) \/ RefusePayload(w)
                 \/ OpenRecord(w) \/ WriteRecord(w)
          PROVE  UNCHANGED Store!vars \/ Store!Step(w)
      BY <3>2, UpsertSteps
    <3>3. ASSUME \/ ListRecords(w) \/ (\E k \in Keys : ReadRecord(w, k)) \/ SortAndLimit(w)
          PROVE  Store!Step(w)
      <4>1. ~ cut
        BY <3>3 DEF ListRecords, ReadRecord, SortAndLimit
      <4> QED
        BY <3>3, <4>1, QuerySteps
    <3>4. ~ WriteIsCutShort(w)
      BY DEF WriteIsCutShort
    <3>5. UNCHANGED Store!vars \/ Store!Step(w)
      BY <3>1, <3>2, <3>3, <3>4
    <3> QED
      BY <3>5 DEF Store!Next, Store!Internal
  <2>4. CASE \E w \in Workers :
                \/ \E k \in Keys, p \in Payloads : AcceptUpsert(w, k, p)
                \/ UpsertReply(w)
                \/ \E q \in Queries : AcceptQuery(w, q)
                \/ QueryReply(w)
    BY <2>4, CallSteps
  <2> QED
    BY <2>1, <2>2, <2>3, <2>4 DEF DbNext
<1> QED
  BY <1>1, <1>2, DbInvariant, PTL DEF DbSpec, ImplementsRecordStore
-----------------------------------------------------------------------------
(* The local view *)

\* The elements of t, each under d.
Mapped(t, d) == [i \in DOMAIN t |-> d[t[i]]]

\* A sequence of as many elements, each under d.
IsMapped(m, t, d, V) ==
    /\ m \in Seq(V)
    /\ Len(m) = Len(t)
    /\ \A i \in 1 .. Len(t) : m[i] = d[t[i]]

(* That is what Mapped gives.                                              *)
LEMMA MappedIs ==
    ASSUME NEW S, NEW V, NEW d, \A x \in S : d[x] \in V, NEW t \in Seq(S)
    PROVE  IsMapped(Mapped(t, d), t, d, V)
<1>1. /\ Len(t) \in Nat /\ DOMAIN t = 1 .. Len(t)
      /\ \A i \in 1 .. Len(t) : t[i] \in S
  OBVIOUS
<1>2. Mapped(t, d) = [i \in 1 .. Len(t) |-> d[t[i]]]
  BY <1>1 DEF Mapped
<1>3. [i \in 1 .. Len(t) |-> d[t[i]]] \in Seq(V)
  BY <1>1
<1>4. Len(Mapped(t, d)) = Len(t)
  BY <1>1, <1>2, <1>3
<1> QED
  BY <1>1, <1>2, <1>3, <1>4 DEF IsMapped

\* The comparators say the same of two elements and of what d makes of them.
SaySame(before, other, d, S) ==
    \A x, y \in S : <<x, y>> \in before <=> <<d[x], d[y]>> \in other

\* To map and then to put x between is to put x between and then to map.
InsertCommutes(t, x, before, other, d) ==
    Mapped(Insert(t, x, before), d) = Insert(Mapped(t, d), d[x], other)

(* A round puts an element to the same place among mapped ones.            *)
LEMMA InsertMaps ==
    ASSUME NEW S, NEW V, NEW d, \A x \in S : d[x] \in V, NEW before, NEW other,
           SaySame(before, other, d, S), NEW t \in Seq(S), NEW x \in S
    PROVE  InsertCommutes(t, x, before, other, d)
<1> DEFINE m == Mapped(t, d)
           r == Insert(t, x, before)
           n == Insert(m, d[x], other)
<1>1. /\ m \in Seq(V) /\ Len(m) = Len(t) /\ Len(t) \in Nat
      /\ \A i \in 1 .. Len(t) : t[i] \in S /\ m[i] = d[t[i]]
  <2>1. IsMapped(Mapped(t, d), t, d, V)
    BY MappedIs
  <2>2. Len(t) \in Nat /\ \A i \in 1 .. Len(t) : t[i] \in S
    OBVIOUS
  <2> QED
    BY <2>1, <2>2 DEF IsMapped
<1>2. d[x] \in V
  OBVIOUS
<1> HIDE DEF m
<1>3. /\ r \in Seq(S) /\ Len(r) = Len(t) + 1
      /\ n \in Seq(V) /\ Len(n) = Len(t) + 1
  <2>1. r \in Seq(S) /\ Len(r) = Len(t) + 1
    BY InsertPutsBetween
  <2>2. n \in Seq(V) /\ Len(n) = Len(m) + 1
    BY <1>1, <1>2, InsertPutsBetween
  <2> QED
    BY <2>1, <2>2, <1>1
<1>4. PICK p \in 0 .. Len(t) : IsPutAt(r, t, x, before, p)
  BY InsertPutsBetween
<1>5. PICK k \in 0 .. Len(t) : IsPutAt(n, m, d[x], other, k)
  <2>1. \E k \in 0 .. Len(m) : IsPutAt(n, m, d[x], other, k)
    BY <1>1, <1>2, InsertPutsBetween
  <2> QED
    BY <2>1, <1>1
<1> HIDE DEF r, n
<1>6. /\ \A i \in 1 .. p : r[i] = t[i]
      /\ r[p + 1] = x
      /\ \A i \in p + 1 .. Len(t) : r[i + 1] = t[i]
      /\ p > 0 => /\ <<x, t[1]>> \notin before
                  /\ <<x, t[p]>> \notin before
                  /\ \A i \in p + 1 .. Len(t) : <<x, t[i]>> \in before
      /\ p = 0 /\ Len(t) > 0 => <<x, t[1]>> \in before
  BY <1>4, Zenon DEF IsPutAt
<1>7. /\ \A i \in 1 .. k : n[i] = m[i]
      /\ n[k + 1] = d[x]
      /\ \A i \in k + 1 .. Len(t) : n[i + 1] = m[i]
      /\ k > 0 => /\ <<d[x], m[1]>> \notin other
                  /\ <<d[x], m[k]>> \notin other
                  /\ \A i \in k + 1 .. Len(t) : <<d[x], m[i]>> \in other
      /\ k = 0 /\ Len(t) > 0 => <<d[x], m[1]>> \in other
  <2>1. Len(m) = Len(t)
    BY <1>1
  <2> QED
    BY <1>5, <2>1, Zenon DEF IsPutAt
<1>8. \A i \in 1 .. Len(t) : <<x, t[i]>> \in before <=> <<d[x], m[i]>> \in other
  BY <1>1 DEF SaySame
<1>9. p = k
  <2>0. Len(t) \in Nat
    BY <1>1
  <2>1. CASE p > 0 /\ k > 0
    <3>1. p \in 1 .. Len(t) /\ k \in 1 .. Len(t)
      BY <2>0, <2>1
    <3>2. <<x, t[k]>> \notin before /\ <<x, t[p]>> \notin before
      BY <1>6, <1>7, <1>8, <2>1, <3>1
    <3>3. <<d[x], m[p]>> \notin other
      BY <1>8, <3>1, <3>2
    <3>4. k \notin p + 1 .. Len(t) /\ p \notin k + 1 .. Len(t)
      BY <1>6, <1>7, <2>1, <3>2, <3>3
    <3> QED
      BY <2>0, <3>1, <3>4
  <2>2. CASE p > 0 /\ k = 0
    <3>1. 1 \in 1 .. Len(t) /\ Len(t) > 0
      BY <2>0, <2>2
    <3>2. <<x, t[1]>> \notin before /\ <<d[x], m[1]>> \in other
      BY <1>6, <1>7, <2>2, <3>1
    <3> QED
      BY <1>8, <3>1, <3>2
  <2>3. CASE p = 0 /\ k > 0
    <3>1. 1 \in 1 .. Len(t) /\ Len(t) > 0
      BY <2>0, <2>3
    <3>2. <<x, t[1]>> \in before /\ <<d[x], m[1]>> \notin other
      BY <1>6, <1>7, <2>3, <3>1
    <3> QED
      BY <1>8, <3>1, <3>2
  <2>4. CASE p = 0 /\ k = 0
    BY <2>4
  <2> QED
    BY <2>0, <2>1, <2>2, <2>3, <2>4
<1>10. /\ Mapped(r, d) \in Seq(V) /\ Len(Mapped(r, d)) = Len(t) + 1
       /\ \A i \in 1 .. Len(t) + 1 : Mapped(r, d)[i] = d[r[i]]
  <2>1. IsMapped(Mapped(r, d), r, d, V)
    BY <1>3, MappedIs
  <2>2. Len(r) = Len(t) + 1
    BY <1>3
  <2> QED
    BY <2>1, <2>2 DEF IsMapped
<1>11. \A i \in 1 .. Len(t) + 1 : n[i] = d[r[i]]
  <2> SUFFICES ASSUME NEW i \in 1 .. Len(t) + 1 PROVE n[i] = d[r[i]]
    OBVIOUS
  <2>0. Len(t) \in Nat /\ p \in 0 .. Len(t)
    BY <1>1
  <2>1. CASE i <= p
    <3>1. i \in 1 .. p /\ i \in 1 .. Len(t)
      BY <2>0, <2>1
    <3> QED
      BY <3>1, <1>1, <1>6, <1>7, <1>9
  <2>2. CASE i = p + 1
    BY <2>2, <1>6, <1>7, <1>9
  <2>3. CASE i > p + 1
    <3>1. PICK j \in p + 1 .. Len(t) : i = j + 1
      <4>1. i - 1 \in p + 1 .. Len(t) /\ i = i - 1 + 1
        BY <2>0, <2>3
      <4> QED
        BY <4>1
    <3>2. j \in 1 .. Len(t)
      BY <2>0, <3>1
    <3> QED
      BY <3>1, <3>2, <1>1, <1>6, <1>7, <1>9
  <2> QED
    BY <2>0, <2>1, <2>2, <2>3
<1>12. Mapped(r, d) = n
  <2> DEFINE u == Mapped(r, d)
  <2>1. u \in Seq(V) /\ n \in Seq(V) /\ Len(u) = Len(n)
    BY <1>3, <1>10
  <2>2. \A i \in 1 .. Len(u) : u[i] = n[i]
    BY <1>10, <1>11
  <2> HIDE DEF u
  <2>3. u = n
    BY <2>1, <2>2, SeqEqual
  <2> QED
    BY <2>3 DEF u
<1> QED
  BY <1>12 DEF r, n, m, InsertCommutes

\* To sort and then to map is to map and then to sort.
SortCommutes(s, before, other, d) ==
    Mapped(StdSort(s, before), d) = StdSort(Mapped(s, d), other)

(* The sort orders mapped elements as it does the elements, ties included. *)
LEMMA StdSortMaps ==
    ASSUME NEW S, NEW V, NEW d, \A x \in S : d[x] \in V, NEW before, NEW other,
           SaySame(before, other, d, S), NEW s \in Seq(S)
    PROVE  SortCommutes(s, before, other, d)
<1> DEFINE m == Mapped(s, d)
<1>1. /\ Len(s) \in Nat /\ Len(m) = Len(s)
      /\ \A i \in 1 .. Len(s) : s[i] \in S /\ m[i] = d[s[i]]
  <2>1. IsMapped(Mapped(s, d), s, d, V)
    BY MappedIs
  <2>2. Len(s) \in Nat /\ \A i \in 1 .. Len(s) : s[i] \in S
    OBVIOUS
  <2> QED
    BY <2>1, <2>2 DEF IsMapped
<1> HIDE DEF m
<1>2. PICK f : /\ f[0] = <<>>
               /\ \A n \in 1 .. Len(s) : f[n] = Insert(f[n - 1], s[n], before)
               /\ StdSort(s, before) = f[Len(s)]
  BY <1>1, StdSortRounds
<1>3. PICK g : /\ g[0] = <<>>
               /\ \A n \in 1 .. Len(s) : g[n] = Insert(g[n - 1], m[n], other)
               /\ StdSort(m, other) = g[Len(s)]
  <2>1. \E g : /\ g[0] = <<>>
               /\ \A n \in 1 .. Len(m) : g[n] = Insert(g[n - 1], m[n], other)
               /\ StdSort(m, other) = g[Len(m)]
    BY <1>1, StdSortRounds
  <2> QED
    BY <1>1, <2>1
<1> DEFINE P(n) == f[n] \in Seq(S) /\ Mapped(f[n], d) = g[n]
           T == {n \in 0 .. Len(s) : ~ P(n)}
<1>4. P(0)
  <2>1. <<>> \in Seq(S) /\ DOMAIN <<>> = {}
    OBVIOUS
  <2>2. Mapped(<<>>, d) = <<>>
    BY <2>1 DEF Mapped
  <2> QED
    BY <1>2, <1>3, <2>1, <2>2
<1>5. ASSUME NEW n \in 1 .. Len(s), P(n - 1) PROVE P(n)
  <2>1. f[n] = Insert(f[n - 1], s[n], before) /\ s[n] \in S
    BY <1>1, <1>2
  <2>2. g[n] = Insert(g[n - 1], d[s[n]], other)
    BY <1>1, <1>3
  <2>3. f[n] \in Seq(S)
    BY <1>5, <2>1, InsertPutsBetween
  <2>4. Mapped(f[n], d) = Insert(Mapped(f[n - 1], d), d[s[n]], other)
    <3> DEFINE u == f[n - 1]
               x == s[n]
    <3>1. u \in Seq(S) /\ x \in S
      BY <1>5, <2>1
    <3> HIDE DEF u, x
    <3>2. InsertCommutes(u, x, before, other, d)
      BY <3>1, InsertMaps
    <3> QED
      BY <2>1, <3>2 DEF u, x, InsertCommutes
  <2> QED
    BY <1>5, <2>2, <2>3, <2>4
<1>6. T = {}
  <2> SUFFICES ASSUME T # {} PROVE FALSE
    OBVIOUS
  <2>1. PICK n \in T : \A k \in T : n <= k
    <3>1. T \subseteq Nat
      OBVIOUS
    <3> HIDE DEF T
    <3> QED
      BY <3>1, LeastNumber
  <2>2. n \in 0 .. Len(s) /\ ~ P(n)
    OBVIOUS
  <2> HIDE DEF P
  <2>3. n \in 1 .. Len(s) /\ n - 1 \in 0 .. Len(s) /\ ~ (n <= n - 1)
    BY <2>2, <1>4, <1>1
  <2>4. P(n - 1)
    BY <2>1, <2>3
  <2> QED
    BY <2>2, <2>3, <2>4, <1>5
<1>7. P(Len(s))
  <2> HIDE DEF P
  <2> QED
    BY <1>6, <1>1
<1> QED
  BY <1>2, <1>3, <1>7 DEF m, SortCommutes

\* The values that the local loop keeps.
MeetsAll(v, q) == EvaluateLocal(v, q) = "match"

(* A value that the program holds has the fields that it has as a record.  *)
LEMMA FieldLocalIs ==
    ASSUME TextsAreRead, NEW v \in Values \ {Fail}, NEW path
    PROVE  FieldLocal(v, path) = ExtractFieldValue(v, path)
<1>1. Written(v) \in DOMAIN Meaning /\ Meaning[Written(v)] = v
  BY ViewAssumption
<1>2. Parsed[Written(v)] = v
  BY <1>1 DEF TextsAreRead
<1>3. Reparsed[v] = v
  BY <1>2 DEF Reparsed
<1> QED
  BY <1>3 DEF FieldLocal

(* The local conditions say of a value what WHERE says of its record, an   *)
(* error included.                                                         *)
LEMMA ConditionsAgree ==
    ASSUME TextsAreRead, NEW q \in Queries, NEW v \in Values \ {Fail}
    PROVE  EvaluateLocal(v, q) = Evaluate(v, q)
<1> DEFINE conditions == {i \in DOMAIN q : q[i].type = "WHERE"}
           value == [i \in conditions |-> ExtractFieldValue(v, q[i].field)]
           meets(i) == CompareValues(value[i], q[i].operator, q[i].value)
           ends  == {i \in conditions : value[i] = Fail \/ ~ meets(i)}
           local(i) == EvaluateConditionLocal(v, q[i])
           unmet == {i \in conditions : local(i) # "match"}
<1>1. Evaluate(v, q) = IF ends = {} THEN "match"
                       ELSE IF value[Min(ends)] = Fail THEN "error" ELSE "no match"
  BY DEF Evaluate
<1>2. EvaluateLocal(v, q) = IF unmet = {} THEN "match" ELSE local(Min(unmet))
  BY DEF EvaluateLocal
<1>3. \A i \in conditions :
        local(i) = IF value[i] = Fail THEN "error"
                   ELSE IF meets(i) THEN "match" ELSE "no match"
  <2> SUFFICES ASSUME NEW i \in DOMAIN q, q[i].type = "WHERE"
               PROVE  local(i) = IF ExtractFieldValue(v, q[i].field) = Fail THEN "error"
                                 ELSE IF CompareValues(ExtractFieldValue(v, q[i].field),
                                                       q[i].operator, q[i].value)
                                 THEN "match" ELSE "no match"
    OBVIOUS
  <2> DEFINE x == ExtractFieldValue(v, q[i].field)
             matches ==
                \/ q[i].operator = "eq" /\ as(x, q[i].value[1]) = q[i].value[2]
                \/ q[i].operator = "contains" /\ IsWithin(q[i].value[2], as(x, "string"))
                \/ q[i].operator = "not_contains"
                   /\ ~ IsWithin(q[i].value[2], as(x, "string"))
  <2>1. FieldLocal(v, q[i].field) = x
    BY FieldLocalIs
  <2>2. local(i) = IF x = Fail THEN "error" ELSE IF matches THEN "match" ELSE "no match"
    <3> HIDE DEF x
    <3> QED
      BY <2>1 DEF EvaluateConditionLocal
  <2>3. q[i].operator \in {"eq", "contains", "not_contains"}
    BY QueryAssumption
  <2>4. matches <=> CompareValues(x, q[i].operator, q[i].value)
    <3> HIDE DEF x
    <3>1. CASE q[i].operator = "eq"
      BY <3>1 DEF CompareValues
    <3>2. CASE q[i].operator = "contains"
      BY <3>2 DEF CompareValues
    <3>3. CASE q[i].operator = "not_contains"
      BY <3>3 DEF CompareValues
    <3> QED
      BY <2>3, <3>1, <3>2, <3>3
  <2> HIDE DEF matches, local
  <2> QED
    BY <2>2, <2>4
<1> HIDE DEF local, meets, value
<1>4. unmet = ends
  BY <1>3
<1>5. ends # {} => Min(ends) \in ends
  <2>1. ends \subseteq 1 .. Len(q) /\ Len(q) \in Nat
    BY QueryAssumption
  <2> HIDE DEF ends
  <2> QED
    BY <2>1, MinIsFirst
<1> HIDE DEF unmet
<1>6. CASE ends = {}
  BY <1>1, <1>2, <1>4, <1>6
<1>7. CASE ends # {}
  <2> DEFINE n == Min(ends)
  <2>1. n \in conditions /\ (value[n] = Fail \/ ~ meets(n))
    BY <1>5, <1>7
  <2>2. Evaluate(v, q) = IF value[n] = Fail THEN "error" ELSE "no match"
    <3> HIDE DEF ends
    <3> QED
      BY <1>1, <1>7
  <2>3. EvaluateLocal(v, q) = local(n)
    <3> HIDE DEF ends
    <3> QED
      BY <1>2, <1>4, <1>7
  <2> HIDE DEF n, ends, conditions
  <2>4. local(n) = IF value[n] = Fail THEN "error"
                   ELSE IF meets(n) THEN "match" ELSE "no match"
    BY <1>3, <2>1
  <2> QED
    BY <2>1, <2>2, <2>3, <2>4
<1> QED
  BY <1>6, <1>7

(* The turns of the loop over the values.                                  *)
LEMMA FilteredTurns ==
    ASSUME NEW q, NEW values, Len(values) \in Nat
    PROVE  \E f : /\ f[0] = <<>>
                  /\ \A n \in 1 .. Len(values) :
                        f[n] = IF MeetsAll(values[n], q) THEN Append(f[n - 1], values[n])
                               ELSE f[n - 1]
                  /\ Filtered(q, values) =
                        IF \E n \in 1 .. Len(values) : EvaluateLocal(values[n], q) = "error"
                        THEN Fail ELSE <<f[Len(values)]>>
<1> DEFINE Turn(n, last) == IF MeetsAll(values[n], q) THEN Append(last, values[n])
                            ELSE last
           Turns(m, f) == f = [n \in 0 .. m |-> IF n = 0 THEN <<>> ELSE Turn(n, f[n - 1])]
           T == {m \in 0 .. Len(values) : ~ \E f : Turns(m, f)}
<1>1. T = {}
  <2> SUFFICES ASSUME T # {} PROVE FALSE
    OBVIOUS
  <2> HIDE DEF Turn
  <2>1. PICK m \in T : \A k \in T : m <= k
    <3>1. T \subseteq Nat
      OBVIOUS
    <3> HIDE DEF T
    <3> QED
      BY <3>1, LeastNumber
  <2>2. m # 0
    <3>1. Turns(0, [n \in 0 .. 0 |-> <<>>])
      OBVIOUS
    <3> QED
      BY <3>1, <2>1
  <2>3. PICK g : Turns(m - 1, g)
    <3>1. m \in 0 .. Len(values)
      OBVIOUS
    <3>2. m - 1 \in 0 .. Len(values) /\ ~ (m <= m - 1)
      BY <2>2, <3>1
    <3> HIDE DEF Turns
    <3> QED
      BY <2>1, <3>2
  <2> DEFINE h == [n \in 0 .. m |-> IF n = m THEN Turn(m, g[m - 1]) ELSE g[n]]
  <2>4. \A n \in 0 .. m : h[n] = IF n = 0 THEN <<>> ELSE Turn(n, h[n - 1])
    <3> SUFFICES ASSUME NEW n \in 0 .. m
                 PROVE  h[n] = IF n = 0 THEN <<>> ELSE Turn(n, h[n - 1])
      OBVIOUS
    <3>1. CASE n = 0
      BY <3>1, <2>2, <2>3
    <3>2. CASE n # 0 /\ n # m
      <4>1. n \in 1 .. m - 1 /\ n - 1 \in 0 .. m /\ n - 1 # m
        BY <3>2
      <4>2. h[n] = g[n] /\ h[n - 1] = g[n - 1]
        BY <4>1, <3>2
      <4>3. g[n] = Turn(n, g[n - 1])
        BY <4>1, <2>3
      <4> QED
        BY <4>1, <4>2, <4>3
    <3>3. CASE n = m
      <4>1. h[n] = Turn(m, g[m - 1])
        BY <3>3
      <4>2. h[m - 1] = g[m - 1]
        BY <2>1, <2>2
      <4> QED
        BY <4>1, <4>2, <3>3, <2>2
    <3> QED
      BY <3>1, <3>2, <3>3
  <2>5. Turns(m, h)
    BY <2>4, Zenon
  <2> QED
    BY <2>1, <2>5
<1>2. \E f : Turns(Len(values), f)
  BY <1>1
<1> DEFINE g == CHOOSE f : Turns(Len(values), f)
<1>3. Turns(Len(values), g)
  BY <1>2
<1>4. Filtered(q, values) =
        IF \E n \in 1 .. Len(values) : EvaluateLocal(values[n], q) = "error"
        THEN Fail ELSE <<g[Len(values)]>>
  BY DEF Filtered, MeetsAll
<1> HIDE DEF g
<1>5. g[0] = <<>>
  BY <1>3
<1>6. \A n \in 1 .. Len(values) : g[n] = Turn(n, g[n - 1])
  <2> HIDE DEF Turn
  <2> QED
    BY <1>3
<1> QED
  BY <1>4, <1>5, <1>6

(* A value is kept if it meets the conditions, or is an error.             *)
LEMMA FilteredOne ==
    ASSUME NEW q, NEW v
    PROVE  Filtered(q, <<v>>) = IF EvaluateLocal(v, q) = "error" THEN Fail
                                ELSE IF MeetsAll(v, q) THEN << <<v>> >> ELSE << <<>> >>
<1> DEFINE values == <<v>>
<1>1. Len(values) = 1 /\ values[1] = v /\ Len(values) \in Nat
  OBVIOUS
<1> HIDE DEF values
<1>2. PICK f : /\ f[0] = <<>>
               /\ \A n \in 1 .. Len(values) :
                     f[n] = IF MeetsAll(values[n], q) THEN Append(f[n - 1], values[n])
                            ELSE f[n - 1]
               /\ Filtered(q, values) =
                     IF \E n \in 1 .. Len(values) : EvaluateLocal(values[n], q) = "error"
                     THEN Fail ELSE <<f[Len(values)]>>
  BY <1>1, FilteredTurns
<1>3. f[1] = IF MeetsAll(v, q) THEN Append(<<>>, v) ELSE <<>>
  <2>1. 1 \in 1 .. Len(values) /\ 1 - 1 = 0
    BY <1>1
  <2>2. f[1] = IF MeetsAll(values[1], q) THEN Append(f[0], values[1]) ELSE f[0]
    BY <1>2, <2>1
  <2> QED
    BY <1>1, <1>2, <2>2, Zenon
<1>4. Append(<<>>, v) = <<v>>
  OBVIOUS
<1>5. (\E n \in 1 .. Len(values) : EvaluateLocal(values[n], q) = "error")
        <=> EvaluateLocal(v, q) = "error"
  BY <1>1
<1> QED
  BY <1>1, <1>2, <1>3, <1>4, <1>5 DEF values

(* Values that all meet the conditions are all kept.                       *)
LEMMA FilteredAll ==
    ASSUME NEW q, NEW V, NEW values \in Seq(V),
           \A i \in 1 .. Len(values) : MeetsAll(values[i], q)
    PROVE  Filtered(q, values) = <<values>>
<1>1. Len(values) \in Nat /\ \A i \in 1 .. Len(values) : values[i] \in V
  OBVIOUS
<1>2. PICK f : /\ f[0] = <<>>
               /\ \A n \in 1 .. Len(values) :
                     f[n] = IF MeetsAll(values[n], q) THEN Append(f[n - 1], values[n])
                            ELSE f[n - 1]
               /\ Filtered(q, values) =
                     IF \E n \in 1 .. Len(values) : EvaluateLocal(values[n], q) = "error"
                     THEN Fail ELSE <<f[Len(values)]>>
  BY <1>1, FilteredTurns
<1> DEFINE P(n) == /\ f[n] \in Seq(V) /\ Len(f[n]) = n
                   /\ \A i \in 1 .. n : f[n][i] = values[i]
           T == {n \in 0 .. Len(values) : ~ P(n)}
<1>3. P(0)
  BY <1>2
<1>4. ASSUME NEW n \in 1 .. Len(values), P(n - 1) PROVE P(n)
  <2> DEFINE u == f[n - 1]
             x == values[n]
  <2>1. f[n] = Append(u, x) /\ x \in V
    BY <1>1, <1>2
  <2>2. /\ u \in Seq(V) /\ Len(u) = n - 1
        /\ \A i \in 1 .. n - 1 : u[i] = values[i]
    BY <1>4
  <2> HIDE DEF u
  <2>3. /\ f[n] \in Seq(V) /\ Len(f[n]) = n
        /\ \A i \in 1 .. n - 1 : f[n][i] = u[i]
        /\ f[n][n] = x
    <3>1. /\ Append(u, x) \in Seq(V) /\ Len(Append(u, x)) = Len(u) + 1
          /\ \A i \in 1 .. Len(u) : Append(u, x)[i] = u[i]
          /\ Append(u, x)[Len(u) + 1] = x
      BY <2>1, <2>2, AppendProperties
    <3>2. n - 1 + 1 = n
      OBVIOUS
    <3> QED
      BY <2>1, <2>2, <3>1, <3>2
  <2>4. \A i \in 1 .. n : i \in 1 .. n - 1 \/ i = n
    OBVIOUS
  <2> QED
    BY <2>2, <2>3, <2>4
<1>5. T = {}
  <2> SUFFICES ASSUME T # {} PROVE FALSE
    OBVIOUS
  <2>1. PICK n \in T : \A k \in T : n <= k
    <3>1. T \subseteq Nat
      OBVIOUS
    <3> HIDE DEF T
    <3> QED
      BY <3>1, LeastNumber
  <2>2. n \in 0 .. Len(values) /\ ~ P(n)
    OBVIOUS
  <2> HIDE DEF P
  <2>3. n \in 1 .. Len(values) /\ n - 1 \in 0 .. Len(values) /\ ~ (n <= n - 1)
    BY <2>2, <1>3, <1>1
  <2>4. P(n - 1)
    BY <2>1, <2>3
  <2> QED
    BY <2>2, <2>3, <2>4, <1>4
<1>6. P(Len(values))
  <2> HIDE DEF P
  <2> QED
    BY <1>5, <1>1
<1>7. f[Len(values)] = values
  BY <1>1, <1>6, SeqEqual
<1>8. \A n \in 1 .. Len(values) : EvaluateLocal(values[n], q) # "error"
  BY DEF MeetsAll
<1> QED
  BY <1>2, <1>7, <1>8

(* The first step of a type that is asked for once is also the last.       *)
LEMMA FirstStepIs ==
    ASSUME NEW q \in Queries, StepsAgree(q), NEW type, type # "WHERE"
    PROVE  /\ FirstStep(q, type) = 0 <=> LastStep(q, type) = 0
           /\ FirstStep(q, type) # 0 => q[FirstStep(q, type)] = q[LastStep(q, type)]
<1> DEFINE I == {i \in 1 .. Len(q) : q[i].type = type}
<1>1. Len(q) \in Nat /\ DOMAIN q = 1 .. Len(q)
  BY QueryAssumption
<1>2. FirstStep(q, type) = IF I # {} THEN Min(I) ELSE 0
  BY DEF FirstStep, SelectInSubSeq
<1>3. HasStep(q, type) <=> I # {}
  BY <1>1 DEF HasStep
<1>4. I # {} => Min(I) \in I
  <2>1. I \subseteq 1 .. Len(q)
    OBVIOUS
  <2> HIDE DEF I
  <2> QED
    BY <1>1, <2>1, MinIsFirst
<1>5. CASE ~ HasStep(q, type)
  BY <1>2, <1>3, <1>5, LastStepIs
<1>6. CASE HasStep(q, type)
  <2> DEFINE i == FirstStep(q, type)
             j == LastStep(q, type)
  <2>1. i \in DOMAIN q /\ q[i].type = type /\ i # 0
    BY <1>1, <1>2, <1>3, <1>4, <1>6
  <2>2. j \in DOMAIN q /\ q[j].type = type /\ j # 0
    BY <1>6, LastStepIs
  <2> HIDE DEF i, j
  <2>3. q[i] = q[j]
    BY <2>1, <2>2 DEF StepsAgree
  <2> QED
    BY <2>1, <2>2, <2>3 DEF i, j
<1> QED
  BY <1>5, <1>6

(* What a client makes of the records of a sequence is that sequence,      *)
(* mapped.                                                                 *)
LEMMA DecodedIsMapped ==
    ASSUME NEW S, NEW t \in Seq(S)
    PROVE  Decoded(t) = Mapped(t, [x \in S |-> Parsed[x[2]]])
<1>1. DOMAIN t = 1 .. Len(t) /\ \A i \in DOMAIN t : t[i] \in S
  OBVIOUS
<1> QED
  BY <1>1 DEF Decoded, Mapped

(* The local sort makes of the values what SortRecords makes of records.   *)
LEMMA OrdersAgree ==
    ASSUME TextsAreRead, NEW q \in Queries, StepsAgree(q),
           NEW found \in Seq(Keys \X Texts), Sortable(q, found),
           \A i \in DOMAIN found : Parsed[found[i][2]] \in Values \ {Fail}
    PROVE  Decoded(Sorted(q, found)) = Ordered(q, Decoded(found))
<1> DEFINE S == ToSet(found)
           V == Values \ {Fail}
           d == [x \in S |-> Parsed[x[2]]]
           last == LastStep(q, "ORDER_BY")
           first1 == FirstStep(q, "ORDER_BY")
<1>1. /\ DOMAIN found = 1 .. Len(found) /\ Len(found) \in Nat
      /\ found \in Seq(S)
      /\ \A x \in S : \E i \in DOMAIN found : x = found[i]
      /\ \A i \in DOMAIN found : found[i] \in S
  <2>1. DOMAIN found = 1 .. Len(found) /\ Len(found) \in Nat
    OBVIOUS
  <2>2. \A i \in DOMAIN found : found[i] \in S
    BY DEF ToSet
  <2>3. \A x \in S : \E i \in DOMAIN found : x = found[i]
    BY DEF ToSet
  <2> HIDE DEF S
  <2>4. found \in Seq(S)
    <3>1. found = [i \in 1 .. Len(found) |-> found[i]]
      OBVIOUS
    <3>2. [i \in 1 .. Len(found) |-> found[i]] \in Seq(S)
      BY <2>1, <2>2
    <3> QED
      BY <3>1, <3>2
  <2> QED
    BY <2>1, <2>2, <2>3, <2>4
<1>2. \A x \in S : d[x] = Parsed[x[2]] /\ d[x] \in V
  <2> SUFFICES ASSUME NEW x \in S PROVE Parsed[x[2]] \in V
    OBVIOUS
  <2> HIDE DEF S
  <2> QED
    BY <1>1
<1>3. first1 = 0 <=> last = 0
  BY FirstStepIs
<1>4. CASE last = 0
  BY <1>3, <1>4 DEF Sorted, Ordered
<1>5. CASE last # 0
  <2> DEFINE step == q[last]
             m == Decoded(found)
             pairs == {ab \in ToSet(m) \X ToSet(m) :
                         /\ FieldLocal(ab[1], step.field) # Fail
                         /\ FieldLocal(ab[2], step.field) # Fail}
             aLess == {ab \in pairs :
                CompareJsonObjects(FieldLocal(ab[1], step.field),
                                   FieldLocal(ab[2], step.field))}
             other == IF step.direction = "asc" THEN aLess ELSE pairs \ aLess
             before == {ab \in S \X S :
                           Less(Parsed[ab[1][2]], Parsed[ab[2][2]], step.field)
                               = (step.direction = "asc")}
  <2>0. \A x \in S : ExtractFieldValue(Parsed[x[2]], step.field) # Fail
    BY <1>1, <1>5 DEF Sortable
  <2>1. Sorted(q, found) = StdSort(found, before)
    BY <1>5 DEF Sorted, SortRecords
  <2>2. Ordered(q, m) = StdSort(m, other)
    <3>1. q[first1] = step /\ first1 # 0
      BY <1>3, <1>5, FirstStepIs
    <3> HIDE DEF m, step
    <3> QED
      BY <3>1 DEF Ordered
  <2>3. m = Mapped(found, d)
    BY <1>1, DecodedIsMapped
  <2>4. \A x \in S : d[x] \in ToSet(m)
    <3> SUFFICES ASSUME NEW x \in S PROVE d[x] \in ToSet(m)
      OBVIOUS
    <3>1. PICK i \in DOMAIN found : x = found[i]
      BY <1>1
    <3>2. i \in DOMAIN m /\ m[i] = Parsed[x[2]]
      BY <3>1 DEF Decoded
    <3> HIDE DEF m
    <3> QED
      BY <3>2 DEF ToSet
  <2> HIDE DEF m
  <2>5. SaySame(before, other, d, S)
    <3> SUFFICES ASSUME NEW x \in S, NEW y \in S
                 PROVE  <<x, y>> \in before <=> <<d[x], d[y]>> \in other
      BY DEF SaySame
    <3> DEFINE u == d[x]
               v == d[y]
    <3>0. /\ u \in V /\ v \in V /\ <<u, v>> \in ToSet(m) \X ToSet(m)
          /\ u = Parsed[x[2]] /\ v = Parsed[y[2]]
      BY <1>2, <2>4
    <3>1. /\ u \in V /\ v \in V /\ <<u, v>> \in pairs
          /\ u = Parsed[x[2]] /\ v = Parsed[y[2]]
      <4>1. FieldLocal(u, step.field) # Fail /\ FieldLocal(v, step.field) # Fail
        <5> HIDE DEF u, v, step
        <5>1. /\ FieldLocal(u, step.field) = ExtractFieldValue(u, step.field)
              /\ FieldLocal(v, step.field) = ExtractFieldValue(v, step.field)
          BY <3>0, FieldLocalIs
        <5> QED
          BY <2>0, <3>0, <5>1
      <4> QED
        BY <3>0, <4>1
    <3> HIDE DEF u, v, S
    <3>2. <<x, y>> \in before <=> (Less(u, v, step.field) = (step.direction = "asc"))
      BY <3>1
    <3>3. CompareJsonObjects(FieldLocal(u, step.field), FieldLocal(v, step.field))
            <=> Less(u, v, step.field)
      BY <3>1, FieldLocalIs DEF Less
    <3> HIDE DEF pairs, step
    <3>4. <<u, v>> \in aLess <=> Less(u, v, step.field)
      BY <3>1, <3>3
    <3> HIDE DEF aLess, before
    <3>5. <<u, v>> \in other <=> (Less(u, v, step.field) <=> step.direction = "asc")
      BY <3>1, <3>4
    <3>6. Less(u, v, step.field) \in BOOLEAN
      BY DEF Less, CompareJsonObjects
    <3> QED
      BY <3>2, <3>5, <3>6 DEF u, v
  <2> HIDE DEF before, other, d, V
  <2>6. Mapped(StdSort(found, before), d) = StdSort(Mapped(found, d), other)
    <3>1. found \in Seq(S) /\ \A x \in S : d[x] \in V
      BY <1>1, <1>2
    <3> HIDE DEF S
    <3>2. SortCommutes(found, before, other, d)
      BY <2>5, <3>1, StdSortMaps
    <3> QED
      BY <3>2 DEF SortCommutes
  <2>7. StdSort(found, before) \in Seq(S)
    <3> HIDE DEF S
    <3>1. LET t == StdSort(found, before) IN t \in Seq(S)
      BY <1>1, StdSortSorts, Zenon
    <3> QED
      BY <3>1
  <2>8. Decoded(StdSort(found, before)) = Mapped(StdSort(found, before), d)
    BY <2>7, DecodedIsMapped DEF d
  <2> QED
    BY <2>1, <2>2, <2>3, <2>6, <2>8 DEF m
<1> QED
  BY <1>4, <1>5

(* To cut a sequence and then to read the records is to read them and then *)
(* to cut it.                                                              *)
LEMMA TruncatedDecodes ==
    ASSUME NEW t \in Seq(Keys \X Texts), NEW n \in Nat
    PROVE  Decoded(Truncated(t, n)) = Truncated(Decoded(t), n)
<1> DEFINE m == Decoded(t)
<1>1. /\ Len(t) \in Nat /\ DOMAIN t = 1 .. Len(t)
      /\ \A i \in 1 .. Len(t) : t[i] \in Keys \X Texts
  OBVIOUS
<1>2. m = [i \in 1 .. Len(t) |-> Parsed[t[i][2]]]
  BY <1>1 DEF Decoded
<1>3. Len(m) = Len(t)
  BY <1>1, <1>2
<1> HIDE DEF m
<1>4. CASE ~ (n > 0 /\ Len(t) > n)
  BY <1>3, <1>4 DEF Truncated, m
<1>5. CASE n > 0 /\ Len(t) > n
  <2>1. SubSeq(t, 1, n) = [i \in 1 .. n |-> t[i]]
    BY <1>1, <1>5
  <2>2. SubSeq(m, 1, n) = [i \in 1 .. n |-> m[i]]
    BY <1>1, <1>2, <1>3, <1>5
  <2>3. Decoded(SubSeq(t, 1, n)) = [i \in 1 .. n |-> Parsed[t[i][2]]]
    BY <2>1 DEF Decoded
  <2>4. \A i \in 1 .. n : m[i] = Parsed[t[i][2]]
    BY <1>1, <1>2, <1>5
  <2> QED
    BY <1>3, <1>5, <2>2, <2>3, <2>4 DEF Truncated, m
<1> QED
  BY <1>4, <1>5

(* What the client makes of the answer is what the local view makes of     *)
(* the values of the records that were found.                              *)
LEMMA AnswerDecodes ==
    ASSUME TextsAreRead, NEW q \in Queries, StepsAgree(q),
           NEW found \in Seq(Keys \X Texts), Sortable(q, found),
           \A i \in DOMAIN found : /\ Parsed[found[i][2]] \in Values \ {Fail}
                                   /\ Evaluate(Parsed[found[i][2]], q) = "match"
    PROVE  Materialized(q, Decoded(found)) = <<Decoded(Answer(q, found))>>
<1> DEFINE m == Decoded(found)
           t == Sorted(q, found)
           i == FirstStep(q, "LIMIT")
<1>1. Filtered(q, m) = <<m>> /\ <<m>> # Fail /\ <<m>>[1] = m
  <2>1. Len(found) \in Nat /\ DOMAIN found = 1 .. Len(found)
    OBVIOUS
  <2>2. m = [n \in 1 .. Len(found) |-> Parsed[found[n][2]]]
    BY <2>1 DEF Decoded
  <2>3. m \in Seq(Values)
    BY <2>1, <2>2
  <2>4. \A n \in 1 .. Len(m) : MeetsAll(m[n], q)
    <3> SUFFICES ASSUME NEW n \in 1 .. Len(found) PROVE MeetsAll(m[n], q)
      BY <2>1, <2>2
    <3>1. m[n] = Parsed[found[n][2]]
      BY <2>2
    <3>2. m[n] \in Values \ {Fail} /\ Evaluate(m[n], q) = "match"
      BY <2>1, <3>1
    <3> HIDE DEF m
    <3> QED
      BY <3>2, ConditionsAgree DEF MeetsAll
  <2> HIDE DEF m
  <2> QED
    BY <2>3, <2>4, FilteredAll DEF Fail
<1>2. Decoded(t) = Ordered(q, m)
  BY OrdersAgree
<1>3. t \in Seq(Keys \X Texts)
  BY SortedIs
<1>4. i = 0 <=> LastStep(q, "LIMIT") = 0
  BY FirstStepIs
<1> HIDE DEF t, m
<1>5. CASE i = 0
  <2>1. LimitOf(q) = 0
    BY <1>4, <1>5 DEF LimitOf
  <2>2. Answer(q, found) = t
    BY <2>1 DEF Answer, Truncated, t
  <2>3. Materialized(q, m) = <<Ordered(q, m)>>
    BY <1>1, <1>5 DEF Materialized
  <2> QED
    BY <1>2, <2>2, <2>3 DEF m
<1>6. CASE i # 0
  <2>1. q[i] = q[LastStep(q, "LIMIT")]
    BY <1>6, FirstStepIs
  <2>2. LimitOf(q) = q[i].limit
    BY <1>4, <1>6, <2>1 DEF LimitOf
  <2>3. q[i].limit \in Nat
    <3>1. HasStep(q, "LIMIT")
      BY <1>4, <1>6, LastStepIs
    <3>2. LastStep(q, "LIMIT") \in DOMAIN q /\ q[i].type = "LIMIT"
      BY <2>1, <3>1, LastStepIs
    <3> QED
      BY <2>1, <3>2, QueryAssumption
  <2> DEFINE n == q[i].limit
  <2>4. Answer(q, found) = Truncated(t, n)
    BY <2>2 DEF Answer, t
  <2>5. Materialized(q, m) = <<Truncated(Ordered(q, m), n)>>
    BY <1>1, <1>6 DEF Materialized
  <2> HIDE DEF n
  <2>6. Decoded(Truncated(t, n)) = Truncated(Decoded(t), n)
    BY <1>3, <2>3, TruncatedDecodes DEF n
  <2> QED
    BY <1>2, <2>4, <2>5, <2>6 DEF m
<1> QED
  BY <1>5, <1>6

\* What a query that still reads has found are records that match.
MatchedInv ==
    \A w \in Workers : job[w].stage = "read" =>
        \A i \in DOMAIN job[w].found :
            Evaluate(Parsed[job[w].found[i][2]], job[w].query) = "match"

(* What a query that reads has come from.                                  *)
LEMMA CauseOfReading ==
    ASSUME DbInv, DbNext, NEW w \in Workers, job'[w].stage = "read"
    PROVE  job'[w] = job[w] \/ ListRecords(w) \/ \E k \in Keys : ReadRecord(w, k)
<1>1. job \in [Workers -> Jobs]
  BY DEF DbInv, DbTypeOK
<1>2. CASE DbCrash
  BY <1>2 DEF DbCrash, IdleJob
<1>3. ASSUME NEW u \in Workers,
             \/ EnterUpsert(u) \/ MakeDirectory(u) \/ RefusePayload(u)
             \/ OpenRecord(u) \/ WriteRecord(u) \/ WriteIsCutShort(u)
      PROVE  job'[w] = job[w]
  <2>1. PICK s \in {"open", "mkdir", "failed", "write", "ok"} :
            job' = [job EXCEPT ![u].stage = s]
    BY <1>3 DEF EnterUpsert, MakeDirectory, RefusePayload, OpenRecord, WriteRecord,
                WriteIsCutShort
  <2>2. job[u] \in Upserts
    BY <1>1, <1>3, JobShapes DEF EnterUpsert, MakeDirectory, RefusePayload, OpenRecord,
                WriteRecord, WriteIsCutShort
  <2>3. job'[u].stage # "read"
    BY <1>1, <2>1, <2>2 DEF Upserts
  <2> QED
    BY <1>1, <2>1, <2>3
<1>4. ASSUME NEW u \in Workers, ListRecords(u) \/ \E k \in Keys : ReadRecord(u, k)
      PROVE  job'[w] = job[w] \/ u = w
  BY <1>1, <1>4 DEF ListRecords, ReadRecord
<1>5. ASSUME NEW u \in Workers, SortAndLimit(u)
      PROVE  job'[w] = job[w]
  <2>1. job[u] \in Lookups
    BY <1>1, <1>5, JobShapes DEF SortAndLimit
  <2> DEFINE sorted == Answer(job[u].query, job[u].found)
  <2>2. PICK new \in {[job[u] EXCEPT !.stage = "answer", !.found = sorted],
                      [job[u] EXCEPT !.stage = "failed"]} :
            job' = [job EXCEPT ![u] = new]
    BY <1>1, <1>5 DEF SortAndLimit
  <2> HIDE DEF sorted
  <2>3. new.stage # "read"
    BY <2>1, <2>2 DEF Lookups
  <2> QED
    BY <1>1, <2>2, <2>3
<1>6. ASSUME NEW u \in Workers,
             \/ \E k \in Keys, p \in Payloads : AcceptUpsert(u, k, p)
             \/ \E q \in Queries : AcceptQuery(u, q)
             \/ UpsertReply(u) \/ QueryReply(u)
      PROVE  job'[w] = job[w]
  BY <1>1, <1>6 DEF AcceptUpsert, AcceptQuery, UpsertReply, QueryReply, IdleJob
<1> QED
  BY <1>2, <1>3, <1>4, <1>5, <1>6 DEF DbNext, DbInternal

(* The conditions of the found records stay met.                           *)
LEMMA MatchedNext ==
    ASSUME DbInv, MatchedInv, [DbNext]_dbVars
    PROVE  MatchedInv'
<1>0. job \in [Workers -> Jobs]
  BY DEF DbInv, DbTypeOK
<1>1. ASSUME NEW w \in Workers, job'[w].stage = "read"
      PROVE  \/ job'[w] = job[w]
             \/ ListRecords(w)
             \/ \E k \in Keys : ReadRecord(w, k)
  <2>1. CASE UNCHANGED dbVars
    BY <2>1 DEF dbVars
  <2> QED
    BY <1>1, <2>1, CauseOfReading
<1> SUFFICES ASSUME NEW w \in Workers, job'[w].stage = "read",
                    NEW i \in DOMAIN job'[w].found
             PROVE  Evaluate(Parsed[job'[w].found[i][2]], job'[w].query) = "match"
  BY DEF MatchedInv
<1>2. CASE job'[w] = job[w]
  BY <1>2 DEF MatchedInv
<1>3. CASE ListRecords(w)
  <2>1. job[w] \in Lookups /\ job[w].stage = "list"
    BY <1>0, <1>3, JobShapes DEF ListRecords
  <2>2. job'[w].found = job[w].found /\ job[w].found = <<>>
    <3>1. job'[w].found = job[w].found
      BY <1>0, <1>3, <2>1 DEF ListRecords, Lookups
    <3>2. job[w].found = <<>>
      BY <2>1 DEF DbInv, ReadersAreReady, FoundOnce
    <3> QED
      BY <3>1, <3>2
  <2> QED
    BY <2>2
<1>4. CASE \E k \in Keys : ReadRecord(w, k)
  <2>1. PICK k \in Keys : ReadRecord(w, k)
    BY <1>4
  <2>2. job[w] \in Lookups /\ job[w].stage = "read"
    BY <1>0, <2>1, JobShapes DEF ReadRecord
  <2> DEFINE found == job[w].found
             q == job[w].query
             x == <<k, file[k]>>
  <2>3. /\ job'[w].query = q
        /\ \/ job'[w].found = found
           \/ job'[w].found = Append(found, x) /\ Evaluate(Parsed[file[k]], q) = "match"
    BY <1>0, <2>1, <2>2 DEF ReadRecord, Lookups
  <2>4. found \in Seq(Keys \X Texts)
    BY <2>2 DEF Lookups
  <2>5. \A n \in DOMAIN found : Evaluate(Parsed[found[n][2]], q) = "match"
    BY <2>2 DEF MatchedInv
  <2>6. x[2] = file[k]
    OBVIOUS
  <2> HIDE DEF found, q, x
  <2>7. CASE job'[w].found = found
    BY <2>3, <2>5, <2>7
  <2>8. CASE job'[w].found # found
    <3>1. job'[w].found = Append(found, x) /\ Evaluate(Parsed[x[2]], q) = "match"
      BY <2>3, <2>6, <2>8
    <3>2. \/ i \in DOMAIN found /\ job'[w].found[i] = found[i]
          \/ job'[w].found[i] = x
      BY <2>4, <3>1
    <3> QED
      BY <2>3, <2>5, <3>1, <3>2
  <2> QED
    BY <2>7, <2>8
<1> QED
  BY <1>1, <1>2, <1>3, <1>4

(* The local view keeps the records that ReadRecord keeps, and fails where *)
(* it fails.                                                               *)
LEMMA ReadRecordAgrees ==
    ASSUME TextsAreRead, DbInv,
           NEW w \in Workers, NEW k \in Keys, ReadRecord(w, k),
           file[k] \in Texts, Parsed[file[k]] # Fail
    PROVE  KeptAlike(w, k)
<1> DEFINE found == job[w].found
           q == job[w].query
           x == <<k, file[k]>>
           v == Parsed[file[k]]
<1>1. job \in [Workers -> Jobs] /\ job[w] \in Lookups
  BY JobShapes DEF ReadRecord, DbInv, DbTypeOK
<1>2. found \in Seq(Keys \X Texts) /\ q \in Queries
  BY <1>1 DEF Lookups
<1>3. v \in Values \ {Fail}
  BY DEF DbInv, FilesAreRead
<1>4. /\ job'[w].found = IF Evaluate(v, q) = "match" THEN Append(found, x) ELSE found
      /\ job'[w].stage = IF Evaluate(v, q) = "error" THEN "failed" ELSE "read"
  <2>1. file[k] # Empty
    BY DatabaseAssumption
  <2> QED
    BY <1>1, <2>1 DEF ReadRecord, Lookups
<1>5. x[2] = file[k] /\ x \in Keys \X Texts
  OBVIOUS
<1> HIDE DEF q
<1>6. EvaluateLocal(v, q) = Evaluate(v, q)
  BY <1>2, <1>3, ConditionsAgree
<1>7. Filtered(q, <<v>>) = IF Evaluate(v, q) = "error" THEN Fail
                           ELSE IF Evaluate(v, q) = "match" THEN << <<v>> >> ELSE << <<>> >>
  BY <1>6, FilteredOne DEF MeetsAll
<1> DEFINE m == Decoded(found)
<1>8. m \in Seq(Values \union {Fail}) /\ m = [i \in 1 .. Len(found) |-> Parsed[found[i][2]]]
  <2>1. DOMAIN found = 1 .. Len(found) /\ Len(found) \in Nat
    BY <1>2
  <2>2. m = [i \in 1 .. Len(found) |-> Parsed[found[i][2]]]
    BY <2>1 DEF Decoded
  <2>3. \A i \in 1 .. Len(found) : Parsed[found[i][2]] \in Values \union {Fail}
    BY <1>1, <2>1 DEF DbInv, ReadersAreReady, FoundOnce
  <2> QED
    BY <2>1, <2>2, <2>3
<1> DEFINE kept == Filtered(q, <<v>>)
<1>9. KeptAlike(w, k) <=> IF job'[w].stage = "failed" THEN kept = Fail
                           ELSE kept # Fail /\ Decoded(job'[w].found) = m \o kept[1]
  BY DEF KeptAlike, q
<1>10. kept = Filtered(q, <<v>>)
  OBVIOUS
<1> HIDE DEF found, x, v, m, kept
<1>11. CASE Evaluate(v, q) = "match"
  <2>1. /\ job'[w].stage = "read" /\ job'[w].found = Append(found, x)
        /\ kept = << <<v>> >>
    BY <1>4, <1>7, <1>10, <1>11
  <2>2. m \o <<v>> = Append(m, v)
    BY <1>8, <1>3
  <2>3. Decoded(Append(found, x)) = Append(m, v)
    <3>1. /\ Len(found) \in Nat /\ DOMAIN Append(found, x) = 1 .. Len(found) + 1
          /\ \A i \in 1 .. Len(found) : Append(found, x)[i] = found[i]
          /\ Append(found, x)[Len(found) + 1] = x
      BY <1>2, <1>5
    <3>2. Decoded(Append(found, x)) =
            [i \in 1 .. Len(found) + 1 |-> Parsed[Append(found, x)[i][2]]]
      BY <3>1 DEF Decoded
    <3>3. Append(m, v) = [i \in 1 .. Len(found) + 1 |->
                            IF i = Len(found) + 1 THEN v ELSE m[i]]
      BY <1>3, <1>8, <3>1
    <3>4. ASSUME NEW i \in 1 .. Len(found) + 1
          PROVE  Parsed[Append(found, x)[i][2]] = IF i = Len(found) + 1 THEN v ELSE m[i]
      <4>1. CASE i = Len(found) + 1
        BY <4>1, <3>1, <1>5 DEF v
      <4>2. CASE i # Len(found) + 1
        <5>1. i \in 1 .. Len(found)
          BY <3>1, <4>2
        <5>2. m[i] = Parsed[found[i][2]]
          BY <1>8, <5>1
        <5> QED
          BY <3>1, <4>2, <5>1, <5>2
      <4> QED
        BY <4>1, <4>2
    <3> QED
      BY <3>2, <3>3, <3>4
  <2>4. kept # Fail /\ kept[1] = <<v>>
    BY <2>1 DEF Fail
  <2> QED
    BY <1>9, <2>1, <2>2, <2>3, <2>4
<1>12. CASE Evaluate(v, q) \notin {"match", "error"}
  <2>1. /\ job'[w].stage = "read" /\ job'[w].found = found
        /\ kept = << <<>> >>
    BY <1>4, <1>7, <1>10, <1>12
  <2>2. m \o <<>> = m
    BY <1>8
  <2>3. kept # Fail /\ kept[1] = <<>>
    BY <2>1 DEF Fail
  <2>4. Decoded(job'[w].found) = m
    BY <2>1 DEF m
  <2> QED
    BY <1>9, <2>1, <2>2, <2>3, <2>4
<1>13. CASE Evaluate(v, q) = "error"
  <2>1. job'[w].stage = "failed" /\ kept = Fail
    BY <1>4, <1>7, <1>10, <1>13
  <2> QED
    BY <1>9, <2>1
<1> QED
  BY <1>11, <1>12, <1>13

(* The local view sorts and limits as SortAndLimit does.                   *)
LEMMA SortAndLimitAgrees ==
    ASSUME TextsAreRead, DbInv, MatchedInv,
           NEW w \in Workers, SortAndLimit(w), job'[w].stage = "answer",
           Fail \notin ToSet(Decoded(job[w].found)), StepsAgree(job[w].query)
    PROVE  Materialized(job[w].query, Decoded(job[w].found)) = <<Decoded(job'[w].found)>>
<1> DEFINE found == job[w].found
           q == job[w].query
<1>1. job \in [Workers -> Jobs] /\ job[w] \in Lookups /\ job[w].stage = "read"
  BY JobShapes DEF SortAndLimit, DbInv, DbTypeOK
<1>2. found \in Seq(Keys \X Texts) /\ q \in Queries
  BY <1>1 DEF Lookups
<1>3. job'[w].found = Answer(q, found) /\ Sortable(q, found)
  BY <1>1 DEF SortAndLimit, Lookups
<1>4. \A i \in DOMAIN found : Evaluate(Parsed[found[i][2]], q) = "match"
  BY <1>1 DEF MatchedInv
<1>5. \A i \in DOMAIN found : Parsed[found[i][2]] \in Values \union {Fail}
  BY <1>1 DEF DbInv, ReadersAreReady, FoundOnce
<1>6. \A i \in DOMAIN found : Parsed[found[i][2]] # Fail
  BY DEF Decoded, ToSet
<1> HIDE DEF found, q
<1>7. StepsAgree(q)
  BY DEF q
<1>8. Materialized(q, Decoded(found)) = <<Decoded(Answer(q, found))>>
  BY <1>2, <1>3, <1>4, <1>5, <1>6, <1>7, AnswerDecodes
<1> QED
  BY <1>3, <1>8 DEF found, q

(* What QueryView makes in the client of values that it holds is what      *)
(* database-service makes of their records: both keep, drop and refuse the *)
(* same, and put what they keep in the same order, ties included, though   *)
(* one looks at the first step of a type and the other at the last, and    *)
(* one sorts values and the other pairs of a uuid and a text.  It is for   *)
(* collections that StdSort sorts as std::sort does (DatabaseAssumption);  *)
(* a record without a field is no exception, but two orders are.           *)
THEOREM LocalViewsAgree ==
    ASSUME TextsAreRead
    PROVE  DbSpec => LocalViewAgrees
<1>1. DbInit => MatchedInv
  BY DEF DbInit, MatchedInv, IdleJob
<1>2. DbInv /\ MatchedInv /\ [DbNext]_dbVars => MatchedInv'
  BY MatchedNext
<1>3. DbInv /\ MatchedInv =>
        [\A w \in Workers : (\A k \in Keys : KeptAlike(w, k)) /\ MadeAlike(w)]_dbVars
  <2>1. ASSUME DbInv, NEW w \in Workers, NEW k \in Keys
        PROVE  KeptAlike(w, k)
    BY <2>1, ReadRecordAgrees DEF KeptAlike
  <2>2. ASSUME DbInv, MatchedInv, NEW w \in Workers
        PROVE  MadeAlike(w)
    BY <2>2, SortAndLimitAgrees DEF MadeAlike
  <2> QED
    BY <2>1, <2>2
<1> QED
  BY <1>1, <1>2, <1>3, DbInvariant, PTL DEF DbSpec, LocalViewAgrees
=============================================================================
