----------------------------- MODULE SeqLemmas -----------------------------
(***************************************************************************)
(* What the list operations of the kernel (list_del, list_add, list_add_   *)
(* tail) do to a list without repetitions: the lemmas about sequences the  *)
(* proofs about the scheduler rest on.                                     *)
(***************************************************************************)
EXTENDS Integers, SequencesExt, SequenceTheorems, WellFoundedInduction, TLAPS

\* A list without repetitions of elements of S.
List(S) == {s \in Seq(S) : IsInjective(s)}

\* A non-empty set of naturals has a least element.
LEMMA LeastNat ==
  ASSUME NEW I \in SUBSET Nat, I # {}
  PROVE  \E i \in I : \A j \in I : i <= j
<1>1. PICK i \in I : \A j \in I : ~(<<j, i>> \in OpToRel(<, Nat))
  BY NatLessThanWellFounded, WFMin
<1>2. \A j \in I : ~(j < i)
  BY <1>1 DEF OpToRel
<1> QED
  BY <1>2

\* Min picks it.
LEMMA MinIsLeast ==
  ASSUME NEW I \in SUBSET Nat, I # {}
  PROVE  Min(I) \in I /\ \A j \in I : Min(I) <= j
BY LeastNat DEF Min

\* A non-empty set of naturals below a bound has a greatest element.
LEMMA GreatestNat ==
  ASSUME NEW I \in SUBSET Nat, I # {}, NEW b \in Nat, \A i \in I : i <= b
  PROVE  \E i \in I : \A j \in I : j <= i
<1> DEFINE J == {b - i : i \in I}
<1>1. J \in SUBSET Nat /\ J # {}
  <2>1. \A i \in I : b - i \in Nat
    OBVIOUS
  <2>2. J \in SUBSET Nat
    BY <2>1
  <2>3. PICK i : i \in I
    OBVIOUS
  <2>4. b - i \in J
    BY <2>3
  <2> QED
    BY <2>2, <2>4
<1>2. PICK j \in J : \A k \in J : j <= k
  <2> HIDE DEF J
  <2> QED
    BY <1>1, LeastNat
<1>3. PICK i \in I : j = b - i
  OBVIOUS
<1>4. \A k \in I : b - i <= b - k
  BY <1>2, <1>3
<1> QED
  BY <1>4

\* Max picks it.
LEMMA MaxIsGreatest ==
  ASSUME NEW I \in SUBSET Nat, I # {}, NEW b \in Nat, \A i \in I : i <= b
  PROVE  Max(I) \in I
<1>1. PICK i \in I : \A j \in I : j <= i
  BY GreatestNat
<1>2. \A j \in I : i >= j
  BY <1>1
<1> QED
  BY <1>2 DEF Max

\* list_del at position i.
LEMMA RemoveAtList ==
  ASSUME NEW S, NEW s \in List(S), NEW i \in 1 .. Len(s)
  PROVE  /\ RemoveAt(s, i) \in List(S)
         /\ ToSet(RemoveAt(s, i)) = ToSet(s) \ {s[i]}
         /\ Len(RemoveAt(s, i)) = Len(s) - 1
         /\ \A j \in 1 .. Len(s) - 1 : RemoveAt(s, i)[j] = IF j < i THEN s[j] ELSE s[j + 1]
<1> DEFINE a == SubSeq(s, 1, i - 1)
           b == SubSeq(s, i + 1, Len(s))
           t == a \o b
<1>0. s \in Seq(S) /\ IsInjective(s) /\ Len(s) \in Nat /\ DOMAIN s = 1 .. Len(s)
  BY LenProperties DEF List
<1>1. /\ a \in Seq(S) /\ Len(a) = i - 1
      /\ \A j \in 1 .. i - 1 : a[j] = s[j]
  BY <1>0, SubSeqProperties, ElementOfSeq
<1>2. /\ b \in Seq(S) /\ Len(b) = Len(s) - i
      /\ \A j \in 1 .. Len(s) - i : b[j] = s[i + j]
  <2>1. \A j \in (i + 1) .. Len(s) : s[j] \in S
    BY <1>0, ElementOfSeq
  <2>2. /\ b \in Seq(S)
        /\ Len(b) = IF i + 1 <= Len(s) THEN Len(s) - (i + 1) + 1 ELSE 0
        /\ \A j \in 1 .. Len(s) - (i + 1) + 1 : b[j] = s[(i + 1) + j - 1]
    BY <1>0, <2>1, SubSeqProperties
  <2> HIDE DEF b
  <2>3. \A j \in 1 .. Len(s) - i : (i + 1) + j - 1 = i + j /\ j \in 1 .. Len(s) - (i + 1) + 1
    BY <1>0
  <2>4. Len(b) = Len(s) - i
    <3>0. i \in Int /\ i <= Len(s) /\ Len(s) \in Int
      BY <1>0
    <3>1. Len(b) = IF i + 1 <= Len(s) THEN Len(s) - (i + 1) + 1 ELSE 0
      BY <2>2
    <3> QED
      BY <3>0, <3>1
  <2> QED
    BY <2>2, <2>3, <2>4
<1>3. /\ t \in Seq(S) /\ Len(t) = Len(s) - 1 /\ DOMAIN t = 1 .. Len(s) - 1
      /\ \A j \in 1 .. Len(s) - 1 : t[j] = IF j < i THEN s[j] ELSE s[j + 1]
  <2> HIDE DEF a, b
  <2>0. /\ t \in Seq(S) /\ Len(t) = Len(a) + Len(b)
        /\ \A j \in 1 .. Len(a) + Len(b) : t[j] = IF j <= Len(a) THEN a[j] ELSE b[j - Len(a)]
    BY <1>1, <1>2, ConcatProperties
  <2> HIDE DEF t
  <2>1. /\ t \in Seq(S) /\ Len(t) = Len(s) - 1
        /\ \A j \in 1 .. Len(s) - 1 : t[j] = IF j <= i - 1 THEN a[j] ELSE b[j - (i - 1)]
    <3>1. Len(a) = i - 1 /\ Len(b) = Len(s) - i /\ i \in Int /\ Len(s) \in Int
      BY <1>0, <1>1, <1>2
    <3>2. Len(a) + Len(b) = Len(s) - 1
      BY <3>1
    <3> QED
      BY <2>0, <3>1, <3>2
  <2> QED
    BY <1>0, <1>1, <1>2, <2>1, LenProperties
<1> HIDE DEF t
<1>4. IsInjective(t)
  <2> SUFFICES ASSUME NEW j \in 1 .. Len(s) - 1, NEW k \in 1 .. Len(s) - 1, t[j] = t[k]
               PROVE  j = k
    BY <1>3 DEF IsInjective
  <2>1. \A m, n \in 1 .. Len(s) : s[m] = s[n] => m = n
    BY <1>0 DEF IsInjective
  <2>2. i \in Int /\ Len(s) \in Int /\ j \in Int /\ k \in Int
    BY <1>0
  <2>3. /\ t[j] = IF j < i THEN s[j] ELSE s[j + 1]
        /\ t[k] = IF k < i THEN s[k] ELSE s[k + 1]
    BY <1>3
  <2> DEFINE at(n) == IF n < i THEN n ELSE n + 1
  <2>4. at(j) \in 1 .. Len(s) /\ at(k) \in 1 .. Len(s) /\ (at(j) = at(k) => j = k)
    BY <2>2
  <2>5. s[at(j)] = s[at(k)]
    BY <2>3
  <2> HIDE DEF at
  <2> QED
    BY <2>1, <2>4, <2>5
<1>5. ToSet(t) = ToSet(s) \ {s[i]}
  <2>1. ASSUME NEW x \in ToSet(t) PROVE x \in ToSet(s) /\ x # s[i]
    <3>0. \A m, n \in 1 .. Len(s) : s[m] = s[n] => m = n
      BY <1>0 DEF IsInjective
    <3>1. PICK j \in 1 .. Len(s) - 1 : x = t[j]
      BY <2>1, <1>3 DEF ToSet
    <3>2. i \in 1 .. Len(s) /\ i \in Int /\ Len(s) \in Int /\ j \in Int
      BY <1>0
    <3>3. PICK k \in 1 .. Len(s) : x = s[k] /\ k # i
      <4>1. CASE j < i
        BY <1>3, <3>1, <3>2, <4>1
      <4>2. CASE ~(j < i)
        <5>1. x = s[j + 1] /\ j + 1 \in 1 .. Len(s) /\ j + 1 # i
          BY <1>3, <3>1, <3>2, <4>2
        <5> QED
          BY <5>1
      <4> QED
        BY <4>1, <4>2
    <3> QED
      BY <1>0, <3>0, <3>2, <3>3 DEF ToSet
  <2>2. ASSUME NEW x \in ToSet(s), x # s[i] PROVE x \in ToSet(t)
    <3>1. PICK k \in 1 .. Len(s) : x = s[k]
      BY <1>0 DEF ToSet
    <3>2. CASE k < i
      BY <3>1, <3>2, <1>0, <1>3 DEF ToSet
    <3>3. CASE k > i
      <4>1. k - 1 \in 1 .. Len(s) - 1 /\ t[k - 1] = s[k]
        BY <3>3, <1>0, <1>3
      <4> QED
        BY <4>1, <3>1, <1>3 DEF ToSet
    <3> QED
      BY <2>2, <3>1, <3>2, <3>3, <1>0
  <2> QED
    BY <2>1, <2>2
<1> QED
  BY <1>3, <1>4, <1>5 DEF RemoveAt, List, t, a, b

\* RemoveFirst removes at a place where the element is.
LEMMA RemoveFirstAt ==
  ASSUME NEW S, NEW s \in List(S), NEW e \in ToSet(s)
  PROVE  \E i \in 1 .. Len(s) : s[i] = e /\ RemoveFirst(s, e) = RemoveAt(s, i)
<1>0. s \in Seq(S) /\ Len(s) \in Nat /\ DOMAIN s = 1 .. Len(s)
  BY LenProperties DEF List
<1> DEFINE I == {i \in 1 .. Len(s) : s[i] = e}
<1>1. I # {} /\ I \in SUBSET Nat
  BY <1>0 DEF ToSet
<1>2. Min(I) \in I
  <2> HIDE DEF I
  <2> QED
    BY <1>1, MinIsLeast
<1>3. SelectInSeq(s, LAMBDA v : v = e) = Min(I)
  BY <1>1 DEF SelectInSeq
<1>4. RemoveFirst(s, e) = RemoveAt(s, Min(I))
  BY <1>1, <1>3 DEF RemoveFirst
<1>5. Min(I) \in 1 .. Len(s) /\ s[Min(I)] = e
  BY <1>2
<1> HIDE DEF I
<1> QED
  BY <1>4, <1>5

\* list_del of the element e, wherever it is; nothing happens when it is not there.
LEMMA RemoveFirstList ==
  ASSUME NEW S, NEW s \in List(S), NEW e
  PROVE  /\ RemoveFirst(s, e) \in List(S)
         /\ ToSet(RemoveFirst(s, e)) = ToSet(s) \ {e}
         /\ e \notin ToSet(s) => RemoveFirst(s, e) = s
<1>0. s \in Seq(S) /\ Len(s) \in Nat /\ DOMAIN s = 1 .. Len(s)
  BY LenProperties DEF List
<1>1. CASE e \notin ToSet(s)
  <2>1. ~ \E i \in 1 .. Len(s) : s[i] = e
    BY <1>0, <1>1 DEF ToSet
  <2> QED
    BY <1>1, <2>1 DEF RemoveFirst
<1>2. CASE e \in ToSet(s)
  BY <1>2, RemoveFirstAt, RemoveAtList
<1> QED
  BY <1>1, <1>2

LEMMA RemoveFirstLen ==
  ASSUME NEW S, NEW s \in List(S), NEW e \in ToSet(s)
  PROVE  Len(RemoveFirst(s, e)) = Len(s) - 1
BY RemoveFirstAt, RemoveAtList

\* list_add behind position i - 1.
LEMMA InsertAtList ==
  ASSUME NEW S, NEW s \in List(S), NEW i \in 1 .. Len(s) + 1, NEW e \in S, e \notin ToSet(s)
  PROVE  /\ InsertAt(s, i, e) \in List(S)
         /\ ToSet(InsertAt(s, i, e)) = ToSet(s) \cup {e}
         /\ Len(InsertAt(s, i, e)) = Len(s) + 1
<1> DEFINE a == SubSeq(s, 1, i - 1)
           b == SubSeq(s, i, Len(s))
           c == a \o <<e>>
           t == c \o b
<1>0. /\ s \in Seq(S) /\ IsInjective(s) /\ Len(s) \in Nat /\ DOMAIN s = 1 .. Len(s)
      /\ \A k \in 1 .. Len(s) : s[k] # e
  BY LenProperties DEF List, ToSet
<1>1. /\ a \in Seq(S) /\ Len(a) = i - 1
      /\ \A j \in 1 .. i - 1 : a[j] = s[j]
  BY <1>0, SubSeqProperties, ElementOfSeq
<1>2. /\ b \in Seq(S) /\ Len(b) = Len(s) - i + 1
      /\ \A j \in 1 .. Len(s) - i + 1 : b[j] = s[i + j - 1]
  BY <1>0, SubSeqProperties, ElementOfSeq
<1>3. <<e>> \in Seq(S) /\ Len(<<e>>) = 1 /\ <<e>>[1] = e
  OBVIOUS
<1>4. /\ c \in Seq(S) /\ Len(c) = i
      /\ \A j \in 1 .. i : c[j] = IF j < i THEN s[j] ELSE e
  <2> HIDE DEF a
  <2>1. /\ c \in Seq(S) /\ Len(c) = i
        /\ \A j \in 1 .. i : c[j] = IF j <= i - 1 THEN a[j] ELSE <<e>>[j - (i - 1)]
    BY <1>0, <1>1, <1>3, ConcatProperties
  <2> HIDE DEF c
  <2> QED
    BY <1>0, <1>1, <2>1, <1>3
<1>5. /\ t \in Seq(S) /\ Len(t) = Len(s) + 1 /\ DOMAIN t = 1 .. Len(s) + 1
      /\ \A j \in 1 .. Len(s) + 1 : t[j] = IF j < i THEN s[j] ELSE IF j = i THEN e ELSE s[j - 1]
  <2> HIDE DEF b, c
  <2>0. /\ t \in Seq(S) /\ Len(t) = Len(c) + Len(b)
        /\ \A j \in 1 .. Len(c) + Len(b) : t[j] = IF j <= Len(c) THEN c[j] ELSE b[j - Len(c)]
    BY <1>2, <1>4, ConcatProperties
  <2> HIDE DEF t
  <2>1. /\ t \in Seq(S) /\ Len(t) = Len(s) + 1
        /\ \A j \in 1 .. Len(s) + 1 : t[j] = IF j <= i THEN c[j] ELSE b[j - i]
    BY <1>0, <1>2, <1>4, <2>0
  <2> QED
    BY <1>0, <1>2, <1>4, <2>1, LenProperties
<1> HIDE DEF t
<1>6. IsInjective(t)
  <2> SUFFICES ASSUME NEW j \in 1 .. Len(s) + 1, NEW k \in 1 .. Len(s) + 1, t[j] = t[k]
               PROVE  j = k
    BY <1>5 DEF IsInjective
  <2>1. \A m, n \in 1 .. Len(s) : s[m] = s[n] => m = n
    BY <1>0 DEF IsInjective
  <2>2. CASE j < i
    BY <1>0, <1>5, <2>1, <2>2
  <2>3. CASE j = i
    BY <1>0, <1>5, <2>1, <2>3
  <2>4. CASE j > i
    BY <1>0, <1>5, <2>1, <2>4
  <2> QED
    BY <2>2, <2>3, <2>4
<1>7. ToSet(t) = ToSet(s) \cup {e}
  <2>1. ASSUME NEW x \in ToSet(t) PROVE x \in ToSet(s) \cup {e}
    BY <2>1, <1>0, <1>5 DEF ToSet
  <2>2. e \in ToSet(t)
    BY <1>0, <1>5 DEF ToSet
  <2>3. ASSUME NEW x \in ToSet(s) PROVE x \in ToSet(t)
    <3>1. PICK k \in 1 .. Len(s) : x = s[k]
      BY <1>0 DEF ToSet
    <3>2. CASE k < i
      BY <3>1, <3>2, <1>0, <1>5 DEF ToSet
    <3>3. CASE k >= i
      <4>1. k + 1 \in 1 .. Len(s) + 1 /\ t[k + 1] = s[k]
        BY <3>3, <1>0, <1>5
      <4> QED
        BY <4>1, <3>1, <1>5 DEF ToSet
    <3> QED
      BY <3>1, <3>2, <3>3, <1>0
  <2> QED
    BY <2>1, <2>2, <2>3
<1> QED
  BY <1>5, <1>6, <1>7 DEF InsertAt, List, t, a, b, c

\* list_add_tail.
LEMMA AppendList ==
  ASSUME NEW S, NEW s \in List(S), NEW e \in S, e \notin ToSet(s)
  PROVE  /\ Append(s, e) \in List(S)
         /\ ToSet(Append(s, e)) = ToSet(s) \cup {e}
         /\ Len(Append(s, e)) = Len(s) + 1
<1> DEFINE t == Append(s, e)
<1>0. /\ s \in Seq(S) /\ IsInjective(s) /\ Len(s) \in Nat /\ DOMAIN s = 1 .. Len(s)
      /\ \A k \in 1 .. Len(s) : s[k] # e
  BY LenProperties DEF List, ToSet
<1>1. /\ t \in Seq(S) /\ Len(t) = Len(s) + 1 /\ DOMAIN t = 1 .. Len(s) + 1
      /\ \A j \in 1 .. Len(s) : t[j] = s[j]
      /\ t[Len(s) + 1] = e
  BY <1>0, AppendProperties, LenProperties
<1> HIDE DEF t
<1>2. IsInjective(t)
  <2> SUFFICES ASSUME NEW j \in 1 .. Len(s) + 1, NEW k \in 1 .. Len(s) + 1, t[j] = t[k]
               PROVE  j = k
    BY <1>1 DEF IsInjective
  <2> QED
    BY <1>0, <1>1 DEF IsInjective
<1>3. ToSet(t) = ToSet(s) \cup {e}
  <2>1. ASSUME NEW x \in ToSet(t) PROVE x \in ToSet(s) \cup {e}
    BY <2>1, <1>0, <1>1 DEF ToSet
  <2>2. ASSUME NEW x \in ToSet(s) \cup {e} PROVE x \in ToSet(t)
    <3>1. CASE x = e
      BY <3>1, <1>0, <1>1 DEF ToSet
    <3>2. CASE x \in ToSet(s)
      BY <3>2, <1>0, <1>1 DEF ToSet
    <3> QED
      BY <2>2, <3>1, <3>2
  <2> QED
    BY <2>1, <2>2
<1> QED
  BY <1>1, <1>2, <1>3 DEF List, t

\* Taking the first element off a list.
LEMMA TailList ==
  ASSUME NEW S, NEW s \in List(S), s # <<>>
  PROVE  /\ Head(s) \in ToSet(s)
         /\ Tail(s) \in List(S)
         /\ ToSet(Tail(s)) = ToSet(s) \ {Head(s)}
         /\ Len(Tail(s)) = Len(s) - 1
<1>0. /\ s \in Seq(S) /\ Len(s) \in Nat \ {0} /\ DOMAIN s = 1 .. Len(s) /\ Head(s) = s[1]
  BY LenProperties, EmptySeq DEF List
<1>1. RemoveAt(s, 1) = Tail(s)
  <2>1. SubSeq(s, 1, 1 - 1) = <<>>
    BY SubSeqEmpty
  <2>2. Tail(s) = SubSeq(s, 1 + 1, Len(s)) /\ Tail(s) \in Seq(S)
    BY <1>0, TailIsSubSeq, HeadTailProperties
  <2>3. <<>> \o Tail(s) = Tail(s)
    BY <2>2, ConcatEmptySeq
  <2> QED
    BY <2>1, <2>2, <2>3 DEF RemoveAt
<1>2. Head(s) \in ToSet(s)
  BY <1>0 DEF ToSet
<1>3. 1 \in 1 .. Len(s)
  BY <1>0
<1>4. /\ RemoveAt(s, 1) \in List(S)
      /\ ToSet(RemoveAt(s, 1)) = ToSet(s) \ {s[1]}
      /\ Len(RemoveAt(s, 1)) = Len(s) - 1
  BY <1>3, RemoveAtList
<1> QED
  BY <1>0, <1>1, <1>2, <1>4

\* The elements of a list of S are in S, and an empty list has none.
LEMMA ListElements ==
  ASSUME NEW S, NEW s \in List(S)
  PROVE  /\ ToSet(s) \subseteq S
         /\ s = <<>> <=> ToSet(s) = {}
<1>0. /\ s \in Seq(S) /\ Len(s) \in Nat /\ DOMAIN s = 1 .. Len(s)
  BY LenProperties DEF List
<1>1. ToSet(s) \subseteq S
  BY <1>0, ElementOfSeq DEF ToSet
<1>2. CASE s = <<>>
  BY <1>1, <1>2 DEF ToSet
<1>3. CASE s # <<>>
  BY <1>1, <1>3, TailList
<1> QED
  BY <1>1, <1>2, <1>3

\* list_add, at the head.
LEMMA PrependList ==
  ASSUME NEW S, NEW s \in List(S), NEW e \in S, e \notin ToSet(s)
  PROVE  /\ <<e>> \o s \in List(S)
         /\ ToSet(<<e>> \o s) = ToSet(s) \cup {e}
<1>0. s \in Seq(S) /\ Len(s) \in Nat /\ <<e>> \in Seq(S)
  BY LenProperties DEF List
<1>1. InsertAt(s, 1, e) = <<e>> \o s
  <2>1. SubSeq(s, 1, 1 - 1) = <<>>
    BY SubSeqEmpty
  <2>2. SubSeq(s, 1, Len(s)) = s
    BY <1>0, SubSeqFull
  <2>3. <<>> \o <<e>> = <<e>>
    BY <1>0, ConcatEmptySeq
  <2> QED
    BY <2>1, <2>2, <2>3 DEF InsertAt
<1>2. 1 \in 1 .. Len(s) + 1
  BY <1>0
<1>3. InsertAt(s, 1, e) \in List(S) /\ ToSet(InsertAt(s, 1, e)) = ToSet(s) \cup {e}
  BY <1>2, InsertAtList
<1> QED
  BY <1>1, <1>3

LEMMA PrependLen ==
  ASSUME NEW S, NEW s \in List(S), NEW e \in S
  PROVE  Len(<<e>> \o s) = Len(s) + 1
<1>1. s \in Seq(S) /\ Len(s) \in Nat /\ <<e>> \in Seq(S) /\ Len(<<e>>) = 1
  BY LenProperties DEF List
<1> QED
  BY <1>1, ConcatProperties

\* The two parts of a concatenation.
LEMMA ConcatParts ==
  ASSUME NEW S, NEW a \in Seq(S), NEW b \in Seq(S), NEW c, c = a \o b,
         NEW m, m = Len(a), NEW n, n = Len(b)
  PROVE  /\ m \in Nat /\ n \in Nat /\ DOMAIN a = 1 .. m /\ DOMAIN b = 1 .. n
         /\ c \in Seq(S) /\ Len(c) = m + n /\ DOMAIN c = 1 .. m + n
         /\ \A i \in 1 .. m : i \in 1 .. m + n /\ c[i] = a[i]
         /\ \A i \in 1 .. n : i + m \in 1 .. m + n /\ c[i + m] = b[i]
         /\ \A i \in 1 .. m + n : i \in 1 .. m \/ (i - m \in 1 .. n /\ c[i] = b[i - m])
<1>1. m \in Nat /\ n \in Nat /\ DOMAIN a = 1 .. m /\ DOMAIN b = 1 .. n
  BY LenProperties
<1>2. /\ c \in Seq(S) /\ Len(c) = m + n
      /\ \A i \in 1 .. m + n : c[i] = IF i <= m THEN a[i] ELSE b[i - m]
  BY ConcatProperties
<1>3. DOMAIN c = 1 .. m + n
  BY <1>2, LenProperties
<1>4. \A i \in 1 .. m : i \in 1 .. m + n /\ c[i] = a[i]
  BY <1>1, <1>2
<1>5. \A i \in 1 .. n : i + m \in 1 .. m + n /\ c[i + m] = b[i]
  <2> SUFFICES ASSUME NEW i \in 1 .. n PROVE i + m \in 1 .. m + n /\ c[i + m] = b[i]
    OBVIOUS
  <2>1. i + m \in 1 .. m + n /\ ~(i + m <= m) /\ (i + m) - m = i
    BY <1>1
  <2> QED
    BY <1>2, <2>1
<1>6. \A i \in 1 .. m + n : i \in 1 .. m \/ (i - m \in 1 .. n /\ c[i] = b[i - m])
  <2> SUFFICES ASSUME NEW i \in 1 .. m + n, i \notin 1 .. m
               PROVE  i - m \in 1 .. n /\ c[i] = b[i - m]
    OBVIOUS
  <2>1. i - m \in 1 .. n /\ ~(i <= m)
    BY <1>1
  <2> QED
    BY <1>2, <2>1
<1> QED
  BY <1>1, <1>2, <1>3, <1>4, <1>5, <1>6

LEMMA ReverseProperties ==
  ASSUME NEW S, NEW a \in Seq(S), NEW m, m = Len(a)
  PROVE  /\ m \in Nat /\ Reverse(a) \in Seq(S) /\ Len(Reverse(a)) = m
         /\ \A i \in 1 .. m : Reverse(a)[i] = a[m - i + 1] /\ Reverse(a)[i] \in S
<1>1. m \in Nat /\ \A i \in 1 .. m : a[i] \in S
  BY LenProperties, ElementOfSeq
<1>2. \A i \in 1 .. m : m - i + 1 \in 1 .. m
  BY <1>1
<1>3. Reverse(a) = [i \in 1 .. m |-> a[m - i + 1]]
  BY DEF Reverse
<1>4. \A i \in 1 .. m : a[m - i + 1] \in S
  BY <1>1, <1>2
<1>5. Reverse(a) \in Seq(S) /\ Len(Reverse(a)) = m
  BY <1>1, <1>3, <1>4
<1> QED
  BY <1>1, <1>3, <1>4, <1>5

\* What is left of a without its first n elements is a suffix of it.
LEMMA SuffixOf ==
  ASSUME NEW S, NEW a \in Seq(S), NEW c \in Seq(S), NEW n \in Nat
  PROVE  n <= Len(a) /\ Len(c) = Len(a) - n /\ (\A i \in 1 .. Len(a) - n : c[i] = a[i + n])
           => IsSuffix(c, a)
<1>1. PICK m, k, x, y : m = Len(a) /\ k = Len(c) /\ x = Reverse(a) /\ y = Reverse(c)
  OBVIOUS
<1>2. /\ m \in Nat /\ x \in Seq(S) /\ Len(x) = m
      /\ \A i \in 1 .. m : x[i] = a[m - i + 1] /\ x[i] \in S
  BY <1>1, ReverseProperties
<1>3. /\ k \in Nat /\ y \in Seq(S) /\ Len(y) = k
      /\ \A i \in 1 .. k : y[i] = c[k - i + 1] /\ y[i] \in S
  BY <1>1, ReverseProperties
<1> SUFFICES ASSUME n <= Len(a), Len(c) = Len(a) - n, \A i \in 1 .. Len(a) - n : c[i] = a[i + n]
             PROVE  IsSuffix(c, a)
  OBVIOUS
<1>4. k = m - n /\ k <= m /\ \A i \in 1 .. k : c[i] = a[i + n]
  BY <1>1, <1>2
<1>5. \A i \in 1 .. k : i \in 1 .. m /\ x[i] = y[i]
  <2> SUFFICES ASSUME NEW i \in 1 .. k PROVE i \in 1 .. m /\ x[i] = y[i]
    OBVIOUS
  <2>1. i \in 1 .. m /\ k - i + 1 \in 1 .. k /\ (k - i + 1) + n = m - i + 1
    <3>1. i \in Int /\ 1 <= i /\ i <= k /\ k \in Int /\ m \in Int /\ n \in Nat /\ k = m - n
      BY <1>2, <1>3, <1>4
    <3> QED
      BY <3>1
  <2>2. y[i] = c[k - i + 1]
    BY <1>3
  <2>3. c[k - i + 1] = a[(k - i + 1) + n]
    BY <1>4, <2>1
  <2>4. x[i] = a[m - i + 1]
    BY <1>2, <2>1
  <2> QED
    BY <2>1, <2>2, <2>3, <2>4
<1>6. /\ SubSeq(x, 1, k) \in Seq(S) /\ Len(SubSeq(x, 1, k)) = k
      /\ \A i \in 1 .. k : SubSeq(x, 1, k)[i] = x[i]
  <2>1. \A i \in 1 .. k : x[i] \in S
    BY <1>2, <1>5
  <2>2. /\ SubSeq(x, 1, k) \in Seq(S) /\ Len(SubSeq(x, 1, k)) = (IF 1 <= k THEN k - 1 + 1 ELSE 0)
        /\ \A i \in 1 .. k - 1 + 1 : SubSeq(x, 1, k)[i] = x[1 + i - 1]
    BY <1>3, <2>1, SubSeqProperties
  <2>3. k - 1 + 1 = k /\ \A i \in 1 .. k : 1 + i - 1 = i
    BY <1>3
  <2> QED
    BY <1>3, <2>2, <2>3
<1>7. /\ SubSeq(y, 1, k) \in Seq(S) /\ Len(SubSeq(y, 1, k)) = k
      /\ \A i \in 1 .. k : SubSeq(y, 1, k)[i] = y[i]
  <2>1. \A i \in 1 .. k : y[i] \in S
    BY <1>3
  <2>2. /\ SubSeq(y, 1, k) \in Seq(S) /\ Len(SubSeq(y, 1, k)) = (IF 1 <= k THEN k - 1 + 1 ELSE 0)
        /\ \A i \in 1 .. k - 1 + 1 : SubSeq(y, 1, k)[i] = y[1 + i - 1]
    BY <1>3, <2>1, SubSeqProperties
  <2>3. k - 1 + 1 = k /\ \A i \in 1 .. k : 1 + i - 1 = i
    BY <1>3
  <2> QED
    BY <1>3, <2>2, <2>3
<1>8. SubSeq(y, 1, k) = SubSeq(x, 1, k)
  <2>1. PICK s, t : s = SubSeq(y, 1, k) /\ t = SubSeq(x, 1, k)
    OBVIOUS
  <2>2. s \in Seq(S) /\ t \in Seq(S) /\ Len(s) = Len(t) /\ \A i \in 1 .. Len(s) : s[i] = t[i]
    BY <1>5, <1>6, <1>7, <2>1
  <2>3. s = t
    BY <2>2, SeqEqual
  <2> QED
    BY <2>1, <2>3
<1> QED
  BY <1>1, <1>2, <1>3, <1>4, <1>8 DEF IsSuffix, IsPrefix

\* Whatever comes before another element in s is related to it by R.
InOrder(s, R) == \A i, j \in DOMAIN s : i < j => <<s[i], s[j]>> \in R

LEMMA EmptyInOrder ==
  ASSUME NEW R
  PROVE  InOrder(<<>>, R)
BY EmptySeq DEF InOrder

LEMMA RemoveInOrder ==
  ASSUME NEW S, NEW s \in List(S), NEW R, InOrder(s, R), NEW e
  PROVE  InOrder(RemoveFirst(s, e), R)
<1>1. CASE e \notin ToSet(s)
  BY <1>1, RemoveFirstList
<1>2. CASE e \in ToSet(s)
  <2>1. PICK i \in 1 .. Len(s) : RemoveFirst(s, e) = RemoveAt(s, i)
    BY <1>2, RemoveFirstAt
  <2>2. PICK t : t = RemoveAt(s, i)
    OBVIOUS
  <2>3. /\ t \in List(S) /\ Len(t) = Len(s) - 1
        /\ \A j \in 1 .. Len(s) - 1 : t[j] = IF j < i THEN s[j] ELSE s[j + 1]
    BY <2>2, RemoveAtList
  <2>4. /\ Len(s) \in Nat /\ i \in Int /\ DOMAIN s = 1 .. Len(s) /\ DOMAIN t = 1 .. Len(s) - 1
    BY <2>3, LenProperties DEF List
  <2>5. ASSUME NEW j \in 1 .. Len(s) - 1, NEW k \in 1 .. Len(s) - 1, j < k
        PROVE  <<t[j], t[k]>> \in R
    <3> DEFINE at(n) == IF n < i THEN n ELSE n + 1
    <3>1. j \in Int /\ k \in Int
      OBVIOUS
    <3>2. at(j) \in 1 .. Len(s) /\ at(k) \in 1 .. Len(s) /\ at(j) < at(k)
      BY <2>4, <2>5, <3>1
    <3>3. t[j] = s[at(j)] /\ t[k] = s[at(k)]
      BY <2>3
    <3> HIDE DEF at
    <3> QED
      BY <2>4, <3>2, <3>3 DEF InOrder
  <2> QED
    BY <2>1, <2>2, <2>4, <2>5 DEF InOrder
<1> QED
  BY <1>1, <1>2

LEMMA AppendInOrder ==
  ASSUME NEW S, NEW s \in List(S), NEW R, InOrder(s, R), NEW e \in S,
         \A x \in ToSet(s) : <<x, e>> \in R
  PROVE  InOrder(Append(s, e), R)
<1>0. s \in Seq(S) /\ Len(s) \in Nat /\ DOMAIN s = 1 .. Len(s)
  BY LenProperties DEF List
<1>1. PICK t : t = Append(s, e)
  OBVIOUS
<1>2. /\ DOMAIN t = 1 .. Len(s) + 1
      /\ \A j \in 1 .. Len(s) : t[j] = s[j]
      /\ t[Len(s) + 1] = e
  BY <1>0, <1>1, AppendProperties, LenProperties
<1>3. ASSUME NEW j \in 1 .. Len(s) + 1, NEW k \in 1 .. Len(s) + 1, j < k
      PROVE  <<t[j], t[k]>> \in R
  <2>1. j \in 1 .. Len(s) /\ t[j] = s[j]
    BY <1>0, <1>2, <1>3
  <2>2. CASE k \in 1 .. Len(s)
    BY <1>0, <1>2, <1>3, <2>1, <2>2 DEF InOrder
  <2>3. CASE k = Len(s) + 1
    <3>1. t[k] = e /\ s[j] \in ToSet(s)
      BY <1>0, <1>2, <2>1, <2>3 DEF ToSet
    <3> QED
      BY <2>1, <3>1
  <2> QED
    BY <1>0, <2>2, <2>3
<1> QED
  BY <1>1, <1>2, <1>3 DEF InOrder

LEMMA PrependInOrder ==
  ASSUME NEW S, NEW s \in List(S), NEW R, InOrder(s, R), NEW e \in S,
         \A x \in ToSet(s) : <<e, x>> \in R
  PROVE  InOrder(<<e>> \o s, R)
<1>0. s \in Seq(S) /\ <<e>> \in Seq(S)
  BY DEF List
<1>1. PICK t, n, m : t = <<e>> \o s /\ n = Len(s) /\ m = Len(<<e>>)
  OBVIOUS
<1>2. /\ m = 1 /\ n \in Nat /\ DOMAIN s = 1 .. n /\ DOMAIN t = 1 .. m + n
      /\ \A i \in 1 .. m + n : (i \in 1 .. m /\ t[i] = <<e>>[i]) \/ (i - m \in 1 .. n /\ t[i] = s[i - m])
  <2>1. m = 1
    BY <1>1
  <2>2. /\ n \in Nat /\ DOMAIN s = 1 .. n /\ DOMAIN t = 1 .. m + n
        /\ \A i \in 1 .. m : t[i] = <<e>>[i]
        /\ \A i \in 1 .. m + n : i \in 1 .. m \/ (i - m \in 1 .. n /\ t[i] = s[i - m])
    BY <1>0, <1>1, ConcatParts
  <2> QED
    BY <2>1, <2>2
<1>3. ASSUME NEW j \in 1 .. m + n, NEW k \in 1 .. m + n, j < k
      PROVE  <<t[j], t[k]>> \in R
  <2>1. k - m \in 1 .. n /\ t[k] = s[k - m] /\ s[k - m] \in ToSet(s)
    <3>1. k - m \in 1 .. n /\ t[k] = s[k - m]
      BY <1>2, <1>3
    <3> QED
      BY <1>2, <3>1 DEF ToSet
  <2>2. CASE j \in 1 .. m
    <3>1. t[j] = e
      BY <1>2, <2>2
    <3> QED
      BY <2>1, <3>1
  <2>3. CASE j - m \in 1 .. n /\ t[j] = s[j - m]
    <3>1. j - m < k - m
      BY <1>2, <1>3
    <3> QED
      BY <1>2, <2>1, <2>3, <3>1 DEF InOrder
  <2> QED
    BY <1>2, <2>2, <2>3
<1> QED
  BY <1>1, <1>2, <1>3 DEF InOrder

\* An order of the elements of s is enough.
LEMMA OrderWithin ==
  ASSUME NEW S, NEW s \in List(S), NEW R, InOrder(s, R), NEW Q,
         \A x, y \in ToSet(s) : <<x, y>> \in R => <<x, y>> \in Q
  PROVE  InOrder(s, Q)
<1>1. \A i \in DOMAIN s : s[i] \in ToSet(s)
  BY DEF ToSet
<1> QED
  BY <1>1 DEF InOrder

\* The first element comes before the others.
LEMMA HeadInOrder ==
  ASSUME NEW S, NEW s \in List(S), NEW R, InOrder(s, R), s # <<>>,
         NEW x \in ToSet(s), x # Head(s)
  PROVE  <<Head(s), x>> \in R
<1>1. /\ Len(s) \in Nat \ {0} /\ DOMAIN s = 1 .. Len(s) /\ Head(s) = s[1]
  BY LenProperties, EmptySeq DEF List
<1>2. PICK i \in DOMAIN s : s[i] = x
  BY DEF ToSet
<1>3. 1 \in DOMAIN s /\ 1 < i
  BY <1>1, <1>2
<1> QED
  BY <1>1, <1>2, <1>3 DEF InOrder
=============================================================================
