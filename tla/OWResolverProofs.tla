-------------------------- MODULE OWResolverProofs --------------------------
(***************************************************************************)
(* What holds of the resolver's cache, flights and keys, for any calls,    *)
(* users, namespaces and sizes.  The first part is about Keep, the filter  *)
(* the cache's list goes through, by induction on the list.                *)
(***************************************************************************)
EXTENDS OWResolver, SequenceTheorems, WellFoundedInduction, TLAPS

\* The order of the natural numbers, as a relation.
NatLess == {p \in Nat \X Nat : p[1] < p[2]}

\* The natural numbers are well founded.
LEMMA NatIsWellFounded == IsWellFoundedOn(NatLess, Nat)
BY NatLessThanWellFounded DEF OpToRel, NatLess

\* Every set of natural numbers that is not empty has a least member.
LEMMA LeastNumber ==
    ASSUME NEW T, T \subseteq Nat, T # {}
    PROVE  \E n \in T : \A m \in T : n <= m
<1>1. PICK n \in T : \A m \in T : <<m, n>> \notin NatLess
  BY WFMin, NatIsWellFounded
<1>2. ASSUME NEW m \in T, m < n
      PROVE  FALSE
  <2>1. <<m, n>> \in Nat \X Nat /\ <<m, n>>[1] = m /\ <<m, n>>[2] = n
    BY <1>2
  <2> QED BY <1>1, <1>2, <2>1 DEF NatLess
<1> QED BY <1>2

\* Induction, over a set in place of a predicate: the form the provers can
\* instantiate.
LEMMA Induction ==
    ASSUME NEW T, 0 \in T, \A n \in Nat : n \in T => n + 1 \in T
    PROVE  Nat \subseteq T
<1> SUFFICES ASSUME Nat \ T # {} PROVE FALSE
  OBVIOUS
<1>1. PICK n \in Nat \ T : \A m \in Nat \ T : n <= m
  BY LeastNumber
<1>2. n - 1 \in Nat /\ n - 1 \in T
  BY <1>1
<1> QED BY <1>1, <1>2

\* A set of sequences that has the empty one and is closed under Append has all.
LEMMA SeqInduction ==
    ASSUME NEW A, NEW T, <<>> \in T,
           \A s \in Seq(A), x \in A : s \in T => Append(s, x) \in T
    PROVE  Seq(A) \subseteq T
<1> DEFINE U == {n \in Nat : \A s \in Seq(A) : Len(s) = n => s \in T}
<1>1. 0 \in U
  BY EmptySeq
<1>2. ASSUME NEW n \in Nat, n \in U
      PROVE  n + 1 \in U
  <2>1. ASSUME NEW s \in Seq(A), Len(s) = n + 1
        PROVE  s \in T
    <3>1. s # <<>>
      BY <2>1, EmptySeq
    <3>2. PICK t \in Seq(A), x \in A : s = Append(t, x)
      BY <3>1, SequenceEmptyOrAppend
    <3>3. Len(t) = n
      BY <2>1, <3>2, AppendProperties, LenProperties
    <3> QED BY <1>2, <3>2, <3>3
  <2> QED BY <2>1
<1> HIDE DEF U
<1>3. Nat \subseteq U
  BY <1>1, <1>2, Induction
<1>4. ASSUME NEW s \in Seq(A)
      PROVE  s \in T
  <2>1. Len(s) \in U
    BY <1>3, LenProperties
  <2> QED BY <2>1 DEF U
<1> QED BY <1>4

\* kept[n] is what Keep keeps of the first n members of s.
Keeps(kept, s, S, m) ==
    kept = [n \in 0 .. m |->
              IF n = 0 THEN <<>>
              ELSE IF s[n] \in S THEN Append(kept[n-1], s[n]) ELSE kept[n-1]]

\* There is such a function, so the one Keep defines is one.
LEMMA KeepsExists ==
    ASSUME NEW s, NEW S, NEW m \in Nat
    PROVE  \E kept : Keeps(kept, s, S, m)
<1> DEFINE T == {n \in Nat : \E kept : Keeps(kept, s, S, n)}
<1>1. 0 \in T
  <2>1. Keeps([n \in 0 .. 0 |-> <<>>], s, S, 0)
    BY DEF Keeps
  <2> QED BY <2>1
<1>2. ASSUME NEW n \in Nat, n \in T
      PROVE  n + 1 \in T
  <2>1. PICK g : Keeps(g, s, S, n)
    BY <1>2
  <2> DEFINE last == IF s[n + 1] \in S THEN Append(g[n], s[n + 1]) ELSE g[n]
             h == [i \in 0 .. n + 1 |-> IF i = n + 1 THEN last ELSE g[i]]
  <2>2. ASSUME NEW i \in 0 .. n + 1
        PROVE  h[i] = IF i = 0 THEN <<>>
                      ELSE IF s[i] \in S THEN Append(h[i-1], s[i]) ELSE h[i-1]
    <3>1. CASE i = n + 1
      BY <3>1
    <3>2. CASE i # n + 1
      <4>1. i \in 0 .. n
        BY <3>2
      <4>2. h[i] = g[i] /\ (i # 0 => h[i - 1] = g[i - 1])
        BY <4>1
      <4>3. g[i] = IF i = 0 THEN <<>>
                   ELSE IF s[i] \in S THEN Append(g[i-1], s[i]) ELSE g[i-1]
        BY <2>1, <4>1 DEF Keeps
      <4> QED BY <4>2, <4>3
    <3> QED BY <3>1, <3>2
  <2>3. Keeps(h, s, S, n + 1)
    BY <2>2 DEF Keeps
  <2> QED BY <2>3
<1> HIDE DEF T
<1>3. Nat \subseteq T
  BY <1>1, <1>2, Induction
<1> QED BY <1>3 DEF T

\* Keep returns the last value of such a function.
LEMMA KeepIsKept ==
    ASSUME NEW s, NEW S, Len(s) \in Nat
    PROVE  \E kept : Keeps(kept, s, S, Len(s)) /\ Keep(s, S) = kept[Len(s)]
<1> DEFINE kept == CHOOSE g : Keeps(g, s, S, Len(s))
<1>1. Keeps(kept, s, S, Len(s))
  BY KeepsExists
<1>2. Keep(s, S) = kept[Len(s)]
  BY DEF Keep, Keeps
<1> QED BY <1>1, <1>2

\* What is kept of a common prefix is the same.
LEMMA KeepsAgree ==
    ASSUME NEW s, NEW t, NEW S, NEW m \in Nat, NEW n \in Nat, m <= n,
           NEW g, NEW h, Keeps(g, s, S, m), Keeps(h, t, S, n),
           \A i \in 1 .. m : s[i] = t[i]
    PROVE  g[m] = h[m]
<1> DEFINE T == {i \in Nat : i <= m => g[i] = h[i]}
<1>1. 0 \in T
  BY DEF Keeps
<1>2. ASSUME NEW i \in Nat, i \in T
      PROVE  i + 1 \in T
  <2> SUFFICES ASSUME i + 1 <= m
               PROVE  g[i + 1] = h[i + 1]
    OBVIOUS
  <2>1. g[i] = h[i] /\ s[i + 1] = t[i + 1]
    BY <1>2
  <2>2. i + 1 \in 0 .. m /\ i + 1 \in 0 .. n /\ i + 1 # 0 /\ (i + 1) - 1 = i
    OBVIOUS
  <2>3. g[i + 1] = IF s[i + 1] \in S THEN Append(g[i], s[i + 1]) ELSE g[i]
    BY <2>2 DEF Keeps
  <2>4. h[i + 1] = IF t[i + 1] \in S THEN Append(h[i], t[i + 1]) ELSE h[i]
    BY <2>2 DEF Keeps
  <2> QED BY <2>1, <2>3, <2>4
<1> HIDE DEF T
<1>3. Nat \subseteq T
  BY <1>1, <1>2, Induction
<1> QED BY <1>3 DEF T

\* Nothing is kept of nothing.
LEMMA KeepOfEmpty == \A S : Keep(<<>>, S) = <<>>
<1> SUFFICES ASSUME NEW S PROVE Keep(<<>>, S) = <<>>
  OBVIOUS
<1>1. Len(<<>>) = 0
  BY EmptySeq
<1>2. PICK kept : Keeps(kept, <<>>, S, 0) /\ Keep(<<>>, S) = kept[0]
  BY <1>1, KeepIsKept
<1> QED BY <1>2 DEF Keeps

\* One member more is kept when it is in S.
LEMMA KeepOfAppend ==
    ASSUME NEW A, NEW s \in Seq(A), NEW x \in A, NEW S
    PROVE  Keep(Append(s, x), S) = IF x \in S THEN Append(Keep(s, S), x) ELSE Keep(s, S)
<1> DEFINE t == Append(s, x)
           n == Len(s)
<1>1. /\ n \in Nat /\ Len(t) = n + 1 /\ t[n + 1] = x
      /\ \A i \in 1 .. n : s[i] = t[i]
  BY LenProperties, AppendProperties
<1> HIDE DEF t, n
<1>2. PICK g : Keeps(g, s, S, n) /\ Keep(s, S) = g[n]
  BY <1>1, KeepIsKept DEF n
<1>3. PICK h : Keeps(h, t, S, n + 1) /\ Keep(t, S) = h[n + 1]
  BY <1>1, KeepIsKept
<1>4. g[n] = h[n]
  BY <1>1, <1>2, <1>3, KeepsAgree
<1>5. h[n + 1] = IF t[n + 1] \in S THEN Append(h[n], t[n + 1]) ELSE h[n]
  <2>1. n + 1 \in 0 .. n + 1 /\ n + 1 # 0 /\ (n + 1) - 1 = n
    BY <1>1
  <2> QED BY <1>3, <2>1 DEF Keeps
<1> QED BY <1>1, <1>2, <1>3, <1>4, <1>5 DEF t

\* No member of s is there twice.
Distinct(s) == \A i, j \in 1 .. Len(s) : s[i] = s[j] => i = j

\* The members of a sequence and of one with a member more.
LEMMA MembersOfAppend ==
    ASSUME NEW A, NEW s \in Seq(A), NEW x \in A
    PROVE  ToSet(Append(s, x)) = ToSet(s) \cup {x}
<1>1. /\ Len(s) \in Nat /\ DOMAIN s = 1 .. Len(s)
      /\ Append(s, x) \in Seq(A) /\ Len(Append(s, x)) = Len(s) + 1
      /\ DOMAIN Append(s, x) = 1 .. Len(s) + 1
      /\ \A i \in 1 .. Len(s) : Append(s, x)[i] = s[i]
      /\ Append(s, x)[Len(s) + 1] = x
  BY AppendProperties, LenProperties
<1>2. ASSUME NEW y \in ToSet(Append(s, x)) PROVE y \in ToSet(s) \cup {x}
  BY <1>1, <1>2 DEF ToSet
<1>3. ASSUME NEW y \in ToSet(s) \cup {x} PROVE y \in ToSet(Append(s, x))
  <2>1. CASE y = x
    BY <1>1, <2>1 DEF ToSet
  <2>2. CASE y \in ToSet(s)
    <3>1. PICK i \in 1 .. Len(s) : y = s[i]
      BY <1>1, <2>2 DEF ToSet
    <3>2. i \in 1 .. Len(s) + 1 /\ y = Append(s, x)[i]
      BY <1>1, <3>1
    <3> QED BY <1>1, <3>2 DEF ToSet
  <2> QED BY <1>3, <2>1, <2>2
<1> QED BY <1>2, <1>3

\* The members of a sequence, by their positions.
LEMMA MembersOfSeq ==
    ASSUME NEW A, NEW s \in Seq(A)
    PROVE  /\ ToSet(s) \subseteq A
           /\ \A i \in 1 .. Len(s) : s[i] \in ToSet(s)
           /\ \A x \in ToSet(s) : \E i \in 1 .. Len(s) : x = s[i]
BY LenProperties, ElementOfSeq DEF ToSet

\* A new member keeps a sequence distinct, and only a new one.
LEMMA DistinctAppend ==
    ASSUME NEW A, NEW s \in Seq(A), NEW x \in A
    PROVE  Distinct(Append(s, x)) <=> (Distinct(s) /\ x \notin ToSet(s))
<1>1. /\ Len(s) \in Nat /\ Len(Append(s, x)) = Len(s) + 1
      /\ \A i \in 1 .. Len(s) : Append(s, x)[i] = s[i]
      /\ Append(s, x)[Len(s) + 1] = x
  BY AppendProperties, LenProperties
<1>2. /\ \A i \in 1 .. Len(s) : s[i] \in ToSet(s)
      /\ \A y \in ToSet(s) : \E i \in 1 .. Len(s) : y = s[i]
  BY MembersOfSeq
<1> QED BY <1>1, <1>2 DEF Distinct

\* What Keep keeps: the members in S, each as often as before; all of them when
\* nothing is dropped.
LEMMA KeepType ==
    ASSUME NEW A, NEW s \in Seq(A), NEW S
    PROVE  /\ Keep(s, S) \in Seq(A) /\ Len(Keep(s, S)) <= Len(s)
           /\ ToSet(Keep(s, S)) = ToSet(s) \cap S
           /\ Distinct(s) => Distinct(Keep(s, S))
           /\ Len(Keep(s, S)) = Len(s) => Keep(s, S) = s
           /\ ToSet(s) \subseteq S => Keep(s, S) = s
<1> DEFINE Good(t) ==
           /\ Keep(t, S) \in Seq(A) /\ Len(Keep(t, S)) <= Len(t)
           /\ ToSet(Keep(t, S)) = ToSet(t) \cap S
           /\ Distinct(t) => Distinct(Keep(t, S))
           /\ Len(Keep(t, S)) = Len(t) => Keep(t, S) = t
           /\ ToSet(t) \subseteq S => Keep(t, S) = t
           T == {t \in Seq(A) : Good(t)}
<1>1. <<>> \in T
  <2>1. <<>> \in Seq(A) /\ Len(<<>>) = 0 /\ ToSet(<<>>) = {}
    BY EmptySeq, LenProperties DEF ToSet
  <2>2. Keep(<<>>, S) = <<>>
    BY KeepOfEmpty
  <2>3. Distinct(<<>>)
    BY <2>1 DEF Distinct
  <2>4. Keep(<<>>, S) \in Seq(A) /\ Len(Keep(<<>>, S)) <= Len(<<>>)
    <3>1. 0 <= 0
      OBVIOUS
    <3> QED BY <2>1, <2>2, <3>1, Zenon
  <2>5. ToSet(Keep(<<>>, S)) = ToSet(<<>>) \cap S
    BY <2>1, <2>2
  <2>6. Good(<<>>)
    BY <2>2, <2>3, <2>4, <2>5, Zenon
  <2> HIDE DEF Good
  <2> QED BY <2>1, <2>6
<1>2. ASSUME NEW t \in Seq(A), NEW x \in A, t \in T
      PROVE  Append(t, x) \in T
  <2> DEFINE u == Append(t, x)
             k == Keep(t, S)
  <2>1. u \in Seq(A) /\ k \in Seq(A) /\ Len(u) = Len(t) + 1 /\ Len(t) \in Nat /\ Len(k) \in Nat
        /\ Len(k) <= Len(t)
    BY <1>2, AppendProperties, LenProperties
  <2>2. ToSet(u) = ToSet(t) \cup {x} /\ (Distinct(u) <=> (Distinct(t) /\ x \notin ToSet(t)))
    BY MembersOfAppend, DistinctAppend
  <2>3. CASE x \in S
    <3>1. Keep(u, S) = Append(k, x)
      BY <2>3, KeepOfAppend
    <3>2. Append(k, x) \in Seq(A) /\ Len(Append(k, x)) = Len(k) + 1
      BY <2>1, AppendProperties
    <3>3. ToSet(Append(k, x)) = ToSet(k) \cup {x}
          /\ (Distinct(Append(k, x)) <=> (Distinct(k) /\ x \notin ToSet(k)))
      BY <2>1, MembersOfAppend, DistinctAppend
    <3> HIDE DEF u, k
    <3>4. Good(u)
      BY <1>2, <2>1, <2>2, <2>3, <3>1, <3>2, <3>3 DEF u, k
    <3> QED BY <2>1, <3>4 DEF u
  <2>4. CASE x \notin S
    <3>1. Keep(u, S) = k
      BY <2>4, KeepOfAppend
    <3> HIDE DEF u, k
    <3>2. Good(u)
      BY <1>2, <2>1, <2>2, <2>4, <3>1 DEF u, k
    <3> QED BY <2>1, <3>2 DEF u
  <2> QED BY <2>3, <2>4
<1> HIDE DEF T
<1>3. Seq(A) \subseteq T
  BY <1>1, <1>2, SeqInduction
<1> QED BY <1>3 DEF T

\* Keep looks at no more of S than the members of s.
LEMMA KeepSame ==
    ASSUME NEW A, NEW s \in Seq(A), NEW S, NEW R, ToSet(s) \cap S = ToSet(s) \cap R
    PROVE  Keep(s, S) = Keep(s, R)
<1> DEFINE T == {t \in Seq(A) : ToSet(t) \cap S = ToSet(t) \cap R => Keep(t, S) = Keep(t, R)}
<1>1. <<>> \in T
  BY KeepOfEmpty, EmptySeq
<1>2. ASSUME NEW t \in Seq(A), NEW x \in A, t \in T
      PROVE  Append(t, x) \in T
  <2>1. Append(t, x) \in Seq(A) /\ ToSet(Append(t, x)) = ToSet(t) \cup {x}
    BY AppendProperties, MembersOfAppend
  <2>2. Keep(Append(t, x), S) = IF x \in S THEN Append(Keep(t, S), x) ELSE Keep(t, S)
    BY KeepOfAppend
  <2>3. Keep(Append(t, x), R) = IF x \in R THEN Append(Keep(t, R), x) ELSE Keep(t, R)
    BY KeepOfAppend
  <2>4. ASSUME (ToSet(t) \cup {x}) \cap S = (ToSet(t) \cup {x}) \cap R
        PROVE  (x \in S <=> x \in R) /\ ToSet(t) \cap S = ToSet(t) \cap R
    <3>1. x \in S <=> x \in R
      BY <2>4
    <3>2. \A y \in ToSet(t) : y \in S <=> y \in R
      BY <2>4
    <3> QED BY <3>1, <3>2
  <2> QED BY <1>2, <2>1, <2>2, <2>3, <2>4
<1> HIDE DEF T
<1>3. Seq(A) \subseteq T
  BY <1>1, <1>2, SeqInduction
<1> QED BY <1>3 DEF T

\* Two filters in a row are one.
LEMMA KeepOfKeep ==
    ASSUME NEW A, NEW s \in Seq(A), NEW S, NEW R
    PROVE  Keep(Keep(s, S), R) = Keep(s, S \cap R)
<1> DEFINE T == {t \in Seq(A) : Keep(Keep(t, S), R) = Keep(t, S \cap R)}
<1>1. <<>> \in T
  BY KeepOfEmpty, EmptySeq
<1>2. ASSUME NEW t \in Seq(A), NEW x \in A, t \in T
      PROVE  Append(t, x) \in T
  <2>1. Append(t, x) \in Seq(A) /\ Keep(t, S) \in Seq(A)
    BY AppendProperties, KeepType
  <2>2. Keep(Append(t, x), S) = IF x \in S THEN Append(Keep(t, S), x) ELSE Keep(t, S)
    BY KeepOfAppend
  <2>3. Keep(Append(t, x), S \cap R) =
           IF x \in S \cap R THEN Append(Keep(t, S \cap R), x) ELSE Keep(t, S \cap R)
    BY KeepOfAppend
  <2>4. Keep(Append(Keep(t, S), x), R) =
           IF x \in R THEN Append(Keep(Keep(t, S), R), x) ELSE Keep(Keep(t, S), R)
    BY <2>1, KeepOfAppend
  <2>5. Keep(Keep(Append(t, x), S), R) = Keep(Append(t, x), S \cap R)
    <3>1. CASE x \in S
      <4>1. x \in S \cap R <=> x \in R
        BY <3>1
      <4>2. CASE x \in R
        BY <1>2, <2>2, <2>3, <2>4, <3>1, <4>1, <4>2, Zenon
      <4>3. CASE x \notin R
        BY <1>2, <2>2, <2>3, <2>4, <3>1, <4>1, <4>3, Zenon
      <4> QED BY <4>2, <4>3
    <3>2. CASE x \notin S
      <4>1. x \notin S \cap R
        BY <3>2
      <4> QED BY <1>2, <2>2, <2>3, <3>2, <4>1, Zenon
    <3> QED BY <3>1, <3>2
  <2> QED BY <2>1, <2>5
<1> HIDE DEF T
<1>3. Seq(A) \subseteq T
  BY <1>1, <1>2, SeqInduction
<1> QED BY <1>3 DEF T

\* A member put in front and one put behind do not meet.
LEMMA AppendToCons ==
    ASSUME NEW A, NEW s \in Seq(A), NEW x \in A, NEW y \in A
    PROVE  <<y>> \o Append(s, x) = Append(<<y>> \o s, x)
<1>1. <<y>> \in Seq(A) /\ <<x>> \in Seq(A)
  OBVIOUS
<1>2. Append(s, x) = s \o <<x>> /\ <<y>> \o s \in Seq(A)
  BY <1>1, AppendIsConcat, ConcatProperties
<1>3. Append(<<y>> \o s, x) = (<<y>> \o s) \o <<x>>
  BY <1>2, AppendIsConcat
<1> QED BY <1>1, <1>2, <1>3, ConcatAssociative

\* The front member is kept when it is in S.
LEMMA KeepOfCons ==
    ASSUME NEW A, NEW s \in Seq(A), NEW y \in A, NEW S
    PROVE  Keep(<<y>> \o s, S) = IF y \in S THEN <<y>> \o Keep(s, S) ELSE Keep(s, S)
<1> DEFINE T == {t \in Seq(A) : Keep(<<y>> \o t, S) =
                                  IF y \in S THEN <<y>> \o Keep(t, S) ELSE Keep(t, S)}
<1>1. <<>> \in T
  <2>1. <<>> \in Seq(A) /\ <<y>> \in Seq(A)
    BY EmptySeq
  <2>2. <<y>> \o <<>> = <<y>> /\ <<y>> = Append(<<>>, y)
    BY <2>1, ConcatEmptySeq
  <2>3. Keep(Append(<<>>, y), S) = IF y \in S THEN Append(Keep(<<>>, S), y) ELSE Keep(<<>>, S)
    BY <2>1, KeepOfAppend
  <2> QED BY <2>1, <2>2, <2>3, KeepOfEmpty
<1>2. ASSUME NEW t \in Seq(A), NEW x \in A, t \in T
      PROVE  Append(t, x) \in T
  <2>1. Append(t, x) \in Seq(A) /\ Keep(t, S) \in Seq(A) /\ <<y>> \o t \in Seq(A)
    <3>1. <<y>> \in Seq(A)
      OBVIOUS
    <3> QED BY <3>1, AppendProperties, KeepType, ConcatProperties
  <2>2. Keep(Append(t, x), S) = IF x \in S THEN Append(Keep(t, S), x) ELSE Keep(t, S)
    BY KeepOfAppend
  <2>3. <<y>> \o Append(t, x) = Append(<<y>> \o t, x)
        /\ <<y>> \o Append(Keep(t, S), x) = Append(<<y>> \o Keep(t, S), x)
    BY <2>1, AppendToCons
  <2>4. Keep(Append(<<y>> \o t, x), S) =
           IF x \in S THEN Append(Keep(<<y>> \o t, S), x) ELSE Keep(<<y>> \o t, S)
    BY <2>1, KeepOfAppend
  <2>5. Keep(<<y>> \o t, S) = IF y \in S THEN <<y>> \o Keep(t, S) ELSE Keep(t, S)
    BY <1>2
  <2>6. Keep(<<y>> \o Append(t, x), S) =
           IF y \in S THEN <<y>> \o Keep(Append(t, x), S) ELSE Keep(Append(t, x), S)
    <3>1. CASE y \in S
      BY <2>2, <2>3, <2>4, <2>5, <3>1, Zenon
    <3>2. CASE y \notin S
      BY <2>2, <2>3, <2>4, <2>5, <3>2, Zenon
    <3> QED BY <3>1, <3>2
  <2> QED BY <2>1, <2>6
<1> HIDE DEF T
<1>3. Seq(A) \subseteq T
  BY <1>1, <1>2, SeqInduction
<1> QED BY <1>3 DEF T

\* The members of a sequence with a new front.
LEMMA MembersOfCons ==
    ASSUME NEW A, NEW s \in Seq(A), NEW y \in A
    PROVE  /\ <<y>> \o s \in Seq(A) /\ Len(<<y>> \o s) = Len(s) + 1
           /\ ToSet(<<y>> \o s) = {y} \cup ToSet(s)
           /\ Distinct(<<y>> \o s) <=> (Distinct(s) /\ y \notin ToSet(s))
<1> DEFINE t == <<y>> \o s
<1>1. <<y>> \in Seq(A) /\ Len(<<y>>) = 1 /\ <<y>>[1] = y
  OBVIOUS
<1>2. /\ Len(s) \in Nat /\ t \in Seq(A) /\ Len(t) = Len(s) + 1
      /\ t[1] = y /\ \A i \in 1 .. Len(s) : t[i + 1] = s[i]
  <2>1. /\ Len(s) \in Nat /\ t \in Seq(A) /\ Len(t) = 1 + Len(s)
        /\ \A i \in 1 .. 1 + Len(s) : t[i] = IF i <= 1 THEN <<y>>[i] ELSE s[i - 1]
    BY <1>1, ConcatProperties, LenProperties
  <2> HIDE DEF t
  <2>2. ASSUME NEW i \in 1 .. Len(s) PROVE t[i + 1] = s[i]
    <3>1. i + 1 \in 1 .. 1 + Len(s) /\ ~(i + 1 <= 1) /\ (i + 1) - 1 = i
      BY <2>1
    <3> QED BY <2>1, <3>1
  <2> QED BY <1>1, <2>1, <2>2
<1> HIDE DEF t
<1>3. /\ \A i \in 1 .. Len(s) : s[i] \in ToSet(s)
      /\ \A x \in ToSet(s) : \E i \in 1 .. Len(s) : x = s[i]
      /\ \A i \in 1 .. Len(t) : t[i] \in ToSet(t)
      /\ \A x \in ToSet(t) : \E i \in 1 .. Len(t) : x = t[i]
  BY <1>2, MembersOfSeq
<1>4. \A j \in 1 .. Len(t) : j = 1 \/ (j - 1 \in 1 .. Len(s) /\ t[j] = s[j - 1])
  <2>1. ASSUME NEW j \in 1 .. Len(t), j # 1 PROVE j - 1 \in 1 .. Len(s) /\ t[j] = s[j - 1]
    <3>1. j - 1 \in 1 .. Len(s) /\ (j - 1) + 1 = j
      BY <1>2, <2>1
    <3> QED BY <1>2, <3>1
  <2> QED BY <2>1
<1>5. ToSet(t) = {y} \cup ToSet(s)
  <2>1. ASSUME NEW x \in ToSet(t) PROVE x \in {y} \cup ToSet(s)
    BY <1>2, <1>3, <1>4
  <2>2. ASSUME NEW x \in {y} \cup ToSet(s) PROVE x \in ToSet(t)
    <3>1. CASE x = y
      BY <1>2, <1>3, <3>1
    <3>2. CASE x \in ToSet(s)
      <4>1. PICK i \in 1 .. Len(s) : x = s[i]
        BY <1>3, <3>2
      <4>2. i + 1 \in 1 .. Len(t) /\ t[i + 1] = x
        BY <1>2, <4>1
      <4> QED BY <1>3, <4>2
    <3> QED BY <2>2, <3>1, <3>2
  <2> QED BY <2>1, <2>2
<1>6. ASSUME Distinct(t) PROVE Distinct(s) /\ y \notin ToSet(s)
  <2>1. ASSUME NEW i \in 1 .. Len(s), NEW j \in 1 .. Len(s), s[i] = s[j] PROVE i = j
    <3>1. i + 1 \in 1 .. Len(t) /\ j + 1 \in 1 .. Len(t) /\ t[i + 1] = t[j + 1]
      BY <1>2, <2>1
    <3>2. i + 1 = j + 1
      BY <1>6, <3>1 DEF Distinct
    <3> QED BY <3>2
  <2>2. ASSUME y \in ToSet(s) PROVE FALSE
    <3>1. PICK i \in 1 .. Len(s) : y = s[i]
      BY <1>3, <2>2
    <3>2. i + 1 \in 1 .. Len(t) /\ 1 \in 1 .. Len(t) /\ t[i + 1] = t[1]
      BY <1>2, <3>1
    <3>3. i + 1 = 1
      BY <1>6, <3>2 DEF Distinct
    <3> QED BY <3>3
  <2> QED BY <2>1, <2>2 DEF Distinct
<1>7. ASSUME Distinct(s), y \notin ToSet(s) PROVE Distinct(t)
  <2> SUFFICES ASSUME NEW i \in 1 .. Len(t), NEW j \in 1 .. Len(t), t[i] = t[j] PROVE i = j
    BY DEF Distinct
  <2>1. CASE i = 1 \/ j = 1
    BY <1>2, <1>3, <1>4, <1>7, <2>1
  <2>2. CASE i # 1 /\ j # 1
    <3>1. i - 1 \in 1 .. Len(s) /\ j - 1 \in 1 .. Len(s) /\ s[i - 1] = s[j - 1]
      BY <1>4, <2>2
    <3>2. i - 1 = j - 1
      BY <1>7, <3>1 DEF Distinct
    <3> QED BY <3>2
  <2> QED BY <2>1, <2>2
<1> QED BY <1>2, <1>5, <1>6, <1>7 DEF t

\* The first m members of a sequence.
LEMMA PrefixType ==
    ASSUME NEW A, NEW s \in Seq(A), NEW m \in 0 .. Len(s)
    PROVE  /\ SubSeq(s, 1, m) \in Seq(A) /\ Len(SubSeq(s, 1, m)) = m
           /\ \A i \in 1 .. m : SubSeq(s, 1, m)[i] = s[i]
           /\ ToSet(SubSeq(s, 1, m)) \subseteq ToSet(s)
           /\ Distinct(s) => Distinct(SubSeq(s, 1, m))
<1> DEFINE t == SubSeq(s, 1, m)
<1>1. Len(s) \in Nat /\ m \in Nat /\ m <= Len(s)
  BY LenProperties
<1>2. \A i \in 1 .. m : s[i] \in A
  BY <1>1, ElementOfSeq
<1>3. /\ t \in Seq(A) /\ Len(t) = IF 1 <= m THEN m - 1 + 1 ELSE 0
      /\ \A i \in 1 .. m - 1 + 1 : t[i] = s[1 + i - 1]
  BY <1>1, <1>2, SubSeqProperties
<1> HIDE DEF t
<1>4. t \in Seq(A) /\ Len(t) = m /\ \A i \in 1 .. m : t[i] = s[i]
  BY <1>1, <1>3
<1>5. ToSet(t) \subseteq ToSet(s)
  <2>1. ASSUME NEW x \in ToSet(t) PROVE x \in ToSet(s)
    <3>1. PICK i \in 1 .. m : x = t[i]
      BY <1>4, MembersOfSeq
    <3> QED BY <1>1, <1>4, <3>1, MembersOfSeq
  <2> QED BY <2>1
<1>6. Distinct(s) => Distinct(t)
  BY <1>1, <1>4 DEF Distinct
<1> QED BY <1>4, <1>5, <1>6 DEF t

\* The prefixes of a sequence with a member more.
LEMMA PrefixOfAppend ==
    ASSUME NEW A, NEW s \in Seq(A), NEW x \in A
    PROVE  /\ \A m \in 0 .. Len(s) : SubSeq(Append(s, x), 1, m) = SubSeq(s, 1, m)
           /\ SubSeq(Append(s, x), 1, Len(s) + 1) = Append(s, x)
<1>1. /\ Append(s, x) \in Seq(A) /\ Len(s) \in Nat /\ Len(Append(s, x)) = Len(s) + 1
      /\ \A i \in 1 .. Len(s) : Append(s, x)[i] = s[i]
  BY AppendProperties, LenProperties
<1>2. ASSUME NEW m \in 0 .. Len(s)
      PROVE  SubSeq(Append(s, x), 1, m) = SubSeq(s, 1, m)
  <2>1. m \in 0 .. Len(Append(s, x))
    BY <1>1
  <2>2. /\ SubSeq(s, 1, m) \in Seq(A) /\ Len(SubSeq(s, 1, m)) = m
        /\ \A i \in 1 .. m : SubSeq(s, 1, m)[i] = s[i]
    BY PrefixType
  <2>3. /\ SubSeq(Append(s, x), 1, m) \in Seq(A) /\ Len(SubSeq(Append(s, x), 1, m)) = m
        /\ \A i \in 1 .. m : SubSeq(Append(s, x), 1, m)[i] = Append(s, x)[i]
    BY <1>1, <2>1, PrefixType
  <2>4. \A i \in 1 .. m : SubSeq(Append(s, x), 1, m)[i] = SubSeq(s, 1, m)[i]
    BY <1>1, <2>2, <2>3
  <2> QED BY <2>2, <2>3, <2>4, SeqEqual
<1>3. SubSeq(Append(s, x), 1, Len(s) + 1) = Append(s, x)
  BY <1>1, SubSeqFull
<1> QED BY <1>2, <1>3

\* Of a distinct sequence, keeping the members of a prefix of what was kept gives
\* that prefix: which entries stay determines the order they stay in.
LEMMA KeepOfPrefix ==
    ASSUME NEW A, NEW s \in Seq(A), Distinct(s), NEW S, NEW m \in 0 .. Len(Keep(s, S))
    PROVE  Keep(s, ToSet(SubSeq(Keep(s, S), 1, m))) = SubSeq(Keep(s, S), 1, m)
<1> DEFINE Cut(t, n) == SubSeq(Keep(t, S), 1, n)
           T == {t \in Seq(A) : Distinct(t) =>
                    \A n \in 0 .. Len(Keep(t, S)) : Keep(t, ToSet(Cut(t, n))) = Cut(t, n)}
<1>1. <<>> \in T
  <2>1. <<>> \in Seq(A) /\ Len(<<>>) = 0 /\ Keep(<<>>, S) = <<>>
    BY EmptySeq, KeepOfEmpty
  <2>2. \A n \in 0 .. Len(Keep(<<>>, S)) : Cut(<<>>, n) = <<>>
    BY <2>1
  <2>3. \A R : Keep(<<>>, R) = <<>>
    BY KeepOfEmpty
  <2> QED BY <2>1, <2>2, <2>3
<1>2. ASSUME NEW t \in Seq(A), NEW x \in A, t \in T
      PROVE  Append(t, x) \in T
  <2> DEFINE u == Append(t, x)
             k == Keep(t, S)
  <2>1. /\ u \in Seq(A) /\ k \in Seq(A) /\ Len(k) \in Nat
        /\ ToSet(k) = ToSet(t) \cap S
    BY AppendProperties, KeepType, LenProperties
  <2> SUFFICES ASSUME Distinct(u), NEW n \in 0 .. Len(Keep(u, S))
               PROVE  Keep(u, ToSet(Cut(u, n))) = Cut(u, n)
    BY <2>1
  <2>2. Distinct(t) /\ x \notin ToSet(t)
    BY DistinctAppend
  <2>3. \A i \in 0 .. Len(k) : Keep(t, ToSet(Cut(t, i))) = Cut(t, i)
    BY <1>2, <2>2
  <2>4. ASSUME NEW i \in 0 .. Len(k)
        PROVE  x \notin ToSet(Cut(t, i))
    <3>1. ToSet(Cut(t, i)) \subseteq ToSet(k)
      BY <2>1, PrefixType
    <3> QED BY <2>1, <2>2, <3>1
  <2>5. ASSUME n \in 0 .. Len(k), Cut(u, n) = Cut(t, n)
        PROVE  Keep(u, ToSet(Cut(u, n))) = Cut(u, n)
    <3>1. Keep(u, ToSet(Cut(t, n))) = Keep(t, ToSet(Cut(t, n)))
      BY <2>4, <2>5, KeepOfAppend
    <3> QED BY <2>3, <2>5, <3>1
  <2>6. CASE x \notin S
    <3>1. Keep(u, S) = k
      BY <2>6, KeepOfAppend
    <3> QED BY <2>5, <3>1
  <2>7. CASE x \in S
    <3>1. Keep(u, S) = Append(k, x) /\ Len(Append(k, x)) = Len(k) + 1
      BY <2>1, <2>7, KeepOfAppend, AppendProperties
    <3>2. CASE n \in 0 .. Len(k)
      <4>1. Cut(u, n) = Cut(t, n)
        BY <2>1, <3>1, <3>2, PrefixOfAppend
      <4> QED BY <2>5, <3>2, <4>1
    <3>3. CASE n = Len(k) + 1
      <4>1. Cut(u, n) = Append(k, x)
        BY <2>1, <3>1, <3>3, PrefixOfAppend
      <4>2. ToSet(Append(k, x)) = ToSet(k) \cup {x}
        BY <2>1, MembersOfAppend
      <4>3. Keep(u, ToSet(k) \cup {x}) = Append(Keep(t, ToSet(k) \cup {x}), x)
        BY KeepOfAppend
      <4>4. Keep(t, ToSet(k) \cup {x}) = Keep(t, ToSet(k))
        <5>1. ToSet(t) \cap (ToSet(k) \cup {x}) = ToSet(t) \cap ToSet(k)
          BY <2>2
        <5> QED BY <5>1, KeepSame
      <4>5. Cut(t, Len(k)) = k /\ Len(k) \in 0 .. Len(k)
        BY <2>1, SubSeqFull
      <4>6. Keep(t, ToSet(k)) = k
        BY <2>3, <4>5
      <4> QED BY <4>1, <4>2, <4>3, <4>4, <4>6
    <3> QED BY <2>1, <3>1, <3>2, <3>3
  <2> QED BY <2>6, <2>7
<1> HIDE DEF T
<1>3. Seq(A) \subseteq T
  BY <1>1, <1>2, SeqInduction
<1> QED BY <1>3 DEF T

\* Dropping one member of a distinct sequence shortens it by one.
LEMMA KeepAllBut ==
    ASSUME NEW A, NEW s \in Seq(A), Distinct(s), NEW S, NEW y \in ToSet(s),
           ToSet(s) \cap S = ToSet(s) \ {y}
    PROVE  Len(Keep(s, S)) = Len(s) - 1
<1> DEFINE T == {t \in Seq(A) : Distinct(t) /\ y \in ToSet(t) =>
                    Len(Keep(t, A \ {y})) = Len(t) - 1}
<1>1. <<>> \in T
  BY EmptySeq, MembersOfSeq DEF ToSet
<1>2. ASSUME NEW t \in Seq(A), NEW x \in A, t \in T
      PROVE  Append(t, x) \in T
  <2>1. Append(t, x) \in Seq(A) /\ Len(Append(t, x)) = Len(t) + 1 /\ Len(t) \in Nat
    BY AppendProperties, LenProperties
  <2> SUFFICES ASSUME Distinct(Append(t, x)), y \in ToSet(Append(t, x))
               PROVE  Len(Keep(Append(t, x), A \ {y})) = Len(Append(t, x)) - 1
    BY <2>1
  <2>2. Distinct(t) /\ x \notin ToSet(t) /\ y \in ToSet(t) \cup {x}
    BY DistinctAppend, MembersOfAppend
  <2>3. CASE x = y
    <3>1. Keep(Append(t, x), A \ {y}) = Keep(t, A \ {y})
      BY <2>3, KeepOfAppend
    <3>2. ToSet(t) \subseteq A \ {y}
      BY <2>2, <2>3, MembersOfSeq
    <3>3. Keep(t, A \ {y}) = t
      BY <3>2, KeepType
    <3> QED BY <2>1, <3>1, <3>3
  <2>4. CASE x # y
    <3>1. Keep(Append(t, x), A \ {y}) = Append(Keep(t, A \ {y}), x)
      <4>1. \A R : Keep(Append(t, x), R) = IF x \in R THEN Append(Keep(t, R), x) ELSE Keep(t, R)
        BY KeepOfAppend
      <4>2. x \in A \ {y}
        BY <2>4
      <4> QED BY <4>1, <4>2, Zenon
    <3>2. Len(Keep(t, A \ {y})) = Len(t) - 1
      BY <1>2, <2>2, <2>4
    <3>3. Keep(t, A \ {y}) \in Seq(A)
      BY KeepType
    <3>4. Len(Append(Keep(t, A \ {y}), x)) = (Len(t) - 1) + 1
      BY <3>2, <3>3, AppendProperties
    <3> QED BY <2>1, <3>1, <3>4
  <2> QED BY <2>3, <2>4
<1> HIDE DEF T
<1>3. Seq(A) \subseteq T
  BY <1>1, <1>2, SeqInduction
<1>4. ToSet(s) \cap (A \ {y}) = ToSet(s) \ {y}
  BY MembersOfSeq
<1>5. Keep(s, S) = Keep(s, A \ {y})
  BY <1>4, KeepSame
<1> QED BY <1>3, <1>5 DEF T
-----------------------------------------------------------------------------
\* An access key for a user and a namespace that may use it.
KeyFor(k) == {key \in [id : Nat \ {0}, owner : {k}, expires : Nat] : k \in Authorized}

\* The types of what the proofs are about.
Types ==
    /\ now \in Nat /\ created \in Nat
    /\ group \in [CacheKeys -> Calls \cup {NoCall}]
    /\ pc \in [Calls -> Stages]
    /\ asks \in [Calls -> CacheKeys \cup {NoRequest}]
    /\ DOMAIN mine = Calls /\ DOMAIN result = Calls
    /\ \A c \in Calls : pc[c] # "idle" => asks[c] \in CacheKeys

\* A flight has one leader, and the group knows it.
LedByOne ==
    /\ \A c \in Calls : pc[c] \in InFlight => group[asks[c]] = c
    /\ \A k \in CacheKeys : group[k] # NoCall =>
          pc[group[k]] \in InFlight /\ asks[group[k]] = k
    /\ \A c \in Calls : pc[c] = "waiting" => group[asks[c]] # NoCall

\* Cached keys are their users' own, and entries end RefreshBuffer before their
\* key, but for the time the flight took.
ItemsOwned ==
    \A k \in DOMAIN items :
        /\ items[k].key \in KeyFor(k)
        /\ items[k].validUntil \in Nat
        /\ items[k].validUntil + RefreshBuffer <= items[k].key.expires + MaxFlight

\* A flight that went past GetNamespace has access; the key it made is its own,
\* and has not aged more than a flight may take.
FlightsOwned ==
    \A c \in Calls :
        /\ pc[c] \in {"list", "delete", "create", "put"} => asks[c] \in Authorized
        /\ pc[c] \in InFlight \ {"put", "finish"} => mine[c] = NoKey
        /\ pc[c] = "put" => mine[c] # NoKey
        /\ pc[c] \in {"put", "finish"} /\ mine[c] # NoKey =>
              mine[c] \in KeyFor(asks[c]) /\ now + KeyTTL <= mine[c].expires + MaxFlight
        /\ pc[c] \in {"lookup", "missed", "waiting", "idle"} => mine[c] = NoKey

ResultsOwned ==
    \A c \in Calls : pc[c] = "done" /\ result[c] # NoKey => result[c] \in KeyFor(asks[c])

IInv == Types /\ LedByOne /\ ItemsOwned /\ FlightsOwned /\ ResultsOwned
-----------------------------------------------------------------------------
\* The cache key of a call is the pair it asks for.
LEMMA KeyIsPair ==
    ASSUME NEW c, asks[c] \in CacheKeys
    PROVE  KeyOf(c) = asks[c]
BY DEF KeyOf, cacheKey, CacheKeys

\* A key that has just been made.
LEMMA MadeKey ==
    ASSUME NEW id \in Nat, NEW k \in Authorized, NEW t \in Nat
    PROVE  LET key == [id |-> id + 1, owner |-> k, expires |-> t + KeyTTL]
           IN  key \in KeyFor(k) /\ key # NoKey
<1>1. id + 1 \in Nat \ {0} /\ t + KeyTTL \in Nat
  BY ResolverAssumption
<1>2. \A k2 \in KeyFor(k) : k2.id # 0
  BY DEF KeyFor
<1> QED BY <1>1, <1>2 DEF KeyFor, NoKey

LEMMA Initially == Init => IInv
<1> SUFFICES ASSUME Init PROVE IInv
  OBVIOUS
<1>1. Types
  BY DEF Init, Types, Stages
<1>2. LedByOne
  BY DEF Init, LedByOne, InFlight
<1>3. ItemsOwned
  BY DEF Init, ItemsOwned
<1>4. FlightsOwned /\ ResultsOwned
  BY DEF Init, FlightsOwned, ResultsOwned, InFlight
<1> QED BY <1>1, <1>2, <1>3, <1>4 DEF IInv

\* The steps of a flight before its end, which all go from a stage to another.
LEMMA FlightSteps ==
    ASSUME NEW c \in Calls, resolveAndCache(c)
    PROVE  /\ pc[c] \in InFlight
           /\ \E label \in InFlight : pc' = [pc EXCEPT ![c] = label]
           /\ group' = group /\ asks' = asks /\ result' = result /\ now' = now
BY DEF resolveAndCache, GetNamespaceFails, GetNamespace, ListKeys, DeleteKey,
   CreateKeyFails, CreateKey, PutCache, goto, InFlight, cacheVars, keyVars

LEMMA StepsKeepTypes == Types /\ [Next]_vars => Types'
<1> SUFFICES ASSUME Types, [Next]_vars PROVE Types'
  OBVIOUS
<1> USE DEF Types, Stages, goto, cacheVars, keyVars, callVars
<1>1. CASE Tick
  BY <1>1 DEF Tick
<1>2. ASSUME NEW c \in Calls, NEW r \in Requests, Request(c, r)
      PROVE  Types'
  BY <1>2, ResolverAssumption DEF Request, CacheKeys
<1>3. ASSUME NEW c \in Calls, Hit(c) \/ Miss(c) \/ Join(c)
      PROVE  Types'
  BY <1>3 DEF Hit, Miss, Join
<1>4. ASSUME NEW c \in Calls, Lead(c)
      PROVE  Types'
  <2>1. asks[c] \in CacheKeys
    BY <1>4 DEF Lead
  <2>2. group' = [group EXCEPT ![asks[c]] = c]
    BY <1>4, <2>1, KeyIsPair DEF Lead
  <2> QED BY <1>4, <2>1, <2>2 DEF Lead, InFlight
<1>5. ASSUME NEW c \in Calls, resolveAndCache(c)
      PROVE  Types'
  <2>1. created' \in Nat /\ DOMAIN mine' = Calls
    BY <1>5 DEF resolveAndCache, GetNamespaceFails, GetNamespace, ListKeys, DeleteKey,
       CreateKeyFails, CreateKey, PutCache
  <2> QED BY <1>5, <2>1, FlightSteps DEF InFlight
<1>6. ASSUME NEW c \in Calls, Finish(c)
      PROVE  Types'
  <2>1. asks[c] \in CacheKeys
    BY <1>6 DEF Finish
  <2>2. group' = [group EXCEPT ![asks[c]] = NoCall]
    BY <1>6, <2>1, KeyIsPair DEF Finish
  <2>3. pc' \in [Calls -> Stages] /\ DOMAIN result' = Calls
        /\ \A d \in Calls : pc'[d] # "idle" => pc[d] # "idle"
    BY <1>6 DEF Finish
  <2>4. mine' = mine /\ asks' = asks /\ now' = now /\ created' = created
    BY <1>6 DEF Finish
  <2> QED BY <2>2, <2>3, <2>4
<1>7. ASSUME NEW c \in Calls, Return(c)
      PROVE  Types'
  BY <1>7 DEF Return
<1>8. CASE UNCHANGED vars
  BY <1>8 DEF vars
<1> QED BY <1>1, <1>2, <1>3, <1>4, <1>5, <1>6, <1>7, <1>8 DEF Next, Resolve

LEMMA StepsKeepLed == Types /\ LedByOne /\ [Next]_vars => LedByOne'
<1> SUFFICES ASSUME Types, LedByOne, [Next]_vars PROVE LedByOne'
  OBVIOUS
<1> USE DEF goto, cacheVars, keyVars, callVars
<1>1. CASE Tick
  BY <1>1 DEF Tick, LedByOne
<1>2. ASSUME NEW c \in Calls, NEW r \in Requests, Request(c, r)
      PROVE  LedByOne'
  BY <1>2, ResolverAssumption DEF Request, LedByOne, Types, InFlight
<1>3. ASSUME NEW c \in Calls, Hit(c) \/ Miss(c)
      PROVE  LedByOne'
  BY <1>3, ResolverAssumption DEF Hit, Miss, LedByOne, Types, InFlight
<1>4. ASSUME NEW c \in Calls, Join(c)
      PROVE  LedByOne'
  <2>1. asks[c] \in CacheKeys /\ group[asks[c]] # NoCall
    BY <1>4, KeyIsPair DEF Join, Types
  <2> QED BY <1>4, <2>1 DEF Join, LedByOne, Types, InFlight
<1>5. ASSUME NEW c \in Calls, Lead(c)
      PROVE  LedByOne'
  <2>1. asks[c] \in CacheKeys /\ pc[c] = "missed"
    BY <1>5 DEF Lead, Types
  <2>2. group[asks[c]] = NoCall /\ group' = [group EXCEPT ![asks[c]] = c]
    BY <1>5, <2>1, KeyIsPair DEF Lead
  <2>3. pc' = [pc EXCEPT ![c] = "getNamespace"] /\ asks' = asks
    BY <1>5 DEF Lead
  <2>4. \A d \in Calls : pc[d] \in InFlight => asks[d] \in CacheKeys /\ asks[d] # asks[c]
    BY <2>2, ResolverAssumption DEF LedByOne, Types, InFlight
  <2> QED BY <2>1, <2>2, <2>3, <2>4, ResolverAssumption DEF LedByOne, Types, InFlight
<1>6. ASSUME NEW c \in Calls, resolveAndCache(c)
      PROVE  LedByOne'
  BY <1>6, FlightSteps DEF LedByOne, Types, InFlight
<1>7. ASSUME NEW c \in Calls, Finish(c)
      PROVE  LedByOne'
  <2>1. asks[c] \in CacheKeys /\ pc[c] = "finish" /\ group[asks[c]] = c
    BY <1>7 DEF Finish, Types, LedByOne, InFlight
  <2>2. group' = [group EXCEPT ![asks[c]] = NoCall] /\ asks' = asks
    BY <1>7, <2>1, KeyIsPair DEF Finish
  <2>3. \A d \in Calls : pc'[d] =
           IF d = c \/ (pc[d] = "waiting" /\ asks[d] = asks[c]) THEN "done" ELSE pc[d]
    BY <1>7, <2>1, KeyIsPair DEF Finish, Types
  <2>4. \A d \in Calls \ {c} : pc[d] \in InFlight => asks[d] # asks[c]
    BY <2>1 DEF LedByOne
  <2>5. \A k \in CacheKeys : group[k] = c => k = asks[c]
    BY <2>1, ResolverAssumption DEF LedByOne
  <2>6. \A k \in CacheKeys \ {asks[c]} : group'[k] = group[k]
    BY <2>2 DEF Types
  <2>7. group'[asks[c]] = NoCall
    BY <2>1, <2>2 DEF Types
  <2>8. \A d \in Calls : pc[d] # "idle" => asks[d] \in CacheKeys
    BY DEF Types
  <2>9. \A d \in Calls : pc'[d] \in InFlight => group'[asks'[d]] = d
    BY <2>2, <2>3, <2>4, <2>6, <2>8 DEF LedByOne, InFlight
  <2>10. \A k \in CacheKeys : group'[k] # NoCall =>
            pc'[group'[k]] \in InFlight /\ asks'[group'[k]] = k
    <3>1. ASSUME NEW k \in CacheKeys, group'[k] # NoCall
          PROVE  pc'[group'[k]] \in InFlight /\ asks'[group'[k]] = k
      <4>1. k # asks[c] /\ group'[k] = group[k]
        BY <2>6, <2>7, <3>1
      <4>2. group[k] \in Calls \ {c} /\ pc[group[k]] \in InFlight /\ asks[group[k]] = k
        BY <2>5, <3>1, <4>1 DEF LedByOne, Types
      <4> QED BY <2>2, <2>3, <4>1, <4>2 DEF InFlight
    <3> QED BY <3>1
  <2>11. \A d \in Calls : pc'[d] = "waiting" => group'[asks'[d]] # NoCall
    BY <2>1, <2>2, <2>3, <2>6, <2>8 DEF LedByOne
  <2> QED BY <2>9, <2>10, <2>11 DEF LedByOne
<1>8. ASSUME NEW c \in Calls, Return(c)
      PROVE  LedByOne'
  BY <1>8, ResolverAssumption DEF Return, LedByOne, Types, InFlight
<1>9. CASE UNCHANGED vars
  BY <1>9 DEF vars, LedByOne
<1> QED BY <1>1, <1>2, <1>3, <1>4, <1>5, <1>6, <1>7, <1>8, <1>9 DEF Next, Resolve

LEMMA StepsKeepItems == Types /\ ItemsOwned /\ FlightsOwned /\ [Next]_vars => ItemsOwned'
<1> SUFFICES ASSUME Types, ItemsOwned, FlightsOwned, [Next]_vars PROVE ItemsOwned'
  OBVIOUS
<1>1. ASSUME NEW c \in Calls, PutCache(c)
      PROVE  ItemsOwned'
  <2>1. asks[c] \in CacheKeys /\ pc[c] = "put" /\ KeyOf(c) = asks[c]
    BY <1>1, KeyIsPair DEF PutCache, Types
  <2>2. /\ mine[c] \in KeyFor(asks[c]) /\ now + KeyTTL <= mine[c].expires + MaxFlight
        /\ mine[c].expires \in Nat
    BY <2>1 DEF FlightsOwned, KeyFor
  <2> DEFINE entry == [key |-> mine[c], validUntil |-> ValidUntil]
  <2>3. \A x \in DOMAIN items' :
           items'[x] = IF x = asks[c] THEN entry ELSE items[x]
    BY <1>1, <2>1 DEF PutCache
  <2>4. DOMAIN items' \subseteq DOMAIN items \cup {asks[c]}
    BY <1>1, <2>1 DEF PutCache
  <2>5. entry.key = mine[c] /\ entry.validUntil = now + KeyTTL - RefreshBuffer
    BY DEF ValidUntil
  <2>6. /\ entry.validUntil \in Nat
        /\ entry.validUntil + RefreshBuffer <= entry.key.expires + MaxFlight
    BY <2>2, <2>5, ResolverAssumption DEF Types
  <2> HIDE DEF entry
  <2> QED BY <2>2, <2>3, <2>4, <2>5, <2>6 DEF ItemsOwned
<1>2. ASSUME NEW c \in Calls, Miss(c)
      PROVE  ItemsOwned'
  BY <1>2 DEF Miss, Drop, ItemsOwned
<1>3. CASE items' = items
  BY <1>3 DEF ItemsOwned
<1>4. (\E c \in Calls : PutCache(c) \/ Miss(c)) \/ items' = items
  BY DEF Next, Tick, Request, Resolve, Hit, Lead, Join, Finish, Return, resolveAndCache,
     GetNamespaceFails, GetNamespace, ListKeys, DeleteKey, CreateKeyFails, CreateKey,
     cacheVars, vars
<1> QED BY <1>1, <1>2, <1>3, <1>4

\* What FlightsOwned says of one call.
FlightOwned(c) ==
    /\ pc[c] \in {"list", "delete", "create", "put"} => asks[c] \in Authorized
    /\ pc[c] \in InFlight \ {"put", "finish"} => mine[c] = NoKey
    /\ pc[c] = "put" => mine[c] # NoKey
    /\ pc[c] \in {"put", "finish"} /\ mine[c] # NoKey =>
          mine[c] \in KeyFor(asks[c]) /\ now + KeyTTL <= mine[c].expires + MaxFlight
    /\ pc[c] \in {"lookup", "missed", "waiting", "idle"} => mine[c] = NoKey

LEMMA StepsKeepFlights == Types /\ FlightsOwned /\ [Next]_vars => FlightsOwned'
<1> SUFFICES ASSUME Types, FlightsOwned, [Next]_vars, NEW d \in Calls
             PROVE  FlightOwned(d)'
  BY DEF FlightsOwned, FlightOwned
<1>0. FlightOwned(d)
  BY DEF FlightsOwned, FlightOwned
<1> USE DEF goto, FlightOwned, InFlight, callVars
<1>1. CASE Tick
  <2>1. /\ pc' = pc /\ asks' = asks /\ mine' = mine /\ now' = now + 1
        /\ pc[d] \in {"put", "finish"} /\ mine[d] # NoKey =>
              now + KeyTTL < mine[d].expires + MaxFlight
    BY <1>1 DEF Tick
  <2>2. mine[d] \in KeyFor(asks[d]) => mine[d].expires \in Nat
    BY DEF KeyFor
  <2> QED BY <1>0, <2>1, <2>2, ResolverAssumption DEF Types
<1>2. ASSUME NEW c \in Calls, CreateKey(c)
      PROVE  FlightOwned(d)'
  <2>1. /\ pc[c] = "create" /\ pc' = [pc EXCEPT ![c] = "put"]
        /\ asks' = asks /\ now' = now
        /\ mine' = [mine EXCEPT ![c] =
                [id |-> created + 1, owner |-> asks[c], expires |-> now + KeyTTL]]
    BY <1>2 DEF CreateKey
  <2>2. CASE d = c
    <3>1. asks[c] \in Authorized
      BY <1>0, <2>1, <2>2
    <3>2. mine'[c] \in KeyFor(asks[c]) /\ mine'[c] # NoKey /\ mine'[c].expires = now + KeyTTL
      BY <2>1, <3>1, MadeKey DEF Types
    <3>3. now + KeyTTL <= mine'[c].expires + MaxFlight
      BY <3>2, ResolverAssumption DEF Types
    <3>4. pc'[c] = "put"
      BY <2>1 DEF Types
    <3> QED BY <2>1, <2>2, <3>1, <3>2, <3>3, <3>4
  <2>3. CASE d # c
    BY <1>0, <2>1, <2>3 DEF Types
  <2> QED BY <2>2, <2>3
<1>3. ASSUME NEW c \in Calls,
             GetNamespaceFails(c) \/ GetNamespace(c) \/ ListKeys(c) \/ DeleteKey(c)
             \/ CreateKeyFails(c) \/ PutCache(c)
      PROVE  FlightOwned(d)'
  BY <1>0, <1>3 DEF GetNamespaceFails, GetNamespace, ListKeys, DeleteKey, CreateKeyFails,
     PutCache, Types
<1>4. ASSUME NEW c \in Calls, Lead(c) \/ Join(c) \/ Hit(c) \/ Miss(c)
      PROVE  FlightOwned(d)'
  BY <1>0, <1>4 DEF Lead, Join, Hit, Miss, Types
<1>5. ASSUME NEW c \in Calls, NEW r \in Requests, Request(c, r)
      PROVE  FlightOwned(d)'
  BY <1>0, <1>5 DEF Request, Types
<1>6. ASSUME NEW c \in Calls, Finish(c)
      PROVE  FlightOwned(d)'
  BY <1>0, <1>6 DEF Finish, Types
<1>7. ASSUME NEW c \in Calls, Return(c)
      PROVE  FlightOwned(d)'
  BY <1>0, <1>7 DEF Return, Types
<1>8. CASE UNCHANGED vars
  BY <1>0, <1>8 DEF vars
<1> QED BY <1>1, <1>2, <1>3, <1>4, <1>5, <1>6, <1>7, <1>8 DEF Next, Resolve, resolveAndCache

\* What a step hands out comes from the cache or from the flight that ends.
LEMMA HandedOut ==
    ASSUME Types, ItemsOwned, FlightsOwned, [Next]_vars, NEW d \in Calls,
           pc[d] # "done", pc'[d] = "done", result'[d] # NoKey
    PROVE  /\ result'[d] \in KeyFor(asks[d]) /\ asks'[d] = asks[d]
           /\ now + RefreshBuffer < result'[d].expires + MaxFlight
<1>1. CASE Hit(d)
  <2>1. asks[d] \in CacheKeys /\ KeyOf(d) = asks[d]
    BY <1>1, KeyIsPair DEF Hit, Types
  <2>2. /\ asks[d] \in DOMAIN items /\ now < items[asks[d]].validUntil
        /\ result'[d] = items[asks[d]].key /\ asks' = asks
    BY <1>1, <2>1 DEF Hit, Fresh, Types
  <2>3. /\ items[asks[d]].key \in KeyFor(asks[d]) /\ items[asks[d]].validUntil \in Nat
        /\ items[asks[d]].validUntil + RefreshBuffer <= items[asks[d]].key.expires + MaxFlight
    BY <2>2 DEF ItemsOwned
  <2>4. items[asks[d]].key.expires \in Nat
    BY <2>3 DEF KeyFor
  <2> QED BY <2>2, <2>3, <2>4, ResolverAssumption DEF Types
<1>2. ASSUME NEW c \in Calls, Finish(c)
      PROVE  /\ result'[d] \in KeyFor(asks[d]) /\ asks'[d] = asks[d]
             /\ now + RefreshBuffer < result'[d].expires + MaxFlight
  <2>1. asks[c] \in CacheKeys /\ pc[c] = "finish" /\ asks' = asks
    BY <1>2 DEF Finish, Types
  <2>2. d = c \/ (pc[d] = "waiting" /\ KeyOf(d) = KeyOf(c))
    BY <1>2 DEF Finish
  <2>3. asks[d] = asks[c]
    BY <2>1, <2>2, KeyIsPair DEF Types
  <2>4. result'[d] = mine[c]
    BY <1>2, <2>2 DEF Finish
  <2>5. mine[c] \in KeyFor(asks[c]) /\ now + KeyTTL <= mine[c].expires + MaxFlight
    BY <2>1, <2>4 DEF FlightsOwned
  <2>6. mine[c].expires \in Nat
    BY <2>5 DEF KeyFor
  <2> QED BY <2>1, <2>3, <2>4, <2>5, <2>6, ResolverAssumption DEF Types
<1>3. Hit(d) \/ \E c \in Calls : Finish(c)
  <2>1. ASSUME NEW c \in Calls, Hit(c)
        PROVE  c = d
    BY <2>1 DEF Hit, goto, Types
  <2>2. ASSUME NEW c \in Calls, resolveAndCache(c)
        PROVE  FALSE
    BY <2>2, FlightSteps DEF Types, InFlight
  <2>3. ASSUME NEW c \in Calls, Miss(c) \/ Lead(c) \/ Join(c) \/ Return(c)
        PROVE  FALSE
    BY <2>3 DEF Miss, Lead, Join, Return, goto, Types
  <2>4. ASSUME NEW c \in Calls, NEW r \in Requests, Request(c, r)
        PROVE  FALSE
    BY <2>4 DEF Request, goto, Types
  <2>5. ~Tick /\ ~UNCHANGED vars
    BY DEF Tick, callVars, vars
  <2> QED BY <2>1, <2>2, <2>3, <2>4, <2>5 DEF Next, Resolve
<1> QED BY <1>1, <1>2, <1>3

LEMMA StepsKeepResults ==
    Types /\ ItemsOwned /\ FlightsOwned /\ ResultsOwned /\ [Next]_vars => ResultsOwned'
<1> SUFFICES ASSUME Types, ItemsOwned, FlightsOwned, ResultsOwned, [Next]_vars,
                    NEW d \in Calls, pc'[d] = "done", result'[d] # NoKey
             PROVE  result'[d] \in KeyFor(asks'[d])
  BY DEF ResultsOwned, KeyFor
<1>1. CASE pc[d] = "done"
  <2>1. result'[d] = result[d] /\ asks'[d] = asks[d]
    BY <1>1 DEF Next, Tick, Request, Resolve, Hit, Miss, Lead, Join, Finish, Return,
       resolveAndCache, GetNamespaceFails, GetNamespace, ListKeys, DeleteKey,
       CreateKeyFails, CreateKey, PutCache, goto, callVars, vars, Types, Stages
  <2> QED BY <1>1, <2>1 DEF ResultsOwned
<1>2. CASE pc[d] # "done"
  BY <1>2, HandedOut
<1> QED BY <1>1, <1>2
-----------------------------------------------------------------------------
\* The invariant holds of every run of the resolver.
THEOREM Invariant == Spec => []IInv
<1>1. IInv /\ [Next]_vars => IInv'
  BY StepsKeepTypes, StepsKeepLed, StepsKeepItems, StepsKeepFlights, StepsKeepResults
     DEF IInv
<1> QED BY <1>1, Initially, PTL DEF Spec

\* There is never more than one flight for a cache key.
THEOREM OneFlight == Spec => []AtMostOneFlight
<1>1. IInv => AtMostOneFlight
  <2> SUFFICES ASSUME IInv, NEW c \in Calls, NEW d \in Calls,
                      pc[c] \in InFlight, pc[d] \in InFlight, KeyOf(c) = KeyOf(d)
               PROVE  c = d
    BY DEF AtMostOneFlight
  <2>1. asks[c] \in CacheKeys /\ asks[d] \in CacheKeys
    BY DEF IInv, Types, InFlight
  <2>2. asks[c] = asks[d]
    BY <2>1, KeyIsPair
  <2> QED BY <2>2 DEF IInv, LedByOne
<1> QED BY <1>1, Invariant, PTL

\* A call that waits always has a leader at work on its key.
THEOREM WaitersHaveLeaders == Spec => []NoLostWaiter
<1>1. IInv => NoLostWaiter
  <2> SUFFICES ASSUME IInv, NEW c \in Calls, pc[c] = "waiting"
               PROVE  /\ group[KeyOf(c)] # NoCall
                      /\ pc[group[KeyOf(c)]] \in InFlight
                      /\ KeyOf(group[KeyOf(c)]) = KeyOf(c)
    BY DEF NoLostWaiter
  <2>1. asks[c] \in CacheKeys /\ KeyOf(c) = asks[c]
    BY KeyIsPair DEF IInv, Types
  <2>2. group[asks[c]] # NoCall /\ pc[group[asks[c]]] \in InFlight
        /\ asks[group[asks[c]]] = asks[c]
    BY <2>1 DEF IInv, LedByOne
  <2> QED BY <2>1, <2>2, KeyIsPair
<1> QED BY <1>1, Invariant, PTL

\* A call never returns a key made for another user or namespace, nor one its user
\* has no access for, whoever led the flight it got it from.
THEOREM KeysStayWithTheirOwners == Spec => []OwnKeysOnly
<1>1. IInv => OwnKeysOnly
  BY DEF IInv, ResultsOwned, KeyFor, OwnKeysOnly
<1> QED BY <1>1, Invariant, PTL

\* A key that is handed out has RefreshBuffer left, less the time its flight took.
THEOREM KeysAreFresh == Spec => FreshWhenHandedOut
<1> DEFINE FreshStep == \A c \in Calls :
              HandsOut(c) => now + RefreshBuffer < result'[c].expires + MaxFlight
<1>1. IInv /\ [Next]_vars => [FreshStep]_vars
  BY HandedOut DEF IInv, HandsOut
<1> QED BY <1>1, Invariant, PTL DEF Spec, FreshWhenHandedOut
-----------------------------------------------------------------------------
(* The cache: its list is in the order of last use, and what it holds.     *)

\* The list is the order of last use, holds each key of the map once, and has no more
\* than it may.
InOrder ==
    /\ order \in Seq(CacheKeys) /\ Distinct(order)
    /\ Len(order) <= MaxCacheEntries
    /\ recent = order
    /\ ToSet(order) = DOMAIN items

\* What putLocked's loop keeps: the front of the list, up to the room there is.
LEMMA RoomIsPrefix ==
    ASSUME NEW s \in Seq(CacheKeys)
    PROVE  \E m \in 0 .. Len(s) :
              /\ Room(s) = SubSeq(s, 1, m) /\ m <= MaxCacheEntries - 1
              /\ m = Len(s) \/ m = MaxCacheEntries - 1
<1> DEFINE m == Min({Len(s), MaxCacheEntries - 1})
<1>1. Len(s) \in Nat /\ MaxCacheEntries - 1 \in Nat
  BY LenProperties, ResolverAssumption
<1>2. m \in {Len(s), MaxCacheEntries - 1} /\ m <= Len(s) /\ m <= MaxCacheEntries - 1
  BY <1>1 DEF Min
<1> HIDE DEF m
<1>3. m \in 0 .. Len(s)
  BY <1>1, <1>2
<1> QED BY <1>2, <1>3 DEF m, Room

\* Moving a cached key to the front keeps the list's members and its length.
LEMMA MovedToFront ==
    ASSUME NEW s \in Seq(CacheKeys), Distinct(s), NEW k \in ToSet(s)
    PROVE  /\ ToFront(s, k) \in Seq(CacheKeys) /\ Distinct(ToFront(s, k))
           /\ Len(ToFront(s, k)) = Len(s) /\ ToSet(ToFront(s, k)) = ToSet(s)
<1> DEFINE t == Without(s, k)
<1>1. k \in CacheKeys /\ ToSet(s) \subseteq CacheKeys /\ Len(s) \in Nat
  BY MembersOfSeq, LenProperties
<1>2. t \in Seq(CacheKeys) /\ ToSet(t) = ToSet(s) \ {k} /\ Distinct(t)
  BY <1>1, KeepType DEF Without
<1>3. Len(t) = Len(s) - 1
  <2>1. ToSet(s) \cap (CacheKeys \ {k}) = ToSet(s) \ {k}
    BY <1>1
  <2> QED BY <2>1, KeepAllBut DEF Without
<1> HIDE DEF t
<1>4. /\ <<k>> \o t \in Seq(CacheKeys) /\ Len(<<k>> \o t) = Len(t) + 1
      /\ ToSet(<<k>> \o t) = {k} \cup ToSet(t)
      /\ Distinct(<<k>> \o t)
  BY <1>1, <1>2, MembersOfCons
<1> QED BY <1>1, <1>2, <1>3, <1>4 DEF t, ToFront

\* What putLocked does to the list: the keys that stay are the front of those that
\* have not expired, at most one less than the cache holds.
LEMMA PutKeeps ==
    ASSUME Types, InOrder, NEW c \in Calls, PutCache(c)
    PROVE  LET k == KeyOf(c)
               swept == AfterSweep(k)
           IN  /\ k \in CacheKeys /\ k = asks[c]
               /\ swept \in Seq(CacheKeys) /\ ToSet(swept) = Unexpired \ {k}
               /\ Len(swept) <= Len(order) /\ (Len(swept) = Len(order) => swept = order)
               /\ \E m \in 0 .. Len(swept) :
                     /\ m <= MaxCacheEntries - 1
                     /\ m = Len(swept) \/ m = MaxCacheEntries - 1
                     /\ LET kept == SubSeq(swept, 1, m)
                        IN  /\ order' = <<k>> \o kept /\ recent' = <<k>> \o kept
                            /\ DOMAIN items' = {k} \cup ToSet(kept)
<1> DEFINE k == KeyOf(c)
           swept == AfterSweep(k)
<1>1. k \in CacheKeys /\ k = asks[c]
  BY KeyIsPair DEF PutCache, Types
<1>2. /\ swept \in Seq(CacheKeys) /\ ToSet(swept) = Unexpired \ {k} /\ Distinct(swept)
      /\ Len(swept) <= Len(order) /\ (Len(swept) = Len(order) => swept = order)
  <2>1. ToSet(order) \cap (Unexpired \ {k}) = Unexpired \ {k}
    BY DEF InOrder, Unexpired
  <2> QED BY <2>1, KeepType DEF InOrder, AfterSweep
<1>3. PICK m \in 0 .. Len(swept) :
         /\ Room(swept) = SubSeq(swept, 1, m) /\ m <= MaxCacheEntries - 1
         /\ m = Len(swept) \/ m = MaxCacheEntries - 1
  BY <1>2, RoomIsPrefix
<1> DEFINE kept == SubSeq(swept, 1, m)
           D == {k} \cup ToSet(kept)
<1> HIDE DEF swept, k
<1>4. kept \in Seq(CacheKeys) /\ ToSet(kept) \subseteq ToSet(swept)
  BY <1>2, PrefixType
<1>5. /\ order' = <<k>> \o kept
      /\ DOMAIN items' = (DOMAIN items \ (ToSet(order) \ ToSet(kept))) \cup {k}
      /\ recent' = Keep(ToFront(recent, k), DOMAIN items')
  BY <1>3 DEF PutCache, swept, k
<1> HIDE DEF kept
<1>6. ToSet(kept) \subseteq DOMAIN items \ {k} /\ ToSet(kept) \subseteq CacheKeys
  BY <1>2, <1>4, MembersOfSeq DEF Unexpired
<1>7. DOMAIN items' = D
  BY <1>5, <1>6 DEF InOrder
<1>8. recent' = <<k>> \o kept
  <2>1. Keep(order, CacheKeys \ {k}) \in Seq(CacheKeys)
    BY KeepType DEF InOrder
  <2>2. Keep(<<k>> \o Keep(order, CacheKeys \ {k}), D) =
           <<k>> \o Keep(Keep(order, CacheKeys \ {k}), D)
    <3>1. \A R : Keep(<<k>> \o Keep(order, CacheKeys \ {k}), R) =
                    IF k \in R THEN <<k>> \o Keep(Keep(order, CacheKeys \ {k}), R)
                    ELSE Keep(Keep(order, CacheKeys \ {k}), R)
      BY <1>1, <2>1, KeepOfCons
    <3>2. k \in D
      OBVIOUS
    <3> QED BY <3>1, <3>2, Zenon
  <2>3. Keep(Keep(order, CacheKeys \ {k}), D) = Keep(order, (CacheKeys \ {k}) \cap D)
    BY KeepOfKeep DEF InOrder
  <2>4. (CacheKeys \ {k}) \cap D = ToSet(kept)
    BY <1>6
  <2>5. Keep(order, ToSet(kept)) = kept
    BY <1>3, KeepOfPrefix DEF InOrder, kept, swept, AfterSweep
  <2> QED BY <1>5, <1>7, <2>2, <2>3, <2>4, <2>5 DEF InOrder, ToFront, Without
<1> QED BY <1>1, <1>2, <1>3, <1>5, <1>7, <1>8 DEF kept, swept, k

\* No step breaks the order: a hit moves one entry to the front of both, a miss drops
\* one from both, and a put drops from the history what it drops from the map.
LEMMA StepsKeepOrder == Types /\ InOrder /\ [Next]_vars => InOrder'
<1> SUFFICES ASSUME Types, InOrder, [Next]_vars PROVE InOrder'
  OBVIOUS
<1>1. ASSUME NEW c \in Calls, Hit(c)
      PROVE  InOrder'
  <2>1. KeyOf(c) \in ToSet(order)
    BY <1>1 DEF Hit, Fresh, InOrder
  <2>2. order' = ToFront(order, KeyOf(c)) /\ recent' = ToFront(order, KeyOf(c)) /\ items' = items
    BY <1>1 DEF Hit, InOrder
  <2> QED BY <2>1, <2>2, MovedToFront DEF InOrder
<1>2. ASSUME NEW c \in Calls, Miss(c)
      PROVE  InOrder'
  <2> DEFINE k == KeyOf(c)
  <2>1. /\ order' = Keep(order, CacheKeys \ {k}) /\ recent' = order'
        /\ DOMAIN items' = DOMAIN items \ {k}
    BY <1>2 DEF Miss, InOrder, Without, Drop
  <2> HIDE DEF k
  <2>2. /\ order' \in Seq(CacheKeys) /\ Len(order') <= Len(order) /\ Distinct(order')
        /\ ToSet(order') = ToSet(order) \cap (CacheKeys \ {k})
    BY <2>1, KeepType DEF InOrder
  <2>3. ToSet(order) \subseteq CacheKeys /\ Len(order) \in Nat /\ Len(order') \in Nat
    BY <2>2, MembersOfSeq, LenProperties DEF InOrder
  <2>4. Len(order') <= MaxCacheEntries
    BY <2>2, <2>3, ResolverAssumption DEF InOrder
  <2>5. ToSet(order') = DOMAIN items'
    BY <2>1, <2>2, <2>3 DEF InOrder
  <2> QED BY <2>1, <2>2, <2>4, <2>5, Zenon DEF InOrder
<1>3. ASSUME NEW c \in Calls, PutCache(c)
      PROVE  InOrder'
  <2> DEFINE k == KeyOf(c)
             swept == AfterSweep(k)
  <2>1. k \in CacheKeys /\ swept \in Seq(CacheKeys) /\ ToSet(swept) = Unexpired \ {k}
    BY <1>3, PutKeeps
  <2>2. Distinct(swept)
    BY KeepType DEF AfterSweep, InOrder
  <2>3. PICK m \in 0 .. Len(swept) :
           /\ m <= MaxCacheEntries - 1
           /\ order' = <<k>> \o SubSeq(swept, 1, m) /\ recent' = <<k>> \o SubSeq(swept, 1, m)
           /\ DOMAIN items' = {k} \cup ToSet(SubSeq(swept, 1, m))
    BY <1>3, PutKeeps
  <2> DEFINE kept == SubSeq(swept, 1, m)
  <2> HIDE DEF k, swept
  <2>4. /\ kept \in Seq(CacheKeys) /\ Len(kept) = m /\ Distinct(kept)
        /\ ToSet(kept) \subseteq ToSet(swept)
    BY <2>1, <2>2, PrefixType
  <2> HIDE DEF kept
  <2>5. /\ <<k>> \o kept \in Seq(CacheKeys) /\ Len(<<k>> \o kept) = m + 1
        /\ ToSet(<<k>> \o kept) = {k} \cup ToSet(kept) /\ Distinct(<<k>> \o kept)
    BY <2>1, <2>4, MembersOfCons
  <2>6. m + 1 <= MaxCacheEntries
    BY <2>3, <2>1, LenProperties, ResolverAssumption
  <2> QED BY <2>3, <2>5, <2>6 DEF InOrder, kept
<1>4. CASE order' = order /\ recent' = recent /\ items' = items
  BY <1>4 DEF InOrder
<1>5. \/ \E c \in Calls : PutCache(c) \/ Miss(c) \/ Hit(c)
      \/ order' = order /\ recent' = recent /\ items' = items
  BY DEF Next, Tick, Request, Resolve, Lead, Join, Finish, Return, resolveAndCache,
     GetNamespaceFails, GetNamespace, ListKeys, DeleteKey, CreateKeyFails, CreateKey,
     cacheVars, vars
<1> QED BY <1>1, <1>2, <1>3, <1>4, <1>5

\* The list keeps its order in every run.
LEMMA OrderInvariant == Spec => [](Types /\ InOrder)
<1>1. Init => Types /\ InOrder
  <2> SUFFICES ASSUME Init PROVE Types /\ InOrder
    OBVIOUS
  <2>1. order = <<>> /\ recent = <<>> /\ DOMAIN items = {}
    BY DEF Init
  <2>2. <<>> \in Seq(CacheKeys) /\ Len(<<>>) = 0 /\ ToSet(<<>>) = {} /\ Distinct(<<>>)
    BY EmptySeq, LenProperties DEF ToSet, Distinct
  <2>3. 0 <= MaxCacheEntries
    BY ResolverAssumption
  <2>4. InOrder
    BY <2>1, <2>2, <2>3, Zenon DEF InOrder
  <2> QED BY <2>4, Initially DEF IInv
<1>2. Types /\ InOrder /\ [Next]_vars => (Types /\ InOrder)'
  BY StepsKeepTypes, StepsKeepOrder
<1> QED BY <1>1, <1>2, PTL DEF Spec

\* The cache's list and map always hold the same entries, each once, the most
\* recently used first, however calls, expiries and evictions interleave.
THEOREM ListIsRecency == Spec => []OrderIsRecency
<1>1. InOrder => OrderIsRecency
  BY DEF InOrder, OrderIsRecency
<1> QED BY <1>1, OrderInvariant, PTL

\* An entry that a call could still be served from leaves the cache only as the
\* coldest of a full one: no expiry, sweep or replacement takes it.
THEOREM ColdestGoes == Spec => OnlyColdEvicted
<1> DEFINE Evicts(k) == Fresh(k) => Len(order) = MaxCacheEntries /\ order[Len(order)] = k
           ColdStep == \A k \in DOMAIN items \ DOMAIN items' : Evicts(k)
<1>1. Types /\ InOrder /\ ItemsOwned /\ [Next]_vars => [ColdStep]_vars
  <2> SUFFICES ASSUME Types, InOrder, ItemsOwned, [Next]_vars,
                      NEW x \in DOMAIN items \ DOMAIN items', Fresh(x)
               PROVE  Len(order) = MaxCacheEntries /\ order[Len(order)] = x
    OBVIOUS
  <2>1. ASSUME NEW c \in Calls, Miss(c)
        PROVE  FALSE
    <3>1. DOMAIN items' = DOMAIN items \ {KeyOf(c)} /\ ~Fresh(KeyOf(c))
      BY <2>1 DEF Miss, Drop
    <3> QED BY <3>1
  <2>2. ASSUME NEW c \in Calls, PutCache(c)
        PROVE  Len(order) = MaxCacheEntries /\ order[Len(order)] = x
    <3> DEFINE k == KeyOf(c)
               swept == AfterSweep(k)
    <3>1. /\ swept \in Seq(CacheKeys) /\ ToSet(swept) = Unexpired \ {k}
          /\ Len(swept) <= Len(order) /\ (Len(swept) = Len(order) => swept = order)
      BY <2>2, PutKeeps
    <3>2. PICK m \in 0 .. Len(swept) :
             /\ m <= MaxCacheEntries - 1
             /\ m = Len(swept) \/ m = MaxCacheEntries - 1
             /\ DOMAIN items' = {k} \cup ToSet(SubSeq(swept, 1, m))
      BY <2>2, PutKeeps
    <3> HIDE DEF k, swept
    <3>3. x \in Unexpired \ {k}
      BY <3>2 DEF Fresh, Unexpired, ItemsOwned, Types
    <3>4. PICK i \in 1 .. Len(swept) : x = swept[i]
      BY <3>1, <3>3, MembersOfSeq
    <3>5. ~(i <= m)
      <4> SUFFICES ASSUME i <= m PROVE FALSE
        OBVIOUS
      <4>1. /\ SubSeq(swept, 1, m) \in Seq(CacheKeys) /\ Len(SubSeq(swept, 1, m)) = m
            /\ \A j \in 1 .. m : SubSeq(swept, 1, m)[j] = swept[j]
        BY <3>1, PrefixType
      <4>2. i \in 1 .. m
        BY <3>2
      <4>3. x \in ToSet(SubSeq(swept, 1, m))
        BY <3>4, <4>1, <4>2, MembersOfSeq
      <4> QED BY <3>2, <4>3
    <3>6. Len(swept) \in Nat /\ Len(order) \in Nat /\ MaxCacheEntries \in Nat
          /\ Len(order) <= MaxCacheEntries
      BY <3>1, LenProperties, ResolverAssumption DEF InOrder
    <3>7. Len(swept) = Len(order) /\ Len(order) = MaxCacheEntries /\ i = MaxCacheEntries
      BY <3>1, <3>2, <3>5, <3>6
    <3> QED BY <3>1, <3>4, <3>7
  <2>3. (\E c \in Calls : PutCache(c) \/ Miss(c)) \/ items' = items
    BY DEF Next, Tick, Request, Resolve, Hit, Lead, Join, Finish, Return, resolveAndCache,
       GetNamespaceFails, GetNamespace, ListKeys, DeleteKey, CreateKeyFails, CreateKey,
       cacheVars, vars
  <2> QED BY <2>1, <2>2, <2>3
<1>2. Spec => [](Types /\ InOrder)
  BY OrderInvariant
<1> QED BY <1>1, <1>2, Invariant, PTL DEF Spec, IInv, OnlyColdEvicted
-----------------------------------------------------------------------------
(* The types: the cache's bound, and keys that were all created.           *)

\* Every key that is held anywhere was created, and its dates are within the bounds.
KeysMade ==
    /\ now \in 0 .. MaxTime /\ created \in 0 .. MaxKeys
    /\ \A k \in DOMAIN items :
          items[k] \in [key : AccessKeys, validUntil : 0 .. MaxTime + KeyTTL]
    /\ live \subseteq AccessKeys
    /\ todo \in [Calls -> SUBSET AccessKeys]
    /\ mine \in [Calls -> AccessKeys \cup {NoKey}]
    /\ result \in [Calls -> AccessKeys \cup {NoKey}]

LEMMA KeysStayMade ==
    ASSUME KeysMade, created' = created, now' = now, items' = items, live' \subseteq live,
           todo' \in [Calls -> SUBSET AccessKeys],
           mine' \in [Calls -> AccessKeys \cup {NoKey}],
           result' \in [Calls -> AccessKeys \cup {NoKey}]
    PROVE  KeysMade'
<1>1. AccessKeys' = AccessKeys
  BY DEF AccessKeys
<1> QED BY <1>1 DEF KeysMade

LEMMA StepsKeepMade == Types /\ FlightsOwned /\ KeysMade /\ [Next]_vars => KeysMade'
<1> SUFFICES ASSUME Types, FlightsOwned, KeysMade, [Next]_vars PROVE KeysMade'
  OBVIOUS
<1> USE DEF goto, cacheVars, keyVars, callVars
<1>1. CASE Tick
  <2>1. now + 1 \in 0 .. MaxTime /\ created' = created /\ AccessKeys' = AccessKeys
    BY <1>1, ResolverAssumption DEF Tick, KeysMade, AccessKeys
  <2>2. live' \subseteq live /\ now' = now + 1 /\ items' = items /\ todo' = todo
        /\ mine' = mine /\ result' = result
    BY <1>1 DEF Tick
  <2> QED BY <2>1, <2>2 DEF KeysMade
<1>2. ASSUME NEW c \in Calls, NEW r \in Requests, Request(c, r)
      PROVE  KeysMade'
  BY <1>2, KeysStayMade DEF Request, KeysMade
<1>3. ASSUME NEW c \in Calls, Hit(c)
      PROVE  KeysMade'
  <2>1. items[KeyOf(c)].key \in AccessKeys
    BY <1>3 DEF Hit, Fresh, KeysMade
  <2> QED BY <1>3, <2>1, KeysStayMade DEF Hit, KeysMade
<1>4. ASSUME NEW c \in Calls, Miss(c)
      PROVE  KeysMade'
  <2>1. /\ DOMAIN items' \subseteq DOMAIN items
        /\ \A k \in DOMAIN items' : items'[k] = items[k]
        /\ AccessKeys' = AccessKeys
    BY <1>4 DEF Miss, Drop, AccessKeys
  <2>2. UNCHANGED <<now, created, live, todo, mine, result>>
    BY <1>4 DEF Miss
  <2> QED BY <2>1, <2>2 DEF KeysMade
<1>5. ASSUME NEW c \in Calls, Lead(c) \/ Join(c) \/ GetNamespaceFails(c) \/ GetNamespace(c)
                              \/ CreateKeyFails(c)
      PROVE  KeysMade'
  BY <1>5, KeysStayMade DEF Lead, Join, GetNamespaceFails, GetNamespace, CreateKeyFails, KeysMade
<1>6. ASSUME NEW c \in Calls, ListKeys(c)
      PROVE  KeysMade'
  <2>1. PICK found \in {{}, Existing(asks[c][2])} : todo' = [todo EXCEPT ![c] = found]
    BY <1>6 DEF ListKeys
  <2>2. found \subseteq AccessKeys
    BY <2>1 DEF Existing, KeysMade
  <2>3. todo' \in [Calls -> SUBSET AccessKeys]
    BY <2>1, <2>2 DEF KeysMade
  <2> QED BY <1>6, <2>3, KeysStayMade DEF ListKeys, KeysMade
<1>7. ASSUME NEW c \in Calls, DeleteKey(c)
      PROVE  KeysMade'
  <2>1. PICK key \in todo[c] : live' \in {live, live \ {key}}
                               /\ todo' = [todo EXCEPT ![c] = @ \ {key}]
    BY <1>7 DEF DeleteKey
  <2>2. todo' \in [Calls -> SUBSET AccessKeys] /\ live' \subseteq live
    BY <2>1 DEF KeysMade
  <2> QED BY <1>7, <2>2, KeysStayMade DEF DeleteKey, KeysMade
<1>8. ASSUME NEW c \in Calls, CreateKey(c)
      PROVE  KeysMade'
  <2> DEFINE key == [id |-> created + 1, owner |-> asks[c], expires |-> now + KeyTTL]
  <2>1. asks[c] \in CacheKeys /\ created + 1 \in 0 .. MaxKeys /\ created' = created + 1
    <3>1. pc[c] = "create" /\ created < MaxKeys /\ created' = created + 1
      BY <1>8 DEF CreateKey
    <3>2. created \in Nat /\ MaxKeys \in Nat
      BY ResolverAssumption DEF KeysMade
    <3> QED BY <3>1, <3>2 DEF Types
  <2>2. /\ live' = live \cup {key} /\ mine' = [mine EXCEPT ![c] = key]
        /\ UNCHANGED <<now, items, todo, result>>
    BY <1>8 DEF CreateKey
  <2>3. key \in AccessKeys'
    BY <2>1, ResolverAssumption DEF AccessKeys, KeysMade, CacheKeys
  <2>4. AccessKeys \subseteq AccessKeys'
    BY <2>1 DEF AccessKeys, KeysMade, CacheKeys
  <2> HIDE DEF key
  <2>5. mine' \in [Calls -> AccessKeys' \cup {NoKey}] /\ live' \subseteq AccessKeys'
        /\ todo' \in [Calls -> SUBSET AccessKeys'] /\ result' \in [Calls -> AccessKeys' \cup {NoKey}]
    BY <2>2, <2>3, <2>4 DEF KeysMade
  <2>6. \A k \in DOMAIN items' :
           items'[k] \in [key : AccessKeys', validUntil : 0 .. MaxTime + KeyTTL]
    BY <2>2, <2>4 DEF KeysMade
  <2> QED BY <2>1, <2>2, <2>5, <2>6 DEF KeysMade, NoKey
<1>9. ASSUME NEW c \in Calls, PutCache(c)
      PROVE  KeysMade'
  <2> DEFINE entry == [key |-> mine[c], validUntil |-> ValidUntil]
  <2>1. \A x \in DOMAIN items' :
           /\ items'[x] = IF x = KeyOf(c) THEN entry ELSE items[x]
           /\ x = KeyOf(c) \/ x \in DOMAIN items
    BY <1>9 DEF PutCache
  <2>2. mine[c] \in AccessKeys
    BY <1>9 DEF PutCache, FlightsOwned, KeysMade
  <2>3. ValidUntil \in 0 .. MaxTime + KeyTTL
    BY ResolverAssumption DEF ValidUntil, KeysMade
  <2>4. entry \in [key : AccessKeys, validUntil : 0 .. MaxTime + KeyTTL]
    BY <2>2, <2>3
  <2>5. UNCHANGED <<now, created, live, todo, mine, result>> /\ AccessKeys' = AccessKeys
    BY <1>9 DEF PutCache, AccessKeys
  <2> HIDE DEF entry
  <2> QED BY <2>1, <2>4, <2>5 DEF KeysMade
<1>10. ASSUME NEW c \in Calls, Finish(c)
       PROVE  KeysMade'
  <2>1. result' \in [Calls -> AccessKeys \cup {NoKey}]
    BY <1>10 DEF Finish, KeysMade
  <2> QED BY <1>10, <2>1, KeysStayMade DEF Finish, KeysMade
<1>11. ASSUME NEW c \in Calls, Return(c)
       PROVE  KeysMade'
  BY <1>11, KeysStayMade DEF Return, KeysMade
<1>12. CASE UNCHANGED vars
  BY <1>12, KeysStayMade DEF vars, KeysMade
<1> QED BY <1>1, <1>2, <1>3, <1>4, <1>5, <1>6, <1>7, <1>8, <1>9, <1>10, <1>11, <1>12
       DEF Next, Resolve, resolveAndCache

\* The cache never holds more than MaxCacheEntries entries, every key it holds,
\* returns or deletes was created, and no call is anywhere but at a stage.
THEOREM TypeCorrect == Spec => []TypeOK
<1>1. Init => KeysMade
  BY ResolverAssumption DEF Init, KeysMade
<1>2. IInv /\ KeysMade /\ [Next]_vars => KeysMade'
  BY StepsKeepMade DEF IInv
<1>3. IInv /\ InOrder /\ KeysMade => TypeOK
  <2> SUFFICES ASSUME IInv, InOrder, KeysMade PROVE TypeOK
    OBVIOUS
  <2>1. ToSet(order) \subseteq CacheKeys
    BY MembersOfSeq DEF InOrder
  <2> QED BY <2>1 DEF IInv, Types, InOrder, KeysMade, TypeOK
<1> QED BY <1>1, <1>2, <1>3, Invariant, OrderInvariant, PTL DEF Spec
-----------------------------------------------------------------------------
(* OWResolver implements LoadingCache.                                     *)

\* Who leads a flight is at work on its key.
LEMMA LeaderAtWork ==
    ASSUME Types, LedByOne, NEW k \in CacheKeys, Leads(k)
    PROVE  group[k] \in Calls /\ pc[group[k]] \in InFlight /\ asks[group[k]] = k
BY DEF Types, LedByOne, Leads

\* The flights, as LoadingCache sees them, are the same.
FlightsSame ==
    /\ flights' = flights
    /\ flightResults' = flightResults

\* A step of a call that leads no flight, before and after, touches none.
LEMMA OthersFlights ==
    ASSUME Types, LedByOne, NEW c \in Calls, pc[c] \notin InFlight,
           group' = group, mine' = mine,
           \A d \in Calls \ {c} : pc'[d] = pc[d]
    PROVE  FlightsSame
<1>1. \A k \in CacheKeys : Leads(k)' = Leads(k) /\ (Leads(k) => group[k] \in Calls \ {c})
  BY LeaderAtWork DEF Leads
<1>2. \A k \in CacheKeys : Over(k)' = Over(k)
  BY <1>1 DEF Over, Leads
<1>3. \A k \in CacheKeys : mine'[group'[k]] = mine[group[k]]
  OBVIOUS
<1> QED BY <1>1, <1>2, <1>3 DEF FlightsSame, flights, flightResults

\* The calls that wait, in a step of a call that waits neither before nor after.
LEMMA OthersWait ==
    ASSUME Types, NEW c \in Calls, pc[c] \notin InFlight \cup {"waiting"},
           pc'[c] \notin InFlight \cup {"waiting"},
           \A d \in Calls \ {c} : pc'[d] = pc[d] /\ asks'[d] = asks[d]
    PROVE  waitingCalls' = waitingCalls
BY DEF waitingCalls, KeyOf, cacheKey

\* The entries are the same, or some are gone.
EntriesMayGo ==
    /\ DOMAIN freshEntries' \subseteq DOMAIN freshEntries
    /\ \A k \in DOMAIN freshEntries' : freshEntries'[k] = freshEntries[k]

\* A step that changes only the clock and the keys in existence, and one that starts
\* a call, lets it miss or moves its flight on.
LEMMA QuietSteps ==
    ASSUME IInv, NEW c \in Calls,
           \/ (\E p \in Requests : Request(c, p)) \/ Miss(c)
           \/ GetNamespace(c) \/ ListKeys(c) \/ DeleteKey(c) \/ CreateKey(c)
    PROVE  UNCHANGED Resolved!cacheVars
<1>1. CASE (\E p \in Requests : Request(c, p)) \/ Miss(c)
  <2>1. /\ pc[c] \in {"idle", "lookup"} /\ pc'[c] \in {"lookup", "missed"}
        /\ \A d \in Calls \ {c} : pc'[d] = pc[d] /\ asks'[d] = asks[d]
        /\ group' = group /\ mine' = mine /\ result' = result /\ now' = now
    BY <1>1 DEF Request, Miss, goto, IInv, Types, cacheVars, keyVars
  <2>2. FlightsSame
    BY <2>1, OthersFlights DEF IInv, InFlight
  <2>3. waitingCalls' = waitingCalls
    BY <2>1, OthersWait DEF IInv, InFlight
  <2>4. returning' = returning
    BY <2>1 DEF returning
  <2>5. freshEntries' = freshEntries
    BY <1>1, <2>1 DEF Request, Miss, freshEntries, Fresh, Drop, cacheVars
  <2> QED BY <2>2, <2>3, <2>4, <2>5 DEF Resolved!cacheVars, FlightsSame
<1>2. CASE GetNamespace(c) \/ ListKeys(c) \/ DeleteKey(c) \/ CreateKey(c)
  <2>1. /\ pc[c] \in InFlight \ {"finish"} /\ pc'[c] \in InFlight \ {"finish"}
        /\ \A d \in Calls \ {c} : pc'[d] = pc[d] /\ mine'[d] = mine[d]
        /\ asks' = asks /\ group' = group /\ result' = result /\ now' = now /\ items' = items
    BY <1>2 DEF GetNamespace, ListKeys, DeleteKey, CreateKey, goto, IInv, Types, cacheVars,
       keyVars, InFlight
  <2>2. \A k \in CacheKeys : Leads(k)' = Leads(k) /\ Over(k)' = Over(k)
    BY <2>1, LeaderAtWork DEF Leads, Over, IInv
  <2>3. \A k \in CacheKeys : Over(k) => mine'[group'[k]] = mine[group[k]]
    BY <2>1, LeaderAtWork DEF Leads, Over, IInv
  <2>4. FlightsSame
    BY <2>2, <2>3 DEF FlightsSame, flights, flightResults
  <2>5. waitingCalls' = waitingCalls
    BY <2>1 DEF waitingCalls, KeyOf
  <2>6. returning' = returning
    BY <2>1 DEF returning, InFlight
  <2>7. freshEntries' = freshEntries
    BY <2>1 DEF freshEntries, Fresh
  <2> QED BY <2>4, <2>5, <2>6, <2>7 DEF Resolved!cacheVars, FlightsSame
<1> QED BY <1>1, <1>2

\* The clock: entries expire.
LEMMA TickForgets ==
    ASSUME IInv, Tick
    PROVE  Resolved!Forget
<1>1. now' = now + 1 /\ UNCHANGED <<items, group, pc, asks, mine, result>>
  BY DEF Tick, cacheVars, callVars
<1>2. UNCHANGED <<flights, flightResults, waitingCalls, returning>>
  BY <1>1 DEF flights, flightResults, Leads, Over, waitingCalls, KeyOf, returning
<1>3. \A k \in DOMAIN items : items[k].validUntil \in Nat
  BY DEF IInv, ItemsOwned
<1>4. \A k \in DOMAIN items : Fresh(k)' => Fresh(k)
  BY <1>1, <1>3 DEF Fresh, IInv, Types
<1>5. EntriesMayGo
  BY <1>1, <1>4 DEF EntriesMayGo, freshEntries
<1> QED BY <1>2, <1>5 DEF Resolved!Forget, Resolved!OthersMayGo, EntriesMayGo

LEMMA HitHits ==
    ASSUME IInv, NEW c \in Calls, Hit(c)
    PROVE  Resolved!Hit(c, asks[c])
<1>1. /\ pc[c] = "lookup" /\ asks[c] \in CacheKeys /\ KeyOf(c) = asks[c]
      /\ Fresh(asks[c])
  BY KeyIsPair DEF Hit, IInv, Types
<1>2. /\ pc' = [pc EXCEPT ![c] = "done"]
      /\ result' = [result EXCEPT ![c] = items[asks[c]].key]
      /\ UNCHANGED <<group, asks, mine, items, now>>
  BY <1>1 DEF Hit, goto
<1>3. FlightsSame
  BY <1>1, <1>2, OthersFlights DEF IInv, Types, InFlight
<1>4. waitingCalls' = waitingCalls
  BY <1>1, <1>2, OthersWait DEF IInv, Types, InFlight
<1>5. freshEntries' = freshEntries
  BY <1>2 DEF freshEntries, Fresh
<1>6. asks[c] \in DOMAIN freshEntries /\ freshEntries[asks[c]] = items[asks[c]].key
  BY <1>1 DEF freshEntries, Fresh
<1>7. c \notin DOMAIN waitingCalls /\ c \notin DOMAIN returning
  BY <1>1 DEF waitingCalls, returning, InFlight
<1>8. DOMAIN returning' = DOMAIN returning \union {c}
  BY <1>2 DEF returning, IInv, Types
<1>9. \A d \in DOMAIN returning' :
         returning'[d] = IF d = c THEN items[asks[c]].key ELSE returning[d]
  BY <1>2, <1>8 DEF returning, IInv, Types
<1>10. returning' = Resolved!With(returning, c, items[asks[c]].key)
  <2>1. returning' = [d \in DOMAIN returning' |-> returning'[d]]
    BY DEF returning
  <2> QED BY <1>8, <1>9, <2>1 DEF Resolved!With
<1> QED BY <1>3, <1>4, <1>5, <1>6, <1>7, <1>10 DEF Resolved!Hit, Resolved!Idle, FlightsSame

\* A call that waits from now on.
LEMMA WaitsToo ==
    ASSUME Types, NEW c \in Calls, asks[c] \in CacheKeys, asks' = asks,
           pc[c] \notin InFlight \cup {"waiting"}, pc'[c] \in InFlight \cup {"waiting"},
           \A d \in Calls \ {c} : pc'[d] = pc[d]
    PROVE  waitingCalls' = Resolved!With(waitingCalls, c, asks[c])
<1>1. DOMAIN waitingCalls' = DOMAIN waitingCalls \union {c}
  BY DEF waitingCalls
<1>2. \A d \in DOMAIN waitingCalls' :
         waitingCalls'[d] = IF d = c THEN asks[c] ELSE waitingCalls[d]
  BY <1>1, KeyIsPair DEF waitingCalls, KeyOf
<1>3. waitingCalls' = [d \in DOMAIN waitingCalls' |-> waitingCalls'[d]]
  BY DEF waitingCalls
<1> QED BY <1>1, <1>2, <1>3 DEF Resolved!With

LEMMA LeadJoins ==
    ASSUME IInv, NEW c \in Calls, Lead(c)
    PROVE  Resolved!Join(c, asks[c])
<1>1. pc[c] = "missed" /\ asks[c] \in CacheKeys /\ KeyOf(c) = asks[c]
  BY KeyIsPair DEF Lead, IInv, Types
<1>2. /\ group[asks[c]] = NoCall /\ group' = [group EXCEPT ![asks[c]] = c]
      /\ pc' = [pc EXCEPT ![c] = "getNamespace"]
      /\ UNCHANGED <<items, now, asks, mine, result>>
  BY <1>1 DEF Lead, goto, cacheVars
<1>3. waitingCalls' = Resolved!With(waitingCalls, c, asks[c])
  BY <1>1, <1>2, WaitsToo DEF IInv, Types, InFlight
<1>4. freshEntries' = freshEntries /\ returning' = returning
  BY <1>1, <1>2 DEF freshEntries, Fresh, returning, IInv, Types
<1>5. c \notin DOMAIN waitingCalls /\ c \notin DOMAIN returning
  BY <1>1 DEF waitingCalls, returning, InFlight
<1>6. \A k \in CacheKeys \ {asks[c]} :
         group'[k] = group[k] /\ Leads(k)' = Leads(k) /\ Over(k)' = Over(k)
  BY <1>1, <1>2, LeaderAtWork DEF Leads, Over, IInv, Types
<1>7. /\ ~Leads(asks[c]) /\ ~Over(asks[c])
      /\ Leads(asks[c])' /\ ~Over(asks[c])'
  BY <1>1, <1>2, ResolverAssumption DEF Leads, Over, IInv, Types
<1>8. flights' = flights \union {asks[c]} /\ asks[c] \notin DOMAIN flightResults
  <2>1. \A k \in CacheKeys : k \in flights' <=> (k \in flights \/ k = asks[c])
    BY <1>2, <1>6, <1>7 DEF flights
  <2>2. flights' \subseteq CacheKeys /\ flights \subseteq CacheKeys
    BY DEF flights
  <2>3. asks[c] \notin DOMAIN flightResults
    BY <1>7 DEF flightResults
  <2> QED BY <1>1, <2>1, <2>2, <2>3
<1>9. flightResults' = flightResults
  BY <1>2, <1>6, <1>7 DEF flightResults
<1> QED BY <1>3, <1>4, <1>5, <1>8, <1>9 DEF Resolved!Join, Resolved!Idle

LEMMA JoinJoins ==
    ASSUME IInv, NEW c \in Calls, Join(c)
    PROVE  Resolved!Join(c, asks[c])
<1>1. pc[c] = "missed" /\ asks[c] \in CacheKeys /\ KeyOf(c) = asks[c]
  BY KeyIsPair DEF Join, IInv, Types
<1>2. /\ group[asks[c]] # NoCall
      /\ pc' = [pc EXCEPT ![c] = "waiting"]
      /\ UNCHANGED <<items, now, asks, mine, result, group>>
  BY <1>1 DEF Join, goto, cacheVars
<1>3. waitingCalls' = Resolved!With(waitingCalls, c, asks[c])
  BY <1>1, <1>2, WaitsToo DEF IInv, Types, InFlight
<1>4. freshEntries' = freshEntries /\ returning' = returning
  BY <1>1, <1>2 DEF freshEntries, Fresh, returning, IInv, Types
<1>5. c \notin DOMAIN waitingCalls /\ c \notin DOMAIN returning
  BY <1>1 DEF waitingCalls, returning, InFlight
<1>6. FlightsSame
  BY <1>1, <1>2, OthersFlights DEF IInv, Types, InFlight
<1>7. asks[c] \in flights \/ asks[c] \in DOMAIN flightResults
  BY <1>1, <1>2 DEF flights, flightResults, Leads
<1>8. flights' = IF asks[c] \in DOMAIN flightResults THEN flights ELSE flights \union {asks[c]}
  BY <1>6, <1>7 DEF FlightsSame
<1> QED BY <1>3, <1>4, <1>5, <1>6, <1>8 DEF Resolved!Join, Resolved!Idle, FlightsSame

\* The flights, in a step of a flight that is over after it and was not before.
LEMMA FlightEnds ==
    ASSUME IInv, NEW c \in Calls, pc[c] \in InFlight \ {"finish"}, pc'[c] = "finish",
           \A d \in Calls \ {c} : pc'[d] = pc[d],
           UNCHANGED <<group, mine, asks, result>>
    PROVE  /\ asks[c] \in flights
           /\ flights' = flights \ {asks[c]}
           /\ flightResults' = Resolved!With(flightResults, asks[c], mine[c])
           /\ waitingCalls' = waitingCalls /\ returning' = returning
<1>1. asks[c] \in CacheKeys /\ group[asks[c]] = c /\ c # NoCall
  BY ResolverAssumption DEF IInv, Types, LedByOne, InFlight
<1>2. \A k \in CacheKeys : Leads(k)' = Leads(k)
  BY DEF Leads
<1>3. Leads(asks[c]) /\ ~Over(asks[c]) /\ Over(asks[c])'
  BY <1>1 DEF Leads, Over
<1>4. \A k \in CacheKeys \ {asks[c]} : Over(k)' = Over(k)
  BY <1>2, LeaderAtWork DEF Leads, Over, IInv
<1>5. asks[c] \in flights
  BY <1>1, <1>3 DEF flights
<1>6. flights' = flights \ {asks[c]}
  <2>1. \A k \in CacheKeys : k \in flights' <=> (k \in flights /\ k # asks[c])
    BY <1>2, <1>3, <1>4 DEF flights
  <2>2. flights' \subseteq CacheKeys /\ flights \subseteq CacheKeys
    BY DEF flights
  <2> QED BY <2>1, <2>2
<1>7. DOMAIN flightResults' = DOMAIN flightResults \union {asks[c]}
  <2>1. \A k \in CacheKeys :
           k \in DOMAIN flightResults' <=> (k \in DOMAIN flightResults \/ k = asks[c])
    BY <1>3, <1>4 DEF flightResults
  <2>2. DOMAIN flightResults' \subseteq CacheKeys /\ DOMAIN flightResults \subseteq CacheKeys
    BY DEF flightResults
  <2> QED BY <1>1, <2>1, <2>2
<1>8. \A k \in DOMAIN flightResults' :
         flightResults'[k] = IF k = asks[c] THEN mine[c] ELSE flightResults[k]
  <2>1. \A k \in DOMAIN flightResults' : flightResults'[k] = mine[group[k]]
    BY DEF flightResults
  <2>2. \A k \in DOMAIN flightResults : flightResults[k] = mine[group[k]]
    BY DEF flightResults
  <2> QED BY <1>1, <1>7, <2>1, <2>2
<1>9. flightResults' = Resolved!With(flightResults, asks[c], mine[c])
  <2>1. flightResults' = [k \in DOMAIN flightResults' |-> flightResults'[k]]
    BY DEF flightResults
  <2> QED BY <1>7, <1>8, <2>1 DEF Resolved!With
<1>10. waitingCalls' = waitingCalls
  BY DEF waitingCalls, KeyOf, InFlight
<1>11. returning' = returning
  BY DEF returning, InFlight
<1> QED BY <1>5, <1>6, <1>9, <1>10, <1>11

LEMMA FailureFails ==
    ASSUME IInv, NEW c \in Calls, GetNamespaceFails(c) \/ CreateKeyFails(c)
    PROVE  Resolved!Fail(asks[c])
<1>1. /\ pc[c] \in InFlight \ {"put", "finish"} /\ pc' = [pc EXCEPT ![c] = "finish"]
      /\ UNCHANGED <<group, mine, asks, result, items, now>>
  BY DEF GetNamespaceFails, CreateKeyFails, goto, InFlight, cacheVars
<1>2. mine[c] = NoKey
  BY <1>1 DEF IInv, FlightsOwned
<1>3. freshEntries' = freshEntries
  BY <1>1 DEF freshEntries, Fresh
<1>4. /\ asks[c] \in flights /\ flights' = flights \ {asks[c]}
      /\ flightResults' = Resolved!With(flightResults, asks[c], mine[c])
      /\ waitingCalls' = waitingCalls /\ returning' = returning
  BY <1>1, FlightEnds DEF IInv, Types
<1> QED BY <1>2, <1>3, <1>4 DEF Resolved!Fail

\* What is put in the cache counts, and what else counts did so before.
LEMMA PutLoads ==
    ASSUME IInv, NEW c \in Calls, PutCache(c)
    PROVE  Resolved!Load(asks[c])
<1>1. /\ pc[c] = "put" /\ pc' = [pc EXCEPT ![c] = "finish"]
      /\ UNCHANGED <<group, mine, asks, result, now>>
  BY DEF PutCache, goto
<1>2. asks[c] \in CacheKeys /\ KeyOf(c) = asks[c]
  BY <1>1, KeyIsPair DEF IInv, Types
<1>3. /\ asks[c] \in flights /\ flights' = flights \ {asks[c]}
      /\ flightResults' = Resolved!With(flightResults, asks[c], mine[c])
      /\ waitingCalls' = waitingCalls /\ returning' = returning
  BY <1>1, FlightEnds DEF IInv, Types, InFlight
<1> DEFINE entry == [key |-> mine[c], validUntil |-> ValidUntil]
<1>4. /\ asks[c] \in DOMAIN items' /\ DOMAIN items' \subseteq DOMAIN items \union {asks[c]}
      /\ \A x \in DOMAIN items' : items'[x] = IF x = asks[c] THEN entry ELSE items[x]
  BY <1>2 DEF PutCache
<1>5. entry.key = mine[c] /\ entry.validUntil = ValidUntil
  OBVIOUS
<1>6. now < ValidUntil
  BY ResolverAssumption DEF ValidUntil, IInv, Types
<1> HIDE DEF entry
<1>7. \A x \in DOMAIN items' \ {asks[c]} : Fresh(x)' => Fresh(x)
  BY <1>1, <1>4 DEF Fresh
<1>8. Fresh(asks[c])'
  BY <1>1, <1>4, <1>5, <1>6 DEF Fresh
<1>9. asks[c] \in DOMAIN freshEntries' /\ freshEntries'[asks[c]] = mine[c]
  BY <1>1, <1>4, <1>5, <1>8 DEF freshEntries
<1>10. /\ DOMAIN freshEntries' \subseteq DOMAIN freshEntries \union {asks[c]}
       /\ \A x \in DOMAIN freshEntries' \ {asks[c]} : freshEntries'[x] = freshEntries[x]
  BY <1>4, <1>7 DEF freshEntries
<1> QED BY <1>3, <1>9, <1>10 DEF Resolved!Load, Resolved!OthersMayGo

\* Everyone who waits for the flight is told, its leader like the others.
LEMMA FinishEnds ==
    ASSUME IInv, NEW c \in Calls, Finish(c)
    PROVE  Resolved!End(asks[c])
<1> DEFINE told == {d \in DOMAIN waitingCalls : waitingCalls[d] = asks[c]}
<1>1. /\ pc[c] = "finish" /\ asks[c] \in CacheKeys /\ KeyOf(c) = asks[c]
      /\ group[asks[c]] = c /\ c # NoCall
  BY KeyIsPair, ResolverAssumption DEF Finish, IInv, Types, LedByOne, InFlight
<1>2. \A d \in Calls : pc[d] # "idle" => KeyOf(d) = asks[d]
  BY KeyIsPair DEF IInv, Types
<1>3. \A d \in Calls :
         d \in told <=> d = c \/ (pc[d] = "waiting" /\ KeyOf(d) = KeyOf(c))
  BY <1>1, <1>2 DEF waitingCalls, IInv, LedByOne, InFlight
<1>4. told \subseteq Calls
  BY DEF waitingCalls
<1> HIDE DEF told
<1>5. /\ group' = [group EXCEPT ![asks[c]] = NoCall]
      /\ UNCHANGED <<items, now, asks, mine>>
      /\ \A d \in Calls : /\ pc'[d] = IF d \in told THEN "done" ELSE pc[d]
                          /\ result'[d] = IF d \in told THEN mine[c] ELSE result[d]
  BY <1>1, <1>3 DEF Finish, cacheVars
<1>6. freshEntries' = freshEntries
  BY <1>5 DEF freshEntries, Fresh
<1>7. \A k \in CacheKeys \ {asks[c]} :
         /\ group'[k] = group[k]
         /\ Leads(k) => group[k] \notin told
  BY <1>1, <1>3, <1>5, LeaderAtWork DEF InFlight, IInv, Types
<1>8. \A k \in CacheKeys \ {asks[c]} : Leads(k)' = Leads(k) /\ Over(k)' = Over(k)
  BY <1>5, <1>7, LeaderAtWork DEF Leads, Over, IInv
<1>9. /\ Over(asks[c]) /\ ~Leads(asks[c])' /\ ~Over(asks[c])'
  BY <1>1, <1>5 DEF Leads, Over, IInv, Types
<1>10. flights' = flights
  <2>1. \A k \in CacheKeys : k \in flights' <=> k \in flights
    BY <1>5, <1>8, <1>9 DEF flights
  <2>2. flights' \subseteq CacheKeys /\ flights \subseteq CacheKeys
    BY DEF flights
  <2> QED BY <2>1, <2>2
<1>11. asks[c] \in DOMAIN flightResults /\ flightResults[asks[c]] = mine[c]
  BY <1>1, <1>9 DEF flightResults
<1>12. flightResults' = Resolved!Less(flightResults, {asks[c]})
  <2>1. DOMAIN flightResults' = DOMAIN flightResults \ {asks[c]}
    <3>1. \A k \in CacheKeys :
             k \in DOMAIN flightResults' <=> (k \in DOMAIN flightResults /\ k # asks[c])
      BY <1>5, <1>8, <1>9 DEF flightResults
    <3>2. DOMAIN flightResults' \subseteq CacheKeys /\ DOMAIN flightResults \subseteq CacheKeys
      BY DEF flightResults
    <3> QED BY <3>1, <3>2
  <2>2. \A k \in DOMAIN flightResults' : flightResults'[k] = flightResults[k]
    <3>1. \A k \in DOMAIN flightResults' : flightResults'[k] = mine'[group'[k]]
      BY DEF flightResults
    <3>2. \A k \in DOMAIN flightResults : k \in CacheKeys /\ flightResults[k] = mine[group[k]]
      BY DEF flightResults
    <3> QED BY <1>5, <1>7, <2>1, <3>1, <3>2
  <2>3. flightResults' = [k \in DOMAIN flightResults' |-> flightResults'[k]]
    BY DEF flightResults
  <2> QED BY <2>1, <2>2, <2>3 DEF Resolved!Less
<1>13. waitingCalls' = Resolved!Less(waitingCalls, told)
  <2>1. DOMAIN waitingCalls' = DOMAIN waitingCalls \ told
    BY <1>1, <1>3, <1>4, <1>5 DEF waitingCalls, InFlight
  <2>2. \A d \in DOMAIN waitingCalls' : waitingCalls'[d] = waitingCalls[d]
    BY <1>5, <2>1 DEF waitingCalls, KeyOf
  <2>3. waitingCalls' = [d \in DOMAIN waitingCalls' |-> waitingCalls'[d]]
    BY DEF waitingCalls
  <2> QED BY <2>1, <2>2, <2>3 DEF Resolved!Less
<1>14. returning' = [d \in DOMAIN returning \union told |->
                       IF d \in told THEN flightResults[asks[c]] ELSE returning[d]]
  <2>1. DOMAIN returning' = DOMAIN returning \union told
    BY <1>4, <1>5 DEF returning
  <2>2. \A d \in DOMAIN returning' :
           returning'[d] = IF d \in told THEN flightResults[asks[c]] ELSE returning[d]
    BY <1>5, <1>11, <2>1 DEF returning
  <2>3. returning' = [d \in DOMAIN returning' |-> returning'[d]]
    BY DEF returning
  <2> QED BY <2>1, <2>2, <2>3
<1> QED BY <1>6, <1>10, <1>11, <1>12, <1>13, <1>14 DEF Resolved!End, told

LEMMA ReturnReturns ==
    ASSUME IInv, NEW c \in Calls, Return(c)
    PROVE  Resolved!Return(c)
<1>1. /\ pc[c] = "done" /\ pc' = [pc EXCEPT ![c] = "idle"]
      /\ asks' = [asks EXCEPT ![c] = NoRequest]
      /\ mine' = [mine EXCEPT ![c] = NoKey]
      /\ result' = [result EXCEPT ![c] = NoKey]
      /\ UNCHANGED <<items, now, group>>
  BY DEF Return, goto, cacheVars
<1>2. \A k \in CacheKeys : Leads(k)' = Leads(k) /\ Over(k)' = Over(k)
  BY <1>1, LeaderAtWork DEF Leads, Over, IInv, Types, InFlight
<1>3. \A k \in CacheKeys : Over(k) => mine'[group'[k]] = mine[group[k]]
  BY <1>1, LeaderAtWork DEF Over, IInv, Types, InFlight
<1>4. FlightsSame
  BY <1>2, <1>3 DEF FlightsSame, flights, flightResults
<1>5. waitingCalls' = waitingCalls
  BY <1>1, OthersWait DEF IInv, Types, InFlight
<1>6. freshEntries' = freshEntries
  BY <1>1 DEF freshEntries, Fresh
<1>7. c \in DOMAIN returning /\ returning' = Resolved!Less(returning, {c})
  <2>1. c \in DOMAIN returning /\ DOMAIN returning' = DOMAIN returning \ {c}
    BY <1>1 DEF returning, IInv, Types
  <2>2. \A d \in DOMAIN returning' : returning'[d] = returning[d]
    BY <1>1, <2>1 DEF returning, IInv, Types
  <2>3. returning' = [d \in DOMAIN returning' |-> returning'[d]]
    BY DEF returning
  <2> QED BY <2>1, <2>2, <2>3 DEF Resolved!Less
<1> QED BY <1>4, <1>5, <1>6, <1>7 DEF Resolved!Return, FlightsSame

\* Every step of the resolver is one of the cache, or none.
LEMMA ResolverStep ==
    IInv /\ [Next]_vars => [Resolved!Next]_(Resolved!cacheVars)
<1> SUFFICES ASSUME IInv, [Next]_vars
             PROVE  Resolved!Next \/ UNCHANGED Resolved!cacheVars
  OBVIOUS
<1>1. CASE Tick
  BY <1>1, TickForgets DEF Resolved!Next
<1>2. ASSUME NEW c \in Calls, NEW r \in Requests, Request(c, r)
      PROVE  UNCHANGED Resolved!cacheVars
  BY <1>2, QuietSteps
<1>3. ASSUME NEW c \in Calls,
             Miss(c) \/ GetNamespace(c) \/ ListKeys(c) \/ DeleteKey(c) \/ CreateKey(c)
      PROVE  UNCHANGED Resolved!cacheVars
  BY <1>3, QuietSteps
<1>4. ASSUME NEW c \in Calls, pc[c] # "idle"
      PROVE  asks[c] \in CacheKeys
  BY <1>4 DEF IInv, Types
<1>5. ASSUME NEW c \in Calls, Hit(c)
      PROVE  Resolved!Next
  <2>1. asks[c] \in CacheKeys
    BY <1>4, <1>5 DEF Hit
  <2> QED BY <1>5, <2>1, HitHits DEF Resolved!Next
<1>6. ASSUME NEW c \in Calls, Lead(c) \/ Join(c)
      PROVE  Resolved!Next
  <2>1. asks[c] \in CacheKeys
    BY <1>4, <1>6 DEF Lead, Join
  <2>2. Resolved!Join(c, asks[c])
    BY <1>6, LeadJoins, JoinJoins
  <2> QED BY <2>1, <2>2 DEF Resolved!Next
<1>7. ASSUME NEW c \in Calls, GetNamespaceFails(c) \/ CreateKeyFails(c)
      PROVE  Resolved!Next
  BY <1>7, FailureFails DEF Resolved!Next, Resolved!Fail
<1>8. ASSUME NEW c \in Calls, PutCache(c)
      PROVE  Resolved!Next
  BY <1>8, PutLoads DEF Resolved!Next, Resolved!Load
<1>9. ASSUME NEW c \in Calls, Finish(c)
      PROVE  Resolved!Next
  BY <1>9, FinishEnds DEF Resolved!Next, Resolved!End
<1>10. ASSUME NEW c \in Calls, Return(c)
       PROVE  Resolved!Next
  BY <1>10, ReturnReturns DEF Resolved!Next, Resolved!Return
<1>11. CASE UNCHANGED vars
  BY <1>11 DEF vars, Resolved!cacheVars, freshEntries, Fresh, flights, flightResults, Leads,
     Over, waitingCalls, KeyOf, returning, cacheVars, callVars
<1> QED BY <1>1, <1>2, <1>3, <1>5, <1>6, <1>7, <1>8, <1>9, <1>10, <1>11
       DEF Next, Resolve, resolveAndCache

\* Resolve keeps the promise of a cache in front of shared loads, for any number of
\* calls, users and namespaces: a call returns the entry that is fresh, or what the
\* one flight for its cache key that was under way while it waited has come to.
THEOREM ResolverRefinement == Spec => ResolverImplementsCache
<1>1. Init => Resolved!Init
  <2> SUFFICES ASSUME Init PROVE Resolved!Init
    OBVIOUS
  <2>1. DOMAIN freshEntries = {} /\ flights = {} /\ DOMAIN flightResults = {}
    BY DEF Init, freshEntries, flights, flightResults, Leads, Over
  <2>2. DOMAIN waitingCalls = {} /\ DOMAIN returning = {}
    BY DEF Init, waitingCalls, returning, InFlight
  <2> QED BY <2>1, <2>2 DEF Resolved!Init, freshEntries, flightResults, waitingCalls, returning
<1> QED BY <1>1, ResolverStep, Invariant, PTL DEF Spec, ResolverImplementsCache, Resolved!Spec
=============================================================================
