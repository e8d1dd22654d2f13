--------------------------- MODULE SequenceLemmas ---------------------------
(***************************************************************************)
(* Facts about sequences that the proofs about the queues and the lists of *)
(* subscribers share: what removing one element, adding one, or taking the *)
(* first does to the elements and to their being distinct.                 *)
(***************************************************************************)
EXTENDS Naturals, Sequences, SequencesExt, SequenceTheorems, TLAPS

\* An element of a sequence is found at one of its positions.
LEMMA ToSetProperties ==
  ASSUME NEW S, NEW q \in Seq(S)
  PROVE  /\ ToSet(q) = {q[i] : i \in 1 .. Len(q)}
         /\ ToSet(q) \subseteq S
         /\ ToSet(q) = {} <=> q = <<>>
<1>1. DOMAIN q = 1 .. Len(q) /\ Len(q) \in Nat
  BY LenProperties
<1>2. ToSet(q) = {q[i] : i \in 1 .. Len(q)}
  BY <1>1 DEF ToSet
<1>3. ToSet(q) \subseteq S
  BY <1>2, ElementOfSeq
<1>4. q = <<>> => ToSet(q) = {}
  BY <1>2, EmptySeq
<1>5. q # <<>> => q[1] \in ToSet(q)
  BY <1>1, <1>2, EmptySeq
<1> QED
  BY <1>2, <1>3, <1>4, <1>5

\* A function on the numbers up to n is a sequence of length n.
LEMMA FunctionSeq ==
  ASSUME NEW n \in Nat, NEW S, NEW f \in [1 .. n -> S]
  PROVE  f \in Seq(S) /\ Len(f) = n
<1>1. f \in Seq(S)
  BY SeqDef
<1>2. Len(f) \in Nat /\ 1 .. Len(f) = 1 .. n
  BY <1>1, LenProperties
<1> QED
  BY <1>1, <1>2

\* Removing an element leaves a sequence one shorter, in the same order.
LEMMA RemoveAtProperties ==
  ASSUME NEW S, NEW q \in Seq(S), NEW i \in 1 .. Len(q)
  PROVE  /\ RemoveAt(q, i) \in Seq(S)
         /\ Len(RemoveAt(q, i)) = Len(q) - 1
         /\ \A j \in 1 .. Len(q) - 1 :
              RemoveAt(q, i)[j] = IF j < i THEN q[j] ELSE q[j + 1]
<1> DEFINE l == SubSeq(q, 1, i - 1)
           r == SubSeq(q, i + 1, Len(q))
<1>1. /\ Len(q) \in Nat
      /\ \A j \in 1 .. Len(q) : q[j] \in S
  BY LenProperties, ElementOfSeq
<1>2. /\ l \in Seq(S) /\ Len(l) = i - 1
      /\ \A j \in 1 .. i - 1 : l[j] = q[j]
  <2>1. 1 \in Int /\ i - 1 \in Int /\ \A j \in 1 .. i - 1 : q[j] \in S
    BY <1>1
  <2>2. /\ l \in Seq(S)
        /\ Len(l) = IF 1 <= i - 1 THEN (i - 1) - 1 + 1 ELSE 0
        /\ \A j \in 1 .. (i - 1) - 1 + 1 : l[j] = q[1 + j - 1]
    BY <2>1, SubSeqProperties
  <2> HIDE DEF l
  <2> QED
    BY <1>1, <2>2
<1>3. /\ r \in Seq(S) /\ Len(r) = Len(q) - i
      /\ \A j \in 1 .. Len(q) - i : r[j] = q[i + j]
  <2>1. /\ i + 1 \in Int /\ Len(q) \in Int
        /\ \A j \in i + 1 .. Len(q) : q[j] \in S
    BY <1>1
  <2>2. /\ r \in Seq(S)
        /\ Len(r) = IF i + 1 <= Len(q) THEN Len(q) - (i + 1) + 1 ELSE 0
        /\ \A j \in 1 .. Len(q) - (i + 1) + 1 : r[j] = q[(i + 1) + j - 1]
    BY <2>1, SubSeqProperties
  <2> HIDE DEF r
  <2>3. Len(r) = Len(q) - i
    BY <1>1, <2>2
  <2>4. ASSUME NEW j \in 1 .. Len(q) - i PROVE r[j] = q[i + j]
    <3>1. j \in 1 .. Len(q) - (i + 1) + 1 /\ (i + 1) + j - 1 = i + j
      BY <1>1, <2>4
    <3> QED
      BY <2>2, <3>1
  <2> QED
    BY <2>2, <2>3, <2>4
<1>4. /\ l \o r \in Seq(S) /\ Len(l \o r) = Len(l) + Len(r)
      /\ \A j \in 1 .. Len(l) + Len(r) :
           (l \o r)[j] = IF j <= Len(l) THEN l[j] ELSE r[j - Len(l)]
  <2> HIDE DEF l, r
  <2> QED
    BY <1>2, <1>3, ConcatProperties
<1>5. RemoveAt(q, i) = l \o r
  BY Zenon DEF RemoveAt
<1> HIDE DEF l, r
<1>6. ASSUME NEW j \in 1 .. Len(q) - 1
      PROVE  (l \o r)[j] = IF j < i THEN q[j] ELSE q[j + 1]
  <2>1. j \in 1 .. Len(l) + Len(r)
    BY <1>1, <1>2, <1>3, <1>6
  <2>2. CASE j < i
    <3>1. (l \o r)[j] = l[j]
      BY <1>1, <1>2, <1>4, <2>1, <2>2
    <3> QED
      BY <1>1, <1>2, <3>1, <2>2
  <2>3. CASE i <= j
    <3>1. (l \o r)[j] = r[j - Len(l)]
      BY <1>1, <1>2, <1>4, <2>1, <2>3
    <3>2. j - Len(l) \in 1 .. Len(q) - i /\ i + (j - Len(l)) = j + 1
      BY <1>1, <1>2, <1>6, <2>3
    <3>3. r[j - Len(l)] = q[j + 1]
      BY <1>3, <3>2
    <3> QED
      BY <3>1, <3>3, <2>3
  <2>4. j < i \/ i <= j
    BY <1>1, <1>6
  <2> QED
    BY <2>2, <2>3, <2>4
<1>7. Len(l) + Len(r) = Len(q) - 1
  BY <1>1, <1>2, <1>3
<1> QED
  BY <1>4, <1>5, <1>6, <1>7

\* From a sequence of distinct elements the removal takes just that element.
LEMMA RemoveAtInjective ==
  ASSUME NEW S, NEW q \in Seq(S), NEW i \in 1 .. Len(q), IsInjective(q)
  PROVE  /\ IsInjective(RemoveAt(q, i))
         /\ ToSet(RemoveAt(q, i)) = ToSet(q) \ {q[i]}
<1> DEFINE r == RemoveAt(q, i)
<1>1. /\ r \in Seq(S) /\ Len(r) = Len(q) - 1 /\ Len(q) \in Nat
      /\ \A j \in 1 .. Len(q) - 1 : r[j] = IF j < i THEN q[j] ELSE q[j + 1]
  BY RemoveAtProperties, LenProperties
<1>2. DOMAIN q = 1 .. Len(q) /\ DOMAIN r = 1 .. Len(q) - 1
  BY <1>1, LenProperties
<1> HIDE DEF r
<1>3. \A a, b \in 1 .. Len(q) : q[a] = q[b] => a = b
  BY <1>2 DEF IsInjective
<1>4. IsInjective(r)
  BY <1>1, <1>2, <1>3 DEF IsInjective
<1>5. ToSet(q) = {q[j] : j \in 1 .. Len(q)}
      /\ ToSet(r) = {r[j] : j \in 1 .. Len(q) - 1}
  BY <1>2 DEF ToSet
<1>6. ASSUME NEW y \in ToSet(r) PROVE y \in ToSet(q) \ {q[i]}
  <2>1. PICK j \in 1 .. Len(q) - 1 : y = r[j]
    BY <1>5, <1>6
  <2>2. \E k \in 1 .. Len(q) : y = q[k] /\ k # i
    BY <1>1, <2>1
  <2> QED
    BY <1>3, <1>5, <2>2
<1>7. ASSUME NEW y \in ToSet(q) \ {q[i]} PROVE y \in ToSet(r)
  <2>1. PICK k \in 1 .. Len(q) : y = q[k] /\ k # i
    BY <1>5, <1>7
  <2>2. CASE k < i
    BY <1>1, <1>5, <2>1, <2>2
  <2>3. CASE k > i
    <3>1. k - 1 \in 1 .. Len(q) - 1 /\ r[k - 1] = q[k]
      BY <1>1, <2>1, <2>3
    <3> QED
      BY <1>5, <2>1, <3>1
  <2> QED
    BY <1>1, <2>1, <2>2, <2>3
<1> QED
  BY <1>4, <1>6, <1>7 DEF r

\* Adding an element at the end.
LEMMA AppendSet ==
  ASSUME NEW S, NEW q \in Seq(S), NEW e \in S
  PROVE  /\ ToSet(Append(q, e)) = ToSet(q) \cup {e}
         /\ IsInjective(Append(q, e)) <=> IsInjective(q) /\ e \notin ToSet(q)
<1> DEFINE r == Append(q, e)
<1>1. /\ r \in Seq(S) /\ Len(r) = Len(q) + 1 /\ Len(q) \in Nat
      /\ \A i \in 1 .. Len(q) : r[i] = q[i]
      /\ r[Len(q) + 1] = e
  BY AppendProperties, LenProperties
<1>2. DOMAIN q = 1 .. Len(q) /\ DOMAIN r = 1 .. Len(q) + 1
  BY <1>1, LenProperties
<1> HIDE DEF r
<1>3. ToSet(r) = ToSet(q) \cup {e}
  BY <1>1, <1>2 DEF ToSet
<1>4. IsInjective(r) <=> IsInjective(q) /\ e \notin ToSet(q)
  <2>1. ASSUME IsInjective(r) PROVE IsInjective(q) /\ e \notin ToSet(q)
    BY <1>1, <1>2, <2>1 DEF ToSet, IsInjective
  <2>2. ASSUME IsInjective(q), e \notin ToSet(q) PROVE IsInjective(r)
    <3>1. \A a \in 1 .. Len(q) : q[a] # e
      BY <1>2, <2>2 DEF ToSet
    <3>2. \A a, b \in 1 .. Len(q) : q[a] = q[b] => a = b
      BY <1>2, <2>2 DEF IsInjective
    <3> QED
      BY <1>1, <1>2, <3>1, <3>2 DEF IsInjective
  <2> QED
    BY <2>1, <2>2
<1> QED
  BY <1>3, <1>4 DEF r

\* Putting one sequence behind another.
LEMMA ConcatSet ==
  ASSUME NEW S, NEW q \in Seq(S), NEW r \in Seq(S)
  PROVE  /\ ToSet(q \o r) = ToSet(q) \cup ToSet(r)
         /\ IsInjective(q \o r) <=>
              /\ IsInjective(q) /\ IsInjective(r)
              /\ ToSet(q) \cap ToSet(r) = {}
<1> DEFINE c == q \o r
<1>1. /\ c \in Seq(S) /\ Len(c) = Len(q) + Len(r)
      /\ Len(q) \in Nat /\ Len(r) \in Nat
      /\ \A i \in 1 .. Len(q) + Len(r) :
           c[i] = IF i <= Len(q) THEN q[i] ELSE r[i - Len(q)]
  BY ConcatProperties, LenProperties
<1>2. /\ DOMAIN q = 1 .. Len(q) /\ DOMAIN r = 1 .. Len(r)
      /\ DOMAIN c = 1 .. Len(q) + Len(r)
  BY <1>1, LenProperties
<1> HIDE DEF c
<1>3. /\ \A i \in 1 .. Len(q) : i \in DOMAIN c /\ c[i] = q[i]
      /\ \A i \in 1 .. Len(r) : Len(q) + i \in DOMAIN c /\ c[Len(q) + i] = r[i]
  <2>1. ASSUME NEW i \in 1 .. Len(r)
        PROVE  Len(q) + i \in DOMAIN c /\ c[Len(q) + i] = r[i]
    <3>1. /\ Len(q) + i \in 1 .. Len(q) + Len(r) /\ ~(Len(q) + i <= Len(q))
          /\ (Len(q) + i) - Len(q) = i
      BY <1>1, <2>1
    <3> QED
      BY <1>1, <1>2, <3>1
  <2> QED
    BY <1>1, <1>2, <2>1
<1>4. \A k \in DOMAIN c : \/ k \in 1 .. Len(q)
                          \/ \E i \in 1 .. Len(r) : k = Len(q) + i
  <2>1. ASSUME NEW k \in DOMAIN c, k \notin 1 .. Len(q)
        PROVE  k - Len(q) \in 1 .. Len(r) /\ k = Len(q) + (k - Len(q))
    BY <1>1, <1>2, <2>1
  <2> QED
    BY <2>1
<1>5. ToSet(c) = ToSet(q) \cup ToSet(r)
  <2>1. ToSet(c) \subseteq ToSet(q) \cup ToSet(r)
    <3>1. ASSUME NEW k \in DOMAIN c, k \in 1 .. Len(q)
          PROVE  c[k] \in ToSet(q)
      BY <1>2, <1>3, <3>1 DEF ToSet
    <3>2. ASSUME NEW k \in DOMAIN c, NEW i \in 1 .. Len(r), k = Len(q) + i
          PROVE  c[k] \in ToSet(r)
      BY <1>2, <1>3, <3>2 DEF ToSet
    <3> QED
      BY <1>4, <3>1, <3>2 DEF ToSet
  <2>2. ToSet(q) \cup ToSet(r) \subseteq ToSet(c)
    BY <1>2, <1>3 DEF ToSet
  <2> QED
    BY <2>1, <2>2
<1>6. ASSUME IsInjective(c)
      PROVE  IsInjective(q) /\ IsInjective(r) /\ ToSet(q) \cap ToSet(r) = {}
  <2>1. \A a, b \in DOMAIN c : c[a] = c[b] => a = b
    BY <1>6 DEF IsInjective
  <2>2. IsInjective(q)
    BY <1>2, <1>3, <2>1 DEF IsInjective
  <2>3. IsInjective(r)
    <3>1. ASSUME NEW a \in 1 .. Len(r), NEW b \in 1 .. Len(r), r[a] = r[b]
          PROVE  a = b
      <4>1. Len(q) + a = Len(q) + b
        BY <1>3, <2>1, <3>1
      <4> QED
        BY <1>1, <4>1
    <3> QED
      BY <1>2, <3>1 DEF IsInjective
  <2>4. ASSUME NEW a \in 1 .. Len(q), NEW b \in 1 .. Len(r), q[a] = r[b]
        PROVE  FALSE
    <3>1. a = Len(q) + b
      BY <1>3, <2>1, <2>4
    <3> QED
      BY <1>1, <3>1
  <2> QED
    BY <1>2, <2>2, <2>3, <2>4 DEF ToSet
<1>7. ASSUME IsInjective(q), IsInjective(r), ToSet(q) \cap ToSet(r) = {}
      PROVE  IsInjective(c)
  <2>1. \A a, b \in 1 .. Len(q) : q[a] = q[b] => a = b
    BY <1>2, <1>7 DEF IsInjective
  <2>2. \A a, b \in 1 .. Len(r) : r[a] = r[b] => a = b
    BY <1>2, <1>7 DEF IsInjective
  <2>3. \A a \in 1 .. Len(q), b \in 1 .. Len(r) : q[a] # r[b]
    BY <1>2, <1>7 DEF ToSet
  <2>4. ASSUME NEW a \in DOMAIN c, NEW b \in DOMAIN c, c[a] = c[b]
        PROVE  a = b
    <3>1. CASE a \in 1 .. Len(q) /\ b \in 1 .. Len(q)
      BY <1>3, <2>1, <2>4, <3>1
    <3>2. CASE a \notin 1 .. Len(q) /\ b \notin 1 .. Len(q)
      <4>1. PICK i \in 1 .. Len(r), j \in 1 .. Len(r) :
              a = Len(q) + i /\ b = Len(q) + j
        BY <1>4, <3>2
      <4>2. r[i] = r[j]
        BY <1>3, <2>4, <4>1
      <4> QED
        BY <2>2, <4>1, <4>2
    <3>3. CASE a \in 1 .. Len(q) /\ b \notin 1 .. Len(q)
      BY <1>3, <1>4, <2>3, <2>4, <3>3
    <3>4. CASE a \notin 1 .. Len(q) /\ b \in 1 .. Len(q)
      BY <1>3, <1>4, <2>3, <2>4, <3>4
    <3> QED
      BY <3>1, <3>2, <3>3, <3>4
  <2> QED
    BY <2>4 DEF IsInjective
<1> QED
  BY <1>5, <1>6, <1>7 DEF c

\* Taking the first element off.
LEMMA TailSet ==
  ASSUME NEW S, NEW q \in Seq(S), q # <<>>
  PROVE  /\ Head(q) \in ToSet(q)
         /\ ToSet(q) = ToSet(Tail(q)) \cup {Head(q)}
         /\ IsInjective(q) => /\ IsInjective(Tail(q))
                              /\ Head(q) \notin ToSet(Tail(q))
<1>1. /\ Len(q) \in Nat \ {0} /\ DOMAIN q = 1 .. Len(q)
      /\ Tail(q) \in Seq(S) /\ Len(Tail(q)) = Len(q) - 1
      /\ \A i \in 1 .. Len(q) - 1 : Tail(q)[i] = q[i + 1]
      /\ Head(q) = q[1]
  BY EmptySeq, LenProperties, HeadTailProperties
<1>2. DOMAIN Tail(q) = 1 .. Len(q) - 1
  BY <1>1, LenProperties
<1>3. \A k \in 1 .. Len(q) :
        k = 1 \/ (k - 1 \in 1 .. Len(q) - 1 /\ Tail(q)[k - 1] = q[k])
  BY <1>1
<1>4. ToSet(q) = ToSet(Tail(q)) \cup {Head(q)}
  <2>1. ASSUME NEW k \in 1 .. Len(q)
        PROVE  q[k] \in ToSet(Tail(q)) \cup {Head(q)}
    <3>1. CASE k = 1
      BY <1>1, <3>1
    <3>2. CASE k # 1
      <4>1. k - 1 \in DOMAIN Tail(q) /\ Tail(q)[k - 1] = q[k]
        BY <1>2, <1>3, <3>2
      <4> QED
        BY <4>1 DEF ToSet
    <3> QED
      BY <3>1, <3>2
  <2>2. ToSet(Tail(q)) \cup {Head(q)} \subseteq ToSet(q)
    BY <1>1, <1>2 DEF ToSet
  <2> QED
    BY <1>1, <2>1, <2>2 DEF ToSet
<1>5. ASSUME IsInjective(q)
      PROVE  IsInjective(Tail(q)) /\ Head(q) \notin ToSet(Tail(q))
  <2>1. \A a, b \in 1 .. Len(q) : q[a] = q[b] => a = b
    BY <1>1, <1>5 DEF IsInjective
  <2> QED
    BY <1>1, <1>2, <2>1 DEF IsInjective, ToSet
<1> QED
  BY <1>4, <1>5

\* Adding an element behind two sequences, or behind the second.
LEMMA ConcatAppend ==
  ASSUME NEW S, NEW q \in Seq(S), NEW r \in Seq(S), NEW e \in S
  PROVE  q \o Append(r, e) = Append(q \o r, e)
<1>1. /\ r \in Seq(S) /\ Len(q) \in Nat /\ Len(r) \in Nat
      /\ Append(r, e) \in Seq(S) /\ Len(Append(r, e)) = Len(r) + 1
      /\ \A i \in 1 .. Len(r) : Append(r, e)[i] = r[i]
      /\ Append(r, e)[Len(r) + 1] = e
  BY AppendProperties, LenProperties
<1> DEFINE s == q \o Append(r, e)
           c == q \o r
           t == Append(c, e)
<1>2. /\ s \in Seq(S) /\ Len(s) = Len(q) + (Len(r) + 1)
      /\ \A i \in 1 .. Len(q) + (Len(r) + 1) :
           s[i] = IF i <= Len(q) THEN q[i] ELSE Append(r, e)[i - Len(q)]
  <2> DEFINE a == Append(r, e)
  <2>1. a \in Seq(S) /\ Len(a) = Len(r) + 1
    BY <1>1
  <2> HIDE DEF a
  <2>2. /\ q \o a \in Seq(S) /\ Len(q \o a) = Len(q) + Len(a)
        /\ \A i \in 1 .. Len(q) + Len(a) :
             (q \o a)[i] = IF i <= Len(q) THEN q[i] ELSE a[i - Len(q)]
    BY <2>1, ConcatProperties
  <2> QED
    BY <2>1, <2>2 DEF a
<1>3. /\ c \in Seq(S) /\ Len(c) = Len(q) + Len(r)
      /\ \A i \in 1 .. Len(q) + Len(r) :
           c[i] = IF i <= Len(q) THEN q[i] ELSE r[i - Len(q)]
  BY ConcatProperties
<1> HIDE DEF s, c
<1>4. /\ t \in Seq(S) /\ Len(t) = Len(c) + 1
      /\ \A i \in 1 .. Len(c) : t[i] = c[i]
      /\ t[Len(c) + 1] = e
  BY <1>3, AppendProperties
<1> HIDE DEF t
<1>5. ASSUME NEW i \in 1 .. Len(s) PROVE s[i] = t[i]
  <2>1. CASE i <= Len(q)
    <3>1. i \in 1 .. Len(c)
      BY <1>1, <1>3, <2>1
    <3> QED
      BY <1>1, <1>2, <1>3, <1>4, <2>1, <3>1
  <2>2. CASE Len(q) < i /\ i <= Len(q) + Len(r)
    <3>1. i \in 1 .. Len(c) /\ i - Len(q) \in 1 .. Len(r) /\ ~(i <= Len(q))
      BY <1>1, <1>2, <1>3, <2>2
    <3> QED
      BY <1>1, <1>2, <1>3, <1>4, <3>1
  <2>3. CASE Len(q) + Len(r) < i
    <3>1. i \in Nat /\ i = Len(c) + 1
      BY <1>1, <1>2, <1>3, <2>3
    <3>2. i - Len(q) = Len(r) + 1 /\ ~(i <= Len(q))
      BY <1>1, <1>3, <3>1
    <3> QED
      BY <1>1, <1>2, <1>4, <3>1, <3>2
  <2> QED
    BY <1>1, <1>2, <2>1, <2>2, <2>3
<1>6. Len(s) = Len(t)
  BY <1>1, <1>2, <1>3, <1>4
<1> QED
  BY <1>2, <1>4, <1>5, <1>6, SeqEqual DEF s, t, c

\* The first element of the second sequence may as well be the last of the first.
LEMMA HeadToLast ==
  ASSUME NEW S, NEW q \in Seq(S), NEW r \in Seq(S), r # <<>>
  PROVE  Append(q, Head(r)) \o Tail(r) = q \o r
<1>1. Head(r) \in S /\ Tail(r) \in Seq(S)
  BY HeadTailProperties
<1>2. <<Head(r)>> \in Seq(S) /\ r = <<Head(r)>> \o Tail(r)
  BY <1>1
<1>3. Append(q, Head(r)) = q \o <<Head(r)>>
  BY <1>1
<1>4. (q \o <<Head(r)>>) \o Tail(r) = q \o (<<Head(r)>> \o Tail(r))
  BY <1>1, <1>2, ConcatAssociative
<1> QED
  BY <1>2, <1>3, <1>4

\* Removing an element of the second sequence is removing one of the two.
LEMMA ConcatRemoveAt ==
  ASSUME NEW S, NEW q \in Seq(S), NEW r \in Seq(S), NEW i \in 1 .. Len(r)
  PROVE  q \o RemoveAt(r, i) = RemoveAt(q \o r, Len(q) + i)
<1> DEFINE a == RemoveAt(r, i)
           c == q \o r
           n == Len(q) + i
           t == RemoveAt(c, n)
<1>1. /\ Len(q) \in Nat /\ Len(r) \in Nat
      /\ a \in Seq(S) /\ Len(a) = Len(r) - 1
      /\ \A j \in 1 .. Len(r) - 1 : a[j] = IF j < i THEN r[j] ELSE r[j + 1]
  BY RemoveAtProperties, LenProperties
<1>2. /\ c \in Seq(S) /\ Len(c) = Len(q) + Len(r)
      /\ \A j \in 1 .. Len(q) + Len(r) :
           c[j] = IF j <= Len(q) THEN q[j] ELSE r[j - Len(q)]
  BY ConcatProperties
<1> HIDE DEF a, c
<1>3. n \in 1 .. Len(c)
  BY <1>1, <1>2
<1>4. /\ t \in Seq(S) /\ Len(t) = Len(c) - 1
      /\ \A j \in 1 .. Len(c) - 1 : t[j] = IF j < n THEN c[j] ELSE c[j + 1]
  <2> HIDE DEF n
  <2> QED
    BY <1>2, <1>3, RemoveAtProperties
<1>5. /\ q \o a \in Seq(S) /\ Len(q \o a) = Len(q) + Len(a)
      /\ \A j \in 1 .. Len(q) + Len(a) :
           (q \o a)[j] = IF j <= Len(q) THEN q[j] ELSE a[j - Len(q)]
  BY <1>1, ConcatProperties
<1> HIDE DEF t
<1>6. ASSUME NEW j \in 1 .. Len(q \o a) PROVE (q \o a)[j] = t[j]
  <2>1. j \in 1 .. Len(q) + Len(a) /\ j \in 1 .. Len(c) - 1
    BY <1>1, <1>2, <1>5, <1>6
  <2>2. CASE j <= Len(q)
    <3>1. j < n /\ j \in 1 .. Len(q) + Len(r)
      BY <1>1, <1>2, <2>1, <2>2
    <3> QED
      BY <1>2, <1>4, <1>5, <2>1, <2>2, <3>1
  <2>3. CASE Len(q) < j /\ j < n
    <3>1. /\ ~(j <= Len(q)) /\ j - Len(q) \in 1 .. Len(r) - 1
          /\ j - Len(q) < i /\ j \in 1 .. Len(q) + Len(r)
      BY <1>1, <1>2, <2>1, <2>3
    <3> QED
      BY <1>1, <1>2, <1>4, <1>5, <2>1, <2>3, <3>1
  <2>4. CASE n <= j
    <3>1. /\ ~(j <= Len(q)) /\ j - Len(q) \in 1 .. Len(r) - 1
          /\ ~(j - Len(q) < i) /\ j + 1 \in 1 .. Len(q) + Len(r)
          /\ ~(j + 1 <= Len(q)) /\ (j + 1) - Len(q) = (j - Len(q)) + 1
          /\ ~(j < n)
      BY <1>1, <1>2, <2>1, <2>4
    <3>2. t[j] = c[j + 1]
      BY <1>4, <2>1, <3>1
    <3>3. c[j + 1] = r[(j - Len(q)) + 1]
      BY <1>2, <3>1
    <3> QED
      BY <1>1, <1>5, <2>1, <3>1, <3>2, <3>3
  <2> QED
    BY <1>1, <2>1, <2>2, <2>3, <2>4
<1>7. Len(q \o a) = Len(t)
  BY <1>1, <1>2, <1>4, <1>5
<1> QED
  BY <1>4, <1>5, <1>6, <1>7, SeqEqual DEF a, c, t

=============================================================================
