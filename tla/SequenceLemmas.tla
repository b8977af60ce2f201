--------------------------- MODULE SequenceLemmas ---------------------------
(***************************************************************************)
(* What the models' sequence operators return, for every argument:         *)
(* FlattenSeq, concatenation, Append, Head and Tail by their elements and  *)
(* repetitions, Min and Max, the iteration of a step.  The library's       *)
(* induction theorems take an operator; Induction takes a set, and rests   *)
(* on the well-foundedness of the naturals.                                *)
(***************************************************************************)
EXTENDS Integers, SequencesExt, WellFoundedInduction, TLAPS

\* A set of numbers has a least element.
LEMMA LeastNumber ==
    ASSUME NEW S \in SUBSET Nat, S # {}
    PROVE  \E n \in S : \A m \in S : n <= m
<1>1. PICK n \in S : \A m \in S : ~(<<m, n>> \in OpToRel(<, Nat))
  BY NatLessThanWellFounded, WFMin
<1>2. ASSUME NEW m \in S PROVE ~(m < n)
  BY <1>1 DEF OpToRel
<1> QED
  BY <1>2

\* Induction over the numbers of a set.
LEMMA Induction ==
    ASSUME NEW S, 0 \in S, \A n \in Nat : n \in S => n + 1 \in S
    PROVE  \A n \in Nat : n \in S
<1> SUFFICES ASSUME Nat \ S # {} PROVE FALSE
  OBVIOUS
<1>1. PICK n \in Nat \ S : \A m \in Nat \ S : n <= m
  BY LeastNumber
<1>2. n # 0 /\ n - 1 \in Nat /\ n - 1 \notin Nat \ S
  BY <1>1
<1> QED
  BY <1>1, <1>2

\* f is the iteration of step from base, up to n.
Iterates(f, base, step, n) ==
    \A k \in 0..n : f[k] = IF k = 0 THEN base ELSE step[f[k - 1]]

\* A step from a set into itself can be iterated any number of times.
LEMMA Iteration ==
    ASSUME NEW S, NEW base \in S, NEW step \in [S -> S]
    PROVE  \A n \in Nat : \E f \in [0..n -> S] : Iterates(f, base, step, n)
<1> DEFINE N == {n \in Nat : \E f \in [0..n -> S] : Iterates(f, base, step, n)}
<1>1. 0 \in N
  <2> DEFINE f == [k \in 0..0 |-> base]
  <2>1. f \in [0..0 -> S] /\ Iterates(f, base, step, 0)
    BY DEF Iterates
  <2> QED
    BY <2>1
<1>2. ASSUME NEW n \in Nat, n \in N PROVE n + 1 \in N
  <2>1. PICK f \in [0..n -> S] : Iterates(f, base, step, n)
    BY <1>2
  <2> DEFINE next == step[f[n]]
             g == [k \in 0..(n + 1) |-> IF k = n + 1 THEN next ELSE f[k]]
  <2>2. n \in 0..n /\ \A k \in 0..(n + 1) : k \in 0..n \/ k = n + 1
    OBVIOUS
  <2>3. next \in S
    BY <2>1, <2>2
  <2>4. \A k \in 0..n : k # n + 1 /\ k \in 0..(n + 1)
    OBVIOUS
  <2> HIDE DEF next
  <2>5. \A k \in 0..n : f[k] \in S
    BY <2>1
  <2>6. g \in [0..(n + 1) -> S]
    BY <2>2, <2>3, <2>5
  <2>7. g[n + 1] = next /\ \A k \in 0..n : g[k] = f[k]
    BY <2>4
  <2> HIDE DEF g
  <2>8. ASSUME NEW k \in 0..(n + 1)
        PROVE  g[k] = IF k = 0 THEN base ELSE step[g[k - 1]]
    <3>1. CASE k \in 0..n
      <4>1. g[k] = f[k] /\ (k # 0 => k - 1 \in 0..n)
        BY <2>7, <3>1
      <4>2. k # 0 => g[k - 1] = f[k - 1]
        BY <2>7, <4>1
      <4> QED
        BY <2>1, <3>1, <4>1, <4>2 DEF Iterates
    <3>2. CASE k = n + 1
      <4>1. k # 0 /\ k - 1 = n
        BY <3>2
      <4>2. g[k - 1] = f[n] /\ g[k] = next
        BY <2>2, <2>7, <3>2, <4>1
      <4> QED
        BY <4>1, <4>2 DEF next
    <3> QED
      BY <2>2, <3>1, <3>2
  <2>9. Iterates(g, base, step, n + 1)
    BY <2>8 DEF Iterates
  <2> QED
    BY <2>6, <2>9
<1>3. \A n \in Nat : n \in N
  <2> HIDE DEF N
  <2> QED
    BY <1>1, <1>2, Induction
<1> QED
  BY <1>3

\* What Min and Max return on sets of numbers.
LEMMA MinOf ==
    ASSUME NEW S \in SUBSET Nat, S # {}
    PROVE  Min(S) \in S /\ \A n \in S : Min(S) <= n
  BY LeastNumber DEF Min

LEMMA MaxOfOne == ASSUME NEW n \in Nat PROVE Max({n}) = n
  BY DEF Max

\* f satisfies, up to n, the recursion by which FlattenSeq joins seqs.
Joins(f, seqs, n) ==
    f = [i \in 1..n |-> IF i = 1 THEN seqs[i] ELSE f[i - 1] \o seqs[i]]

\* One step more of the recursion, and so all of it.
LEMMA JoinsExtends ==
    ASSUME NEW seqs, NEW n \in Nat, NEW f, Joins(f, seqs, n)
    PROVE  \E g : Joins(g, seqs, n + 1)
<1> DEFINE next == IF n = 0 THEN seqs[1] ELSE f[n] \o seqs[n + 1]
           g == [i \in 1..(n + 1) |-> IF i = n + 1 THEN next ELSE f[i]]
<1>1. \A i \in 1..n : f[i] = IF i = 1 THEN seqs[i] ELSE f[i - 1] \o seqs[i]
  BY DEF Joins
<1>2. \A i \in 1..n : g[i] = f[i]
  OBVIOUS
<1>3. g[n + 1] = next
  OBVIOUS
<1>4. \A i \in 1..(n + 1) : i \in 1..n \/ i = n + 1
  OBVIOUS
<1>5. g = [i \in 1..(n + 1) |-> g[i]]
  OBVIOUS
<1> HIDE DEF g
<1>6. \A i \in 1..(n + 1) : g[i] = IF i = 1 THEN seqs[i] ELSE g[i - 1] \o seqs[i]
  <2> TAKE i \in 1..(n + 1)
  <2>1. CASE i \in 1..n
    <3>1. i # 1 => i - 1 \in 1..n
      BY <2>1
    <3> QED
      BY <1>1, <1>2, <2>1, <3>1
  <2>2. CASE i = n + 1
    <3>1. n # 0 => n \in 1..n
      OBVIOUS
    <3> QED
      BY <1>2, <1>3, <2>2, <3>1
  <2> QED
    BY <1>4, <2>1, <2>2
<1>7. Joins(g, seqs, n + 1)
  BY <1>5, <1>6 DEF Joins
<1> QED
  BY <1>7

LEMMA JoinsExists == \A n \in Nat : \A seqs : \E f : Joins(f, seqs, n)
<1> SUFFICES ASSUME NEW seqs PROVE \A n \in Nat : \E f : Joins(f, seqs, n)
  OBVIOUS
<1> DEFINE S == {n \in Nat : \E f : Joins(f, seqs, n)}
<1>1. 0 \in S
  <2>1. Joins([i \in 1..0 |-> seqs[1]], seqs, 0)
    BY DEF Joins
  <2> QED
    BY <2>1
<1>2. \A n \in Nat : n \in S => n + 1 \in S
  BY JoinsExtends
<1>3. \A n \in Nat : n \in S
  <2> HIDE DEF S
  <2> QED
    BY <1>1, <1>2, Induction
<1> QED
  BY <1>3

\* FlattenSeq as the last value of its recursion.
LEMMA FlattenRecursion ==
    ASSUME NEW seqs, Len(seqs) \in Nat, Len(seqs) # 0
    PROVE  \E f : /\ FlattenSeq(seqs) = f[Len(seqs)]
                  /\ f[1] = seqs[1]
                  /\ \A i \in 1..Len(seqs) : i # 1 => f[i] = f[i - 1] \o seqs[i]
<1> DEFINE n == Len(seqs)
           f == CHOOSE g : Joins(g, seqs, n)
<1>1. Joins(f, seqs, n)
  BY JoinsExists
<1>2. FlattenSeq(seqs) = f[n]
  BY DEF FlattenSeq, Joins
<1>3. n \in Nat /\ n # 0
  OBVIOUS
<1> HIDE DEF n, f
<1>4. \A i \in 1..n : f[i] = IF i = 1 THEN seqs[i] ELSE f[i - 1] \o seqs[i]
  BY <1>1 DEF Joins
<1>5. f[1] = seqs[1] /\ \A i \in 1..n : i # 1 => f[i] = f[i - 1] \o seqs[i]
  <2>1. 1 \in 1..n
    BY <1>3
  <2> QED
    BY <1>4, <2>1
<1> QED
  BY <1>2, <1>5 DEF n

\* The elements of a concatenation.
LEMMA ConcatElements ==
    ASSUME NEW S, NEW s \in Seq(S), NEW t \in Seq(S)
    PROVE  ToSet(s \o t) = ToSet(s) \cup ToSet(t)
<1>1. ASSUME NEW i \in DOMAIN (s \o t)
      PROVE  (s \o t)[i] \in ToSet(s) \cup ToSet(t)
  <2>1. i \in 1..Len(s) => (s \o t)[i] = s[i]
    OBVIOUS
  <2>2. i \notin 1..Len(s) => (s \o t)[i] = t[i - Len(s)] /\ i - Len(s) \in 1..Len(t)
    OBVIOUS
  <2> QED
    BY <2>1, <2>2 DEF ToSet
<1>2. ASSUME NEW i \in 1..Len(s) PROVE i \in DOMAIN (s \o t) /\ (s \o t)[i] = s[i]
  OBVIOUS
<1>3. ASSUME NEW i \in 1..Len(t)
      PROVE  i + Len(s) \in DOMAIN (s \o t) /\ (s \o t)[i + Len(s)] = t[i]
  OBVIOUS
<1>4. ToSet(s \o t) \subseteq ToSet(s) \cup ToSet(t)
  BY <1>1 DEF ToSet
<1>5. ToSet(s) \subseteq ToSet(s \o t)
  BY <1>2 DEF ToSet
<1>6. ToSet(t) \subseteq ToSet(s \o t)
  <2> SUFFICES ASSUME NEW i \in 1..Len(t) PROVE t[i] \in ToSet(s \o t)
    BY DEF ToSet
  <2> QED
    BY <1>3 DEF ToSet
<1> QED
  BY <1>4, <1>5, <1>6

\* What holds of the first part and is kept by appending the next one, holds of
\* the flattened sequence; P is the set of the pairs of a length and a prefix.
LEMMA FlattenInduction ==
    ASSUME NEW seqs, Len(seqs) \in Nat, Len(seqs) # 0,
           NEW P, <<1, seqs[1]>> \in P,
           \A k \in 1..Len(seqs) : \A s :
             k # 1 /\ <<k - 1, s>> \in P => <<k, s \o seqs[k]>> \in P
    PROVE  <<Len(seqs), FlattenSeq(seqs)>> \in P
<1> DEFINE n == Len(seqs)
<1>1. PICK f : /\ FlattenSeq(seqs) = f[n]
               /\ f[1] = seqs[1]
               /\ \A i \in 1..n : i # 1 => f[i] = f[i - 1] \o seqs[i]
  BY FlattenRecursion
<1>2. n \in Nat /\ n # 0
  OBVIOUS
<1>3. \A k \in 1..n : \A s : k # 1 /\ <<k - 1, s>> \in P => <<k, s \o seqs[k]>> \in P
  OBVIOUS
<1> HIDE DEF n
<1> DEFINE Good == {k \in Nat : k \in 1..n => <<k, f[k]>> \in P}
<1>4. 0 \in Good
  OBVIOUS
<1>5. ASSUME NEW k \in Nat, k \in Good PROVE k + 1 \in Good
  <2> SUFFICES ASSUME k + 1 \in 1..n PROVE <<k + 1, f[k + 1]>> \in P
    OBVIOUS
  <2>1. CASE k = 0
    BY <1>1, <2>1
  <2>2. CASE k # 0
    <3>1. k \in 1..n /\ k + 1 # 1 /\ (k + 1) - 1 = k
      <4>1. k + 1 <= n
        OBVIOUS
      <4> QED
        BY <1>2, <2>2, <4>1
    <3>2. <<k, f[k]>> \in P
      BY <1>5, <3>1
    <3>3. f[k + 1] = f[k] \o seqs[k + 1]
      <4>1. f[k + 1] = f[(k + 1) - 1] \o seqs[k + 1]
        BY <1>1, <3>1
      <4> QED
        BY <3>1, <4>1
    <3>4. <<(k + 1) - 1, f[k]>> \in P
      BY <3>1, <3>2
    <3>5. <<k + 1, f[k] \o seqs[k + 1]>> \in P
      BY <1>3, <3>1, <3>4
    <3> QED
      BY <3>3, <3>5
  <2> QED
    BY <2>1, <2>2
<1>6. \A k \in Nat : k \in Good
  <2> HIDE DEF Good
  <2> QED
    BY <1>4, <1>5, Induction
<1>7. n \in 1..n
  BY <1>2
<1> QED
  BY <1>1, <1>2, <1>6, <1>7 DEF n

\* The elements of a flattened sequence are those of its parts.
LEMMA FlattenElements ==
    ASSUME NEW S, NEW seqs \in Seq(Seq(S))
    PROVE  /\ FlattenSeq(seqs) \in Seq(S)
           /\ ToSet(FlattenSeq(seqs)) = UNION {ToSet(seqs[i]) : i \in DOMAIN seqs}
<1>1. CASE Len(seqs) = 0
  <2>1. FlattenSeq(seqs) = <<>> /\ DOMAIN seqs = {}
    BY <1>1 DEF FlattenSeq
  <2>2. {ToSet(seqs[i]) : i \in DOMAIN seqs} = {}
    BY <2>1
  <2>3. ToSet(FlattenSeq(seqs)) = {}
    BY <2>1 DEF ToSet
  <2>4. UNION {ToSet(seqs[i]) : i \in DOMAIN seqs} = {}
    BY <2>2
  <2>5. <<>> \in Seq(S)
    OBVIOUS
  <2> QED
    BY <2>1, <2>3, <2>4, <2>5, Zenon
<1>2. CASE Len(seqs) # 0
  <2> DEFINE n == Len(seqs)
             Upto(k) == UNION {ToSet(seqs[i]) : i \in 1..k}
             P == {p \in Nat \X Seq(S) : ToSet(p[2]) = Upto(p[1])}
  <2>1. n \in Nat /\ n # 0 /\ DOMAIN seqs = 1..n /\ \A i \in 1..n : seqs[i] \in Seq(S)
    BY <1>2
  <2> HIDE DEF n
  <2>2. <<1, seqs[1]>> \in P
    <3>1. 1..1 = {1}
      OBVIOUS
    <3>2. Upto(1) = ToSet(seqs[1])
      BY <3>1
    <3> QED
      BY <2>1, <3>2
  <2>3. ASSUME NEW k \in 1..n, NEW s, k # 1, <<k - 1, s>> \in P
        PROVE  <<k, s \o seqs[k]>> \in P
    <3>1. s \in Seq(S) /\ ToSet(s) = Upto(k - 1) /\ seqs[k] \in Seq(S) /\ k \in Nat
      BY <2>1, <2>3
    <3>2. ToSet(s \o seqs[k]) = ToSet(s) \cup ToSet(seqs[k])
      BY <3>1, ConcatElements
    <3>3. 1..k = 1..(k - 1) \cup {k}
      OBVIOUS
    <3>4. Upto(k) = Upto(k - 1) \cup ToSet(seqs[k])
      BY <3>3
    <3>5. s \o seqs[k] \in Seq(S)
      BY <3>1
    <3> QED
      BY <3>1, <3>2, <3>4, <3>5
  <2>4. <<n, FlattenSeq(seqs)>> \in P
    <3> HIDE DEF P
    <3> QED
      BY <2>1, <2>2, <2>3, FlattenInduction DEF n
  <2>5. FlattenSeq(seqs) \in Seq(S) /\ ToSet(FlattenSeq(seqs)) = Upto(n)
    BY <2>4
  <2> QED
    BY <2>1, <2>5
<1> QED
  BY <1>1, <1>2

\* Sequences without repetitions and without a common element, joined.
LEMMA ConcatInjective ==
    ASSUME NEW S, NEW s \in Seq(S), NEW t \in Seq(S), IsInjective(s), IsInjective(t),
           ToSet(s) \cap ToSet(t) = {}
    PROVE  IsInjective(s \o t)
<1> SUFFICES ASSUME NEW i \in DOMAIN (s \o t), NEW j \in DOMAIN (s \o t),
                    (s \o t)[i] = (s \o t)[j]
             PROVE  i = j
  BY DEF IsInjective
<1>1. ASSUME NEW k \in DOMAIN (s \o t)
      PROVE  \/ k \in DOMAIN s /\ (s \o t)[k] = s[k] /\ s[k] \in ToSet(s)
             \/ /\ k \notin DOMAIN s /\ k - Len(s) \in DOMAIN t
                /\ (s \o t)[k] = t[k - Len(s)] /\ t[k - Len(s)] \in ToSet(t)
  <2>1. CASE k \in 1..Len(s)
    BY <2>1 DEF ToSet
  <2>2. CASE k \notin 1..Len(s)
    <3>1. k - Len(s) \in DOMAIN t /\ (s \o t)[k] = t[k - Len(s)] /\ k \notin DOMAIN s
      BY <2>2
    <3> QED
      BY <3>1 DEF ToSet
  <2> QED
    BY <2>1, <2>2
<1>2. CASE i \in DOMAIN s /\ j \in DOMAIN s
  BY <1>1, <1>2 DEF IsInjective
<1>3. CASE i \notin DOMAIN s /\ j \notin DOMAIN s
  <2>1. i - Len(s) = j - Len(s)
    BY <1>1, <1>3 DEF IsInjective
  <2> QED
    BY <2>1
<1>4. CASE (i \in DOMAIN s) # (j \in DOMAIN s)
  BY <1>1, <1>4
<1> QED
  BY <1>2, <1>3, <1>4

\* Parts without repetitions that share no element make a flattened sequence
\* without repetitions.
LEMMA FlattenInjective ==
    ASSUME NEW S, NEW seqs \in Seq(Seq(S)),
           \A i \in DOMAIN seqs : IsInjective(seqs[i]),
           \A i, j \in DOMAIN seqs : i # j => ToSet(seqs[i]) \cap ToSet(seqs[j]) = {}
    PROVE  IsInjective(FlattenSeq(seqs))
<1>1. CASE Len(seqs) = 0
  BY <1>1 DEF FlattenSeq, IsInjective
<1>2. CASE Len(seqs) # 0
  <2> DEFINE n == Len(seqs)
             Upto(k) == UNION {ToSet(seqs[i]) : i \in 1..k}
             P == {p \in Nat \X Seq(S) : ToSet(p[2]) = Upto(p[1]) /\ IsInjective(p[2])}
  <2>1. /\ n \in Nat /\ n # 0 /\ DOMAIN seqs = 1..n
        /\ \A i \in 1..n : seqs[i] \in Seq(S) /\ IsInjective(seqs[i])
        /\ \A i, j \in 1..n : i # j => ToSet(seqs[i]) \cap ToSet(seqs[j]) = {}
    <3>1. seqs \in Seq(Seq(S)) /\ n \in Nat /\ n # 0 /\ DOMAIN seqs = 1..n
      BY <1>2
    <3>2. \A i \in 1..n : seqs[i] \in Seq(S)
      BY <3>1
    <3> QED
      BY <3>1, <3>2
  <2> HIDE DEF n
  <2>2. <<1, seqs[1]>> \in P
    <3>1. 1..1 = {1}
      OBVIOUS
    <3>2. Upto(1) = ToSet(seqs[1])
      BY <3>1
    <3> QED
      BY <2>1, <3>2
  <2>3. ASSUME NEW k \in 1..n, NEW s, k # 1, <<k - 1, s>> \in P
        PROVE  <<k, s \o seqs[k]>> \in P
    <3>1. /\ s \in Seq(S) /\ ToSet(s) = Upto(k - 1) /\ IsInjective(s)
          /\ seqs[k] \in Seq(S) /\ IsInjective(seqs[k]) /\ k \in Nat
      BY <2>1, <2>3
    <3>2. ToSet(s \o seqs[k]) = ToSet(s) \cup ToSet(seqs[k])
      BY <3>1, ConcatElements
    <3>3. 1..k = 1..(k - 1) \cup {k} /\ 1..(k - 1) \subseteq 1..n /\ k \notin 1..(k - 1)
      BY <2>1
    <3>4. Upto(k) = Upto(k - 1) \cup ToSet(seqs[k])
      BY <3>3
    <3>5. s \o seqs[k] \in Seq(S)
      BY <3>1
    <3>6. ToSet(s) \cap ToSet(seqs[k]) = {}
      <4> SUFFICES ASSUME NEW x \in ToSet(s), x \in ToSet(seqs[k]) PROVE FALSE
        OBVIOUS
      <4>1. PICK i \in 1..(k - 1) : x \in ToSet(seqs[i])
        BY <3>1
      <4>2. i \in 1..n /\ i # k
        BY <3>3
      <4> QED
        BY <2>1, <4>1, <4>2
    <3>7. IsInjective(s \o seqs[k])
      BY <3>1, <3>6, ConcatInjective
    <3> QED
      BY <3>1, <3>2, <3>4, <3>5, <3>7
  <2>4. <<n, FlattenSeq(seqs)>> \in P
    <3> HIDE DEF P
    <3> QED
      BY <2>1, <2>2, <2>3, FlattenInduction DEF n
  <2> QED
    BY <2>4
<1> QED
  BY <1>1, <1>2

\* The elements of a sequence with one more at its end.
LEMMA AppendElements ==
    ASSUME NEW S, NEW s \in Seq(S), NEW e \in S
    PROVE  /\ Append(s, e) \in Seq(S)
           /\ ToSet(Append(s, e)) = ToSet(s) \cup {e}
           /\ IsInjective(s) /\ e \notin ToSet(s) => IsInjective(Append(s, e))
<1>1. Append(s, e) = s \o <<e>> /\ <<e>> \in Seq(S)
  OBVIOUS
<1>2. ToSet(<<e>>) = {e} /\ IsInjective(<<e>>)
  BY DEF ToSet, IsInjective
<1>3. ToSet(s \o <<e>>) = ToSet(s) \cup {e}
  <2>1. ToSet(s \o <<e>>) = ToSet(s) \cup ToSet(<<e>>)
    BY <1>1, ConcatElements
  <2> QED
    BY <1>2, <2>1
<1>4. IsInjective(s) /\ e \notin ToSet(s) => IsInjective(s \o <<e>>)
  BY <1>1, <1>2, ConcatInjective
<1> QED
  BY <1>1, <1>3, <1>4

\* What is in a sequence is its first element or in its rest.
LEMMA HeadOrTail ==
    ASSUME NEW S, NEW s \in Seq(S), s # <<>>
    PROVE  /\ Head(s) \in S /\ Tail(s) \in Seq(S)
           /\ \A x \in ToSet(s) : x = Head(s) \/ x \in ToSet(Tail(s))
<1>1. Head(s) \in S /\ Tail(s) \in Seq(S) /\ Head(s) = s[1] /\ Len(s) \in Nat \ {0}
  OBVIOUS
<1>2. ASSUME NEW x \in ToSet(s), x # Head(s) PROVE x \in ToSet(Tail(s))
  <2>1. PICK i \in 1..Len(s) : s[i] = x
    BY DEF ToSet
  <2>2. i # 1
    BY <1>1, <1>2, <2>1
  <2>3. i - 1 \in 1..Len(Tail(s)) /\ Tail(s)[i - 1] = s[i]
    BY <1>1, <2>2
  <2>4. i - 1 \in DOMAIN Tail(s)
    BY <1>1, <2>3
  <2> QED
    BY <2>1, <2>3, <2>4 DEF ToSet
<1> QED
  BY <1>1, <1>2

\* Of a sequence without repetitions, the rest is one and has lost its first.
LEMMA TailElements ==
    ASSUME NEW S, NEW s \in Seq(S), s # <<>>, IsInjective(s)
    PROVE  /\ Head(s) \in S /\ Head(s) \in ToSet(s) /\ Head(s) \notin ToSet(Tail(s))
           /\ ToSet(Tail(s)) \subseteq ToSet(s) /\ ToSet(Tail(s)) \subseteq S
           /\ IsInjective(Tail(s))
<1>1. /\ Head(s) = s[1] /\ Len(s) \in Nat \ {0} /\ DOMAIN s = 1..Len(s)
      /\ DOMAIN Tail(s) = 1..(Len(s) - 1)
      /\ \A i \in 1..(Len(s) - 1) : Tail(s)[i] = s[i + 1]
  OBVIOUS
<1>2. 1 \in DOMAIN s /\ \A i \in DOMAIN s : s[i] \in S
  BY <1>1
<1>3. \A i \in DOMAIN Tail(s) : i + 1 \in DOMAIN s /\ i + 1 # 1 /\ Tail(s)[i] = s[i + 1]
  BY <1>1
<1>4. \A i, j \in DOMAIN Tail(s) : i + 1 = j + 1 => i = j
  BY <1>1
<1>5. \A i, j \in DOMAIN s : i # j => s[i] # s[j]
  BY DEF IsInjective
<1>6. Head(s) \in S /\ Head(s) \in ToSet(s)
  BY <1>1, <1>2 DEF ToSet
<1>7. Head(s) \notin ToSet(Tail(s))
  BY <1>1, <1>2, <1>3, <1>5 DEF ToSet
<1>8. ToSet(Tail(s)) \subseteq ToSet(s) /\ ToSet(Tail(s)) \subseteq S
  BY <1>2, <1>3 DEF ToSet
<1>9. IsInjective(Tail(s))
  BY <1>3, <1>4, <1>5 DEF IsInjective
<1> QED
  BY <1>6, <1>7, <1>8, <1>9
=============================================================================
