--------------------------- MODULE CollectionLemmas ---------------------------
(***************************************************************************)
(* Lemmas about numbers, sequences and finite sets that the proofs of      *)
(* several components use.                                                 *)
(*                                                                         *)
(* Induction is stated over sets of numbers: a property P of the numbers   *)
(* is proved by taking S = {n \in Nat : P(n)}.                             *)
(***************************************************************************)
EXTENDS Integers, SequencesExt, SequenceTheorems, FiniteSetTheorems,
        WellFoundedInduction, Selection, TLAPS

-----------------------------------------------------------------------------
\* Numbers.

\* A nonempty set of natural numbers has a least element.
LEMMA LeastOfNat ==
  ASSUME NEW T \in SUBSET Nat, T # {}
  PROVE  \E x \in T : \A y \in T : x =< y
<1>1. IsWellFoundedOn(OpToRel(<, Nat), Nat)
  BY NatLessThanWellFounded
<1>2. PICK x \in T : \A y \in T : <<y, x>> \notin OpToRel(<, Nat)
  BY <1>1, WFMin, Zenon
<1>3. ASSUME NEW y \in T, ~ (x =< y) PROVE FALSE
  <2>1. y \in Nat /\ x \in Nat /\ y < x
    BY <1>3
  <2>2. <<y, x>> \in OpToRel(<, Nat)
    BY <2>1, Zenon DEF OpToRel
  <2>3. QED
    BY <2>2, <1>2
<1>4. QED
  BY <1>2, <1>3

\* A set of numbers up to n that is not empty has a greatest one.
LEMMA GreatestUpTo ==
  ASSUME NEW n \in Nat, NEW I \in SUBSET (1 .. n), I # {}
  PROVE  \E x \in I : \A y \in I : x >= y
<1> DEFINE J == {n - i : i \in I}
<1>1. J \subseteq Nat /\ J # {}
  <2>1. \A i \in I : n - i \in Nat
    OBVIOUS
  <2>2. PICK i \in I : TRUE
    OBVIOUS
  <2>3. n - i \in J
    OBVIOUS
  <2>4. QED
    BY <2>1, <2>3
<1>2. PICK j \in J : \A y \in J : j =< y
  BY <1>1, LeastOfNat
<1>3. PICK x \in I : j = n - x
  BY <1>2
<1>4. ASSUME NEW y \in I PROVE x >= y
  <2>1. n - y \in J
    OBVIOUS
  <2>2. n - x =< n - y
    BY <1>2, <1>3, <2>1
  <2>3. x \in Int /\ y \in Int
    OBVIOUS
  <2> HIDE DEF J
  <2>4. QED
    BY <2>2, <2>3
<1>5. QED
  BY <1>4

\* A set that holds 0 and the successors of its numbers holds all numbers.
LEMMA SetOfNatInduction ==
  ASSUME NEW S, 0 \in S, \A n \in Nat : n \in S => n + 1 \in S
  PROVE  \A n \in Nat : n \in S
<1> SUFFICES ASSUME NEW m \in Nat, m \notin S PROVE FALSE
  OBVIOUS
<1> DEFINE T == {n \in Nat : n \notin S}
<1>1. PICK x \in T : \A y \in T : x =< y
  BY LeastOfNat
<1>2. x - 1 \in Nat /\ (x - 1) + 1 = x
  BY <1>1
<1>3. x - 1 \in S
  BY <1>1, <1>2
<1>4. QED
  BY <1>1, <1>2, <1>3

\* As far as m only.
LEMMA UpToInduction ==
  ASSUME NEW m \in Nat, NEW S, 0 \in S, \A n \in 0 .. m - 1 : n \in S => n + 1 \in S
  PROVE  \A n \in 0 .. m : n \in S
<1> DEFINE T == {n \in Nat : n =< m => n \in S}
<1>1. 0 \in T /\ \A n \in Nat : n \in T => n + 1 \in T
  OBVIOUS
<1> HIDE DEF T
<1>2. \A n \in Nat : n \in T
  BY <1>1, SetOfNatInduction
<1>3. QED
  BY <1>2 DEF T

\* How a value follows from the one before it and its place.
IsStep(step, m, V) == step \in [V \X (1 .. m) -> V]

\* f is defined by recursion over 0 .. m.
IsRecursion(f, m, V, base, step) ==
  /\ f \in [0 .. m -> V] /\ f[0] = base
  /\ \A n \in 1 .. m : f[n] = step[<<f[n - 1], n>>]

\* What is defined by recursion over 0 .. m exists, and its values are in V if the
\* first one is and each step stays there.
LEMMA RecursionExists ==
  ASSUME NEW m \in Nat, NEW V, NEW base \in V, NEW step, IsStep(step, m, V)
  PROVE  \E f : IsRecursion(f, m, V, base, step)
<1> DEFINE Good(k, f) == /\ f \in [0 .. k -> V] /\ f[0] = base
                         /\ \A n \in 1 .. k : f[n] = step[<<f[n - 1], n>>]
           N == {k \in 0 .. m : \E f : Good(k, f)}
<1>1. 0 \in N
  <2> DEFINE f == [n \in 0 .. 0 |-> base]
  <2>1. Good(0, f)
    OBVIOUS
  <2> HIDE DEF Good, f
  <2>2. QED
    BY <2>1
<1>2. ASSUME NEW k \in 0 .. m - 1, k \in N PROVE k + 1 \in N
  <2>1. PICK f : Good(k, f)
    BY <1>2
  <2> DEFINE last == step[<<f[k], k + 1>>]
             g == [n \in 0 .. k + 1 |-> IF n = k + 1 THEN last ELSE f[n]]
  <2>2. f[k] \in V /\ k + 1 \in 1 .. m /\ k + 1 \in Nat
    BY <2>1
  <2>3. last \in V
    BY <2>2 DEF IsStep
  <2>4. g \in [0 .. k + 1 -> V] /\ g[0] = base
    BY <2>1, <2>3
  <2>5. g[k + 1] = last /\ \A n \in 0 .. k : g[n] = f[n]
    BY <2>2
  <2> HIDE DEF g
  <2>6. Good(k + 1, g)
    <3>1. g[k + 1] = step[<<g[k], k + 1>>]
      BY <2>2, <2>5
    <3>2. \A n \in 1 .. k : n \in 0 .. k /\ n - 1 \in 0 .. k
      OBVIOUS
    <3>3. \A n \in 1 .. k : g[n] = step[<<g[n - 1], n>>]
      BY <2>1, <2>5, <3>2
    <3>4. ASSUME NEW n \in 1 .. k + 1 PROVE g[n] = step[<<g[n - 1], n>>]
      <4>1. n \in 1 .. k \/ n = k + 1
        OBVIOUS
      <4>2. (k + 1) - 1 = k
        OBVIOUS
      <4>3. QED
        BY <3>1, <3>3, <4>1, <4>2
    <3>5. QED
      BY <2>4, <3>4
  <2> HIDE DEF Good
  <2>7. QED
    BY <2>2, <2>6
<1> HIDE DEF N
<1>3. \A k \in 0 .. m : k \in N
  BY <1>1, <1>2, UpToInduction
<1>4. m \in N
  BY <1>3
<1>5. QED
  BY <1>4 DEF N, IsRecursion

-----------------------------------------------------------------------------
\* Sequences.

\* RemoveFirst takes one occurrence of the element out of the sequence and
\* closes the gap.
LEMMA RemoveFirstIs ==
  ASSUME NEW S, NEW q \in Seq(S), NEW e
  PROVE  \/ /\ \A i \in 1 .. Len(q) : q[i] # e
            /\ RemoveFirst(q, e) = q
         \/ \E n \in 1 .. Len(q) :
              /\ q[n] = e
              /\ RemoveFirst(q, e) \in Seq(S)
              /\ Len(RemoveFirst(q, e)) = Len(q) - 1
              /\ \A i \in 1 .. Len(q) - 1 :
                   RemoveFirst(q, e)[i] = q[IF i < n THEN i ELSE i + 1]
<1>1. CASE ~ \E i \in 1 .. Len(q) : q[i] = e
  BY <1>1 DEF RemoveFirst
<1>2. CASE \E i \in 1 .. Len(q) : q[i] = e
  <2> DEFINE I == {i \in 1 .. Len(q) : q[i] = e}
             n == Min(I)
  <2>1. Len(q) \in Nat
    BY LenProperties
  <2>2. \E x \in I : \A y \in I : x =< y
    <3>1. I \in SUBSET Nat /\ I # {}
      BY <1>2, <2>1
    <3> HIDE DEF I
    <3>2. QED
      BY <3>1, LeastOfNat
  <2>3. n \in I
    BY <2>2 DEF Min
  <2>4. RemoveFirst(q, e) = SubSeq(q, 1, n - 1) \o SubSeq(q, n + 1, Len(q))
    BY <1>2 DEF RemoveFirst, SelectInSeq, RemoveAt
  <2> HIDE DEF n
  <2>5. n \in 1 .. Len(q) /\ q[n] = e
    BY <2>3
  <2> DEFINE a == SubSeq(q, 1, n - 1)
             b == SubSeq(q, n + 1, Len(q))
  <2>6. \A i \in 1 .. Len(q) : q[i] \in S
    BY ElementOfSeq
  <2>7. /\ a \in Seq(S) /\ Len(a) = n - 1
        /\ \A i \in 1 .. n - 1 : a[i] = q[i]
    <3>1. /\ a \in Seq(S) /\ Len(a) = IF 1 =< n - 1 THEN n - 1 - 1 + 1 ELSE 0
          /\ \A i \in 1 .. n - 1 - 1 + 1 : a[i] = q[1 + i - 1]
      BY <2>1, <2>5, <2>6, SubSeqProperties
    <3>2. QED
      BY <3>1, <2>1, <2>5
  <2>8. /\ b \in Seq(S) /\ Len(b) = Len(q) - n
        /\ \A i \in 1 .. Len(q) - n : b[i] = q[n + i]
    <3>1. /\ b \in Seq(S)
          /\ Len(b) = IF n + 1 =< Len(q) THEN Len(q) - (n + 1) + 1 ELSE 0
          /\ \A i \in 1 .. Len(q) - (n + 1) + 1 : b[i] = q[(n + 1) + i - 1]
      BY <2>1, <2>5, <2>6, SubSeqProperties
    <3>2. QED
      BY <3>1, <2>1, <2>5
  <2> HIDE DEF a, b
  <2>9. /\ a \o b \in Seq(S) /\ Len(a \o b) = Len(a) + Len(b)
        /\ \A i \in 1 .. Len(a) + Len(b) :
             (a \o b)[i] = IF i <= Len(a) THEN a[i] ELSE b[i - Len(a)]
    BY <2>7, <2>8, ConcatProperties
  <2>10. Len(a) + Len(b) = Len(q) - 1
    BY <2>1, <2>5, <2>7, <2>8
  <2>11. ASSUME NEW i \in 1 .. Len(q) - 1
         PROVE  (a \o b)[i] = q[IF i < n THEN i ELSE i + 1]
    <3>1. CASE i < n
      BY <3>1, <2>1, <2>5, <2>7, <2>9, <2>10
    <3>2. CASE ~ (i < n)
      <4>1. i - Len(a) \in 1 .. Len(q) - n /\ n + (i - Len(a)) = i + 1 /\ ~ (i <= Len(a))
        BY <3>2, <2>1, <2>5, <2>7
      <4>2. QED
        BY <4>1, <3>2, <2>8, <2>9, <2>10
    <3>3. QED
      BY <3>1, <3>2
  <2>12. RemoveFirst(q, e) = a \o b
    BY <2>4 DEF a, b
  <2>13. QED
    BY <2>5, <2>9, <2>10, <2>11, <2>12
<1>3. QED
  BY <1>1, <1>2

\* A sequence is a beginning of what it is continued to.
LEMMA PrefixOfConcat ==
  ASSUME NEW S, NEW s \in Seq(S), NEW r \in Seq(S)
  PROVE  IsPrefix(s, s \o r)
<1>1. Len(s) \in Nat /\ Len(r) \in Nat /\ Len(s \o r) = Len(s) + Len(r)
  BY ConcatProperties, LenProperties
<1>2. SubSeq(s, 1, Len(s)) = SubSeq(s \o r, 1, Len(s))
  <2>1. CASE Len(s) = 0
    BY <2>1, SubSeqEmpty
  <2>2. CASE Len(s) # 0
    <3>1. 1 \in 1 .. Len(s) /\ Len(s) \in 1 .. Len(s)
      BY <1>1, <2>2
    <3>2. QED
      BY <3>1, SubSeqOfConcat1
  <2>3. QED
    BY <2>1, <2>2
<1>3. QED
  BY <1>1, <1>2 DEF IsPrefix

\* A beginning of the same length is the sequence itself.
LEMMA PrefixOfSameLen ==
  ASSUME NEW S, NEW s \in Seq(S), NEW r \in Seq(S), IsPrefix(s, r), Len(s) = Len(r)
  PROVE  s = r
<1>1. SubSeq(s, 1, Len(s)) = s /\ SubSeq(r, 1, Len(r)) = r
  BY SubSeqFull
<1>2. QED
  BY <1>1 DEF IsPrefix

\* One more element behind.
LEMMA PrefixOfAppend ==
  ASSUME NEW S, NEW s \in Seq(S), NEW r \in Seq(S), NEW e \in S, IsPrefix(s, r)
  PROVE  IsPrefix(s, Append(r, e))
<1>1. /\ Len(s) \in Nat /\ Len(r) \in Nat /\ Len(s) =< Len(r)
      /\ SubSeq(s, 1, Len(s)) = SubSeq(r, 1, Len(s))
  BY LenProperties DEF IsPrefix
<1>2. /\ Append(r, e) \in Seq(S) /\ Len(Append(r, e)) = Len(r) + 1
      /\ \A i \in 1 .. Len(r) : Append(r, e)[i] = r[i]
  BY AppendProperties
<1>3. SubSeq(Append(r, e), 1, Len(s)) = SubSeq(r, 1, Len(s))
  <2> DEFINE t == Append(r, e)
             n == Len(s)
  <2>1. n \in Nat /\ n =< Len(r) /\ t \in Seq(S) /\ Len(t) = Len(r) + 1
        /\ \A i \in 1 .. n : t[i] = r[i]
    BY <1>1, <1>2
  <2>2. \A i \in 1 .. n : r[i] \in S /\ t[i] \in S
    BY <1>1, <2>1, ElementOfSeq
  <2> HIDE DEF t, n
  <2>3. 1 \in Int /\ n \in Int
    BY <2>1
  <2>4. /\ SubSeq(r, 1, n) \in Seq(S) /\ SubSeq(t, 1, n) \in Seq(S)
        /\ Len(SubSeq(r, 1, n)) = Len(SubSeq(t, 1, n))
        /\ \A i \in 1 .. n - 1 + 1 : SubSeq(r, 1, n)[i] = r[1 + i - 1]
        /\ \A i \in 1 .. n - 1 + 1 : SubSeq(t, 1, n)[i] = t[1 + i - 1]
        /\ Len(SubSeq(r, 1, n)) = IF 1 =< n THEN n - 1 + 1 ELSE 0
    BY <2>2, <2>3, SubSeqProperties
  <2>5. Len(SubSeq(r, 1, n)) = n
    BY <2>1, <2>4
  <2>6. \A i \in 1 .. n : SubSeq(r, 1, n)[i] = SubSeq(t, 1, n)[i]
    <3>1. \A i \in 1 .. n : i \in 1 .. n - 1 + 1 /\ 1 + i - 1 = i
      BY <2>1
    <3>2. QED
      BY <2>1, <2>4, <3>1
  <2>7. SubSeq(r, 1, n) = SubSeq(t, 1, n)
    BY <2>4, <2>5, <2>6, SeqEqual
  <2>8. QED
    BY <2>7 DEF t, n
<1>4. QED
  BY <1>1, <1>2, <1>3 DEF IsPrefix

-----------------------------------------------------------------------------
\* Finite sets: what holds of {}, and of every set with one more element if it
\* holds of the set, holds of every subset.
LEMMA FiniteSetInduction ==
  ASSUME NEW S, IsFiniteSet(S), NEW P, {} \in P,
         \A T \in SUBSET S : \A x \in S \ T : T \in P => T \cup {x} \in P
  PROVE  \A T \in SUBSET S : T \in P
<1> DEFINE N == {n \in Nat : \A T \in SUBSET S : Cardinality(T) = n => T \in P}
<1>1. \A T \in SUBSET S : IsFiniteSet(T) /\ Cardinality(T) \in Nat
  BY FS_Subset, FS_CardinalityType
<1>2. 0 \in N
  <2>1. \A T \in SUBSET S : Cardinality(T) = 0 => T = {}
    BY <1>1, FS_EmptySet
  <2>2. QED
    BY <2>1
<1>3. ASSUME NEW n \in Nat, n \in N PROVE n + 1 \in N
  <2>1. ASSUME NEW T \in SUBSET S, Cardinality(T) = n + 1 PROVE T \in P
    <3>1. T # {} /\ IsFiniteSet(T)
      BY <1>1, <2>1, FS_EmptySet
    <3>2. PICK x \in T : TRUE
      BY <3>1
    <3> DEFINE R == T \ {x}
    <3>3. R \in SUBSET S /\ x \in S \ R /\ R \cup {x} = T
      BY <2>1, <3>2
    <3>4. Cardinality(R) = n
      <4>1. Cardinality(T \ {x}) = Cardinality(T) - 1
        BY <3>1, <3>2, FS_RemoveElement
      <4>2. QED
        BY <2>1, <4>1
    <3>5. R \in P
      BY <1>3, <3>3, <3>4
    <3>6. QED
      BY <3>3, <3>5
  <2>2. QED
    BY <2>1
<1>4. \A n \in Nat : n \in N
  <2> HIDE DEF N
  <2>1. QED
    BY <1>2, <1>3, SetOfNatInduction
<1>5. QED
  BY <1>1, <1>4

-----------------------------------------------------------------------------
\* Sums over finite sets.  SumFunctionOnSet takes the elements in the order in
\* which CHOOSE names them; the value does not depend on it.

Chosen(T) == CHOOSE x \in T : TRUE

\* g holds the sums of f over the subsets of S, one element after another.
AreSums(g, f, S) ==
  g = [T \in SUBSET S |-> IF T = {} THEN 0 ELSE f[Chosen(T)] + g[T \ {Chosen(T)}]]

LEMMA ChosenIn ==
  ASSUME NEW T, T # {}
  PROVE  Chosen(T) \in T
BY DEF Chosen

\* There is such a g ...
LEMMA SumsExist ==
  ASSUME NEW S, IsFiniteSet(S), NEW f
  PROVE  \E g : AreSums(g, f, S)
<1> DEFINE Value(h, T) == IF T = {} THEN 0 ELSE f[Chosen(T)] + h[T \ {Chosen(T)}]
           Up(n) == {T \in SUBSET S : Cardinality(T) =< n}
           Good(n, h) == /\ DOMAIN h = Up(n) /\ h = [T \in Up(n) |-> h[T]]
                         /\ \A T \in Up(n) : h[T] = Value(h, T)
           N == {n \in Nat : \E h : Good(n, h)}
<1>1. \A T \in SUBSET S : IsFiniteSet(T) /\ Cardinality(T) \in Nat
  BY FS_Subset, FS_CardinalityType
<1>2. \A T \in SUBSET S : T # {} =>
        /\ T \ {Chosen(T)} \in SUBSET S
        /\ Cardinality(T \ {Chosen(T)}) = Cardinality(T) - 1
  <2> SUFFICES ASSUME NEW T \in SUBSET S, T # {}
               PROVE  Cardinality(T \ {Chosen(T)}) = Cardinality(T) - 1
    OBVIOUS
  <2>1. Chosen(T) \in T /\ IsFiniteSet(T)
    BY <1>1, ChosenIn
  <2>2. QED
    BY <2>1, FS_RemoveElement
<1>3. 0 \in N
  <2> DEFINE h == [T \in Up(0) |-> 0]
  <2>1. \A T \in Up(0) : T = {}
    <3> SUFFICES ASSUME NEW T \in SUBSET S, Cardinality(T) =< 0 PROVE T = {}
      OBVIOUS
    <3>1. Cardinality(T) = 0 /\ IsFiniteSet(T)
      BY <1>1
    <3>2. QED
      BY <3>1, FS_EmptySet
  <2>2. Good(0, h)
    BY <2>1
  <2>3. QED
    BY <2>2
<1>4. ASSUME NEW n \in Nat, n \in N PROVE n + 1 \in N
  <2>1. PICK h : Good(n, h)
    BY <1>4
  <2> DEFINE k == [T \in Up(n + 1) |-> IF T \in Up(n) THEN h[T] ELSE Value(h, T)]
  <2>2. ASSUME NEW T \in Up(n + 1) PROVE k[T] = Value(k, T)
    <3>1. CASE T = {}
      <4>1. T \in Up(n)
        BY <3>1, FS_EmptySet
      <4>2. QED
        BY <2>1, <3>1, <4>1, <2>2
    <3>2. CASE T # {}
      <4> DEFINE R == T \ {Chosen(T)}
      <4>1. R \in Up(n) /\ R \in Up(n + 1)
        BY <1>1, <1>2, <2>2, <3>2
      <4>2. k[R] = h[R]
        BY <4>1
      <4>3. k[T] = Value(h, T)
        BY <2>1, <2>2
      <4>4. QED
        BY <3>2, <4>2, <4>3
    <3>3. QED
      BY <3>1, <3>2
  <2>3. k = [T \in Up(n + 1) |-> k[T]] /\ DOMAIN k = Up(n + 1)
    OBVIOUS
  <2> HIDE DEF k
  <2>4. Good(n + 1, k)
    BY <2>2, <2>3
  <2> HIDE DEF Good
  <2>5. QED
    BY <2>4
<1>5. \A n \in Nat : n \in N
  <2> HIDE DEF N
  <2>1. QED
    BY <1>3, <1>4, SetOfNatInduction
<1>6. PICK h : Good(Cardinality(S), h)
  BY <1>1, <1>5
<1>7. Up(Cardinality(S)) = SUBSET S
  BY FS_Subset
<1>8. h = [T \in SUBSET S |-> Value(h, T)]
  BY <1>6, <1>7
<1>9. AreSums(h, f, S)
  BY <1>8 DEF AreSums
<1>10. QED
  BY <1>9

\* ... and on the subsets they have in common any two of them agree.
LEMMA SumsAgree ==
  ASSUME NEW S, IsFiniteSet(S), NEW T \in SUBSET S, NEW f, NEW g, NEW h,
         AreSums(g, f, S), AreSums(h, f, T)
  PROVE  \A R \in SUBSET T : g[R] = h[R]
<1> DEFINE N == {n \in Nat : \A R \in SUBSET T : Cardinality(R) = n => g[R] = h[R]}
<1>1. \A R \in SUBSET S : IsFiniteSet(R) /\ Cardinality(R) \in Nat
  BY FS_Subset, FS_CardinalityType
<1>2. \A R \in SUBSET T :
        /\ g[R] = IF R = {} THEN 0 ELSE f[Chosen(R)] + g[R \ {Chosen(R)}]
        /\ h[R] = IF R = {} THEN 0 ELSE f[Chosen(R)] + h[R \ {Chosen(R)}]
  BY DEF AreSums
<1>3. 0 \in N
  <2>1. \A R \in SUBSET T : Cardinality(R) = 0 => R = {}
    BY <1>1, FS_EmptySet
  <2>2. QED
    BY <1>2, <2>1
<1>4. ASSUME NEW n \in Nat, n \in N PROVE n + 1 \in N
  <2>1. ASSUME NEW R \in SUBSET T, Cardinality(R) = n + 1 PROVE g[R] = h[R]
    <3>1. R # {} /\ IsFiniteSet(R)
      BY <1>1, <2>1, FS_EmptySet
    <3>2. Chosen(R) \in R
      BY <3>1, ChosenIn
    <3>3. Cardinality(R \ {Chosen(R)}) = n
      <4>1. Cardinality(R \ {Chosen(R)}) = Cardinality(R) - 1
        BY <3>1, <3>2, FS_RemoveElement
      <4>2. QED
        BY <2>1, <4>1
    <3>4. g[R \ {Chosen(R)}] = h[R \ {Chosen(R)}]
      BY <1>4, <3>3
    <3>5. QED
      BY <1>2, <3>1, <3>4
  <2>2. QED
    BY <2>1
<1>5. \A n \in Nat : n \in N
  <2> HIDE DEF N
  <2>1. QED
    BY <1>3, <1>4, SetOfNatInduction
<1>6. QED
  BY <1>1, <1>5

LEMMA SumIs ==
  ASSUME NEW S, IsFiniteSet(S), NEW f
  PROVE  \E g : AreSums(g, f, S) /\ SumFunctionOnSet(f, S) = g[S]
<1> DEFINE g == CHOOSE g : AreSums(g, f, S)
<1>1. AreSums(g, f, S)
  BY SumsExist
<1>2. SumFunctionOnSet(f, S) = g[S]
  BY DEF SumFunctionOnSet, FoldFunctionOnSet, MapThenFoldSet, AreSums, Chosen
<1>3. QED
  BY <1>1, <1>2

LEMMA SumEmpty ==
  ASSUME NEW f
  PROVE  SumFunctionOnSet(f, {}) = 0
<1>1. IsFiniteSet({})
  BY FS_EmptySet
<1>2. PICK g : AreSums(g, f, {}) /\ SumFunctionOnSet(f, {}) = g[{}]
  BY <1>1, SumIs
<1>3. QED
  BY <1>2 DEF AreSums

LEMMA SumChosen ==
  ASSUME NEW S, IsFiniteSet(S), S # {}, NEW f
  PROVE  SumFunctionOnSet(f, S) = f[Chosen(S)] + SumFunctionOnSet(f, S \ {Chosen(S)})
<1> DEFINE T == S \ {Chosen(S)}
<1>1. T \in SUBSET S /\ IsFiniteSet(T)
  BY FS_Subset
<1>2. PICK g : AreSums(g, f, S) /\ SumFunctionOnSet(f, S) = g[S]
  BY SumIs
<1>3. PICK h : AreSums(h, f, T) /\ SumFunctionOnSet(f, T) = h[T]
  BY <1>1, SumIs
<1>4. g[T] = h[T]
  BY <1>1, <1>2, <1>3, SumsAgree
<1>5. g[S] = f[Chosen(S)] + g[T]
  BY <1>2 DEF AreSums
<1>6. QED
  BY <1>2, <1>3, <1>4, <1>5

LEMMA SumInt ==
  ASSUME NEW S, IsFiniteSet(S), NEW f, \A x \in S : f[x] \in Int
  PROVE  \A T \in SUBSET S : SumFunctionOnSet(f, T) \in Int
<1> DEFINE Sum(T) == SumFunctionOnSet(f, T)
           N == {n \in Nat : \A T \in SUBSET S : Cardinality(T) = n => Sum(T) \in Int}
<1>1. \A T \in SUBSET S : IsFiniteSet(T) /\ Cardinality(T) \in Nat
  BY FS_Subset, FS_CardinalityType
<1>2. 0 \in N
  <2>1. \A T \in SUBSET S : Cardinality(T) = 0 => T = {}
    BY <1>1, FS_EmptySet
  <2>2. Sum({}) \in Int
    BY SumEmpty
  <2> HIDE DEF Sum
  <2>3. QED
    BY <2>1, <2>2
<1>3. ASSUME NEW n \in Nat, n \in N PROVE n + 1 \in N
  <2>1. ASSUME NEW T \in SUBSET S, Cardinality(T) = n + 1 PROVE Sum(T) \in Int
    <3> DEFINE y == Chosen(T)
    <3>1. T # {} /\ IsFiniteSet(T)
      BY <1>1, <2>1, FS_EmptySet
    <3>2. y \in T /\ Sum(T) = f[y] + Sum(T \ {y})
      BY <3>1, ChosenIn, SumChosen
    <3> HIDE DEF y, Sum
    <3>3. T \ {y} \in SUBSET S /\ Cardinality(T \ {y}) = n
      <4>1. Cardinality(T \ {y}) = Cardinality(T) - 1
        BY <3>1, <3>2, FS_RemoveElement
      <4>2. QED
        BY <2>1, <4>1
    <3>4. Sum(T \ {y}) \in Int
      BY <1>3, <3>3
    <3>5. QED
      BY <3>2, <3>4
  <2>2. QED
    BY <2>1
<1>4. \A n \in Nat : n \in N
  <2> HIDE DEF N
  <2>1. QED
    BY <1>2, <1>3, SetOfNatInduction
<1>5. QED
  BY <1>1, <1>4

\* Any element may be taken out first.
LEMMA SumTakeOut ==
  ASSUME NEW S, IsFiniteSet(S), NEW f, \A x \in S : f[x] \in Int
  PROVE  \A x \in S :
           SumFunctionOnSet(f, S) = f[x] + SumFunctionOnSet(f, S \ {x})
<1> DEFINE Sum(T) == SumFunctionOnSet(f, T)
           Good(T) == \A x \in T : Sum(T) = f[x] + Sum(T \ {x})
           N == {n \in Nat : \A T \in SUBSET S : Cardinality(T) = n => Good(T)}
<1>1. \A T \in SUBSET S : IsFiniteSet(T) /\ Cardinality(T) \in Nat
  BY FS_Subset, FS_CardinalityType
<1>2. \A T \in SUBSET S : Sum(T) \in Int
  BY SumInt
<1>3. 0 \in N
  <2>1. \A T \in SUBSET S : Cardinality(T) = 0 => T = {}
    BY <1>1, FS_EmptySet
  <2>2. Good({})
    OBVIOUS
  <2> HIDE DEF Good
  <2>3. QED
    BY <2>1, <2>2
<1>4. ASSUME NEW n \in Nat, n \in N PROVE n + 1 \in N
  <2>1. ASSUME NEW T \in SUBSET S, Cardinality(T) = n + 1 PROVE Good(T)
    <3> DEFINE y == Chosen(T)
    <3>1. T # {} /\ IsFiniteSet(T)
      BY <1>1, <2>1, FS_EmptySet
    <3>2. y \in T /\ Sum(T) = f[y] + Sum(T \ {y})
      BY <3>1, ChosenIn, SumChosen
    <3> HIDE DEF y, Sum
    <3>3. ASSUME NEW x \in T, x # y PROVE Sum(T) = f[x] + Sum(T \ {x})
      <4>1. \A z \in T : T \ {z} \in SUBSET S /\ Cardinality(T \ {z}) = n
        <5>1. \A z \in T : Cardinality(T \ {z}) = Cardinality(T) - 1
          BY <3>1, FS_RemoveElement
        <5>2. QED
          BY <2>1, <5>1
      <4>2. Good(T \ {y}) /\ Good(T \ {x})
        BY <1>4, <3>2, <4>1
      <4>3. Sum(T \ {y}) = f[x] + Sum((T \ {y}) \ {x})
        BY <3>3, <4>2
      <4>4. Sum(T \ {x}) = f[y] + Sum((T \ {x}) \ {y})
        BY <3>2, <3>3, <4>2
      <4>5. /\ (T \ {y}) \ {x} = (T \ {x}) \ {y} /\ (T \ {y}) \ {x} \in SUBSET S
            /\ f[x] \in Int /\ f[y] \in Int
        BY <3>2
      <4>6. Sum((T \ {y}) \ {x}) \in Int
        BY <1>2, <4>5
      <4>7. Sum((T \ {x}) \ {y}) = Sum((T \ {y}) \ {x})
        BY <4>5
      <4> DEFINE rest == Sum((T \ {y}) \ {x})
      <4>8. /\ Sum(T) = f[y] + (f[x] + rest) /\ Sum(T \ {x}) = f[y] + rest
            /\ rest \in Int
        BY <3>2, <4>3, <4>4, <4>6, <4>7
      <4> HIDE DEF rest
      <4>9. QED
        BY <4>5, <4>8
    <3>4. QED
      BY <3>2, <3>3
  <2> HIDE DEF Good
  <2>2. QED
    BY <2>1
<1>5. \A n \in Nat : n \in N
  <2> HIDE DEF N
  <2>1. QED
    BY <1>3, <1>4, SetOfNatInduction
<1>6. QED
  BY <1>1, <1>5

LEMMA SumAdd ==
  ASSUME NEW S, IsFiniteSet(S), NEW x, x \notin S, NEW f, f[x] \in Int,
         \A y \in S : f[y] \in Int
  PROVE  SumFunctionOnSet(f, S \cup {x}) = SumFunctionOnSet(f, S) + f[x]
<1> DEFINE T == S \cup {x}
<1>1. IsFiniteSet(T) /\ T \ {x} = S /\ x \in T /\ \A y \in T : f[y] \in Int
  BY FS_AddElement
<1> HIDE DEF T
<1>2. SumFunctionOnSet(f, T) = f[x] + SumFunctionOnSet(f, S)
  BY <1>1, SumTakeOut
<1>3. SumFunctionOnSet(f, S) \in Int /\ f[x] \in Int
  BY SumInt
<1>4. QED
  BY <1>2, <1>3 DEF T

LEMMA SumNat ==
  ASSUME NEW S, IsFiniteSet(S), NEW f, \A x \in S : f[x] \in Nat
  PROVE  SumFunctionOnSet(f, S) \in Nat
<1> DEFINE P == {T \in SUBSET S : SumFunctionOnSet(f, T) \in Nat}
<1>1. {} \in P
  BY SumEmpty
<1>2. ASSUME NEW T \in SUBSET S, NEW x \in S \ T, T \in P PROVE T \cup {x} \in P
  <2>1. IsFiniteSet(T) /\ x \notin T /\ f[x] \in Int /\ \A y \in T : f[y] \in Int
    BY FS_Subset
  <2>2. SumFunctionOnSet(f, T \cup {x}) = SumFunctionOnSet(f, T) + f[x]
    BY <2>1, SumAdd
  <2>3. QED
    BY <1>2, <2>2
<1> HIDE DEF P
<1>3. \A T \in SUBSET S : T \in P
  BY <1>1, <1>2, FiniteSetInduction
<1>4. QED
  BY <1>3 DEF P

\* Two sums whose terms are the same, under an injection h of the indices.
SameTerms(f, g, h, S) ==
  /\ \A x, y \in S : h[x] = h[y] => x = y
  /\ \A x \in S : f[x] \in Int /\ g[h[x]] = f[x]

LEMMA SumOverImage ==
  ASSUME NEW S, IsFiniteSet(S), NEW h, NEW f, NEW g, SameTerms(f, g, h, S)
  PROVE  SumFunctionOnSet(g, {h[x] : x \in S}) = SumFunctionOnSet(f, S)
<1> DEFINE Image(T) == {h[x] : x \in T}
           P == {T \in SUBSET S :
                   /\ IsFiniteSet(Image(T))
                   /\ SumFunctionOnSet(g, Image(T)) = SumFunctionOnSet(f, T)}
<1>1. {} \in P
  <2>1. Image({}) = {}
    OBVIOUS
  <2>2. SumFunctionOnSet(g, Image({})) = SumFunctionOnSet(f, {})
    BY <2>1, SumEmpty
  <2>3. IsFiniteSet(Image({}))
    BY <2>1, FS_EmptySet
  <2>4. QED
    BY <2>2, <2>3
<1>2. ASSUME NEW T \in SUBSET S, NEW x \in S \ T, T \in P PROVE T \cup {x} \in P
  <2>1. IsFiniteSet(T) /\ x \notin T /\ f[x] \in Int /\ \A y \in T : f[y] \in Int
    BY FS_Subset DEF SameTerms
  <2>2. SumFunctionOnSet(f, T \cup {x}) = SumFunctionOnSet(f, T) + f[x]
    BY <2>1, SumAdd
  <2> DEFINE I == Image(T)
             v == h[x]
  <2>3. IsFiniteSet(I) /\ SumFunctionOnSet(g, I) = SumFunctionOnSet(f, T)
    BY <1>2
  <2>4. Image(T \cup {x}) = I \cup {v}
    OBVIOUS
  <2>5. v \notin I
    BY DEF SameTerms
  <2>6. (\A y \in I : g[y] \in Int) /\ g[v] \in Int /\ g[v] = f[x]
    BY DEF SameTerms
  <2> HIDE DEF I, v, Image
  <2>7. SumFunctionOnSet(g, I \cup {v}) = SumFunctionOnSet(g, I) + g[v]
    BY <2>3, <2>5, <2>6, SumAdd
  <2>8. IsFiniteSet(I \cup {v})
    BY <2>3, FS_AddElement
  <2>9. QED
    BY <2>2, <2>3, <2>4, <2>6, <2>7, <2>8
<1> HIDE DEF P
<1>3. \A T \in SUBSET S : T \in P
  BY <1>1, <1>2, FiniteSetInduction
<1>4. QED
  BY <1>3 DEF P

\* Terms that are the same have the same sum.
LEMMA SumSame ==
  ASSUME NEW S, IsFiniteSet(S), NEW f, NEW g, \A x \in S : f[x] \in Int /\ g[x] = f[x]
  PROVE  SumFunctionOnSet(g, S) = SumFunctionOnSet(f, S)
<1> DEFINE h == [x \in S |-> x]
<1>1. {h[x] : x \in S} = S
  OBVIOUS
<1>2. \A x \in S : h[x] = x
  OBVIOUS
<1> HIDE DEF h
<1>3. SumFunctionOnSet(g, {h[x] : x \in S}) = SumFunctionOnSet(f, S)
  BY <1>2, SumOverImage DEF SameTerms
<1>4. QED
  BY <1>1, <1>3

-----------------------------------------------------------------------------
\* Sums of sequences.

LEMMA SumOfSeq ==
  ASSUME NEW q \in Seq(Int)
  PROVE  /\ SumFunction(q) = SumFunctionOnSet(q, 1 .. Len(q))
         /\ IsFiniteSet(1 .. Len(q)) /\ Len(q) \in Nat
         /\ \A i \in 1 .. Len(q) : q[i] \in Int
         /\ SumFunction(q) \in Int
<1>1. Len(q) \in Nat /\ DOMAIN q = 1 .. Len(q) /\ \A i \in 1 .. Len(q) : q[i] \in Int
  BY LenProperties, ElementOfSeq
<1>2. IsFiniteSet(1 .. Len(q))
  BY <1>1, FS_Interval
<1>3. SumFunction(q) = SumFunctionOnSet(q, 1 .. Len(q))
  BY <1>1 DEF SumFunction
<1>4. QED
  BY <1>1, <1>2, <1>3, SumInt

LEMMA SumOfEmpty == SumFunction(<< >>) = 0
<1>1. << >> \in Seq(Int) /\ 1 .. Len(<< >>) = {}
  BY EmptySeq
<1>2. QED
  BY <1>1, SumOfSeq, SumEmpty

LEMMA SumOfAppend ==
  ASSUME NEW q \in Seq(Int), NEW e \in Int
  PROVE  SumFunction(Append(q, e)) = SumFunction(q) + e
<1> DEFINE r == Append(q, e)
           n == Len(q)
<1>1. /\ r \in Seq(Int) /\ Len(r) = n + 1 /\ n \in Nat /\ r[n + 1] = e
      /\ \A i \in 1 .. n : r[i] = q[i] /\ q[i] \in Int
  BY AppendProperties, SumOfSeq
<1> HIDE DEF r, n
<1>2. 1 .. n + 1 = (1 .. n) \cup {n + 1} /\ n + 1 \notin 1 .. n
  BY <1>1
<1>3. IsFiniteSet(1 .. n) /\ SumFunction(q) = SumFunctionOnSet(q, 1 .. n)
  BY SumOfSeq DEF n
<1>4. SumFunction(r) = SumFunctionOnSet(r, 1 .. n + 1)
  BY <1>1, SumOfSeq
<1>5. SumFunctionOnSet(r, (1 .. n) \cup {n + 1}) = SumFunctionOnSet(r, 1 .. n) + r[n + 1]
  <2>1. r[n + 1] \in Int /\ \A i \in 1 .. n : r[i] \in Int
    BY <1>1
  <2>2. QED
    BY <1>2, <1>3, <2>1, SumAdd
<1>6. SumFunctionOnSet(r, 1 .. n) = SumFunctionOnSet(q, 1 .. n)
  BY <1>1, <1>3, SumSame
<1>7. QED
  BY <1>1, <1>2, <1>3, <1>4, <1>5, <1>6 DEF r

LEMMA SumOfTail ==
  ASSUME NEW q \in Seq(Int), q # << >>
  PROVE  SumFunction(q) = q[1] + SumFunction(Tail(q))
<1> DEFINE r == Tail(q)
           n == Len(q) - 1
           h == [i \in 1 .. n |-> i + 1]
<1>1. /\ r \in Seq(Int) /\ Len(r) = n /\ n \in Nat /\ Len(q) = n + 1
      /\ \A i \in 1 .. n : r[i] = q[i + 1] /\ r[i] \in Int
      /\ \A i \in 1 .. n + 1 : q[i] \in Int
  <2>1. Len(q) \in Nat \ {0} /\ \A i \in 1 .. Len(q) : q[i] \in Int
    BY EmptySeq, SumOfSeq
  <2>2. /\ r \in Seq(Int) /\ Len(r) = Len(q) - 1
        /\ \A i \in 1 .. Len(r) : r[i] = q[i + 1]
    BY HeadTailProperties
  <2>3. QED
    BY <2>1, <2>2
<1> HIDE DEF r, n
<1>2. /\ IsFiniteSet(1 .. n) /\ SumFunction(r) = SumFunctionOnSet(r, 1 .. n)
      /\ SumFunction(q) = SumFunctionOnSet(q, 1 .. n + 1) /\ IsFiniteSet(1 .. n + 1)
  BY <1>1, SumOfSeq
<1>3. {h[i] : i \in 1 .. n} = 2 .. n + 1
  <2>1. \A i \in 1 .. n : h[i] \in 2 .. n + 1
    BY <1>1
  <2>2. \A j \in 2 .. n + 1 : j - 1 \in 1 .. n /\ h[j - 1] = j
    BY <1>1
  <2>3. QED
    BY <2>1, <2>2
<1>4. SameTerms(r, q, h, 1 .. n)
  BY <1>1 DEF SameTerms
<1> HIDE DEF h
<1>5. SumFunctionOnSet(q, 2 .. n + 1) = SumFunctionOnSet(r, 1 .. n)
  <2>1. SumFunctionOnSet(q, {h[i] : i \in 1 .. n}) = SumFunctionOnSet(r, 1 .. n)
    <3> DEFINE I == 1 .. n
    <3>1. IsFiniteSet(I) /\ SameTerms(r, q, h, I)
      BY <1>2, <1>4
    <3> HIDE DEF I
    <3>2. SumFunctionOnSet(q, {h[i] : i \in I}) = SumFunctionOnSet(r, I)
      BY ONLY <3>1, SumOverImage
    <3>3. QED
      BY <3>2 DEF I
  <2>2. QED
    BY <1>3, <2>1
<1>6. 1 \in 1 .. n + 1 /\ (1 .. n + 1) \ {1} = 2 .. n + 1
  BY <1>1
<1>7. SumFunctionOnSet(q, 1 .. n + 1) = q[1] + SumFunctionOnSet(q, 2 .. n + 1)
  <2> DEFINE I == 1 .. n + 1
  <2>1. IsFiniteSet(I) /\ \A i \in I : q[i] \in Int
    BY <1>1, <1>2
  <2>2. 1 \in I /\ I \ {1} = 2 .. n + 1
    BY <1>6
  <2> HIDE DEF I
  <2>3. \A i \in I : SumFunctionOnSet(q, I) = q[i] + SumFunctionOnSet(q, I \ {i})
    BY <2>1, SumTakeOut
  <2>4. SumFunctionOnSet(q, I) = q[1] + SumFunctionOnSet(q, 2 .. n + 1)
    BY <2>2, <2>3
  <2>5. QED
    BY <2>4 DEF I
<1>8. QED
  BY <1>2, <1>5, <1>7 DEF r

\* Concatenation under a name of its own: a proof that only rearranges sequences cites the
\* lemma below and never looks at their elements.
Joined(s, t) == s \o t

\* Three sequences may be joined from either end.
LEMMA JoinedFromEither ==
  ASSUME NEW S, NEW s \in Seq(S), NEW t \in Seq(S), NEW u \in Seq(S)
  PROVE  Joined(Joined(s, t), u) = Joined(s, Joined(t, u))
BY ConcatAssociative DEF Joined

\* A sequence is its first element and the rest.
LEMMA HeadThenTail ==
  ASSUME NEW S, NEW q \in Seq(S), q # << >>
  PROVE  /\ q = <<Head(q)>> \o Tail(q)
         /\ Head(q) \in S /\ Tail(q) \in Seq(S) /\ <<Head(q)>> \in Seq(S)
<1> DEFINE e == Head(q)
           r == Tail(q)
<1>1. Len(q) \in Nat \ {0} /\ Len(r) = Len(q) - 1 /\ e = q[1] /\ e \in S /\ r \in Seq(S)
      /\ \A i \in 1 .. Len(r) : r[i] = q[i + 1]
  BY HeadTailProperties, EmptySeq
<1> HIDE DEF e, r
<1>2. <<e>> \in Seq(S) /\ Len(<<e>>) = 1
  BY <1>1
<1>3. <<e>> \o r \in Seq(S) /\ Len(<<e>> \o r) = 1 + Len(r)
      /\ \A i \in 1 .. 1 + Len(r) : (<<e>> \o r)[i] = IF i =< 1 THEN <<e>>[i] ELSE r[i - 1]
  BY <1>1, <1>2, ConcatProperties
<1>4. \A i \in 1 .. Len(q) : q[i] = (<<e>> \o r)[i]
  <2>1. ASSUME NEW i \in 1 .. Len(q), i = 1 PROVE q[i] = (<<e>> \o r)[i]
    BY <1>1, <1>3, <2>1
  <2>2. ASSUME NEW i \in 1 .. Len(q), i # 1 PROVE q[i] = (<<e>> \o r)[i]
    <3>1. i \in 1 .. 1 + Len(r) /\ ~(i =< 1) /\ i - 1 \in 1 .. Len(r) /\ (i - 1) + 1 = i
      BY <1>1, <2>2
    <3>2. QED
      BY <1>1, <1>3, <3>1
  <2>3. QED
    BY <2>1, <2>2
<1>5. Len(q) = Len(<<e>> \o r)
  BY <1>1, <1>3
<1>6. q = <<e>> \o r
  BY <1>3, <1>4, <1>5, SeqEqual
<1>7. QED
  BY <1>1, <1>2, <1>6 DEF e, r

\* What is appended to the second of two sequences is appended to both.
LEMMA AppendToConcat ==
  ASSUME NEW S, NEW q \in Seq(S), NEW r \in Seq(S), NEW e \in S
  PROVE  q \o Append(r, e) = Append(q \o r, e)
<1>1. <<e>> \in Seq(S) /\ Append(r, e) = r \o <<e>> /\ q \o r \in Seq(S)
  BY AppendIsConcat, ConcatProperties
<1>2. Append(q \o r, e) = (q \o r) \o <<e>>
  BY <1>1, AppendIsConcat
<1>3. (q \o r) \o <<e>> = q \o (r \o <<e>>)
  <2> DEFINE one == <<e>>
  <2>1. one \in Seq(S)
    BY <1>1
  <2> HIDE DEF one
  <2>2. Joined(Joined(q, r), one) = Joined(q, Joined(r, one))
    BY <2>1, JoinedFromEither
  <2>3. QED
    BY ONLY <2>2 DEF Joined, one
<1>4. QED
  BY <1>1, <1>2, <1>3

\* The beginning of a longer sequence.
LEMMA SubSeqOfAppend ==
  ASSUME NEW S, NEW q \in Seq(S), NEW e \in S, NEW n \in 0 .. Len(q)
  PROVE  SubSeq(Append(q, e), 1, n) = SubSeq(q, 1, n)
<1>1. Len(q) \in Nat
  BY LenProperties
<1>2. CASE n = 0
  <2>1. \A s : SubSeq(s, 1, 0) = << >>
    BY SubSeqEmpty
  <2>2. QED
    BY <1>2, <2>1
<1>3. CASE n # 0
  <2>1. <<e>> \in Seq(S) /\ 1 \in 1 .. Len(q) /\ n \in 1 .. Len(q)
    BY <1>1, <1>3
  <2> DEFINE one == <<e>>
  <2>2. Append(q, e) = q \o one
    BY AppendIsConcat
  <2> HIDE DEF one
  <2>3. SubSeq(q \o one, 1, n) = SubSeq(q, 1, n)
    BY <2>1, SubSeqOfConcat1 DEF one
  <2>4. QED
    BY <2>2, <2>3
<1>4. QED
  BY <1>2, <1>3

\* A longer beginning of a sequence.
LEMMA OneMoreOfSubSeq ==
  ASSUME NEW S, NEW q \in Seq(S), NEW n \in 0 .. Len(q) - 1
  PROVE  /\ SubSeq(q, 1, n) \in Seq(S) /\ q[n + 1] \in S
         /\ SubSeq(q, 1, n + 1) = Append(SubSeq(q, 1, n), q[n + 1])
<1>1. /\ Len(q) \in Nat /\ 1 \in 1 .. Len(q) /\ n + 1 \in 1 .. Len(q) /\ (n + 1) - 1 = n
      /\ n \in Int
  BY LenProperties
<1>2. q[n + 1] \in S
  BY <1>1, ElementOfSeq
<1>3. SubSeq(q, 1, n) \in Seq(S)
  <2>1. \A i \in 1 .. n : q[i] \in S
    BY <1>1, ElementOfSeq
  <2>2. QED
    BY <1>1, <2>1, SubSeqProperties
<1> DEFINE e == q[n + 1]
           k == n + 1
<1>4. SubSeq(q, 1, k) = SubSeq(q, 1, k - 1) \o <<q[k]>>
  <2>1. k \in 1 .. Len(q)
    BY <1>1
  <2> HIDE DEF k
  <2>2. QED
    BY <1>1, <2>1, SubSeqRecursiveSecond
<1>5. SubSeq(q, 1, n + 1) = SubSeq(q, 1, n) \o <<e>>
  BY <1>1, <1>4
<1> DEFINE begin == SubSeq(q, 1, n)
<1> HIDE DEF e, begin
<1>6. Append(begin, e) = begin \o <<e>>
  BY <1>2, <1>3, AppendIsConcat DEF begin, e
<1>7. QED
  BY <1>2, <1>3, <1>5, <1>6 DEF begin, e

\* An element put in behind the first k of a sequence.
LEMMA InsertedAt ==
  ASSUME NEW S, NEW q \in Seq(S), NEW e \in S, NEW k \in 0 .. Len(q)
  PROVE  /\ InsertAt(q, k + 1, e) \in Seq(S) /\ Len(InsertAt(q, k + 1, e)) = Len(q) + 1
         /\ \A i \in 1 .. Len(q) + 1 :
              InsertAt(q, k + 1, e)[i] = IF i =< k THEN q[i]
                                         ELSE IF i = k + 1 THEN e ELSE q[i - 1]
<1> DEFINE n == Len(q)
           b == SubSeq(q, 1, k)
           one == <<e>>
           r == SubSeq(q, k + 1, n)
           be == b \o one
           t == be \o r
<1>1. n \in Nat /\ k \in Nat /\ k =< n /\ k + 1 \in Int /\ (k + 1) - 1 = k
  BY LenProperties
<1>2. \A i \in 1 .. n : q[i] \in S
  BY ElementOfSeq
<1>3. b \in Seq(S) /\ Len(b) = k /\ \A i \in 1 .. k : b[i] = q[i]
  BY <1>1, <1>2, SubSeqProperties
<1>4. r \in Seq(S) /\ Len(r) = n - k /\ \A i \in 1 .. n - k : r[i] = q[k + i]
  <2>1. \A i \in k + 1 .. n : q[i] \in S
    BY <1>1, <1>2
  <2>2. /\ r \in Seq(S)
        /\ Len(r) = IF k + 1 =< n THEN n - (k + 1) + 1 ELSE 0
        /\ \A i \in 1 .. n - (k + 1) + 1 : r[i] = q[k + 1 + i - 1]
    BY <1>1, <2>1, SubSeqProperties
  <2>3. Len(r) = n - k
    BY <1>1, <2>2
  <2>4. ASSUME NEW i \in 1 .. n - k PROVE r[i] = q[k + i]
    <3>1. i \in 1 .. n - (k + 1) + 1 /\ k + 1 + i - 1 = k + i
      BY <1>1
    <3> HIDE DEF r
    <3>2. QED
      BY <2>2, <3>1
  <2>5. QED
    BY <2>2, <2>3, <2>4
<1>5. one \in Seq(S) /\ Len(one) = 1 /\ one[1] = e
  OBVIOUS
<1> HIDE DEF n, b, one, r
<1>6. /\ be \in Seq(S) /\ Len(be) = k + 1
      /\ \A i \in 1 .. k + 1 : be[i] = IF i =< k THEN b[i] ELSE one[i - k]
  <2>1. /\ be \in Seq(S) /\ Len(be) = Len(b) + Len(one)
        /\ \A i \in 1 .. Len(b) + Len(one) :
             be[i] = IF i =< Len(b) THEN b[i] ELSE one[i - Len(b)]
    BY <1>3, <1>5, ConcatProperties
  <2> HIDE DEF be
  <2>2. QED
    BY <1>3, <1>5, <2>1
<1> HIDE DEF be
<1>7. /\ t \in Seq(S) /\ Len(t) = k + 1 + (n - k)
      /\ \A i \in 1 .. k + 1 + (n - k) : t[i] = IF i =< k + 1 THEN be[i] ELSE r[i - (k + 1)]
  <2>1. /\ t \in Seq(S) /\ Len(t) = Len(be) + Len(r)
        /\ \A i \in 1 .. Len(be) + Len(r) :
             t[i] = IF i =< Len(be) THEN be[i] ELSE r[i - Len(be)]
    BY <1>4, <1>6, ConcatProperties
  <2> HIDE DEF t
  <2>2. QED
    BY <1>4, <1>6, <2>1
<1>8. InsertAt(q, k + 1, e) = t
  BY <1>1 DEF InsertAt, t, be, b, one, r, n
<1> HIDE DEF t
<1>9. ASSUME NEW i \in 1 .. n + 1
      PROVE  t[i] = IF i =< k THEN q[i] ELSE IF i = k + 1 THEN e ELSE q[i - 1]
  <2>1. i \in 1 .. k + 1 + (n - k) /\ i \in Int
    BY <1>1
  <2>2. CASE i =< k
    <3>1. i \in 1 .. k /\ i \in 1 .. k + 1 /\ i =< k + 1
      BY <1>1, <2>2
    <3>2. QED
      BY <1>3, <1>6, <1>7, <2>1, <2>2, <3>1
  <2>3. CASE i = k + 1
    <3>1. ~(i =< k) /\ i - k = 1 /\ i \in 1 .. k + 1 /\ i =< k + 1
      BY <1>1, <2>3
    <3>2. t[i] = one[1]
      BY <1>6, <1>7, <2>1, <3>1
    <3>3. QED
      BY <1>5, <2>3, <3>1, <3>2
  <2>4. CASE i > k + 1
    <3>1. /\ ~(i =< k) /\ i # k + 1 /\ ~(i =< k + 1)
          /\ i - (k + 1) \in 1 .. n - k /\ k + (i - (k + 1)) = i - 1
      BY <1>1, <2>1, <2>4
    <3>2. t[i] = r[i - (k + 1)]
      BY <1>7, <2>1, <3>1
    <3>3. r[i - (k + 1)] = q[k + (i - (k + 1))]
      BY <1>4, <3>1
    <3>4. QED
      BY <3>1, <3>2, <3>3
  <2>5. QED
    BY <1>1, <2>1, <2>2, <2>3, <2>4
<1>10. k + 1 + (n - k) = n + 1
  BY <1>1
<1>11. QED
  BY <1>7, <1>8, <1>9, <1>10 DEF n

\* f holds, for each beginning of a sequence of sequences, all of it in one sequence.
AreJoined(f, q, S) ==
  /\ f \in [0 .. Len(q) -> Seq(S)] /\ f[0] = << >>
  /\ \A n \in 1 .. Len(q) : f[n] = Joined(f[n - 1], q[n])

LEMMA JoinedExist ==
  ASSUME NEW S, NEW q \in Seq(Seq(S))
  PROVE  \E f : AreJoined(f, q, S)
<1> DEFINE m == Len(q)
           V == Seq(S)
           Value(all, n) == Joined(all, q[n])
           step == [x \in V \X (1 .. m) |-> Value(x[1], x[2])]
<1>1. m \in Nat /\ \A n \in 1 .. m : q[n] \in V
  BY LenProperties, ElementOfSeq
<1>2. ASSUME NEW all \in V, NEW n \in 1 .. m PROVE Value(all, n) \in V
  BY <1>1, <1>2, ConcatProperties DEF Joined
<1>3. IsStep(step, m, V)
  <2> HIDE DEF Value, V, m
  <2>1. QED
    BY <1>2 DEF IsStep
<1> HIDE DEF V, m, Value
<1>4. ASSUME NEW all \in V, NEW n \in 1 .. m PROVE step[<<all, n>>] = Value(all, n)
  <2> DEFINE x == <<all, n>>
  <2>1. x \in V \X (1 .. m) /\ x[1] = all /\ x[2] = n
    OBVIOUS
  <2> HIDE DEF x
  <2>2. step[x] = Value(x[1], x[2])
    BY <2>1
  <2>3. QED
    BY <2>1, <2>2 DEF x
<1> DEFINE base == << >>
<1>5. base \in V
  BY DEF V
<1> HIDE DEF step, base
<1>6. PICK f : IsRecursion(f, m, V, base, step)
  BY ONLY <1>1, <1>3, <1>5, RecursionExists
<1>7. ASSUME NEW n \in 1 .. m PROVE f[n] = Value(f[n - 1], n)
  <2>1. n - 1 \in 0 .. m
    BY <1>1
  <2>2. f[n] = step[<<f[n - 1], n>>] /\ f[n - 1] \in V
    BY <1>6, <2>1 DEF IsRecursion
  <2>3. QED
    BY <1>4, <2>2
<1>8. AreJoined(f, q, S)
  BY <1>6, <1>7 DEF AreJoined, IsRecursion, base, Value, m, V
<1>9. QED
  BY <1>8

\* h is what FlattenSeq computes with.
AreFlattened(h, q) ==
  h = [i \in 1 .. Len(q) |-> IF i = 1 THEN q[i] ELSE h[i - 1] \o q[i]]

LEMMA FlattenedAre ==
  ASSUME NEW S, NEW q \in Seq(Seq(S)), NEW f, AreJoined(f, q, S)
  PROVE  AreFlattened([i \in 1 .. Len(q) |-> f[i]], q)
<1> DEFINE m == Len(q)
           h == [i \in 1 .. m |-> f[i]]
<1>1. m \in Nat
  BY LenProperties
<1>2. ASSUME NEW i \in 1 .. m
      PROVE  f[i] = IF i = 1 THEN q[i] ELSE h[i - 1] \o q[i]
  <2>1. q[i] \in Seq(S) /\ f[i] = Joined(f[i - 1], q[i]) /\ f[0] = << >>
    BY <1>1, ElementOfSeq DEF AreJoined
  <2>2. CASE i = 1
    <3> DEFINE none == << >>
    <3>1. none \o q[i] = q[i]
      BY <2>1, ConcatEmptySeq
    <3> HIDE DEF none
    <3>2. i - 1 = 0 /\ f[0] = none
      BY <2>1, <2>2 DEF none
    <3>3. f[i] = Joined(none, q[i])
      BY <2>1, <3>2
    <3>4. Joined(none, q[i]) = q[i]
      BY <3>1 DEF Joined
    <3>5. QED
      BY <2>2, <3>3, <3>4
  <2>3. CASE i # 1
    <3>1. i - 1 \in 1 .. m
      BY <1>1, <2>3
    <3>2. h[i - 1] = f[i - 1]
      BY <3>1
    <3> HIDE DEF h
    <3>3. QED
      BY <2>1, <2>3, <3>2 DEF Joined
  <2>4. QED
    BY <2>2, <2>3
<1>3. h = [i \in 1 .. m |-> IF i = 1 THEN q[i] ELSE h[i - 1] \o q[i]]
  BY <1>2
<1>4. QED
  BY <1>3 DEF AreFlattened

\* FlattenSeq joins all of them.
LEMMA FlattenIs ==
  ASSUME NEW S, NEW q \in Seq(Seq(S)), NEW f, AreJoined(f, q, S)
  PROVE  FlattenSeq(q) = f[Len(q)]
<1> DEFINE m == Len(q)
           h == CHOOSE h : AreFlattened(h, q)
<1>1. m \in Nat
  BY LenProperties
<1>2. CASE m = 0
  <2>1. q = << >> /\ f[m] = << >>
    BY <1>2, EmptySeq DEF AreJoined
  <2>2. QED
    BY <1>2, <2>1 DEF FlattenSeq
<1>3. CASE m # 0
  <2>1. FlattenSeq(q) = h[m]
    BY <1>3 DEF FlattenSeq, AreFlattened
  <2>2. AreFlattened(h, q)
    BY FlattenedAre
  <2> HIDE DEF h
  <2>3. \A i \in 1 .. m : h[i] = IF i = 1 THEN q[i] ELSE h[i - 1] \o q[i]
    BY <2>2 DEF AreFlattened
  <2> DEFINE e == [i \in 1 .. m |-> f[i]]
  <2>4. \A i \in 1 .. m : e[i] = f[i] /\ e[i] = IF i = 1 THEN q[i] ELSE e[i - 1] \o q[i]
    <3>1. AreFlattened(e, q)
      BY FlattenedAre
    <3>2. \A i \in 1 .. m : e[i] = f[i]
      OBVIOUS
    <3> HIDE DEF e
    <3>3. \A i \in 1 .. m : e[i] = IF i = 1 THEN q[i] ELSE e[i - 1] \o q[i]
      BY <3>1 DEF AreFlattened
    <3>4. QED
      BY <3>2, <3>3
  <2> HIDE DEF e, m
  <2> DEFINE N == {n \in 0 .. m : n # 0 => h[n] = e[n]}
  <2>5. 0 \in N
    BY <1>1
  <2>6. ASSUME NEW n \in 0 .. m - 1, n \in N PROVE n + 1 \in N
    <3>1. n + 1 \in 1 .. m /\ n + 1 \in 0 .. m /\ (n + 1) - 1 = n /\ (n + 1 # 1 => n # 0)
      BY <1>1
    <3>2. h[n + 1] = IF n + 1 = 1 THEN q[n + 1] ELSE h[n] \o q[n + 1]
      BY <2>3, <3>1
    <3>3. e[n + 1] = IF n + 1 = 1 THEN q[n + 1] ELSE e[n] \o q[n + 1]
      BY <2>4, <3>1
    <3>4. n # 0 => h[n] = e[n]
      BY <2>6
    <3>5. QED
      BY <3>1, <3>2, <3>3, <3>4
  <2> HIDE DEF N
  <2>7. m \in N
    <3>1. \A n \in 0 .. m : n \in N
      BY <1>1, <2>5, <2>6, UpToInduction
    <3>2. QED
      BY <1>1, <3>1
  <2>8. h[m] = e[m] /\ m \in 1 .. m
    BY <1>1, <1>3, <2>7 DEF N
  <2>9. QED
    BY <2>1, <2>4, <2>8 DEF m
<1>4. QED
  BY <1>2, <1>3

\* One more sequence is joined to the others.
LEMMA FlattenOfAppend ==
  ASSUME NEW S, NEW q \in Seq(Seq(S)), NEW s \in Seq(S)
  PROVE  /\ FlattenSeq(q) \in Seq(S)
         /\ FlattenSeq(Append(q, s)) = Joined(FlattenSeq(q), s)
<1> DEFINE m == Len(q)
           r == Append(q, s)
<1>1. PICK f : AreJoined(f, q, S)
  BY JoinedExist
<1>2. PICK g : AreJoined(g, r, S)
  <2>1. r \in Seq(Seq(S))
    BY AppendProperties
  <2>2. QED
    BY <2>1, JoinedExist
<1>3. /\ m \in Nat /\ r \in Seq(Seq(S)) /\ Len(r) = m + 1
      /\ r[m + 1] = s /\ \A i \in 1 .. m : r[i] = q[i]
  BY LenProperties, AppendProperties
<1>4. FlattenSeq(q) = f[m] /\ f[m] \in Seq(S)
  <2>1. m \in 0 .. m
    BY <1>3
  <2>2. QED
    BY <1>1, <2>1, FlattenIs DEF AreJoined
<1>5. FlattenSeq(r) = g[m + 1]
  <2>1. FlattenSeq(r) = g[Len(r)]
    BY <1>2, <1>3, FlattenIs
  <2>2. QED
    BY <1>3, <2>1
<1>6. /\ f[0] = << >> /\ g[0] = << >>
      /\ \A n \in 1 .. m : f[n] = Joined(f[n - 1], q[n])
      /\ \A n \in 1 .. m + 1 : g[n] = Joined(g[n - 1], r[n])
  BY <1>1, <1>2, <1>3 DEF AreJoined
<1> HIDE DEF m, r
<1> DEFINE N == {n \in 0 .. m : f[n] = g[n]}
<1>7. 0 \in N
  BY <1>3, <1>6
<1>8. ASSUME NEW n \in 0 .. m - 1, n \in N PROVE n + 1 \in N
  <2>1. n + 1 \in 1 .. m /\ n + 1 \in 1 .. m + 1 /\ n + 1 \in 0 .. m /\ (n + 1) - 1 = n
    BY <1>3
  <2>2. f[n + 1] = Joined(f[n], q[n + 1]) /\ g[n + 1] = Joined(g[n], q[n + 1])
    BY <1>3, <1>6, <2>1
  <2>3. f[n] = g[n]
    BY <1>8
  <2>4. QED
    BY <2>1, <2>2, <2>3
<1> HIDE DEF N
<1>9. m \in N
  <2>1. \A n \in 0 .. m : n \in N
    BY <1>3, <1>7, <1>8, UpToInduction
  <2>2. QED
    BY <1>3, <2>1
<1>10. f[m] = g[m]
  BY <1>9 DEF N
<1>11. g[m + 1] = Joined(g[m], s)
  <2>1. m + 1 \in 1 .. m + 1 /\ (m + 1) - 1 = m
    BY <1>3
  <2>2. QED
    BY <1>3, <1>6, <2>1
<1>12. QED
  BY <1>4, <1>5, <1>10, <1>11 DEF r

-----------------------------------------------------------------------------
\* What is selected of a queue.

\* g holds what is selected of each beginning of the queue.
AreSelected(g, X, q) ==
  g = [n \in 0 .. Len(q) |->
         IF n = 0 THEN << >>
         ELSE IF q[n] \in X THEN Append(g[n - 1], q[n]) ELSE g[n - 1]]

\* There is such a g ...
LEMMA SelectionExists ==
  ASSUME NEW S, NEW q \in Seq(S), NEW X
  PROVE  \E g : AreSelected(g, X, q)
<1> DEFINE Value(h, n) == IF n = 0 THEN << >>
                          ELSE IF q[n] \in X THEN Append(h[n - 1], q[n]) ELSE h[n - 1]
           Good(m, h) == /\ h = [n \in 0 .. m |-> h[n]]
                         /\ \A n \in 0 .. m : h[n] = Value(h, n)
           N == {m \in Nat : \E h : Good(m, h)}
<1>1. 0 \in N
  <2> DEFINE h == [n \in 0 .. 0 |-> << >>]
  <2>1. h = [n \in 0 .. 0 |-> h[n]] /\ \A n \in 0 .. 0 : h[n] = << >> /\ n = 0
    OBVIOUS
  <2> HIDE DEF h
  <2>2. Good(0, h)
    BY <2>1
  <2>3. QED
    BY <2>2
<1>2. ASSUME NEW m \in Nat, m \in N PROVE m + 1 \in N
  <2>1. PICK h : Good(m, h)
    BY <1>2
  <2> DEFINE k == [n \in 0 .. m + 1 |-> IF n \in 0 .. m THEN h[n] ELSE Value(h, n)]
  <2>2. ASSUME NEW n \in 0 .. m + 1 PROVE k[n] = Value(k, n)
    <3>1. k[n] = Value(h, n)
      BY <2>1
    <3>2. CASE n = 0
      BY <3>1, <3>2
    <3>3. CASE n # 0
      <4>1. n - 1 \in 0 .. m /\ n - 1 \in 0 .. m + 1
        BY <3>3
      <4>2. k[n - 1] = h[n - 1]
        BY <4>1
      <4>3. QED
        BY <3>1, <3>3, <4>2
    <3>4. QED
      BY <3>2, <3>3
  <2>3. k = [n \in 0 .. m + 1 |-> k[n]]
    OBVIOUS
  <2> HIDE DEF k
  <2>4. Good(m + 1, k)
    BY <2>2, <2>3
  <2> HIDE DEF Good
  <2>5. QED
    BY <2>4
<1>3. \A m \in Nat : m \in N
  <2> HIDE DEF N
  <2>1. QED
    BY <1>1, <1>2, SetOfNatInduction
<1>4. PICK h : Good(Len(q), h)
  BY <1>3, LenProperties
<1>5. h = [n \in 0 .. Len(q) |-> Value(h, n)]
  BY <1>4
<1>6. AreSelected(h, X, q)
  BY <1>5 DEF AreSelected
<1>7. QED
  BY <1>6

\* ... and the selection is what it holds of the whole queue.
LEMMA SelectionIs ==
  ASSUME NEW S, NEW q \in Seq(S), NEW X
  PROVE  \E g : AreSelected(g, X, q) /\ Selected(X, q) = g[Len(q)]
<1> DEFINE g == CHOOSE g : AreSelected(g, X, q)
<1>1. AreSelected(g, X, q)
  BY SelectionExists
<1>2. Selected(X, q) = g[Len(q)]
  BY DEF Selected, AreSelected
<1>3. QED
  BY <1>1, <1>2

\* What is appended to a queue changes nothing of what was selected before it.
LEMMA SelectionsAgree ==
  ASSUME NEW S, NEW q \in Seq(S), NEW e \in S, NEW X, NEW g, NEW h,
         AreSelected(g, X, q), AreSelected(h, X, Append(q, e))
  PROVE  \A n \in 0 .. Len(q) : g[n] = h[n]
<1> DEFINE len == Len(q)
           N == {n \in Nat : n =< len => g[n] = h[n]}
<1>1. /\ len \in Nat /\ Len(Append(q, e)) = len + 1
      /\ \A i \in 1 .. len : Append(q, e)[i] = q[i]
  BY LenProperties, AppendProperties
<1>2. \A n \in 0 .. len :
        g[n] = IF n = 0 THEN << >> ELSE IF q[n] \in X THEN Append(g[n - 1], q[n]) ELSE g[n - 1]
  BY DEF AreSelected
<1>3. \A n \in 0 .. len + 1 :
        h[n] = IF n = 0 THEN << >>
               ELSE IF Append(q, e)[n] \in X THEN Append(h[n - 1], Append(q, e)[n]) ELSE h[n - 1]
  BY <1>1 DEF AreSelected
<1> HIDE DEF len
<1>4. 0 \in N
  <2>1. 0 \in 0 .. len /\ 0 \in 0 .. len + 1
    BY <1>1
  <2>2. QED
    BY <1>2, <1>3, <2>1
<1>5. ASSUME NEW n \in Nat, n \in N PROVE n + 1 \in N
  <2> SUFFICES ASSUME n + 1 =< len PROVE g[n + 1] = h[n + 1]
    OBVIOUS
  <2>1. /\ n + 1 \in 0 .. len /\ n + 1 \in 0 .. len + 1 /\ n + 1 \in 1 .. len
        /\ n + 1 # 0 /\ (n + 1) - 1 = n
    BY <1>1
  <2>2. g[n] = h[n]
    BY <1>1, <1>5
  <2>3. Append(q, e)[n + 1] = q[n + 1]
    BY <1>1, <2>1
  <2>4. g[n + 1] = IF q[n + 1] \in X THEN Append(g[n], q[n + 1]) ELSE g[n]
    BY <1>2, <2>1
  <2>5. h[n + 1] = IF q[n + 1] \in X THEN Append(h[n], q[n + 1]) ELSE h[n]
    BY <1>3, <2>1, <2>3
  <2>6. QED
    BY <2>2, <2>4, <2>5
<1>6. \A n \in Nat : n \in N
  <2> HIDE DEF N
  <2>1. QED
    BY <1>4, <1>5, SetOfNatInduction
<1>7. \A n \in 0 .. len : n \in Nat /\ n =< len
  BY <1>1
<1>8. QED
  BY <1>6, <1>7 DEF len

\* Nothing is selected of an empty queue ...
LEMMA SelectedOfEmpty ==
  ASSUME NEW X
  PROVE  Selected(X, << >>) = << >>
<1>1. << >> \in Seq({}) /\ Len(<< >>) = 0
  BY EmptySeq
<1>2. PICK g : AreSelected(g, X, << >>) /\ Selected(X, << >>) = g[Len(<< >>)]
  BY <1>1, SelectionIs
<1>3. 0 \in 0 .. Len(<< >>)
  BY <1>1
<1>4. g[0] = << >>
  BY <1>2, <1>3 DEF AreSelected
<1>5. QED
  BY <1>1, <1>2, <1>4

\* ... and of a longer one also the last element, if it is in the set.
LEMMA SelectedOfAppend ==
  ASSUME NEW S, NEW q \in Seq(S), NEW e \in S, NEW X
  PROVE  Selected(X, Append(q, e)) =
           IF e \in X THEN Append(Selected(X, q), e) ELSE Selected(X, q)
<1> DEFINE len == Len(q)
           r == Append(q, e)
<1>1. r \in Seq(S) /\ len \in Nat /\ Len(r) = len + 1 /\ r[len + 1] = e
  BY LenProperties, AppendProperties
<1>2. PICK g : AreSelected(g, X, q) /\ Selected(X, q) = g[len]
  BY SelectionIs
<1>3. PICK h : AreSelected(h, X, r) /\ Selected(X, r) = h[len + 1]
  BY <1>1, SelectionIs
<1>4. g[len] = h[len]
  <2>1. len \in 0 .. len
    BY <1>1
  <2>2. QED
    BY <1>2, <1>3, <2>1, SelectionsAgree
<1>5. h[len + 1] = IF e \in X THEN Append(h[len], e) ELSE h[len]
  <2>1. len + 1 \in 0 .. len + 1 /\ len + 1 # 0 /\ (len + 1) - 1 = len
    BY <1>1
  <2>2. \A n \in 0 .. len + 1 :
          h[n] = IF n = 0 THEN << >>
                 ELSE IF r[n] \in X THEN Append(h[n - 1], r[n]) ELSE h[n - 1]
    BY <1>1, <1>3 DEF AreSelected
  <2> HIDE DEF r, len
  <2>3. QED
    BY <1>1, <2>1, <2>2
<1>6. QED
  BY <1>2, <1>3, <1>4, <1>5

\* A set of sequences that holds the empty one, and with each one what is
\* appended to it, holds all.
LEMMA SetOfSeqInduction ==
  ASSUME NEW S, NEW P, << >> \in P,
         \A q \in Seq(S) : q \in P => \A e \in S : Append(q, e) \in P
  PROVE  \A q \in Seq(S) : q \in P
<1> SUFFICES ASSUME NEW q \in Seq(S) PROVE q \in P
  OBVIOUS
<1> DEFINE len == Len(q)
           N == {n \in Nat : n =< len => SubSeq(q, 1, n) \in P}
<1>1. len \in Nat
  BY LenProperties
<1>2. 0 \in N
  <2>1. 1 \in Int /\ 0 \in Int /\ 0 < 1
    OBVIOUS
  <2>2. SubSeq(q, 1, 0) = << >>
    BY <2>1, SubSeqEmpty
  <2>3. QED
    BY <2>2
<1>3. ASSUME NEW n \in Nat, n \in N PROVE n + 1 \in N
  <2> SUFFICES ASSUME n + 1 =< len PROVE SubSeq(q, 1, n + 1) \in P
    OBVIOUS
  <2>1. n \in Int /\ n + 1 \in Int /\ n + 1 \in 1 .. len /\ n =< len /\ 1 \in Int
    BY <1>1
  <2>2. \A i \in 1 .. n + 1 : q[i] \in S
    BY <1>1, ElementOfSeq
  <2>3. SubSeq(q, 1, n) \in Seq(S) /\ Len(SubSeq(q, 1, n)) = n
        /\ \A i \in 1 .. n : SubSeq(q, 1, n)[i] = q[i]
    <3>1. /\ SubSeq(q, 1, n) \in Seq(S)
          /\ Len(SubSeq(q, 1, n)) = IF 1 =< n THEN n - 1 + 1 ELSE 0
          /\ \A i \in 1 .. n - 1 + 1 : SubSeq(q, 1, n)[i] = q[1 + i - 1]
      <4>1. \A i \in 1 .. n : q[i] \in S
        BY <2>2
      <4>2. QED
        BY <2>1, <4>1, SubSeqProperties
    <3>2. QED
      BY <3>1
  <2>4. SubSeq(q, 1, n + 1) \in Seq(S) /\ Len(SubSeq(q, 1, n + 1)) = n + 1
        /\ \A i \in 1 .. n + 1 : SubSeq(q, 1, n + 1)[i] = q[i]
    <3>1. /\ SubSeq(q, 1, n + 1) \in Seq(S)
          /\ Len(SubSeq(q, 1, n + 1)) = IF 1 =< n + 1 THEN (n + 1) - 1 + 1 ELSE 0
          /\ \A i \in 1 .. (n + 1) - 1 + 1 : SubSeq(q, 1, n + 1)[i] = q[1 + i - 1]
      BY <2>1, <2>2, SubSeqProperties
    <3>2. QED
      BY <3>1
  <2> DEFINE r == SubSeq(q, 1, n)
             t == SubSeq(q, 1, n + 1)
  <2>5. t = Append(r, q[n + 1])
    <3>1. q[n + 1] \in S
      BY <2>1, <2>2
    <3>2. /\ Append(r, q[n + 1]) \in Seq(S) /\ Len(Append(r, q[n + 1])) = n + 1
          /\ \A i \in 1 .. n : Append(r, q[n + 1])[i] = r[i]
          /\ Append(r, q[n + 1])[n + 1] = q[n + 1]
      BY <2>3, <3>1, AppendProperties
    <3>3. \A i \in 1 .. n + 1 : t[i] = Append(r, q[n + 1])[i]
      <4>1. \A i \in 1 .. n + 1 : i \in 1 .. n \/ i = n + 1
        OBVIOUS
      <4>2. QED
        BY <2>3, <2>4, <3>2, <4>1
    <3> HIDE DEF r, t
    <3>4. QED
      BY <2>4, <3>2, <3>3, SeqEqual DEF r, t
  <2>6. r \in P
    BY <1>3, <2>1
  <2>7. q[n + 1] \in S
    BY <2>1, <2>2
  <2> HIDE DEF r, t
  <2>8. t \in P
    BY <2>3, <2>5, <2>6, <2>7 DEF r
  <2>9. QED
    BY <2>8 DEF t
<1>4. \A n \in Nat : n \in N
  <2> HIDE DEF N
  <2>1. QED
    BY <1>2, <1>3, SetOfNatInduction
<1>5. SubSeq(q, 1, len) \in P
  BY <1>1, <1>4
<1>6. QED
  BY <1>5, SubSeqFull

\* What is selected is in the set, and in the elements of the queue.
LEMMA SelectedSeq ==
  ASSUME NEW S, NEW q \in Seq(S), NEW X
  PROVE  Selected(X, q) \in Seq(S) /\ Selected(X, q) \in Seq(S \cap X)
<1> DEFINE P == {s \in Seq(S) : Selected(X, s) \in Seq(S \cap X)}
<1>1. << >> \in P
  BY SelectedOfEmpty, EmptySeq
<1>2. ASSUME NEW s \in Seq(S), s \in P, NEW e \in S PROVE Append(s, e) \in P
  <2>1. Append(s, e) \in Seq(S)
    BY AppendProperties
  <2>2. CASE e \in X
    <3>1. Selected(X, s) \in Seq(S \cap X) /\ e \in S \cap X
      BY <1>2, <2>2
    <3>2. Append(Selected(X, s), e) \in Seq(S \cap X)
      BY <3>1, AppendProperties
    <3>3. Selected(X, Append(s, e)) = Append(Selected(X, s), e)
      BY <2>2, SelectedOfAppend
    <3>4. QED
      BY <2>1, <3>2, <3>3
  <2>3. CASE e \notin X
    <3>1. Selected(X, Append(s, e)) = Selected(X, s)
      BY <2>3, SelectedOfAppend
    <3>2. QED
      BY <1>2, <2>1, <3>1
  <2>4. QED
    BY <2>2, <2>3
<1>3. \A s \in Seq(S) : s \in P
  <2> HIDE DEF P
  <2>1. QED
    BY <1>1, <1>2, SetOfSeqInduction
<1>4. Selected(X, q) \in Seq(S \cap X)
  BY <1>3
<1>5. QED
  BY <1>4, SeqMonotonic

\* Selecting keeps what it selects, and of the rest nothing.
LEMMA SelectedOfSelected ==
  ASSUME NEW S, NEW q \in Seq(S), NEW X, NEW Y
  PROVE  /\ Y \subseteq X => Selected(Y, Selected(X, q)) = Selected(Y, q)
         /\ Y \cap X = {} => Selected(Y, Selected(X, q)) = << >>
<1> DEFINE P == {s \in Seq(S) :
                   /\ Y \subseteq X => Selected(Y, Selected(X, s)) = Selected(Y, s)
                   /\ Y \cap X = {} => Selected(Y, Selected(X, s)) = << >>}
<1>1. << >> \in P
  BY SelectedOfEmpty, EmptySeq
<1>2. ASSUME NEW s \in Seq(S), s \in P, NEW e \in S PROVE Append(s, e) \in P
  <2>1. Append(s, e) \in Seq(S) /\ Selected(X, s) \in Seq(S)
    BY AppendProperties, SelectedSeq
  <2>2. Selected(Y, Append(s, e)) =
          IF e \in Y THEN Append(Selected(Y, s), e) ELSE Selected(Y, s)
    BY SelectedOfAppend
  <2>3. Selected(Y, Append(Selected(X, s), e)) =
          IF e \in Y THEN Append(Selected(Y, Selected(X, s)), e)
                     ELSE Selected(Y, Selected(X, s))
    BY <2>1, SelectedOfAppend
  <2>4. CASE e \in X
    <3>1. Selected(X, Append(s, e)) = Append(Selected(X, s), e)
      BY <2>4, SelectedOfAppend
    <3>2. Y \cap X = {} => e \notin Y
      BY <2>4
    <3>3. QED
      BY <1>2, <2>1, <2>2, <2>3, <3>1, <3>2
  <2>5. CASE e \notin X
    <3>1. Selected(X, Append(s, e)) = Selected(X, s)
      BY <2>5, SelectedOfAppend
    <3>2. Y \subseteq X => e \notin Y
      BY <2>5
    <3>3. QED
      BY <1>2, <2>1, <2>2, <3>1, <3>2
  <2>6. QED
    BY <2>4, <2>5
<1>3. \A s \in Seq(S) : s \in P
  <2> HIDE DEF P
  <2>1. QED
    BY <1>1, <1>2, SetOfSeqInduction
<1>4. QED
  BY <1>3

\* Of two queues one after the other.
LEMMA SelectedOfConcat ==
  ASSUME NEW S, NEW q \in Seq(S), NEW r \in Seq(S), NEW X
  PROVE  Selected(X, q \o r) = Selected(X, q) \o Selected(X, r)
<1> DEFINE P == {s \in Seq(S) : Selected(X, q \o s) = Selected(X, q) \o Selected(X, s)}
<1>1. << >> \in P
  <2>1. << >> \in Seq(S) /\ Selected(X, << >>) = << >> /\ Selected(X, q) \in Seq(S)
    BY SelectedOfEmpty, SelectedSeq, EmptySeq
  <2>2. q \o << >> = q
    BY ConcatEmptySeq
  <2>3. Selected(X, q) \o << >> = Selected(X, q)
    BY <2>1, ConcatEmptySeq
  <2>4. QED
    BY <2>1, <2>2, <2>3
<1>2. ASSUME NEW s \in Seq(S), s \in P, NEW e \in S PROVE Append(s, e) \in P
  <2>1. Append(s, e) \in Seq(S) /\ q \o s \in Seq(S)
    BY AppendProperties, ConcatProperties
  <2>2. q \o Append(s, e) = Append(q \o s, e)
    BY AppendToConcat
  <2>3. Selected(X, q) \in Seq(S) /\ Selected(X, s) \in Seq(S)
    BY SelectedSeq
  <2>4. Append(Selected(X, q) \o Selected(X, s), e)
        = Selected(X, q) \o Append(Selected(X, s), e)
    <3> DEFINE a == Selected(X, q)
               b == Selected(X, s)
    <3>1. a \in Seq(S) /\ b \in Seq(S)
      BY <2>3
    <3> HIDE DEF a, b
    <3>2. e \in S
      OBVIOUS
    <3> HIDE DEF P
    <3>3. a \o Append(b, e) = Append(a \o b, e)
      BY <3>1, <3>2, AppendToConcat
    <3>4. QED
      BY <3>3 DEF a, b
  <2>5. Selected(X, Append(q \o s, e)) =
          IF e \in X THEN Append(Selected(X, q \o s), e) ELSE Selected(X, q \o s)
    BY <2>1, SelectedOfAppend
  <2>6. Selected(X, Append(s, e)) =
          IF e \in X THEN Append(Selected(X, s), e) ELSE Selected(X, s)
    BY SelectedOfAppend
  <2>7. QED
    BY <1>2, <2>1, <2>2, <2>4, <2>5, <2>6
<1>3. \A s \in Seq(S) : s \in P
  <2> HIDE DEF P
  <2>1. QED
    BY <1>1, <1>2, SetOfSeqInduction
<1>4. QED
  BY <1>3

\* The first element of a queue is selected first.
LEMMA SelectedOfTail ==
  ASSUME NEW S, NEW q \in Seq(S), q # << >>, NEW X
  PROVE  Selected(X, q) = IF Head(q) \in X THEN <<Head(q)>> \o Selected(X, Tail(q))
                          ELSE Selected(X, Tail(q))
<1> DEFINE e == Head(q)
           r == Tail(q)
<1>1. e \in S /\ r \in Seq(S) /\ <<e>> \in Seq(S) /\ q = <<e>> \o r
  BY HeadThenTail
<1> HIDE DEF e, r
<1>2. Selected(X, r) \in Seq(S)
  BY <1>1, SelectedSeq
<1>3. Selected(X, <<e>>) = IF e \in X THEN <<e>> ELSE << >>
  <2>1. << >> \in Seq(S) /\ Append(<< >>, e) = <<e>>
    BY EmptySeq
  <2>2. Selected(X, Append(<< >>, e)) =
          IF e \in X THEN Append(Selected(X, << >>), e) ELSE Selected(X, << >>)
    BY <1>1, <2>1, SelectedOfAppend
  <2>3. QED
    BY <2>1, <2>2, SelectedOfEmpty
<1>4. Selected(X, q) = Selected(X, <<e>>) \o Selected(X, r)
  BY <1>1, SelectedOfConcat
<1>5. << >> \o Selected(X, r) = Selected(X, r)
  BY <1>2, ConcatEmptySeq
<1>6. QED
  BY <1>3, <1>4, <1>5 DEF e, r

\* Nothing is selected when no element is in the set.
LEMMA SelectedNone ==
  ASSUME NEW S, NEW q \in Seq(S), NEW X
  PROVE  Selected(X, q) = << >> <=> \A i \in 1 .. Len(q) : q[i] \notin X
<1> DEFINE P == {s \in Seq(S) : Selected(X, s) = << >> <=>
                                  \A i \in 1 .. Len(s) : s[i] \notin X}
<1>1. << >> \in P
  <2>1. << >> \in Seq(S) /\ Len(<< >>) = 0
    BY EmptySeq
  <2>2. QED
    BY <2>1, SelectedOfEmpty
<1>2. ASSUME NEW s \in Seq(S), s \in P, NEW e \in S PROVE Append(s, e) \in P
  <2> DEFINE r == Append(s, e)
  <2>1. /\ r \in Seq(S) /\ Len(s) \in Nat /\ Len(r) = Len(s) + 1 /\ r[Len(s) + 1] = e
        /\ \A i \in 1 .. Len(s) : r[i] = s[i]
    BY AppendProperties, LenProperties
  <2>2. Selected(X, r) = IF e \in X THEN Append(Selected(X, s), e) ELSE Selected(X, s)
    BY SelectedOfAppend
  <2> HIDE DEF r
  <2>3. Append(Selected(X, s), e) # << >>
    <3>1. Selected(X, s) \in Seq(S)
      BY SelectedSeq
    <3> DEFINE a == Selected(X, s)
    <3> HIDE DEF a
    <3>2. Len(Append(a, e)) = Len(a) + 1 /\ Len(a) \in Nat
      BY <3>1, AppendProperties, LenProperties DEF a
    <3>3. Len(<< >>) = 0
      OBVIOUS
    <3>4. Append(a, e) # << >>
      <4>1. Append(a, e) = << >> => Len(Append(a, e)) = Len(<< >>)
        BY Zenon
      <4>2. QED
        BY <3>2, <3>3, <4>1
    <3>5. QED
      BY <3>4 DEF a
  <2>4. CASE e \in X
    <3>1. Len(s) + 1 \in 1 .. Len(r)
      BY <2>1
    <3>2. QED
      BY <2>1, <2>2, <2>3, <2>4, <3>1 DEF r
  <2>5. CASE e \notin X
    <3>1. (\A i \in 1 .. Len(s) : s[i] \notin X) <=> \A i \in 1 .. Len(r) : r[i] \notin X
      <4>1. \A i \in 1 .. Len(r) : i \in 1 .. Len(s) \/ i = Len(s) + 1
        BY <2>1
      <4>2. \A i \in 1 .. Len(s) : i \in 1 .. Len(r)
        BY <2>1
      <4>3. QED
        BY <2>1, <2>5, <4>1, <4>2
    <3>2. QED
      BY <1>2, <2>1, <2>2, <2>5, <3>1 DEF r
  <2>6. QED
    BY <2>4, <2>5
<1>3. \A s \in Seq(S) : s \in P
  <2> HIDE DEF P
  <2>1. QED
    BY <1>1, <1>2, SetOfSeqInduction
<1>4. QED
  BY <1>3

\* As many are selected as have a place in the queue.
LEMMA LenOfSelected ==
  ASSUME NEW S, NEW q \in Seq(S), NEW X
  PROVE  /\ IsFiniteSet({i \in 1 .. Len(q) : q[i] \in X})
         /\ Len(Selected(X, q)) = Cardinality({i \in 1 .. Len(q) : q[i] \in X})
<1> DEFINE I(s) == {i \in 1 .. Len(s) : s[i] \in X}
           P == {s \in Seq(S) : /\ IsFiniteSet(I(s))
                                /\ Len(Selected(X, s)) = Cardinality(I(s))}
<1>1. << >> \in P
  <2>1. << >> \in Seq(S) /\ Len(<< >>) = 0 /\ Selected(X, << >>) = << >>
    BY EmptySeq, SelectedOfEmpty
  <2>2. I(<< >>) = {}
    BY <2>1
  <2>3. IsFiniteSet({}) /\ Cardinality({}) = 0
    BY FS_EmptySet
  <2> HIDE DEF I
  <2>4. QED
    BY <2>1, <2>2, <2>3
<1>2. ASSUME NEW s \in Seq(S), s \in P, NEW e \in S PROVE Append(s, e) \in P
  <2> DEFINE r == Append(s, e)
             n == Len(s)
  <2>1. /\ r \in Seq(S) /\ n \in Nat /\ Len(r) = n + 1 /\ r[n + 1] = e
        /\ \A i \in 1 .. n : r[i] = s[i]
    BY AppendProperties, LenProperties
  <2>2. Selected(X, r) = IF e \in X THEN Append(Selected(X, s), e) ELSE Selected(X, s)
    BY SelectedOfAppend
  <2>3. IsFiniteSet(I(s)) /\ Len(Selected(X, s)) = Cardinality(I(s))
    BY <1>2
  <2>4. Selected(X, s) \in Seq(S)
    BY SelectedSeq
  <2>5. \A i \in 1 .. n + 1 : i \in 1 .. n \/ i = n + 1
    BY <2>1
  <2>6. n + 1 \notin 1 .. n /\ 1 .. n \subseteq 1 .. n + 1 /\ n + 1 \in 1 .. n + 1
    BY <2>1
  <2> HIDE DEF r, n
  <2>7. CASE e \in X
    <3>1. I(r) = I(s) \cup {n + 1} /\ n + 1 \notin I(s)
      BY <2>1, <2>5, <2>6, <2>7 DEF n
    <3>2. IsFiniteSet(I(r)) /\ Cardinality(I(r)) = Cardinality(I(s)) + 1
      <4> HIDE DEF I
      <4>1. QED
        BY <2>3, <3>1, FS_AddElement
    <3>3. Len(Append(Selected(X, s), e)) = Len(Selected(X, s)) + 1
      BY <2>4, AppendProperties
    <3> HIDE DEF I
    <3>4. QED
      BY <2>1, <2>2, <2>3, <2>7, <3>2, <3>3 DEF r
  <2>8. CASE e \notin X
    <3>1. I(r) = I(s)
      BY <2>1, <2>5, <2>6, <2>8 DEF n
    <3> HIDE DEF I
    <3>2. QED
      BY <2>1, <2>2, <2>3, <2>8, <3>1 DEF r
  <2>9. QED
    BY <2>7, <2>8
<1>3. \A s \in Seq(S) : s \in P
  <2> HIDE DEF P
  <2>1. QED
    BY <1>1, <1>2, SetOfSeqInduction
<1>4. QED
  BY <1>3
==============================================================================
