----------------------------- MODULE DataLemmas -----------------------------
(***************************************************************************)
(* Lemmas about the data the models are made of, that the proofs of more   *)
(* than one component need: inserting an element in a sequence and         *)
(* removing one, joining and cutting sequences, intervals of bytes, and    *)
(* sums over a finite set.                                                 *)
(***************************************************************************)
EXTENDS Integers, FiniteSets, Sequences, SequencesExt, Functions,
        FiniteSetTheorems, FunctionTheorems, SequenceTheorems, WellFoundedInduction, TLAPS

\* A set of naturals has a least element: what inductions are made with, stated
\* without an operator parameter.
LEMMA LeastNat ==
  ASSUME NEW T, T \subseteq Nat, T # {}
  PROVE  \E n \in T : \A m \in T : n <= m
  <1> DEFINE R == OpToRel(<, Nat)
  <1>1. IsWellFoundedOn(R, Nat)
    BY NatLessThanWellFounded
  <1>2. R = {ss \in Nat \X Nat : ss[1] < ss[2]}
    BY DEF OpToRel
  <1> HIDE DEF R
  <1>3. PICK n \in T : \A m \in T : ~ (<<m, n>> \in R)
    BY <1>1, WFMin
  <1>4. \A m \in T : ~ (m < n)
    BY <1>2, <1>3
  <1> QED
    BY <1>4

\* The sum over a finite set of a function that is constant on it.  size is a
\* function that satisfies the recursive definition of the sum, so the recursion
\* has a solution; a smallest set on which two solutions differ does not exist.
LEMMA SumOfConstant ==
  ASSUME NEW S, IsFiniteSet(S), NEW c \in Int, NEW f, \A b \in S : f[b] = c
  PROVE  FoldFunctionOnSet(+, 0, f, S) = c * Cardinality(S)
  <1> DEFINE iter[s \in SUBSET S] ==
               IF s = {} THEN 0
               ELSE LET x == CHOOSE x \in s : TRUE IN f[x] + iter[s \ {x}]
             IsIter(g) ==
               g = [s \in SUBSET S |->
                      IF s = {} THEN 0
                      ELSE LET x == CHOOSE x \in s : TRUE IN f[x] + g[s \ {x}]]
             size == [s \in SUBSET S |-> c * Cardinality(s)]
  <1>1. FoldFunctionOnSet(+, 0, f, S) = iter[S]
    BY DEF FoldFunctionOnSet, MapThenFoldSet
  <1>2. \A s \in SUBSET S : IsFiniteSet(s) /\ Cardinality(s) \in Nat
    BY FS_Subset, FS_CardinalityType
  <1>3. ASSUME NEW s \in SUBSET S, NEW x \in s
        PROVE  /\ f[x] = c
               /\ s \ {x} \in SUBSET S
               /\ Cardinality(s \ {x}) = Cardinality(s) - 1
               /\ c + c * Cardinality(s \ {x}) = c * Cardinality(s)
    <2>1. Cardinality(s \ {x}) = Cardinality(s) - 1
      BY <1>2, FS_RemoveElement
    <2> QED
      BY <1>2, <2>1
  <1>4. IsIter(size)
    <2>1. ASSUME NEW s \in SUBSET S
          PROVE  size[s] = IF s = {} THEN 0
                           ELSE LET x == CHOOSE x \in s : TRUE IN f[x] + size[s \ {x}]
      <3>1. CASE s = {}
        BY <3>1, FS_EmptySet
      <3>2. CASE s # {}
        <4> DEFINE x == CHOOSE x \in s : TRUE
        <4>1. x \in s
          BY <3>2
        <4> HIDE DEF x
        <4>2. size[s] = f[x] + size[s \ {x}]
          BY <1>3, <4>1
        <4> QED
          BY <3>2, <4>2 DEF x
      <3> QED
        BY <3>1, <3>2
    <2>2. size = [s \in SUBSET S |-> size[s]]
      OBVIOUS
    <2> HIDE DEF size
    <2> QED
      BY <2>1, <2>2
  <1>5. IsIter(iter)
    <2>1. iter = CHOOSE g : IsIter(g)
      OBVIOUS
    <2> HIDE DEF IsIter, iter, size
    <2> QED
      BY <1>4, <2>1
  <1>6. ASSUME NEW s \in SUBSET S
        PROVE  iter[s] = IF s = {} THEN 0
                         ELSE LET x == CHOOSE x \in s : TRUE IN f[x] + iter[s \ {x}]
    <2> HIDE DEF iter
    <2> QED
      BY <1>5
  <1> HIDE DEF iter, IsIter, size
  <1> DEFINE wrong == {n \in Nat : \E s \in SUBSET S :
                         Cardinality(s) = n /\ iter[s] # c * Cardinality(s)}
  <1>7. wrong = {}
    <2> SUFFICES ASSUME wrong # {} PROVE FALSE
      OBVIOUS
    <2>1. PICK n \in wrong : \A m \in wrong : n <= m
      BY LeastNat
    <2>2. PICK s \in SUBSET S : Cardinality(s) = n /\ iter[s] # c * Cardinality(s)
      BY <2>1
    <2> HIDE DEF wrong
    <2>3. s # {}
      <3>1. Cardinality({}) = 0 /\ c * 0 = 0
        BY FS_EmptySet
      <3>2. s = {} => iter[s] = 0
        BY <1>6
      <3> QED
        BY <2>2, <3>1, <3>2
    <2> DEFINE x == CHOOSE x \in s : TRUE
    <2>4. x \in s
      BY <2>3
    <2>5. iter[s] = f[x] + iter[s \ {x}]
      BY <1>6, <2>3
    <2> HIDE DEF x
    <2>6. /\ s \ {x} \in SUBSET S
          /\ Cardinality(s \ {x}) = n - 1
          /\ Cardinality(s \ {x}) \in Nat
          /\ f[x] = c
          /\ c + c * Cardinality(s \ {x}) = c * Cardinality(s)
      BY <1>2, <1>3, <2>2, <2>4
    <2>7. iter[s \ {x}] # c * Cardinality(s \ {x})
      BY <2>2, <2>5, <2>6
    <2>8. n - 1 \in wrong
      BY <2>6, <2>7 DEF wrong
    <2>9. n \in Int
      BY <2>1 DEF wrong
    <2> QED
      BY <2>1, <2>8, <2>9
  <1>8. S \in SUBSET S /\ Cardinality(S) \in Nat
    BY <1>2
  <1>9. iter[S] = c * Cardinality(S)
    BY <1>7, <1>8
  <1> QED
    BY <1>1, <1>9

LEMMA SumOfNothing ==
  ASSUME NEW f, NEW s, s = {}
  PROVE  FoldFunctionOnSet(+, 0, f, s) = 0
  <1>1. PICK c \in Int : c = 0
    OBVIOUS
  <1>2. IsFiniteSet(s) /\ \A b \in s : f[b] = c
    BY FS_EmptySet
  <1>3. FoldFunctionOnSet(+, 0, f, s) = c * Cardinality(s)
    BY <1>2, SumOfConstant
  <1>4. c * Cardinality(s) = 0
    BY <1>1, FS_EmptySet
  <1> QED
    BY <1>3, <1>4

\* A sum of integers over a finite set is an integer.  The recursion has a solution
\* because it has one up to every size of a set: one step of the recursion applied to
\* a solution up to the size n is a solution up to n + 1.
LEMMA SumIsInteger ==
  ASSUME NEW S, IsFiniteSet(S), NEW f, \A b \in S : f[b] \in Int
  PROVE  FoldFunctionOnSet(+, 0, f, S) \in Int
  <1> DEFINE iter[s \in SUBSET S] ==
               IF s = {} THEN 0
               ELSE LET x == CHOOSE x \in s : TRUE IN f[x] + iter[s \ {x}]
             Step(g) == [s \in SUBSET S |->
                           IF s = {} THEN 0
                           ELSE LET x == CHOOSE x \in s : TRUE IN f[x] + g[s \ {x}]]
             UpTo(g, n) == \A s \in SUBSET S : Cardinality(s) <= n => g[s] = Step(g)[s]
  <1>1. FoldFunctionOnSet(+, 0, f, S) = iter[S]
    BY DEF FoldFunctionOnSet, MapThenFoldSet
  <1>2. \A s \in SUBSET S : IsFiniteSet(s) /\ Cardinality(s) \in Nat /\ Cardinality(s) <= Cardinality(S)
    BY FS_Subset, FS_CardinalityType
  <1>3. ASSUME NEW g, NEW s \in SUBSET S
        PROVE  /\ s = {} => Step(g)[s] = 0
               /\ s # {} => \E x \in s : /\ s \ {x} \in SUBSET S
                                         /\ Cardinality(s \ {x}) = Cardinality(s) - 1
                                         /\ f[x] \in Int
                                         /\ \A h : Step(h)[s] = f[x] + h[s \ {x}]
    <2>1. CASE s = {}
      BY <2>1
    <2>2. CASE s # {}
      <3> DEFINE x == CHOOSE x \in s : TRUE
      <3>1. x \in s
        BY <2>2
      <3>2. \A h : Step(h)[s] = f[x] + h[s \ {x}]
        BY <2>2
      <3> HIDE DEF x, Step
      <3>3. Cardinality(s \ {x}) = Cardinality(s) - 1
        BY <1>2, <3>1, FS_RemoveElement
      <3> QED
        BY <2>2, <3>1, <3>2, <3>3
    <2> QED
      BY <2>1, <2>2
  <1>4. \A g : Step(g) = [s \in SUBSET S |-> Step(g)[s]]
    OBVIOUS
  <1>5. iter = CHOOSE g : g = Step(g)
    OBVIOUS
  <1> HIDE DEF iter, Step
  <1> DEFINE none == {n \in Nat : \A g \in [SUBSET S -> Int] : ~UpTo(g, n)}
  <1>6. none = {}
    <2> SUFFICES ASSUME none # {} PROVE FALSE
      OBVIOUS
    <2>1. PICK n \in none : \A m \in none : n <= m
      BY LeastNat
    <2>2. n \in Nat /\ \A g \in [SUBSET S -> Int] : ~UpTo(g, n)
      BY <2>1
    <2>3. \E g \in [SUBSET S -> Int] : n = 0 \/ UpTo(g, n - 1)
      <3>1. CASE n = 0
        <4>1. [s \in SUBSET S |-> 0] \in [SUBSET S -> Int]
          OBVIOUS
        <4> QED
          BY <3>1, <4>1
      <3>2. CASE n # 0
        <4>1. n - 1 \in Nat /\ ~(n <= n - 1)
          BY <2>2, <3>2
        <4>2. n - 1 \notin none
          BY <2>1, <4>1
        <4> QED
          BY <4>1, <4>2
      <3> QED
        BY <3>1, <3>2
    <2>4. PICK g \in [SUBSET S -> Int] : n = 0 \/ UpTo(g, n - 1)
      BY <2>3
    <2> HIDE DEF none
    <2>5. Step(g) \in [SUBSET S -> Int]
      <3>1. ASSUME NEW s \in SUBSET S PROVE Step(g)[s] \in Int
        <4>1. CASE s = {}
          BY <1>3, <4>1
        <4>2. CASE s # {}
          <5>1. PICK x \in s : /\ s \ {x} \in SUBSET S
                               /\ f[x] \in Int
                               /\ \A h : Step(h)[s] = f[x] + h[s \ {x}]
            BY <1>3, <4>2
          <5>2. Step(g)[s] = f[x] + g[s \ {x}] /\ g[s \ {x}] \in Int
            BY <5>1
          <5> QED
            BY <5>1, <5>2
        <4> QED
          BY <4>1, <4>2
      <3> QED
        BY <1>4, <3>1
    <2>6. ASSUME NEW s \in SUBSET S, Cardinality(s) <= n
          PROVE  Step(g)[s] = Step(Step(g))[s]
      <3>1. CASE s = {}
        BY <1>3, <3>1
      <3>2. CASE s # {}
        <4>1. PICK x \in s : /\ s \ {x} \in SUBSET S
                             /\ Cardinality(s \ {x}) = Cardinality(s) - 1
                             /\ \A h : Step(h)[s] = f[x] + h[s \ {x}]
          BY <1>3, <3>2
        <4>2. n # 0 /\ Cardinality(s \ {x}) <= n - 1
          BY <1>2, <2>2, <2>6, <4>1
        <4>3. g[s \ {x}] = Step(g)[s \ {x}]
          BY <2>4, <4>1, <4>2
        <4> QED
          BY <4>1, <4>3
      <3> QED
        BY <3>1, <3>2
    <2>7. UpTo(Step(g), n)
      BY <2>6
    <2> QED
      BY <2>2, <2>5, <2>7
  <1>7. \E g \in [SUBSET S -> Int] : g = Step(g)
    <2>1. Cardinality(S) \in Nat
      BY <1>2
    <2>2. PICK g \in [SUBSET S -> Int] : UpTo(g, Cardinality(S))
      BY <1>6, <2>1
    <2>3. \A s \in SUBSET S : g[s] = Step(g)[s]
      BY <1>2, <2>2
    <2>4. g = [s \in SUBSET S |-> g[s]]
      OBVIOUS
    <2>5. g = Step(g)
      BY <1>4, <2>3, <2>4
    <2> QED
      BY <2>5
  <1>8. iter = Step(iter)
    BY <1>5, <1>7
  <1> HIDE DEF UpTo, none
  <1> DEFINE wrong == {n \in Nat : \E s \in SUBSET S : Cardinality(s) = n /\ iter[s] \notin Int}
  <1>9. wrong = {}
    <2> SUFFICES ASSUME wrong # {} PROVE FALSE
      OBVIOUS
    <2>1. PICK n \in wrong : \A m \in wrong : n <= m
      BY LeastNat
    <2>2. PICK s \in SUBSET S : n \in Nat /\ Cardinality(s) = n /\ iter[s] \notin Int
      BY <2>1
    <2>3. PICK x \in s : /\ s \ {x} \in SUBSET S
                         /\ Cardinality(s \ {x}) = Cardinality(s) - 1
                         /\ f[x] \in Int
                         /\ \A h : Step(h)[s] = f[x] + h[s \ {x}]
      BY <1>3, <1>8, <2>2, SMTT(30)
    <2>4. iter[s] = f[x] + iter[s \ {x}]
      BY <1>8, <2>3
    <2>5. iter[s \ {x}] \notin Int
      BY <2>2, <2>3, <2>4
    <2>6. n - 1 \in Nat /\ Cardinality(s \ {x}) = n - 1 /\ ~(n <= n - 1)
      BY <1>2, <2>2, <2>3
    <2>7. n - 1 \in wrong
      BY <2>3, <2>5, <2>6
    <2> QED
      BY <2>1, <2>6, <2>7
  <1>10. iter[S] \in Int
    BY <1>2, <1>9
  <1> QED
    BY <1>1, <1>10

----------------------------------------------------------------------------
\* What InsertAt makes of a sequence.
LEMMA Inserted ==
  ASSUME NEW S, NEW s \in Seq(S), NEW p \in 0..Len(s), NEW e \in S
  PROVE  LET t == InsertAt(s, p + 1, e)
         IN  /\ t \in Seq(S)
             /\ Len(t) = Len(s) + 1
             /\ DOMAIN t = 1..(Len(s) + 1)
             /\ \A i \in 1..p : t[i] = s[i]
             /\ t[p + 1] = e
             /\ \A i \in (p + 2)..(Len(s) + 1) : t[i] = s[i - 1]
             /\ ToSet(t) = ToSet(s) \cup {e}
  <1> DEFINE front == SubSeq(s, 1, p)
             back == SubSeq(s, p + 1, Len(s))
             t == InsertAt(s, p + 1, e)
  <1>0. Len(s) \in Nat /\ DOMAIN s = 1..Len(s) /\ \A i \in 1..Len(s) : s[i] \in S
    BY LenProperties, ElementOfSeq
  <1>1. /\ front \in Seq(S) /\ Len(front) = p
        /\ \A i \in 1..p : front[i] = s[i]
    BY <1>0, SubSeqProperties
  <1>2. /\ back \in Seq(S) /\ Len(back) = Len(s) - p
        /\ \A i \in 1..(Len(s) - p) : back[i] = s[p + i]
    <2>1. /\ back \in Seq(S)
          /\ Len(back) = IF p + 1 <= Len(s) THEN Len(s) - (p + 1) + 1 ELSE 0
          /\ \A i \in 1..(Len(s) - (p + 1) + 1) : back[i] = s[(p + 1) + i - 1]
      BY <1>0, SubSeqProperties
    <2> HIDE DEF back
    <2>2. Len(back) = Len(s) - p
      <3>1. Len(s) \in Nat
        BY <1>0
      <3>2. (IF p + 1 <= Len(s) THEN Len(s) - (p + 1) + 1 ELSE 0) = Len(s) - p
        BY <3>1
      <3> QED
        BY <2>1, <3>2
    <2>3. ASSUME NEW i \in 1..(Len(s) - p) PROVE back[i] = s[p + i]
      <3>1. i \in 1..(Len(s) - (p + 1) + 1) /\ (p + 1) + i - 1 = p + i
        BY <1>0
      <3> QED
        BY <2>1, <3>1
    <2> QED
      BY <2>1, <2>2, <2>3
  <1>3. <<e>> \in Seq(S) /\ Len(<<e>>) = 1 /\ <<e>>[1] = e
    OBVIOUS
  <1>4. t = (front \o <<e>>) \o back
    <2>1. (p + 1) - 1 = p
      OBVIOUS
    <2>2. t = SubSeq(s, 1, (p + 1) - 1) \o <<e>> \o back
      BY DEF InsertAt
    <2> HIDE DEF t, back
    <2> QED
      BY <2>1, <2>2
  <1> HIDE DEF front, back, t
  <1>5. /\ front \o <<e>> \in Seq(S)
        /\ Len(front \o <<e>>) = p + 1
        /\ \A i \in 1..p : (front \o <<e>>)[i] = s[i]
        /\ (front \o <<e>>)[p + 1] = e
    <2> DEFINE one == <<e>>
    <2>1. one \in Seq(S) /\ Len(one) = 1 /\ one[1] = e
      BY <1>3
    <2> HIDE DEF one
    <2>2. /\ front \o one \in Seq(S)
          /\ Len(front \o one) = Len(front) + Len(one)
          /\ \A i \in 1..(Len(front) + Len(one)) :
               (front \o one)[i] = IF i <= Len(front) THEN front[i] ELSE one[i - Len(front)]
      BY <1>1, <2>1, ConcatProperties
    <2>3. (p + 1) - p = 1 /\ p + 1 \in 1..(p + 1) /\ ~(p + 1 <= p)
      OBVIOUS
    <2>4. (front \o one)[p + 1] = e
      BY <1>1, <2>1, <2>2, <2>3
    <2>5. \A i \in 1..p : (front \o one)[i] = s[i]
      BY <1>1, <2>1, <2>2
    <2> QED
      BY <1>1, <2>1, <2>2, <2>4, <2>5 DEF one
  <1>6. /\ t \in Seq(S)
        /\ Len(t) = Len(s) + 1
        /\ \A i \in 1..(p + 1) : t[i] = (front \o <<e>>)[i]
        /\ \A i \in (p + 2)..(Len(s) + 1) : t[i] = back[i - (p + 1)]
    BY <1>0, <1>2, <1>4, <1>5, ConcatProperties
  <1>7. \A i \in 1..p : t[i] = s[i]
    BY <1>0, <1>5, <1>6
  <1>8. t[p + 1] = e
    BY <1>0, <1>5, <1>6
  <1>9. \A i \in (p + 2)..(Len(s) + 1) : t[i] = s[i - 1]
    <2>1. \A i \in (p + 2)..(Len(s) + 1) :
            i - (p + 1) \in 1..(Len(s) - p) /\ p + (i - (p + 1)) = i - 1
      BY <1>0
    <2> QED
      BY <1>2, <1>6, <2>1
  <1>10. DOMAIN t = 1..(Len(s) + 1)
    BY <1>6, LenProperties
  <1>11. ToSet(t) = ToSet(s) \cup {e}
    <2>1. ToSet(t) \subseteq ToSet(s) \cup {e}
      <3> SUFFICES ASSUME NEW i \in 1..(Len(s) + 1) PROVE t[i] \in ToSet(s) \cup {e}
        BY <1>10 DEF ToSet
      <3>1. CASE i <= p
        BY <1>0, <1>7, <3>1 DEF ToSet
      <3>2. CASE i = p + 1
        BY <1>8, <3>2
      <3>3. CASE i > p + 1
        BY <1>0, <1>9, <3>3 DEF ToSet
      <3> QED
        BY <1>0, <3>1, <3>2, <3>3
    <2>2. e \in ToSet(t)
      BY <1>0, <1>8, <1>10 DEF ToSet
    <2>3. ASSUME NEW i \in 1..Len(s) PROVE s[i] \in ToSet(t)
      <3>1. CASE i <= p
        BY <1>0, <1>7, <1>10, <3>1 DEF ToSet
      <3>2. CASE i > p
        <4>1. i + 1 \in (p + 2)..(Len(s) + 1) /\ (i + 1) - 1 = i
          BY <1>0, <3>2
        <4>2. t[i + 1] = s[i]
          BY <1>9, <4>1
        <4>3. i + 1 \in 1..(Len(s) + 1)
          BY <1>0
        <4> QED
          BY <1>10, <4>2, <4>3 DEF ToSet
      <3> QED
        BY <1>0, <3>1, <3>2
    <2> QED
      BY <1>0, <2>1, <2>2, <2>3 DEF ToSet
  <1> QED
    BY <1>6, <1>7, <1>8, <1>9, <1>10, <1>11 DEF t

\* What RemoveAt leaves of a sequence without duplicates.
LEMMA Removed ==
  ASSUME NEW S, NEW s \in Seq(S), NEW k \in 1..Len(s),
         \A i, j \in DOMAIN s : s[i] = s[j] => i = j
  PROVE  LET t == RemoveAt(s, k)
         IN  /\ t \in Seq(S)
             /\ Len(t) = Len(s) - 1
             /\ DOMAIN t = 1..(Len(s) - 1)
             /\ \A i \in 1..(k - 1) : t[i] = s[i]
             /\ \A i \in k..(Len(s) - 1) : t[i] = s[i + 1]
             /\ ToSet(t) = ToSet(s) \ {s[k]}
             /\ \A i, j \in DOMAIN t : t[i] = t[j] => i = j
  <1> DEFINE front == SubSeq(s, 1, k - 1)
             back == SubSeq(s, k + 1, Len(s))
             t == RemoveAt(s, k)
  <1>0. Len(s) \in Nat /\ DOMAIN s = 1..Len(s) /\ \A i \in 1..Len(s) : s[i] \in S
    BY LenProperties, ElementOfSeq
  <1>1. /\ front \in Seq(S) /\ Len(front) = k - 1
        /\ \A i \in 1..(k - 1) : front[i] = s[i]
    BY <1>0, SubSeqProperties
  <1>2. /\ back \in Seq(S) /\ Len(back) = Len(s) - k
        /\ \A i \in 1..(Len(s) - k) : back[i] = s[k + i]
    <2>1. /\ back \in Seq(S)
          /\ Len(back) = IF k + 1 <= Len(s) THEN Len(s) - (k + 1) + 1 ELSE 0
          /\ \A i \in 1..(Len(s) - (k + 1) + 1) : back[i] = s[(k + 1) + i - 1]
      BY <1>0, SubSeqProperties
    <2> HIDE DEF back
    <2>2. Len(back) = Len(s) - k
      <3>1. Len(s) \in Nat
        BY <1>0
      <3>2. (IF k + 1 <= Len(s) THEN Len(s) - (k + 1) + 1 ELSE 0) = Len(s) - k
        BY <3>1
      <3> QED
        BY <2>1, <3>2
    <2>3. ASSUME NEW i \in 1..(Len(s) - k) PROVE back[i] = s[k + i]
      <3>1. i \in 1..(Len(s) - (k + 1) + 1) /\ (k + 1) + i - 1 = k + i
        BY <1>0
      <3> QED
        BY <2>1, <3>1
    <2> QED
      BY <2>1, <2>2, <2>3
  <1>3. t = front \o back
    BY DEF RemoveAt
  <1> HIDE DEF front, back, t
  <1>4. /\ t \in Seq(S)
        /\ Len(t) = Len(s) - 1
        /\ \A i \in 1..(k - 1) : t[i] = front[i]
        /\ \A i \in k..(Len(s) - 1) : t[i] = back[i - (k - 1)]
    <2>1. /\ t \in Seq(S)
          /\ Len(t) = Len(front) + Len(back)
          /\ \A i \in 1..(Len(front) + Len(back)) :
               t[i] = IF i <= Len(front) THEN front[i] ELSE back[i - Len(front)]
      BY <1>1, <1>2, <1>3, ConcatProperties, ZenonT(40)
    <2>2. Len(front) + Len(back) = Len(s) - 1
      BY <1>0, <1>1, <1>2
    <2>3. ASSUME NEW i \in 1..(k - 1) PROVE t[i] = front[i]
      <3>1. Len(s) \in Nat /\ Len(front) = k - 1
        BY <1>0, <1>1
      <3>2. i \in 1..(Len(front) + Len(back)) /\ i <= Len(front)
        BY <2>2, <3>1
      <3> QED
        BY <2>1, <3>2
    <2>4. ASSUME NEW i \in k..(Len(s) - 1) PROVE t[i] = back[i - (k - 1)]
      <3>1. i \in 1..(Len(front) + Len(back)) /\ ~(i <= Len(front))
        BY <1>0, <1>1, <2>2
      <3> QED
        BY <1>1, <2>1, <3>1
    <2> QED
      BY <2>1, <2>2, <2>3, <2>4
  <1>5. \A i \in 1..(k - 1) : t[i] = s[i]
    BY <1>0, <1>1, <1>4
  <1>6. ASSUME NEW i \in k..(Len(s) - 1) PROVE t[i] = s[i + 1]
    <2>1. Len(s) \in Nat
      BY <1>0
    <2>2. i - (k - 1) \in 1..(Len(s) - k) /\ k + (i - (k - 1)) = i + 1
      BY <2>1
    <2> QED
      BY <1>2, <1>4, <2>2
  <1>7. DOMAIN t = 1..(Len(s) - 1)
    BY <1>4, LenProperties
  <1> DEFINE at(i) == IF i < k THEN i ELSE i + 1
  <1>8. \A i \in 1..(Len(s) - 1) : at(i) \in 1..Len(s) /\ at(i) # k /\ t[i] = s[at(i)]
    BY <1>0, <1>5, <1>6
  <1>9. \A j \in 1..Len(s) : j # k => \E i \in 1..(Len(s) - 1) : at(i) = j
    <2> SUFFICES ASSUME NEW j \in 1..Len(s), j # k
                 PROVE  \E i \in 1..(Len(s) - 1) : at(i) = j
      OBVIOUS
    <2>1. CASE j < k
      <3>1. j \in 1..(Len(s) - 1) /\ at(j) = j
        BY <1>0, <2>1
      <3> QED
        BY <3>1
    <2>2. CASE j > k
      <3>1. j - 1 \in 1..(Len(s) - 1) /\ at(j - 1) = j
        BY <1>0, <2>2
      <3> QED
        BY <3>1
    <2> QED
      BY <1>0, <2>1, <2>2
  <1>10. \A i, j \in 1..(Len(s) - 1) : at(i) = at(j) => i = j
    <2> SUFFICES ASSUME NEW i \in 1..(Len(s) - 1), NEW j \in 1..(Len(s) - 1), at(i) = at(j)
                 PROVE  i = j
      OBVIOUS
    <2> QED
      BY <1>0
  <1> HIDE DEF at
  <1>11. ToSet(t) = ToSet(s) \ {s[k]}
    <2>1. \A i \in 1..(Len(s) - 1) : t[i] \in ToSet(s) \ {s[k]}
      BY <1>0, <1>8 DEF ToSet
    <2>2. ASSUME NEW j \in 1..Len(s), s[j] # s[k] PROVE s[j] \in ToSet(t)
      <3>1. PICK i \in 1..(Len(s) - 1) : at(i) = j
        BY <1>9, <2>2
      <3> QED
        BY <1>7, <1>8, <3>1 DEF ToSet
    <2> QED
      BY <1>0, <1>7, <2>1, <2>2 DEF ToSet
  <1>12. \A i, j \in DOMAIN t : t[i] = t[j] => i = j
    BY <1>0, <1>7, <1>8, <1>10
  <1> QED
    BY <1>4, <1>5, <1>6, <1>7, <1>11, <1>12 DEF t
\* What Tail leaves of a sequence without duplicates.
LEMMA Beheaded ==
  ASSUME NEW S, NEW s \in Seq(S), s # <<>>,
         \A i, j \in DOMAIN s : s[i] = s[j] => i = j
  PROVE  /\ Len(s) \in Nat \ {0}
         /\ Head(s) = s[1]
         /\ s[1] \in S
         /\ s[1] \in ToSet(s)
         /\ Tail(s) \in Seq(S)
         /\ DOMAIN Tail(s) = 1..(Len(s) - 1)
         /\ \A i \in 1..(Len(s) - 1) : Tail(s)[i] = s[i + 1] /\ Tail(s)[i] # s[1]
         /\ ToSet(Tail(s)) = ToSet(s) \ {s[1]}
         /\ \A i, j \in DOMAIN Tail(s) : Tail(s)[i] = Tail(s)[j] => i = j
  <1>1. Len(s) \in Nat \ {0} /\ DOMAIN s = 1..Len(s) /\ \A i \in 1..Len(s) : s[i] \in S
    BY EmptySeq, LenProperties, ElementOfSeq
  <1>2. /\ Head(s) = s[1]
        /\ Tail(s) \in Seq(S)
        /\ Len(Tail(s)) = Len(s) - 1
        /\ \A i \in 1..Len(Tail(s)) : Tail(s)[i] = s[i + 1]
    BY HeadTailProperties
  <1>3. DOMAIN Tail(s) = 1..(Len(s) - 1)
    BY <1>2, LenProperties
  <1>4. \A i \in 1..(Len(s) - 1) : i + 1 \in 1..Len(s) /\ i + 1 # 1
    BY <1>1
  <1>5. \A i \in 1..(Len(s) - 1) : Tail(s)[i] = s[i + 1] /\ Tail(s)[i] # s[1]
    BY <1>1, <1>2, <1>4
  <1>6. ToSet(Tail(s)) = ToSet(s) \ {s[1]}
    <2>1. \A i \in 1..(Len(s) - 1) : Tail(s)[i] \in ToSet(s) \ {s[1]}
      BY <1>1, <1>4, <1>5 DEF ToSet
    <2>2. ASSUME NEW j \in 1..Len(s), s[j] # s[1] PROVE s[j] \in ToSet(Tail(s))
      <3>1. j - 1 \in 1..(Len(s) - 1) /\ (j - 1) + 1 = j
        BY <1>1, <2>2
      <3>2. Tail(s)[j - 1] = s[j]
        BY <1>5, <3>1
      <3> QED
        BY <1>3, <3>1, <3>2 DEF ToSet
    <2> QED
      BY <1>1, <1>3, <2>1, <2>2 DEF ToSet
  <1>7. \A i, j \in 1..(Len(s) - 1) : Tail(s)[i] = Tail(s)[j] => i = j
    <2> SUFFICES ASSUME NEW i \in 1..(Len(s) - 1), NEW j \in 1..(Len(s) - 1),
                        Tail(s)[i] = Tail(s)[j]
                 PROVE  i = j
      OBVIOUS
    <2>1. i + 1 = j + 1
      BY <1>1, <1>4, <1>5
    <2> QED
      BY <1>1, <2>1
  <1>8. 1 \in DOMAIN s /\ s[1] \in S /\ s[1] \in ToSet(s)
    BY <1>1 DEF ToSet
  <1> QED
    BY <1>1, <1>2, <1>3, <1>5, <1>6, <1>7, <1>8

LEMMA Appended ==
  ASSUME NEW S, NEW s \in Seq(S), NEW e \in S, e \notin ToSet(s),
         \A i, j \in DOMAIN s : s[i] = s[j] => i = j
  PROVE  /\ Append(s, e) \in Seq(S)
         /\ DOMAIN Append(s, e) = 1..(Len(s) + 1)
         /\ \A i \in 1..Len(s) : Append(s, e)[i] = s[i]
         /\ Append(s, e)[Len(s) + 1] = e
         /\ ToSet(Append(s, e)) = ToSet(s) \cup {e}
         /\ \A i, j \in DOMAIN Append(s, e) : Append(s, e)[i] = Append(s, e)[j] => i = j
  <1>1. Len(s) \in Nat /\ DOMAIN s = 1..Len(s)
    BY LenProperties
  <1>2. /\ Append(s, e) \in Seq(S)
        /\ Len(Append(s, e)) = Len(s) + 1
        /\ \A i \in 1..Len(s) : Append(s, e)[i] = s[i]
        /\ Append(s, e)[Len(s) + 1] = e
    BY AppendProperties
  <1>3. DOMAIN Append(s, e) = 1..(Len(s) + 1)
    BY <1>2, LenProperties
  <1>4. \A i \in 1..(Len(s) + 1) : i \in 1..Len(s) \/ i = Len(s) + 1
    BY <1>1
  <1>5. 1..Len(s) \subseteq 1..(Len(s) + 1) /\ Len(s) + 1 \in 1..(Len(s) + 1)
    BY <1>1
  <1>6. ToSet(Append(s, e)) = ToSet(s) \cup {e}
    BY <1>1, <1>2, <1>3, <1>4, <1>5 DEF ToSet
  <1>7. \A i \in 1..Len(s) : s[i] # e
    BY <1>1 DEF ToSet
  <1>8. \A i, j \in DOMAIN Append(s, e) : Append(s, e)[i] = Append(s, e)[j] => i = j
    <2> SUFFICES ASSUME NEW i \in 1..(Len(s) + 1), NEW j \in 1..(Len(s) + 1),
                        Append(s, e)[i] = Append(s, e)[j]
                 PROVE  i = j
      BY <1>3
    <2>1. CASE i \in 1..Len(s) /\ j \in 1..Len(s)
      BY <1>1, <1>2, <2>1
    <2>2. CASE i = Len(s) + 1 \/ j = Len(s) + 1
      BY <1>2, <1>4, <1>7, <2>2
    <2> QED
      BY <1>4, <2>1, <2>2
  <1> QED
    BY <1>2, <1>3, <1>6, <1>8

LEMMA SetOfEmpty == ToSet(<<>>) = {}
  BY DEF ToSet

\* A sequence without duplicates has as many elements as places.
LEMMA CountOfList ==
  ASSUME NEW S, NEW s \in Seq(S), \A i, j \in DOMAIN s : s[i] = s[j] => i = j
  PROVE  Cardinality(ToSet(s)) = Len(s)
  <1>1. Len(s) \in Nat /\ DOMAIN s = 1..Len(s)
    BY LenProperties
  <1>2. s \in [1..Len(s) -> ToSet(s)]
    BY <1>1, SeqDef DEF ToSet
  <1>3. \A t \in ToSet(s) : \E i \in 1..Len(s) : s[i] = t
    BY <1>1 DEF ToSet
  <1>4. s \in Bijection(1..Len(s), ToSet(s))
    BY <1>1, <1>2, <1>3, Fun_IsBij
  <1>5. ExistsBijection(1..Len(s), ToSet(s))
    BY <1>4 DEF ExistsBijection
  <1> QED
    BY <1>1, <1>5, FS_CountingElements

\* Two intervals of bytes, the second not empty, that share none: if the first does
\* not end before the second starts, it starts after the second ends.
LEMMA IntervalsApart ==
  ASSUME NEW x \in Int, NEW m \in Int, NEW y \in Int, NEW n \in Int, m > 0, n > 0,
         \A o \in x .. (x + m - 1) : o \notin y .. (y + n - 1),
         ~(x + m <= y)
  PROVE  y + n <= x
  <1> SUFFICES ASSUME x < y + n PROVE FALSE
    OBVIOUS
  <1>1. CASE x <= y
    BY <1>1
  <1>2. CASE y <= x
    BY <1>2
  <1> QED
    BY <1>1, <1>2

----------------------------------------------------------------------------
\* What FlattenSeq computes, as a function of how many sequences are joined.
LEMMA FlattenValue ==
  ASSUME NEW s, NEW n \in Nat \ {0}, Len(s) = n
  PROVE  \E g : /\ FlattenSeq(s) = g[n]
                /\ g[1] = s[1]
                /\ \A i \in 1..n : i # 1 => g[i] = g[i - 1] \o s[i]
  <1> DEFINE Next(t, i) == t \o s[i]
             Solves(g) == g = [i \in 1..n |-> IF i = 1 THEN s[i] ELSE Next(g[i - 1], i)]
             Follows(g, m) == g[1] = s[1] /\ \A i \in 1..m : i # 1 => g[i] = Next(g[i - 1], i)
             flatten[i \in 1..n] == IF i = 1 THEN s[i] ELSE flatten[i - 1] \o s[i]
             wrong == {m \in Nat \ {0} : ~ \E g : Follows(g, m)}
  <1>1. FlattenSeq(s) = flatten[n]
    BY DEF FlattenSeq
  <1>2. flatten = CHOOSE f : Solves(f)
    OBVIOUS
  <1> HIDE DEF Next, flatten
  <1>3. ASSUME wrong # {} PROVE FALSE
    <2>1. wrong \subseteq Nat
      OBVIOUS
    <2> HIDE DEF wrong
    <2>2. PICK m \in wrong : \A k \in wrong : m <= k
      BY <1>3, <2>1, LeastNat
    <2> USE DEF wrong
    <2>3. CASE m = 1
      <3> DEFINE h == [i \in 1..1 |-> s[i]]
      <3>1. h[1] = s[1] /\ \A i \in 1..m : i = 1
        BY <2>3
      <3>2. Follows(h, m)
        BY <3>1
      <3> QED
        BY <2>2, <3>2
    <2>4. CASE m # 1
      <3>0. m \in Nat \ {0}
        BY <2>2
      <3>1. m \in Nat /\ m - 1 \in Nat \ {0} /\ m - 1 \notin wrong
        <4> HIDE DEF wrong
        <4> QED
          BY <2>2, <2>4, <3>0
      <3>2. PICK g : Follows(g, m - 1)
        BY <3>1
      <3> DEFINE h == [i \in 1..m |-> IF i = m THEN Next(g[m - 1], m) ELSE g[i]]
      <3>3. h[1] = s[1]
        BY <2>4, <3>1, <3>2
      <3>4. ASSUME NEW i \in 1..m, i # 1
            PROVE  h[i] = Next(h[i - 1], i)
        <4>1. i - 1 \in 1..m /\ i - 1 # m
          BY <3>1, <3>4
        <4>2. h[i - 1] = g[i - 1]
          BY <4>1
        <4>3. CASE i = m
          BY <4>2, <4>3
        <4>4. CASE i # m
          <5>1. i \in 1..(m - 1) /\ h[i] = g[i]
            BY <3>1, <4>4
          <5> QED
            BY <3>2, <3>4, <4>2, <5>1
        <4> QED
          BY <4>3, <4>4
      <3> HIDE DEF h
      <3>5. Follows(h, m)
        BY <3>3, <3>4
      <3> QED
        BY <2>2, <3>5
    <2> QED
      BY <2>3, <2>4
  <1>4. PICK g : Follows(g, n)
    BY <1>3
  <1> DEFINE f == [i \in 1..n |-> g[i]]
  <1>5. ASSUME NEW i \in 1..n
        PROVE  f[i] = IF i = 1 THEN s[i] ELSE Next(f[i - 1], i)
    <2>1. i # 1 => i - 1 \in 1..n
      OBVIOUS
    <2> QED
      BY <1>4, <2>1
  <1>6. Solves(f)
    <2>1. f = [i \in 1..n |-> f[i]]
      OBVIOUS
    <2> HIDE DEF f
    <2> QED
      BY <1>5, <2>1
  <1>7. Solves(flatten)
    <2> HIDE DEF Solves, f
    <2> QED
      BY <1>2, <1>6
  <1>8. /\ flatten[1] = s[1]
        /\ \A i \in 1..n : i # 1 => flatten[i] = Next(flatten[i - 1], i)
    BY <1>7
  <1> QED
    BY <1>1, <1>8 DEF Next

\* Joining sequences over a set is a sequence over it.
LEMMA FlattenType ==
  ASSUME NEW S, NEW s \in Seq(Seq(S))
  PROVE  FlattenSeq(s) \in Seq(S)
  <1>1. CASE Len(s) = 0
    BY <1>1 DEF FlattenSeq
  <1>2. CASE Len(s) # 0
    <2>1. Len(s) \in Nat \ {0}
      BY <1>2
    <2>2. PICK n \in Nat \ {0} : Len(s) = n
      BY <2>1
    <2>3. PICK g : /\ FlattenSeq(s) = g[n]
                   /\ g[1] = s[1]
                   /\ \A i \in 1..n : i # 1 => g[i] = g[i - 1] \o s[i]
      BY <2>2, FlattenValue
    <2> DEFINE wrong == {i \in 1..n : g[i] \notin Seq(S)}
    <2>4. ASSUME wrong # {} PROVE FALSE
      <3>1. wrong \subseteq Nat
        OBVIOUS
      <3> HIDE DEF wrong
      <3>2. PICK m \in wrong : \A k \in wrong : m <= k
        BY <2>4, <3>1, LeastNat
      <3>3. m \in 1..n /\ g[m] \notin Seq(S)
        BY <3>2 DEF wrong
      <3>4. s[m] \in Seq(S)
        BY <2>2, <3>3
      <3>5. m # 1
        BY <2>3, <3>3, <3>4
      <3>6. m - 1 \in 1..n /\ m - 1 \notin wrong
        BY <3>2, <3>3, <3>5
      <3>7. g[m - 1] \in Seq(S)
        BY <3>6 DEF wrong
      <3>8. g[m - 1] \o s[m] \in Seq(S)
        BY <3>4, <3>7, ConcatProperties
      <3> QED
        BY <2>3, <3>3, <3>5, <3>8
    <2>5. g[n] \in Seq(S)
      BY <2>4
    <2> QED
      BY <2>3, <2>5
  <1> QED
    BY <1>1, <1>2

\* Joining sequences is joining the first with what the others are joined to.
LEMMA FlattenFront ==
  ASSUME NEW S, NEW s \in Seq(Seq(S)), s # <<>>
  PROVE  FlattenSeq(s) = s[1] \o FlattenSeq(Tail(s))
  <1>1. Len(s) \in Nat \ {0}
    OBVIOUS
  <1>2. PICK n \in Nat \ {0} : Len(s) = n
    BY <1>1
  <1>3. PICK g : /\ FlattenSeq(s) = g[n]
                 /\ g[1] = s[1]
                 /\ \A i \in 1..n : i # 1 => g[i] = g[i - 1] \o s[i]
    BY <1>2, FlattenValue
  <1>4. s[1] \in Seq(S)
    BY <1>2
  <1>5. Tail(s) \in Seq(Seq(S)) /\ Len(Tail(s)) = n - 1
    BY <1>2
  <1>6. \A i \in 1..(n - 1) : Tail(s)[i] = s[i + 1]
    BY <1>2
  <1>7. CASE n = 1
    <2>1. Tail(s) = <<>>
      <3>1. PICK t \in Seq(Seq(S)) : t = Tail(s)
        BY <1>5
      <3>2. Len(t) = 0
        BY <1>5, <1>7, <3>1
      <3>3. t # <<>> => Len(t) \in Nat \ {0}
        BY EmptySeq
      <3> QED
        BY <3>1, <3>2, <3>3
    <2>2. FlattenSeq(Tail(s)) = <<>>
      BY <2>1 DEF FlattenSeq
    <2>3. s[1] \o <<>> = s[1]
      BY <1>4, ConcatEmptySeq
    <2> QED
      BY <1>3, <1>7, <2>2, <2>3
  <1>8. CASE n # 1
    <2>1. n - 1 \in Nat \ {0}
      BY <1>8
    <2>2. PICK m \in Nat \ {0} : m = n - 1
      BY <2>1
    <2>3. PICK h : /\ FlattenSeq(Tail(s)) = h[m]
                   /\ h[1] = Tail(s)[1]
                   /\ \A i \in 1..m : i # 1 => h[i] = h[i - 1] \o Tail(s)[i]
      BY <1>5, <2>2, FlattenValue
    <2> DEFINE Good(i) == h[i] \in Seq(S) /\ g[i + 1] = s[1] \o h[i]
               wrong == {i \in 1..m : ~ Good(i)}
    <2>4. ASSUME wrong # {} PROVE FALSE
      <3>1. wrong \subseteq Nat
        <4> HIDE DEF Good
        <4> QED
          OBVIOUS
      <3> HIDE DEF wrong
      <3>2. PICK k \in wrong : \A j \in wrong : k <= j
        BY <2>4, <3>1, LeastNat
      <3>3. k \in 1..m /\ ~ Good(k)
        <4> HIDE DEF Good
        <4> QED
          BY <3>2 DEF wrong
      <3>4. k + 1 \in 1..n /\ k + 1 # 1 /\ (k + 1) - 1 = k
        BY <2>2, <3>3
      <3>5. s[k + 1] \in Seq(S) /\ Tail(s)[k] = s[k + 1]
        BY <1>2, <1>6, <2>2, <3>3, <3>4
      <3>6. g[k + 1] = g[k] \o s[k + 1]
        BY <1>3, <3>4
      <3>7. CASE k = 1
        BY <1>3, <2>3, <3>3, <3>5, <3>6, <3>7
      <3>8. CASE k # 1
        <4>1. k - 1 \in 1..m /\ k - 1 \notin wrong /\ (k - 1) + 1 = k
          <5> HIDE DEF Good
          <5> QED
            BY <3>2, <3>3, <3>8
        <4>2. h[k - 1] \in Seq(S) /\ g[k] = s[1] \o h[k - 1]
          <5>1. Good(k - 1)
            <6> HIDE DEF Good
            <6> QED
              BY <4>1 DEF wrong
          <5> QED
            BY <4>1, <5>1
        <4>3. h[k] = h[k - 1] \o s[k + 1]
          BY <2>3, <3>3, <3>5, <3>8
        <4>4. h[k] \in Seq(S)
          BY <3>5, <4>2, <4>3, ConcatProperties
        <4>5. (s[1] \o h[k - 1]) \o s[k + 1] = s[1] \o (h[k - 1] \o s[k + 1])
          <5>1. PICK a \in Seq(S), b \in Seq(S), c \in Seq(S) :
                  a = s[1] /\ b = h[k - 1] /\ c = s[k + 1]
            BY <1>4, <3>5, <4>2
          <5>2. (a \o b) \o c = a \o (b \o c)
            BY ConcatAssociative, SMTT(30)
          <5> QED
            BY <5>1, <5>2
        <4> QED
          BY <3>3, <3>6, <4>2, <4>3, <4>4, <4>5
      <3> QED
        BY <3>7, <3>8
    <2>5. g[m + 1] = s[1] \o h[m]
      <3>1. Good(m)
        <4> HIDE DEF Good
        <4> QED
          BY <2>4
      <3> QED
        BY <3>1
    <2>6. m + 1 = n
      BY <2>2
    <2>7. g[n] = s[1] \o h[m]
      BY <2>5, <2>6
    <2> QED
      BY <1>3, <2>3, <2>7
  <1> QED
    BY <1>7, <1>8

\* Concatenation, under a name that the proofs need not look behind.
Join(s, t) == s \o t

LEMMA JoinType ==
  ASSUME NEW S, NEW a \in Seq(S), NEW b \in Seq(S)
  PROVE  Join(a, b) \in Seq(S) /\ Len(Join(a, b)) = Len(a) + Len(b)
  BY ConcatProperties DEF Join

LEMMA JoinEmpty ==
  ASSUME NEW S, NEW a \in Seq(S)
  PROVE  Join(a, <<>>) = a /\ Join(<<>>, a) = a
  BY ConcatEmptySeq DEF Join

LEMMA JoinThree ==
  ASSUME NEW S, NEW a \in Seq(S), NEW b \in Seq(S), NEW c \in Seq(S)
  PROVE  Join(Join(a, b), c) = Join(a, Join(b, c))
  BY ConcatAssociative DEF Join

LEMMA JoinFour ==
  ASSUME NEW S, NEW a \in Seq(S), NEW b \in Seq(S), NEW c \in Seq(S), NEW d \in Seq(S)
  PROVE  /\ Join(Join(Join(a, b), c), d) = Join(a, Join(b, Join(c, d)))
         /\ Join(Join(Join(a, b), c), d) = Join(Join(a, b), Join(c, d))
  <1>1. PICK e \in Seq(S), f \in Seq(S) : e = Join(a, b) /\ f = Join(c, d)
    BY JoinType
  <1>2. Join(Join(e, c), d) = Join(e, f) /\ Join(e, f) = Join(a, Join(b, f))
    BY <1>1, JoinThree
  <1> QED
    BY <1>1, <1>2

\* The n elements of a sequence after the first a, and all after the first a.
Slice(s, a, n) == SubSeq(s, a + 1, a + n)
Rest(s, a) == SubSeq(s, a + 1, Len(s))

LEMMA Cut ==
  ASSUME NEW S, NEW s \in Seq(S), NEW a \in Nat, NEW n \in Nat, a + n <= Len(s)
  PROVE  /\ Slice(s, a, n) \in Seq(S)
         /\ Len(Slice(s, a, n)) = n
         /\ Rest(s, a) \in Seq(S)
         /\ Rest(s, a + n) \in Seq(S)
         /\ Rest(s, a) = Join(Slice(s, a, n), Rest(s, a + n))
  <1>1. PICK l \in Nat : l = Len(s)
    OBVIOUS
  <1>2. PICK b \in Nat : b = a + n
    OBVIOUS
  <1>3. PICK c \in Nat : c = a + 1
    OBVIOUS
  <1>4. /\ \A i \in c..b : s[i] \in S
        /\ \A i \in c..l : s[i] \in S
        /\ \A i \in (b + 1)..l : s[i] \in S
    BY <1>1, <1>2, <1>3
  <1>5. SubSeq(s, c, b) \in Seq(S) /\ Len(SubSeq(s, c, b)) = IF c <= b THEN b - c + 1 ELSE 0
    BY <1>4, SubSeqProperties
  <1>6. SubSeq(s, c, l) \in Seq(S) /\ SubSeq(s, b + 1, l) \in Seq(S)
    BY <1>4, SubSeqProperties
  <1>7. c \in 1..(Len(s) + 1) /\ b \in (c - 1)..Len(s) /\ l \in b..Len(s)
    BY <1>1, <1>2, <1>3
  <1>8. Join(SubSeq(s, c, b), SubSeq(s, b + 1, l)) = SubSeq(s, c, l)
    BY <1>7, ConcatAdjacentSubSeq DEF Join
  <1>9. (IF c <= b THEN b - c + 1 ELSE 0) = n
    BY <1>2, <1>3
  <1> QED
    BY <1>1, <1>2, <1>3, <1>5, <1>6, <1>8, <1>9 DEF Slice, Rest

LEMMA RestOfNothing ==
  ASSUME NEW S, NEW s \in Seq(S)
  PROVE  Rest(s, Len(s)) = <<>> /\ Rest(s, 0) = s
  <1>1. Len(s) + 1 \in Int /\ Len(s) \in Int /\ Len(s) < Len(s) + 1
    OBVIOUS
  <1>2. SubSeq(s, Len(s) + 1, Len(s)) = <<>>
    BY <1>1, SubSeqEmpty
  <1> QED
    BY <1>2, SubSeqFull DEF Rest
=============================================================================
