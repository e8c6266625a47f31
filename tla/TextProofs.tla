---------------------------- MODULE TextProofs ----------------------------
(***************************************************************************)
(* Lemmas about texts: the lines or characters at a set of positions, in   *)
(* order; flattened sequences; and the escapes of a post.  They hold for   *)
(* texts of every length and are cited by the proofs about conversations,  *)
(* drafts and posts.                                                       *)
(***************************************************************************)
EXTENDS LittleText, FiniteSetTheorems, SequenceTheorems, WellFoundedInduction, TLAPS

-----------------------------------------------------------------------------
(* Least elements.  The theorems of the library on induction take a predicate  *)
(* as a parameter; well-foundedness of the strict subsets of an interval, of   *)
(* which every set of numbers has a least, does not.                           *)

\* A set of natural numbers has a least element.
LEMMA Least ==
    ASSUME NEW T \in SUBSET Nat, T # {}
    PROVE  \E n \in T : \A m \in T : n <= m
<1> PICK t \in T : TRUE
  OBVIOUS
<1> DEFINE S == 1..t
           X == {1..n : n \in {k \in T : k <= t}}
<1>1. IsWellFoundedOn(StrictSubsetOrdering(S), SUBSET S)
  <2>1. IsFiniteSet(S)
    BY FS_Interval
  <2> QED BY <2>1, FS_StrictSubsetOrderingWellFounded, FS_FiniteSubsetsOfFinite
<1>2. X \subseteq SUBSET S /\ X # {}
  <2>1. 1..t \in X
    OBVIOUS
  <2>2. ASSUME NEW n \in T, n <= t PROVE 1..n \subseteq S
    BY <2>2
  <2> QED BY <2>1, <2>2
<1> HIDE DEF S, X
<1>3. PICK x \in X : \A y \in X : ~ (<<y, x>> \in StrictSubsetOrdering(S))
  BY <1>1, <1>2, WFMin
<1>4. PICK n \in T : n <= t /\ x = 1..n
  BY DEF X
<1>5. ASSUME NEW m \in T, m < n PROVE FALSE
  <2>1. 1..m \in X
    BY <1>4, <1>5 DEF X
  <2>2. n \in 1..n /\ n \notin 1..m
    BY <1>4, <1>5
  <2>3. 1..m \subseteq 1..n /\ 1..m # 1..n
    BY <1>5, <2>2
  <2>4. <<1..m, 1..n>> \in StrictSubsetOrdering(S)
    BY <1>2, <1>4, <2>1, <2>3 DEF StrictSubsetOrdering
  <2> QED BY <1>3, <1>4, <2>1, <2>4
<1> QED BY <1>4, <1>5

\* A set of integers that are at most b has a greatest element.
LEMMA Greatest ==
    ASSUME NEW b \in Int, NEW T \in SUBSET Int, T # {}, \A m \in T : m <= b
    PROVE  \E n \in T : \A m \in T : m <= n
<1> DEFINE D == {b - m : m \in T}
<1>1. D \in SUBSET Nat /\ D # {}
  <2>1. \A m \in T : b - m \in Nat
    OBVIOUS
  <2> QED BY <2>1
<1> HIDE DEF D
<1>2. PICK d \in D : \A e \in D : d <= e
  BY <1>1, Least
<1>3. PICK n \in T : d = b - n
  BY DEF D
<1>4. \A m \in T : b - m \in D
  BY DEF D
<1> QED BY <1>1, <1>2, <1>3, <1>4

\* Min and Max are what they say.
LEMMA MinIs ==
    ASSUME NEW T \in SUBSET Nat, T # {}
    PROVE  Min(T) \in T /\ \A m \in T : Min(T) <= m
<1>1. \E n \in T : \A m \in T : n <= m
  BY Least
<1> QED BY <1>1 DEF Min

\* The greatest element of a non-empty set of numbers with a bound.
LEMMA MaxIs ==
    ASSUME NEW b \in Nat, NEW T \in SUBSET Nat, T # {}, \A m \in T : m <= b
    PROVE  Max(T) \in T /\ \A m \in T : m <= Max(T)
<1>0. b \in Int /\ T \in SUBSET Int
  OBVIOUS
<1>1. \E n \in T : \A m \in T : m <= n
  BY <1>0, Greatest
<1>2. \E n \in T : \A m \in T : n >= m
  BY <1>1
<1>3. Max(T) \in T /\ \A m \in T : Max(T) >= m
  BY <1>2 DEF Max
<1> QED BY <1>3

\* Induction: a set with 0 and with the successor of each of its numbers holds them all.
LEMMA Induction ==
    ASSUME NEW T, 0 \in T, \A n \in Nat : n \in T => n + 1 \in T
    PROVE  \A n \in Nat : n \in T
<1> DEFINE Bad == {n \in Nat : n \notin T}
<1>1. SUFFICES ASSUME Bad # {} PROVE FALSE
  OBVIOUS
<1>2. PICK k \in Bad : \A m \in Bad : k <= m
  BY <1>1, Least
<1>3. k \in Nat /\ k # 0 /\ k \notin T
  BY <1>2
<1>4. k - 1 \in Nat /\ k - 1 \notin Bad
  BY <1>2, <1>3
<1> QED BY <1>3, <1>4

-----------------------------------------------------------------------------
(* Positions in increasing order *)

\* e lists the elements of I in 1..n in increasing order.
Lists(e, I, n) ==
    /\ e \in Seq(1..n)
    /\ \A a, b \in 1..Len(e) : a < b => e[a] < e[b]
    /\ \A a \in 1..Len(e) : e[a] \in I
    /\ \A i \in 1..n : i \in I => \E a \in 1..Len(e) : e[a] = i

\* The recursion of InOrder has a solution.
IsUpTo(f, I, n) ==
    f = [i \in 0..n |-> IF i = 0 THEN <<>> ELSE IF i \in I THEN Append(f[i - 1], i) ELSE f[i - 1]]

\* The numbers of I up to n can be listed in order.
LEMMA UpToExists ==
    ASSUME NEW I, NEW n \in Nat
    PROVE  \E f \in [0..n -> Seq(Nat)] : IsUpTo(f, I, n)
<1> DEFINE D(f, i) == IF i = 0 THEN <<>> ELSE IF i \in I THEN Append(f[i - 1], i) ELSE f[i - 1]
           T == {k \in Nat : \E f \in [0..k -> Seq(Nat)] : \A i \in 0..k : f[i] = D(f, i)}
<1>1. 0 \in T
  <2> DEFINE f == [i \in 0..0 |-> <<>>]
  <2>1. f \in [0..0 -> Seq(Nat)]
    OBVIOUS
  <2>2. \A i \in 0..0 : f[i] = D(f, i)
    OBVIOUS
  <2> QED BY <2>1, <2>2
<1>2. ASSUME NEW k \in Nat, k \in T PROVE k + 1 \in T
  <2>1. PICK f \in [0..k -> Seq(Nat)] : \A i \in 0..k : f[i] = D(f, i)
    BY <1>2
  <2> DEFINE new == IF k + 1 \in I THEN Append(f[k], k + 1) ELSE f[k]
             g == [i \in 0..k + 1 |-> IF i = k + 1 THEN new ELSE f[i]]
  <2>2. new \in Seq(Nat)
    BY <2>1
  <2>3. g \in [0..k + 1 -> Seq(Nat)]
    BY <2>1, <2>2
  <2>4. ASSUME NEW i \in 0..k + 1 PROVE g[i] = D(g, i)
    <3>1. CASE i = k + 1
      <4>1. g[i] = new /\ i # 0 /\ i - 1 = k /\ g[i - 1] = f[k]
        BY <3>1
      <4> QED BY <4>1, <3>1
    <3>2. CASE i # k + 1
      <4>1. i \in 0..k /\ g[i] = f[i] /\ (i # 0 => i - 1 \in 0..k /\ g[i - 1] = f[i - 1])
        BY <3>2
      <4> QED BY <4>1, <2>1
    <3> QED BY <3>1, <3>2
  <2> HIDE DEF g, new, D
  <2>5. \E h \in [0..k + 1 -> Seq(Nat)] : \A i \in 0..k + 1 : h[i] = D(h, i)
    BY <2>3, <2>4, Zenon
  <2>6. k + 1 \in Nat
    OBVIOUS
  <2> QED BY <2>5, <2>6, Zenon
<1> HIDE DEF T
<1>3. n \in T
  BY <1>1, <1>2, Induction
<1>4. PICK f \in [0..n -> Seq(Nat)] : \A i \in 0..n : f[i] = D(f, i)
  BY <1>3 DEF T
<1>5. f = [i \in 0..n |-> D(f, i)]
  BY <1>4
<1>6. IsUpTo(f, I, n)
  BY <1>5 DEF IsUpTo
<1> QED BY <1>6

\* One more number.
LEMMA ListsMore ==
    ASSUME NEW I, NEW k \in Nat, NEW e, Lists(e, I, k)
    PROVE  Lists(IF k + 1 \in I THEN Append(e, k + 1) ELSE e, I, k + 1)
<1>1. e \in Seq(1..k) /\ Len(e) \in Nat /\ \A a \in 1..Len(e) : e[a] \in 1..k
  BY ElementOfSeq DEF Lists
<1>2. e \in Seq(1..k + 1)
  <2>1. 1..k \subseteq 1..k + 1
    OBVIOUS
  <2> QED BY <1>1, <2>1, SeqMonotonic
<1>3. CASE k + 1 \in I
  <2> DEFINE g == Append(e, k + 1)
  <2>1. /\ g \in Seq(1..k + 1) /\ Len(g) = Len(e) + 1 /\ g[Len(e) + 1] = k + 1
        /\ \A a \in 1..Len(e) : g[a] = e[a]
    BY <1>2
  <2> HIDE DEF g
  <2>2. ASSUME NEW a \in 1..Len(g), NEW b \in 1..Len(g), a < b PROVE g[a] < g[b]
    <3>1. a \in 1..Len(e) /\ g[a] = e[a] /\ e[a] \in 1..k
      BY <2>1, <2>2, <1>1
    <3>2. CASE b = Len(e) + 1
      BY <3>1, <3>2, <2>1
    <3>3. CASE b # Len(e) + 1
      <4>1. b \in 1..Len(e) /\ g[b] = e[b]
        BY <3>3, <2>1, <1>1
      <4>2. e[a] < e[b]
        BY <4>1, <3>1, <2>2 DEF Lists
      <4> QED BY <4>1, <4>2, <3>1
    <3> QED BY <3>2, <3>3
  <2>3. ASSUME NEW a \in 1..Len(g) PROVE g[a] \in I
    <3>1. CASE a = Len(e) + 1
      BY <3>1, <2>1, <1>3
    <3>2. CASE a # Len(e) + 1
      <4>1. a \in 1..Len(e) /\ g[a] = e[a]
        BY <3>2, <2>1, <1>1
      <4> QED BY <4>1 DEF Lists
    <3> QED BY <3>1, <3>2
  <2>4. ASSUME NEW i \in 1..k + 1, i \in I PROVE \E a \in 1..Len(g) : g[a] = i
    <3>1. CASE i = k + 1
      BY <3>1, <2>1, <1>1
    <3>2. CASE i # k + 1
      <4>1. PICK a \in 1..Len(e) : e[a] = i
        BY <3>2, <2>4 DEF Lists
      <4> QED BY <4>1, <2>1, <1>1
    <3> QED BY <3>1, <3>2
  <2>5. Lists(g, I, k + 1)
    BY <2>1, <2>2, <2>3, <2>4 DEF Lists
  <2> QED BY <2>5, <1>3 DEF g
<1>4. CASE k + 1 \notin I
  <2>1. \A i \in 1..k + 1 : i \in I => i \in 1..k
    BY <1>4
  <2> QED BY <1>2, <1>4, <2>1 DEF Lists
<1> QED BY <1>3, <1>4

\* InOrder lists what it is asked for.
LEMMA InOrderLists ==
    ASSUME NEW I, NEW n \in Nat
    PROVE  Lists(InOrder(I, n), I, n)
<1> DEFINE f == CHOOSE g : IsUpTo(g, I, n)
<1>1. InOrder(I, n) = f[n]
  BY DEF InOrder, IsUpTo
<1>2. IsUpTo(f, I, n)
  BY UpToExists
<1> HIDE DEF f
<1> DEFINE T == {k \in Nat : k <= n => Lists(f[k], I, k)}
<1>3. 0 \in T
  <2>1. f[0] = <<>>
    BY <1>2 DEF IsUpTo
  <2>2. Lists(<<>>, I, 0)
    BY DEF Lists
  <2> QED BY <2>1, <2>2
<1>4. ASSUME NEW k \in Nat, k \in T PROVE k + 1 \in T
  <2>1. SUFFICES ASSUME k + 1 <= n PROVE Lists(f[k + 1], I, k + 1)
    OBVIOUS
  <2>2. k + 1 \in 0..n /\ k + 1 # 0 /\ (k + 1) - 1 = k
    BY <2>1
  <2>3. f[k + 1] = IF k + 1 \in I THEN Append(f[k], k + 1) ELSE f[k]
    BY <1>2, <2>2 DEF IsUpTo
  <2>4. Lists(f[k], I, k)
    BY <1>4, <2>1
  <2> QED BY <2>3, <2>4, ListsMore
<1> HIDE DEF T
<1>5. n \in T
  BY <1>3, <1>4, Induction
<1> QED BY <1>1, <1>5 DEF T

\* Where two lists part, the element of one is among the others before it.
LEMMA ListsPart ==
    ASSUME NEW I, NEW n \in Nat, NEW d, NEW e, Lists(d, I, n), Lists(e, I, n),
           NEW k \in 1..Len(d), \A j \in 1..k - 1 : j \in 1..Len(e) /\ d[j] = e[j]
    PROVE  k \in 1..Len(e) /\ ~ d[k] < e[k]
<1>1. d \in Seq(1..n) /\ e \in Seq(1..n) /\ Len(d) \in Nat /\ Len(e) \in Nat /\ k \in Nat
  BY DEF Lists
<1>2. /\ \A a \in 1..Len(d) : d[a] \in Nat /\ d[a] \in 1..n /\ d[a] \in I
      /\ \A a \in 1..Len(e) : e[a] \in Nat
  <2>1. \A a \in 1..Len(d) : d[a] \in 1..n
    BY <1>1, ElementOfSeq
  <2>2. \A a \in 1..Len(e) : e[a] \in 1..n
    BY <1>1, ElementOfSeq
  <2> QED BY <2>1, <2>2 DEF Lists
<1>3. \A a, b \in 1..Len(d) : a < b => d[a] < d[b]
  BY DEF Lists
<1>4. \A a, b \in 1..Len(e) : a < b => e[a] < e[b]
  BY DEF Lists
<1>5. PICK b \in 1..Len(e) : e[b] = d[k]
  <2>1. d[k] \in 1..n /\ d[k] \in I
    BY <1>2
  <2> QED BY <2>1 DEF Lists
<1>6. ~ b < k
  <2>1. SUFFICES ASSUME b < k PROVE FALSE
    OBVIOUS
  <2>2. b \in 1..k - 1
    BY <2>1, <1>1
  <2>3. d[b] = d[k]
    BY <2>2, <1>5
  <2>4. b \in 1..Len(d) /\ d[b] < d[k]
    BY <2>1, <1>1, <1>3
  <2> QED BY <2>3, <2>4, <1>2
<1>7. k <= b /\ k \in 1..Len(e)
  BY <1>1, <1>6
<1>8. e[k] <= d[k]
  BY <1>2, <1>4, <1>5, <1>7
<1> QED BY <1>2, <1>7, <1>8

\* There is one such list.
LEMMA ListIsUnique ==
    ASSUME NEW I, NEW n \in Nat, NEW d, NEW e, Lists(d, I, n), Lists(e, I, n)
    PROVE  d = e
<1>1. /\ d \in Seq(1..n) /\ e \in Seq(1..n) /\ Len(d) \in Nat /\ Len(e) \in Nat
      /\ \A a \in 1..Len(d) : d[a] \in Nat
      /\ \A a \in 1..Len(e) : e[a] \in Nat
  BY ElementOfSeq DEF Lists
<1> DEFINE Bad == {k \in Nat : k \in 1..Len(d) /\ ~ (k \in 1..Len(e) /\ d[k] = e[k])}
<1>2. Bad = {}
  <2>1. SUFFICES ASSUME Bad # {} PROVE FALSE
    OBVIOUS
  <2>2. PICK k \in Bad : \A m \in Bad : k <= m
    BY <2>1, Least
  <2>3. k \in Nat /\ k \in 1..Len(d)
    BY <2>2
  <2>4. \A j \in 1..k - 1 : j \in 1..Len(e) /\ d[j] = e[j]
    <3>1. TAKE j \in 1..k - 1
    <3>2. j \in Nat /\ j < k /\ j \in 1..Len(d)
      BY <2>3, <1>1
    <3> QED BY <3>2, <2>2, <2>3
  <2> HIDE DEF Bad
  <2>5. k \in 1..Len(e) /\ ~ d[k] < e[k]
    BY <2>3, <2>4, ListsPart
  <2>6. \A j \in 1..k - 1 : j \in 1..Len(d) /\ e[j] = d[j]
    BY <2>3, <2>4, <1>1
  <2>7. ~ e[k] < d[k]
    BY <2>5, <2>6, ListsPart
  <2>8. d[k] = e[k]
    BY <1>1, <2>3, <2>5, <2>7
  <2> QED BY <2>2, <2>3, <2>5, <2>8 DEF Bad
<1>3. ASSUME NEW k \in 1..Len(d) PROVE k \in 1..Len(e) /\ d[k] = e[k]
  <2>1. k \in Nat /\ k \notin Bad
    BY <1>2
  <2> QED BY <2>1
<1> HIDE DEF Bad
<1>4. Len(d) <= Len(e)
  BY <1>1, <1>3
<1>5. ~ Len(d) < Len(e)
  <2>1. SUFFICES ASSUME Len(d) < Len(e) PROVE FALSE
    OBVIOUS
  <2> DEFINE k == Len(d) + 1
  <2>2. k \in 1..Len(e) /\ \A j \in 1..k - 1 : j \in 1..Len(d) /\ e[j] = d[j]
    BY <1>1, <1>3, <2>1
  <2>3. k \in 1..Len(d)
    BY <2>2, ListsPart
  <2> QED BY <2>3, <1>1
<1>6. Len(d) = Len(e)
  BY <1>1, <1>4, <1>5
<1> QED BY <1>1, <1>3, <1>6, SeqEqual

\* What At picks, by the list of its positions.
LEMMA AtPicks ==
    ASSUME NEW S, NEW s \in Seq(S), NEW I, NEW e, Lists(e, I, Len(s))
    PROVE  /\ At(s, I) \in Seq(S) /\ Len(At(s, I)) = Len(e)
           /\ \A a \in 1..Len(e) : e[a] \in 1..Len(s) /\ At(s, I)[a] = s[e[a]]
<1>1. Len(s) \in Nat /\ \A i \in 1..Len(s) : s[i] \in S
  BY ElementOfSeq
<1>2. InOrder(I, Len(s)) = e
  BY <1>1, InOrderLists, ListIsUnique
<1>3. At(s, I) = [n \in DOMAIN e |-> s[e[n]]]
  BY <1>2 DEF At
<1>4. e \in Seq(1..Len(s)) /\ DOMAIN e = 1..Len(e) /\ Len(e) \in Nat /\ \A a \in 1..Len(e) : e[a] \in 1..Len(s)
  BY ElementOfSeq DEF Lists
<1> DEFINE f == [n \in 1..Len(e) |-> s[e[n]]]
<1>5. f \in [1..Len(e) -> S]
  BY <1>1, <1>4
<1>6. f \in Seq(S) /\ Len(f) = Len(e)
  BY <1>4, <1>5
<1>7. At(s, I) = f
  BY <1>3, <1>4
<1> QED BY <1>4, <1>6, <1>7

\* A part without a gap.
LEMMA ListsRange ==
    ASSUME NEW n \in Nat, NEW a \in Nat, NEW k \in Nat, a + k <= n
    PROVE  Lists([j \in 1..k |-> a + j], a + 1..a + k, n)
<1> DEFINE e == [j \in 1..k |-> a + j]
<1>1. e \in [1..k -> 1..n]
  OBVIOUS
<1>2. e \in Seq(1..n) /\ Len(e) = k
  BY <1>1
<1>3. ASSUME NEW i \in a + 1..a + k PROVE \E b \in 1..Len(e) : e[b] = i
  <2>1. i - a \in 1..k /\ e[i - a] = i
    OBVIOUS
  <2> QED BY <2>1, <1>2
<1>4. \A b \in 1..k : e[b] = a + b
  OBVIOUS
<1> HIDE DEF e
<1>5. Lists(e, a + 1..a + k, n)
  BY <1>2, <1>3, <1>4 DEF Lists
<1> QED BY <1>5 DEF e

-----------------------------------------------------------------------------
(* Sequences one after the other *)

IsFlattened(f, seqs) ==
    f = [i \in 1..Len(seqs) |-> IF i = 1 THEN seqs[i] ELSE f[i - 1] \o seqs[i]]

\* A sequence of sequences can be flattened from the left.
LEMMA FlattenedExists ==
    ASSUME NEW S, NEW seqs \in Seq(Seq(S))
    PROVE  \E f \in [1..Len(seqs) -> Seq(S)] : IsFlattened(f, seqs)
<1> DEFINE n == Len(seqs)
           D(f, i) == IF i = 1 THEN seqs[i] ELSE f[i - 1] \o seqs[i]
           T == {k \in Nat : k <= n => \E f \in [1..k -> Seq(S)] : \A i \in 1..k : f[i] = D(f, i)}
<1>0. n \in Nat /\ \A i \in 1..n : seqs[i] \in Seq(S)
  BY ElementOfSeq
<1>1. 0 \in T
  <2> DEFINE f == [i \in 1..0 |-> <<>>]
  <2>1. f \in [1..0 -> Seq(S)]
    OBVIOUS
  <2>2. \A i \in 1..0 : f[i] = D(f, i)
    OBVIOUS
  <2> QED BY <2>1, <2>2
<1>2. ASSUME NEW k \in Nat, k \in T PROVE k + 1 \in T
  <2> DEFINE Has(m) == \E f \in [1..m -> Seq(S)] : \A i \in 1..m : f[i] = D(f, i)
  <2> SUFFICES ASSUME k + 1 <= n PROVE Has(k + 1)
    <3>1. k + 1 \in Nat
      OBVIOUS
    <3>2. k + 1 \in T <=> k + 1 \in Nat /\ (k + 1 <= n => Has(k + 1))
      BY Zenon DEF T
    <3> QED BY <3>1, <3>2
  <2>0. k + 1 <= n
    OBVIOUS
  <2>a. k <= n
    BY <1>0, <2>0
  <2>b. Has(k)
    BY <1>2, <2>a, Zenon DEF T
  <2>1. PICK f \in [1..k -> Seq(S)] : \A i \in 1..k : f[i] = D(f, i)
    BY <2>b
  <2> DEFINE new == D(f, k + 1)
             g == [i \in 1..k + 1 |-> IF i = k + 1 THEN new ELSE f[i]]
  <2>2. new \in Seq(S)
    <3>1. seqs[k + 1] \in Seq(S)
      BY <1>0, <2>0
    <3>2. k # 0 => f[k] \in Seq(S)
      BY <2>1
    <3>3. k # 0 => f[k] \o seqs[k + 1] \in Seq(S)
      BY <3>1, <3>2
    <3> QED BY <3>1, <3>3
  <2>3. g \in [1..k + 1 -> Seq(S)]
    BY <2>1, <2>2
  <2>4. ASSUME NEW i \in 1..k + 1 PROVE g[i] = D(g, i)
    <3>1. CASE i = k + 1
      <4>1. g[i] = new /\ (i # 1 => i - 1 = k /\ g[i - 1] = f[k])
        BY <3>1
      <4> QED BY <4>1, <3>1
    <3>2. CASE i # k + 1
      <4>1. i \in 1..k /\ g[i] = f[i] /\ (i # 1 => i - 1 \in 1..k /\ g[i - 1] = f[i - 1])
        BY <3>2
      <4> QED BY <4>1, <2>1
    <3> QED BY <3>1, <3>2
  <2> HIDE DEF g, new, D
  <2> QED BY <2>3, <2>4, Zenon DEF Has
<1> HIDE DEF T
<1>3. n \in T
  BY <1>0, <1>1, <1>2, Induction
<1>4. PICK f \in [1..n -> Seq(S)] : \A i \in 1..n : f[i] = D(f, i)
  BY <1>0, <1>3 DEF T
<1>5. f = [i \in 1..n |-> D(f, i)]
  BY <1>4
<1>6. IsFlattened(f, seqs)
  BY <1>5 DEF IsFlattened
<1> QED BY <1>6

\* FlattenSeq appends one sequence after the other.
LEMMA FlattenedParts ==
    ASSUME NEW S, NEW seqs \in Seq(Seq(S))
    PROVE  \E F \in [0..Len(seqs) -> Seq(S)] :
              /\ F[0] = <<>> /\ FlattenSeq(seqs) = F[Len(seqs)]
              /\ \A k \in 1..Len(seqs) : F[k] = F[k - 1] \o seqs[k]
<1> DEFINE n == Len(seqs)
           f == CHOOSE g : IsFlattened(g, seqs)
           F == [k \in 0..n |-> IF k = 0 THEN <<>> ELSE f[k]]
<1>0. n \in Nat /\ \A i \in 1..n : seqs[i] \in Seq(S)
  BY ElementOfSeq
<1>1. IsFlattened(f, seqs)
  BY FlattenedExists
<1>2. FlattenSeq(seqs) = F[n]
  <2>1. CASE n = 0
    BY <2>1, EmptySeq DEF FlattenSeq
  <2>2. CASE n # 0
    <3>1. FlattenSeq(seqs) = f[n]
      BY <2>2 DEF FlattenSeq, IsFlattened
    <3> QED BY <3>1, <2>2, <1>0
  <2> QED BY <2>1, <2>2
<1> HIDE DEF f
<1>3. ASSUME NEW k \in 1..n
      PROVE  F[k] = IF k = 1 THEN seqs[k] ELSE F[k - 1] \o seqs[k]
  <2>1. F[k] = f[k] /\ (k # 1 => F[k - 1] = f[k - 1])
    BY <1>0
  <2>2. f[k] = IF k = 1 THEN seqs[k] ELSE f[k - 1] \o seqs[k]
    BY <1>1 DEF IsFlattened
  <2> QED BY <2>1, <2>2
<1>4. F[0] = <<>> /\ F = [k \in 0..n |-> F[k]]
  BY <1>0
<1> HIDE DEF F
<1>5. ASSUME NEW k \in 1..n PROVE F[k] = F[k - 1] \o seqs[k]
  <2>1. CASE k = 1
    <3>0. F[k] = seqs[k] /\ seqs[k] \in Seq(S)
      BY <2>1, <1>0, <1>3
    <3>a. k - 1 = 0
      BY <2>1
    <3>1. seqs[k] \in Seq(S) /\ F[k] = seqs[k] /\ F[k - 1] = <<>>
      BY <3>0, <3>a, <1>4
    <3> QED BY <3>1, ConcatEmptySeq
  <2>2. CASE k # 1
    BY <2>2, <1>3
  <2> QED BY <2>1, <2>2
<1> DEFINE T == {k \in Nat : k <= n => F[k] \in Seq(S)}
<1>6. 0 \in T
  BY <1>4
<1>7. ASSUME NEW k \in Nat, k \in T PROVE k + 1 \in T
  <2>1. SUFFICES ASSUME k + 1 <= n PROVE F[k + 1] \in Seq(S)
    OBVIOUS
  <2>2. F[k] \in Seq(S) /\ k + 1 \in 1..n /\ (k + 1) - 1 = k
    BY <1>7, <1>0, <2>1
  <2>3. F[k + 1] = F[k] \o seqs[k + 1]
    BY <2>2, <1>5
  <2> QED BY <2>2, <2>3, <1>0
<1> HIDE DEF T
<1>8. \A k \in Nat : k \in T
  BY <1>6, <1>7, Induction
<1>9. \A k \in 0..n : F[k] \in Seq(S)
  BY <1>8, <1>0 DEF T
<1>10. F \in [0..n -> Seq(S)]
  BY <1>9, <1>4
<1> QED BY <1>10, <1>4, <1>2, <1>5

\* off[k] elements come before the k-th of the sequences.
Offsets(off, seqs) ==
    /\ off \in [1..Len(seqs) + 1 -> Nat] /\ off[1] = 0
    /\ \A k \in 1..Len(seqs) : off[k + 1] = off[k] + Len(seqs[k])

\* Offsets grow.
LEMMA OffsetsMonotone ==
    ASSUME NEW S, NEW seqs \in Seq(Seq(S)), NEW off, Offsets(off, seqs)
    PROVE  \A i, j \in 1..Len(seqs) + 1 : i <= j => off[i] <= off[j]
<1> DEFINE n == Len(seqs)
           T == {k \in Nat : k <= n => \A i \in 1..k + 1 : off[i] <= off[k + 1]}
<1>0. n \in Nat /\ (\A i \in 1..n : Len(seqs[i]) \in Nat) /\ \A i \in 1..n + 1 : off[i] \in Nat
  BY ElementOfSeq, LenProperties DEF Offsets
<1>1. 0 \in T
  <2>1. \A i \in 1..0 + 1 : i = 1 /\ off[i] \in Nat
    BY <1>0
  <2> QED BY <2>1
<1>2. ASSUME NEW k \in Nat, k \in T PROVE k + 1 \in T
  <2>1. SUFFICES ASSUME k + 1 <= n, NEW i \in 1..(k + 1) + 1 PROVE off[i] <= off[(k + 1) + 1]
    OBVIOUS
  <2>2. k + 1 \in 1..n /\ (k + 1) + 1 \in 1..n + 1 /\ k <= n /\ k + 1 \in 1..n + 1
    BY <2>1, <1>0
  <2> DEFINE q == k + 1
  <2>3. q \in 1..n /\ q + 1 \in 1..n + 1 /\ q \in 1..n + 1
    BY <2>2
  <2>4. \A a \in 1..q : off[a] <= off[q]
    BY <1>2, <2>2
  <2>5. i \in 1..q + 1
    OBVIOUS
  <2> HIDE DEF q, T
  <2>6. off[q + 1] = off[q] + Len(seqs[q])
    BY <2>3 DEF Offsets
  <2>7. off[q] \in Nat /\ off[q + 1] \in Nat /\ Len(seqs[q]) \in Nat
    BY <2>3, <1>0
  <2>8. off[q] <= off[q + 1]
    BY <2>6, <2>7
  <2>9. CASE i = q + 1
    <3>1. off[i] <= off[q + 1]
      BY <2>9, <2>7
    <3> QED BY <3>1 DEF q
  <2>10. CASE i # q + 1
    <3>1. i \in 1..q /\ i \in 1..n + 1
      BY <2>10, <2>5, <2>3, <1>0
    <3>2. off[i] <= off[q] /\ off[i] \in Nat
      BY <3>1, <2>4, <1>0
    <3>3. off[i] <= off[q + 1]
      BY <3>2, <2>8, <2>7
    <3> QED BY <3>3 DEF q
  <2> QED BY <2>9, <2>10
<1> HIDE DEF T
<1>3. \A k \in Nat : k \in T
  BY <1>1, <1>2, Induction
<1>4. ASSUME NEW i \in 1..n + 1, NEW j \in 1..n + 1, i <= j PROVE off[i] <= off[j]
  <2>1. j - 1 \in Nat /\ j - 1 <= n /\ (j - 1) + 1 = j /\ i \in 1..j
    BY <1>4, <1>0
  <2>2. j - 1 \in T
    BY <2>1, <1>3
  <2>3. \A a \in 1..(j - 1) + 1 : off[a] <= off[(j - 1) + 1]
    BY <2>1, <2>2 DEF T
  <2> QED BY <2>1, <2>3
<1> QED BY <1>4

\* Each position is in one of the sequences.
LEMMA OffsetsCover ==
    ASSUME NEW S, NEW seqs \in Seq(Seq(S)), NEW off, Offsets(off, seqs),
           NEW q \in 1..off[Len(seqs) + 1]
    PROVE  \E k \in 1..Len(seqs) : q - off[k] \in 1..Len(seqs[k])
<1> DEFINE n == Len(seqs)
           U == {u \in 1..n + 1 : q <= off[u]}
<1>a. n \in Nat /\ (\A i \in 1..n : Len(seqs[i]) \in Nat)
  BY ElementOfSeq, LenProperties
<1>b. off[1] = 0 /\ \A i \in 1..n + 1 : off[i] \in Nat
  BY DEF Offsets
<1>c. off[n + 1] \in Nat
  <2>1. n + 1 \in 1..n + 1
    BY <1>a
  <2> QED BY <2>1, <1>b
<1>0. /\ n \in Nat /\ (\A i \in 1..n : Len(seqs[i]) \in Nat) /\ \A i \in 1..n + 1 : off[i] \in Nat
      /\ off[1] = 0 /\ q \in Nat /\ q >= 1
  BY <1>a, <1>b, <1>c
<1>1. n + 1 \in U /\ U \in SUBSET Nat
  <2>1. n + 1 \in 1..n + 1 /\ off[n + 1] \in Nat /\ q <= off[n + 1]
    BY <1>0
  <2> QED BY <2>1
<1>2. PICK u \in U : \A v \in U : u <= v
  BY <1>1, Least
<1>3. u \in 1..n + 1 /\ q <= off[u] /\ u # 1
  BY <1>2, <1>0
<1> DEFINE k == u - 1
<1>4. k \in 1..n /\ k \in 1..n + 1 /\ k + 1 = u /\ k < u
  BY <1>0, <1>3
<1>5. k \notin U
  BY <1>2, <1>4
<1>6. ~ q <= off[k]
  BY <1>4, <1>5
<1> HIDE DEF k, U
<1>7. off[u] = off[k] + Len(seqs[k]) /\ off[k] \in Nat /\ Len(seqs[k]) \in Nat
  BY <1>0, <1>4 DEF Offsets
<1>8. q - off[k] \in 1..Len(seqs[k])
  BY <1>0, <1>3, <1>6, <1>7
<1> QED BY <1>4, <1>8

\* The elements of two sequences in their concatenation.
LEMMA ConcatElements ==
    ASSUME NEW S, NEW s \in Seq(S), NEW t \in Seq(S)
    PROVE  /\ s \o t \in Seq(S) /\ Len(s \o t) = Len(s) + Len(t)
           /\ \A j \in 1..Len(s) : (s \o t)[j] = s[j]
           /\ \A j \in 1..Len(t) : (s \o t)[Len(s) + j] = t[j]
<1>1. Len(s) \in Nat /\ Len(t) \in Nat
  BY LenProperties
<1>2. /\ s \o t \in Seq(S) /\ Len(s \o t) = Len(s) + Len(t)
      /\ \A j \in 1..Len(s) + Len(t) : (s \o t)[j] = IF j <= Len(s) THEN s[j] ELSE t[j - Len(s)]
  BY ConcatProperties
<1>3. \A j \in 1..Len(s) : (s \o t)[j] = s[j]
  BY <1>1, <1>2
<1>4. ASSUME NEW j \in 1..Len(t) PROVE (s \o t)[Len(s) + j] = t[j]
  <2>1. /\ Len(s) + j \in 1..Len(s) + Len(t) /\ ~ (Len(s) + j <= Len(s))
        /\ (Len(s) + j) - Len(s) = j
    BY <1>1
  <2> QED BY <2>1, <1>2
<1> QED BY <1>2, <1>3, <1>4

\* f holds the sequences one after the other, each at its offset.
Laid(off, seqs, f, S) ==
    /\ Offsets(off, seqs) /\ f \in Seq(S)
    /\ Len(f) = off[Len(seqs) + 1]
    /\ \A k \in 1..Len(seqs) : \A j \in 1..Len(seqs[k]) : f[off[k] + j] = seqs[k][j]

\* FlattenSeq puts each sequence at its offset.
LEMMA FlattenPositions ==
    ASSUME NEW S, NEW seqs \in Seq(Seq(S))
    PROVE  \E off : /\ Offsets(off, seqs)
                    /\ FlattenSeq(seqs) \in Seq(S)
                    /\ Len(FlattenSeq(seqs)) = off[Len(seqs) + 1]
                    /\ \A k \in 1..Len(seqs) : \A j \in 1..Len(seqs[k]) :
                           FlattenSeq(seqs)[off[k] + j] = seqs[k][j]
<1> DEFINE n == Len(seqs)
<1>0. n \in Nat /\ \A i \in 1..n : seqs[i] \in Seq(S) /\ Len(seqs[i]) \in Nat
  BY ElementOfSeq, LenProperties
<1>1. PICK F \in [0..n -> Seq(S)] :
              /\ F[0] = <<>> /\ FlattenSeq(seqs) = F[n]
              /\ \A k \in 1..n : F[k] = F[k - 1] \o seqs[k]
  BY FlattenedParts
<1>2. \A k \in 0..n : F[k] \in Seq(S) /\ Len(F[k]) \in Nat
  BY <1>1, LenProperties
<1>3. ASSUME NEW k \in 1..n
      PROVE  /\ k - 1 \in 0..n /\ Len(F[k]) = Len(F[k - 1]) + Len(seqs[k])
             /\ \A j \in 1..Len(F[k - 1]) : F[k][j] = F[k - 1][j]
             /\ \A j \in 1..Len(seqs[k]) : F[k][Len(F[k - 1]) + j] = seqs[k][j]
  <2>a. k - 1 \in 0..n
    BY <1>0
  <2>b. F[k] = F[k - 1] \o seqs[k]
    BY <1>1
  <2>0. k - 1 \in 0..n /\ seqs[k] \in Seq(S) /\ F[k] = F[k - 1] \o seqs[k]
    BY <1>0, <2>a, <2>b
  <2>1. k - 1 \in 0..n /\ F[k - 1] \in Seq(S) /\ seqs[k] \in Seq(S) /\ F[k] = F[k - 1] \o seqs[k]
    BY <2>0, <1>2
  <2> QED BY <2>1, ConcatElements
<1> DEFINE T == {k \in Nat : k <= n =>
                    \A i \in 1..k : /\ Len(F[i]) <= Len(F[k])
                                    /\ \A j \in 1..Len(F[i]) : F[k][j] = F[i][j]}
<1>4. 0 \in T
  OBVIOUS
<1>5. ASSUME NEW k \in Nat, k \in T PROVE k + 1 \in T
  <2>1. SUFFICES ASSUME k + 1 <= n, NEW i \in 1..k + 1
                 PROVE  /\ Len(F[i]) <= Len(F[k + 1])
                        /\ \A j \in 1..Len(F[i]) : F[k + 1][j] = F[i][j]
    OBVIOUS
  <2>2. CASE i = k + 1
    <3>1. Len(F[k + 1]) \in Nat
      BY <1>2, <1>0, <2>1
    <3> QED BY <2>2, <3>1
  <2>3. CASE i # k + 1
    <3>1. i \in 1..k /\ k <= n /\ k + 1 \in 1..n /\ (k + 1) - 1 = k /\ i \in 0..n /\ k \in 0..n
      BY <2>1, <2>3, <1>0
    <3>2. Len(F[i]) <= Len(F[k]) /\ \A j \in 1..Len(F[i]) : F[k][j] = F[i][j]
      BY <1>5, <3>1
    <3> DEFINE m == k + 1
    <3>b. m \in 1..n /\ m - 1 = k
      BY <3>1
    <3> HIDE DEF m
    <3>3. /\ Len(F[m]) = Len(F[k]) + Len(seqs[m])
          /\ \A j \in 1..Len(F[k]) : F[m][j] = F[k][j]
      BY <1>3, <3>b
    <3>4. Len(F[i]) \in Nat /\ Len(F[k]) \in Nat /\ Len(seqs[m]) \in Nat
      BY <1>0, <1>2, <3>1, <3>b
    <3> HIDE DEF T
    <3>5. Len(F[i]) <= Len(F[m])
      <4> DEFINE a == Len(F[i])
                 b == Len(F[k])
                 c == Len(F[m])
                 d == Len(seqs[m])
      <4>1. a \in Nat /\ b \in Nat /\ d \in Nat /\ c = b + d /\ a <= b
        BY <3>2, <3>3, <3>4
      <4> HIDE DEF a, b, c, d
      <4>2. a <= c
        BY <4>1
      <4> QED BY <4>2 DEF a, c
    <3>6. ASSUME NEW j \in 1..Len(F[i]) PROVE F[m][j] = F[i][j]
      <4>1. j \in 1..Len(F[k])
        BY <3>2, <3>4
      <4> QED BY <4>1, <3>2, <3>3
    <3> QED BY <3>5, <3>6 DEF m
  <2> QED BY <2>2, <2>3
<1> HIDE DEF T
<1>6. n \in T
  BY <1>0, <1>4, <1>5, Induction
<1>7. \A i \in 1..n : Len(F[i]) <= Len(F[n]) /\ \A j \in 1..Len(F[i]) : F[n][j] = F[i][j]
  BY <1>6, <1>0 DEF T
<1> DEFINE off == [k \in 1..n + 1 |-> Len(F[k - 1])]
<1>8. off \in [1..n + 1 -> Nat]
  BY <1>0, <1>2
<1>9. \A k \in 1..n + 1 : off[k] = Len(F[k - 1])
  OBVIOUS
<1>10. 1 \in 1..n + 1 /\ n + 1 \in 1..n + 1 /\ (n + 1) - 1 = n /\ 1 - 1 = 0
  BY <1>0
<1> HIDE DEF off
<1>11. off[1] = 0 /\ off[n + 1] = Len(F[n])
  BY <1>1, <1>9, <1>10
<1>12. ASSUME NEW k \in 1..n PROVE off[k + 1] = off[k] + Len(seqs[k])
  <2>1. k + 1 \in 1..n + 1 /\ (k + 1) - 1 = k /\ k \in 1..n + 1
    BY <1>0
  <2> QED BY <2>1, <1>3, <1>9
<1>13. ASSUME NEW k \in 1..n, NEW j \in 1..Len(seqs[k])
       PROVE  F[n][off[k] + j] = seqs[k][j]
  <2>1. off[k] = Len(F[k - 1]) /\ off[k] \in Nat /\ Len(seqs[k]) \in Nat
    BY <1>0, <1>8, <1>9
  <2>2. F[k][off[k] + j] = seqs[k][j] /\ Len(F[k]) = off[k] + Len(seqs[k])
    BY <2>1, <1>3
  <2>3. off[k] + j \in 1..Len(F[k])
    <3>1. j \in Nat /\ 1 <= j /\ j <= Len(seqs[k])
      BY <2>1
    <3> DEFINE a == off[k]
               b == Len(seqs[k])
               c == Len(F[k])
    <3>2. a \in Nat /\ b \in Nat /\ c = a + b /\ j \in Nat /\ 1 <= j /\ j <= b
      BY <3>1, <2>1, <2>2
    <3> HIDE DEF a, b, c
    <3>3. a + j \in 1..c
      BY <3>2
    <3> QED BY <3>3 DEF a, c
  <2> QED BY <2>2, <2>3, <1>7
<1>14. F[n] \in Seq(S) /\ FlattenSeq(seqs) = F[n]
  BY <1>0, <1>1, <1>2
<1>15. Offsets(off, seqs)
  BY <1>8, <1>11, <1>12 DEF Offsets
<1> QED BY <1>15, <1>11, <1>13, <1>14

\* The same, in a word.
LEMMA FlattenLaid ==
    ASSUME NEW S, NEW seqs \in Seq(Seq(S))
    PROVE  \E off : Laid(off, seqs, FlattenSeq(seqs), S)
<1>1. PICK off : /\ Offsets(off, seqs)
                 /\ FlattenSeq(seqs) \in Seq(S)
                 /\ Len(FlattenSeq(seqs)) = off[Len(seqs) + 1]
                 /\ \A k \in 1..Len(seqs) : \A j \in 1..Len(seqs[k]) :
                        FlattenSeq(seqs)[off[k] + j] = seqs[k][j]
  BY FlattenPositions
<1> QED BY ONLY <1>1 DEF Laid

\* Each part ends where the next one starts, or before.
LEMMA OffsetsApart ==
    ASSUME NEW S, NEW seqs \in Seq(Seq(S)), NEW off, Offsets(off, seqs),
           NEW i \in 1..Len(seqs), NEW j \in 1..Len(seqs) + 1, i < j
    PROVE  off[i] \in Nat /\ off[j] \in Nat /\ Len(seqs[i]) \in Nat /\ off[i] + Len(seqs[i]) <= off[j]
<1> DEFINE n == Len(seqs)
<1>1. n \in Nat /\ Len(seqs[i]) \in Nat
  BY ElementOfSeq, LenProperties
<1>2. i \in 1..n + 1 /\ i + 1 \in 1..n + 1 /\ i + 1 <= j /\ j \in 1..n + 1
  BY <1>1
<1> HIDE DEF n
<1>3. off[i + 1] <= off[j]
  BY <1>2, OffsetsMonotone DEF n
<1>4. off[i] \in Nat /\ off[j] \in Nat /\ off[i + 1] = off[i] + Len(seqs[i])
  BY <1>2 DEF Offsets, n
<1> QED BY <1>1, <1>3, <1>4

-----------------------------------------------------------------------------
(* Little text *)

\* A run starts at the least position from which on there is nothing else.
LEMMA RunStartIs ==
    ASSUME NEW s, NEW i \in Nat, 1 <= i
    PROVE  /\ RunStart(s, i) \in 1..i
           /\ \A k \in RunStart(s, i)..i : s[k] = s[i]
           /\ \A j \in 1..i : (\A k \in j..i : s[k] = s[i]) => RunStart(s, i) <= j
<1> DEFINE T == {j \in 1..i : \A k \in j..i : s[k] = s[i]}
<1>1. i \in T /\ T \in SUBSET Nat
  <2>1. \A k \in i..i : k = i
    OBVIOUS
  <2> QED BY <2>1
<1>2. RunStart(s, i) = Min(T)
  BY DEF RunStart
<1>3. Min(T) \in T /\ \A m \in T : Min(T) <= m
  <2> HIDE DEF T
  <2> QED BY <1>1, MinIs
<1> QED BY <1>2, <1>3

\* It goes on while the elements are equal.
LEMMA RunGoesOn ==
    ASSUME NEW s, NEW i \in Nat, 1 < i
    PROVE  RunStart(s, i) = IF s[i - 1] = s[i] THEN RunStart(s, i - 1) ELSE i
<1> DEFINE j == i - 1
           r == RunStart(s, i)
           q == RunStart(s, j)
<1>1. j \in Nat /\ 1 <= j /\ j < i /\ i = j + 1
  OBVIOUS
<1> HIDE DEF j
<1>2. /\ r \in 1..i /\ (\A k \in r..i : s[k] = s[i])
      /\ \A m \in 1..i : (\A k \in m..i : s[k] = s[i]) => r <= m
  BY <1>1, RunStartIs
<1>3. /\ q \in 1..j /\ (\A k \in q..j : s[k] = s[j])
      /\ \A m \in 1..j : (\A k \in m..j : s[k] = s[j]) => q <= m
  BY <1>1, RunStartIs
<1> HIDE DEF r, q
<1>4. CASE s[j] = s[i]
  <2>1. \A k \in q..i : s[k] = s[i]
    BY <1>1, <1>3, <1>4
  <2>2. q \in 1..i
    BY <1>1, <1>3
  <2>3. r <= q
    BY <1>2, <2>1, <2>2
  <2>4. r \in 1..j /\ \A k \in r..j : s[k] = s[j]
    BY <1>1, <1>2, <1>3, <1>4, <2>3
  <2>5. q <= r
    BY <1>3, <2>4
  <2>6. r = q
    BY <1>2, <1>3, <2>3, <2>5
  <2> QED BY <1>4, <2>6 DEF r, q, j
<1>5. CASE s[j] # s[i]
  <2>1. ~ r <= j
    BY <1>1, <1>2, <1>5
  <2>2. r = i
    BY <1>1, <1>2, <2>1
  <2> QED BY <1>5, <2>2 DEF r, j
<1> QED BY <1>4, <1>5

\* A backslash escapes unless it is escaped.
LEMMA EscapesAlternate ==
    ASSUME NEW s, NEW i \in Nat, 1 <= i
    PROVE  Escapes(s, i) <=> s[i] = "esc" /\ ~ IsEscaped(s, i)
<1>1. RunStart(s, i) \in 1..i
  BY RunStartIs
<1>2. CASE i = 1
  <2>1. RunStart(s, i) = 1
    BY <1>1, <1>2
  <2>2. (i - RunStart(s, i)) % 2 = 0
    BY <1>2, <2>1
  <2> QED BY <1>2, <2>2 DEF Escapes, IsEscaped
<1>3. CASE i > 1 /\ s[i - 1] # s[i]
  <2>1. RunStart(s, i) = i
    BY <1>3, RunGoesOn
  <2>2. (i - RunStart(s, i)) % 2 = 0
    BY <2>1
  <2> QED BY <1>3, <2>2 DEF Escapes, IsEscaped
<1>4. CASE i > 1 /\ s[i - 1] = s[i]
  <2> DEFINE r == RunStart(s, i)
  <2>1. r = RunStart(s, i - 1)
    BY <1>4, RunGoesOn
  <2>2. i - 1 \in Nat /\ 1 <= i - 1
    BY <1>4
  <2>3. r \in 1..i - 1
    BY <2>1, <2>2, RunStartIs
  <2>4. (i - r) % 2 = 0 <=> ~ ((i - 1) - r) % 2 = 0
    <3> HIDE DEF r
    <3> DEFINE d == (i - 1) - r
    <3>1. d \in Nat /\ i - r = d + 1
      BY <2>2, <2>3
    <3> HIDE DEF d
    <3>2. (d + 1) % 2 = 0 <=> ~ d % 2 = 0
      BY <3>1
    <3> QED BY <3>1, <3>2 DEF d
  <2> QED BY <1>4, <2>1, <2>4 DEF Escapes, IsEscaped
<1>5. i = 1 \/ i > 1
  OBVIOUS
<1> QED BY <1>2, <1>3, <1>4, <1>5

\* What is escaped is shown as it is: each part ends with the character it stands for,
\* which does not escape the next one, and what comes before that escapes it.
THEOREM EscapedIsShown ==
    ASSUME NEW s \in Seq(Chars)
    PROVE  Shown(Escaped(s)) = s
<1> DEFINE Part(i) == IF s[i] \in Reserved THEN <<"esc", s[i]>> ELSE <<s[i]>>
           parts == [i \in 1..Len(s) |-> Part(i)]
           n == Len(s)
<1>1. n \in Nat /\ DOMAIN s = 1..n /\ \A i \in 1..n : s[i] \in Chars
  BY ElementOfSeq
<1>2. "esc" \in Chars
  BY DEF Chars
<1>3. \A i \in 1..n : Part(i) \in Seq(Chars)
  BY <1>1, <1>2
<1>4. parts \in Seq(Seq(Chars)) /\ Len(parts) = n
  <2>1. parts \in [1..n -> Seq(Chars)]
    BY <1>3
  <2> QED BY <1>1, <2>1
<1>5. Escaped(s) = FlattenSeq(parts)
  BY <1>1 DEF Escaped
<1>6. /\ \A i \in 1..n : s[i] \in Reserved => Len(parts[i]) = 2 /\ parts[i][1] = "esc" /\ parts[i][2] = s[i]
      /\ \A i \in 1..n : s[i] \notin Reserved => Len(parts[i]) = 1 /\ parts[i][1] = s[i]
  BY <1>1
<1> HIDE DEF parts, n
<1> DEFINE E == Escaped(s)
<1>b. parts \in Seq(Seq(Chars))
  BY <1>4
<1>a. PICK off : Laid(off, parts, FlattenSeq(parts), Chars)
  BY ONLY <1>b, FlattenLaid
<1>7. /\ Offsets(off, parts) /\ E \in Seq(Chars) /\ Len(E) = off[n + 1]
      /\ \A k \in 1..n : \A j \in 1..Len(parts[k]) : E[off[k] + j] = parts[k][j]
  BY ONLY <1>a, <1>4, <1>5 DEF Laid
<1> HIDE DEF E
<1>8. /\ off \in [1..n + 1 -> Nat] /\ off[1] = 0
      /\ \A k \in 1..n : off[k + 1] = off[k] + Len(parts[k])
  BY <1>4, <1>7 DEF Offsets
<1>9. ASSUME NEW k \in 1..n, s[k] \in Reserved
      PROVE  /\ off[k] \in Nat /\ off[k + 1] = off[k] + 2
             /\ E[off[k] + 1] = "esc" /\ E[off[k] + 2] = s[k]
  <2>1. k \in 1..n + 1 /\ Len(parts[k]) = 2
    BY <1>1, <1>6, <1>9
  <2>2. 1 \in 1..Len(parts[k]) /\ 2 \in 1..Len(parts[k])
    BY <2>1
  <2>3. E[off[k] + 1] = parts[k][1] /\ E[off[k] + 2] = parts[k][2]
    BY <2>2, <1>7
  <2> QED BY <2>1, <2>3, <1>6, <1>8, <1>9
<1>10. ASSUME NEW k \in 1..n, s[k] \notin Reserved
       PROVE  off[k] \in Nat /\ off[k + 1] = off[k] + 1 /\ E[off[k] + 1] = s[k]
  <2>1. k \in 1..n + 1 /\ Len(parts[k]) = 1
    BY <1>1, <1>6, <1>10
  <2>2. 1 \in 1..Len(parts[k])
    BY <2>1
  <2>3. E[off[k] + 1] = parts[k][1]
    BY <2>2, <1>7
  <2> QED BY <2>1, <2>3, <1>6, <1>8, <1>10
\* No part escapes the next one.
<1> DEFINE Closed(k) == off[k] # 0 => ~ Escapes(E, off[k])
           T == {k \in Nat : k <= n => Closed(k + 1)}
<1>11. 0 \in T
  BY <1>8
<1>12. ASSUME NEW k \in 1..n, Closed(k)
       PROVE  /\ off[k + 1] \in Nat /\ off[k + 1] > 0 /\ Closed(k + 1) /\ E[off[k + 1]] = s[k]
              /\ s[k] \notin Reserved => off[k + 1] = off[k] + 1
              /\ s[k] \in Reserved => /\ off[k + 1] = off[k] + 2 /\ Escapes(E, off[k] + 1)
                                      /\ IsEscaped(E, off[k + 1])
  <2> DEFINE o == off[k]
  <2>1. o \in Nat
    BY <1>9, <1>10
  <2>2. ~ IsEscaped(E, o + 1)
    <3>1. o + 1 > 1 => o # 0 /\ (o + 1) - 1 = o
      BY <2>1
    <3> QED BY <3>1, <1>12 DEF IsEscaped
  <2>3. CASE s[k] \in Reserved
    <3>1. off[k + 1] = o + 2 /\ E[o + 1] = "esc" /\ E[o + 2] = s[k]
      BY <1>9, <2>3
    <3> HIDE DEF o
    <3>2. Escapes(E, o + 1)
      <4>1. o + 1 \in Nat /\ 1 <= o + 1
        BY <2>1
      <4> QED BY <2>2, <3>1, <4>1, EscapesAlternate
    <3>3. IsEscaped(E, o + 2)
      <4>1. o + 2 > 1 /\ (o + 2) - 1 = o + 1
        BY <2>1
      <4> QED BY <3>2, <4>1 DEF IsEscaped
    <3>4. ~ Escapes(E, o + 2)
      <4>1. o + 2 \in Nat /\ 1 <= o + 2
        BY <2>1
      <4> QED BY <3>3, <4>1, EscapesAlternate
    <3>5. o + 2 > 0 /\ o + 2 \in Nat
      BY <2>1
    <3> QED BY <2>3, <3>1, <3>2, <3>3, <3>4, <3>5 DEF o
  <2>4. CASE s[k] \notin Reserved
    <3>1. off[k + 1] = o + 1 /\ E[o + 1] = s[k]
      BY <1>10, <2>4
    <3>2. s[k] # "esc"
      BY <2>4 DEF Reserved
    <3>3. ~ Escapes(E, o + 1)
      BY <3>1, <3>2 DEF Escapes
    <3> HIDE DEF o
    <3>4. o + 1 > 0 /\ o + 1 \in Nat
      BY <2>1
    <3> QED BY <2>4, <3>1, <3>3, <3>4 DEF o
  <2> QED BY <2>3, <2>4
<1>13. ASSUME NEW k \in Nat, k \in T PROVE k + 1 \in T
  <2>1. SUFFICES ASSUME k + 1 <= n PROVE Closed((k + 1) + 1)
    OBVIOUS
  <2>2. k + 1 \in 1..n /\ k <= n
    BY <2>1, <1>1
  <2>3. Closed(k + 1)
    BY <2>2, <1>13
  <2> HIDE DEF T, Closed
  <2> QED BY <2>2, <2>3, <1>12
<1> HIDE DEF T, Closed
<1>14. ASSUME NEW k \in 1..n PROVE Closed(k)
  <2>1. k - 1 \in Nat /\ k - 1 <= n /\ (k - 1) + 1 = k
    BY <1>1
  <2>2. k - 1 \in T
    BY <2>1, <1>11, <1>13, Induction
  <2> QED BY <2>1, <2>2 DEF T
\* What is shown are the ends of the parts.
<1>15. ASSUME NEW k \in 1..n
       PROVE  /\ off[k] \in Nat /\ off[k + 1] \in Nat /\ off[k + 1] > 0 /\ E[off[k + 1]] = s[k]
              /\ ~ Escapes(E, off[k + 1])
              /\ s[k] \notin Reserved => off[k + 1] = off[k] + 1
              /\ s[k] \in Reserved => /\ off[k + 1] = off[k] + 2 /\ Escapes(E, off[k] + 1)
                                      /\ IsEscaped(E, off[k + 1])
  <2>1. off[k] \in Nat
    BY <1>9, <1>10
  <2>2. Closed(k)
    BY <1>14
  <2>3. /\ off[k + 1] \in Nat /\ off[k + 1] > 0 /\ Closed(k + 1) /\ E[off[k + 1]] = s[k]
        /\ s[k] \notin Reserved => off[k + 1] = off[k] + 1
        /\ s[k] \in Reserved => /\ off[k + 1] = off[k] + 2 /\ Escapes(E, off[k] + 1)
                                /\ IsEscaped(E, off[k + 1])
    BY <2>2, <1>12
  <2>4. ~ Escapes(E, off[k + 1])
    BY <2>3 DEF Closed
  <2> QED BY <2>1, <2>3, <2>4
<1>16. Len(E) \in Nat /\ DOMAIN E = 1..Len(E)
  BY <1>7, LenProperties
<1>17. ASSUME NEW p \in 1..Len(E)
       PROVE  \E k \in 1..n : p = off[k + 1] \/ (s[k] \in Reserved /\ p = off[k] + 1)
  <2>1. PICK k \in 1..n : p - off[k] \in 1..Len(parts[k])
    BY <1>4, <1>7, OffsetsCover
  <2>2. off[k] \in Nat /\ (s[k] \in Reserved => Len(parts[k]) = 2) /\ (s[k] \notin Reserved => Len(parts[k]) = 1)
    BY <1>6, <1>15
  <2>a. p \in Nat
    BY <1>16
  <2>3. CASE s[k] \in Reserved
    <3>1. p - off[k] \in 1..2
      BY <2>1, <2>2, <2>3
    <3>2. p = off[k] + 1 \/ p = off[k] + 2
      <4> DEFINE o == off[k]
      <4>1. p - o \in 1..2 /\ p \in Nat /\ o \in Nat
        BY <3>1, <2>2, <2>a
      <4> HIDE DEF o
      <4>2. p = o + 1 \/ p = o + 2
        BY <4>1
      <4> QED BY <4>2 DEF o
    <3> QED BY <3>2, <2>3, <1>15
  <2>4. CASE s[k] \notin Reserved
    <3>1. p - off[k] \in 1..1
      BY <2>1, <2>2, <2>4
    <3>2. p = off[k] + 1
      <4> DEFINE o == off[k]
      <4>1. p - o \in 1..1 /\ p \in Nat /\ o \in Nat
        BY <3>1, <2>2, <2>a
      <4> HIDE DEF o
      <4>2. p = o + 1
        BY <4>1
      <4> QED BY <4>2 DEF o
    <3> QED BY <3>2, <2>4, <1>15
  <2> QED BY <2>3, <2>4
<1>18. \A i, j \in 1..n + 1 : i <= j => off[i] <= off[j]
  BY <1>4, <1>7, OffsetsMonotone
<1>19. ASSUME NEW k \in 1..n PROVE off[k + 1] \in 1..Len(E)
  <2>1. k + 1 \in 1..n + 1 /\ n + 1 \in 1..n + 1 /\ k + 1 <= n + 1
    BY <1>1
  <2>2. off[k + 1] <= off[n + 1]
    BY <2>1, <1>18
  <2> QED BY <2>2, <1>7, <1>15, <1>16
<1>20. Cuts(E) = {}
  <2>1. SUFFICES ASSUME NEW p \in 1..Len(E), E[p] \in Reserved, ~ IsEscaped(E, p),
                        ~ (Escapes(E, p) /\ p < Len(E))
                 PROVE  FALSE
    BY <1>16 DEF Cuts
  <2>2. PICK k \in 1..n : p = off[k + 1] \/ (s[k] \in Reserved /\ p = off[k] + 1)
    BY <1>17
  <2>3. CASE p = off[k + 1]
    BY <2>1, <2>3, <1>15
  <2>4. CASE s[k] \in Reserved /\ p = off[k] + 1
    <3>1. p < off[k + 1] /\ off[k + 1] <= Len(E) /\ Escapes(E, p)
      BY <2>4, <1>15, <1>19
    <3>2. p < Len(E)
      BY <3>1, <1>15, <1>16
    <3> QED BY <2>1, <3>1, <3>2
  <2> QED BY <2>2, <2>3, <2>4
<1> DEFINE I == {i \in DOMAIN E : ~ Escapes(E, i) /\ \A j \in Cuts(E) : i < j}
           e == [k \in 1..n |-> off[k + 1]]
<1>21. Shown(E) = At(E, I)
  BY DEF Shown
<1>22. \A i : i \in I <=> i \in 1..Len(E) /\ ~ Escapes(E, i)
  BY <1>16, <1>20
<1>23. e \in Seq(1..Len(E)) /\ Len(e) = n /\ \A k \in 1..n : e[k] = off[k + 1]
  <2>1. e \in [1..n -> 1..Len(E)]
    BY <1>19
  <2> QED BY <2>1, <1>1
<1> HIDE DEF I, e
<1>24. Lists(e, I, Len(E))
  <2>1. ASSUME NEW a \in 1..n, NEW b \in 1..n, a < b PROVE e[a] < e[b]
    <3>1. a + 1 \in 1..n + 1 /\ b \in 1..n + 1 /\ a + 1 <= b
      BY <1>1, <2>1
    <3>2. off[a + 1] <= off[b]
      BY <3>1, <1>18
    <3>3. off[b] < off[b + 1]
      BY <1>15
    <3>4. off[a + 1] < off[b + 1]
      BY <3>2, <3>3, <1>15
    <3> QED BY <3>4, <1>23
  <2>2. ASSUME NEW a \in 1..n PROVE e[a] \in I
    BY <1>15, <1>19, <1>22, <1>23
  <2>3. ASSUME NEW i \in 1..Len(E), i \in I PROVE \E a \in 1..n : e[a] = i
    <3>1. ~ Escapes(E, i)
      BY <2>3, <1>22
    <3>2. PICK k \in 1..n : i = off[k + 1] \/ (s[k] \in Reserved /\ i = off[k] + 1)
      BY <1>17
    <3>3. i = off[k + 1]
      BY <3>1, <3>2, <1>15
    <3> QED BY <3>3, <1>23
  <2> QED BY <2>1, <2>2, <2>3, <1>23 DEF Lists
<1>25. /\ At(E, I) \in Seq(Chars) /\ Len(At(E, I)) = n
       /\ \A k \in 1..n : At(E, I)[k] = E[e[k]]
  BY <1>7, <1>23, <1>24, AtPicks
<1>26. \A k \in 1..n : At(E, I)[k] = s[k]
  BY <1>15, <1>23, <1>25
<1>27. At(E, I) = s
  BY <1>25, <1>26, SeqEqual DEF n
<1> QED BY <1>21, <1>27 DEF E

\* Nothing but characters is left of a text.
LEMMA StrippedIsText ==
    ASSUME NEW s \in Seq(Chars)
    PROVE  Stripped(s) \in Seq(Chars)
<1>1. ASSUME NEW t \in Seq(Chars), NEW I PROVE At(t, I) \in Seq(Chars)
  <2>1. Len(t) \in Nat
    BY LenProperties
  <2>2. Lists(InOrder(I, Len(t)), I, Len(t))
    BY <2>1, InOrderLists
  <2> QED BY <2>2, AtPicks
<1>2. WithoutTicks(s) \in Seq(Chars)
  BY <1>1 DEF WithoutTicks
<1>3. WithoutBold(WithoutTicks(s)) \in Seq(Chars)
  BY <1>1, <1>2 DEF WithoutBold
<1> QED BY <1>3 DEF Stripped

\* A part of a part of a text is a part of the text.
LEMMA PartOfPart ==
    ASSUME NEW S, NEW s \in Seq(S), NEW I, NEW d, Lists(d, I, Len(s)), NEW J, NEW K,
           \A i \in 1..Len(s) : i \in K <=> \E j \in 1..Len(d) : j \in J /\ d[j] = i
    PROVE  At(At(s, I), J) = At(s, K)
<1> DEFINE t == At(s, I)
           n == Len(s)
<1>1. n \in Nat
  BY LenProperties
<1>2. /\ t \in Seq(S) /\ Len(t) = Len(d)
      /\ \A a \in 1..Len(d) : d[a] \in 1..n /\ t[a] = s[d[a]]
  BY AtPicks
<1>3. /\ Len(d) \in Nat /\ \A a, b \in 1..Len(d) : a < b => d[a] < d[b]
  BY LenProperties DEF Lists
<1> HIDE DEF t
<1> DEFINE e == InOrder(J, Len(t))
           f == [a \in 1..Len(e) |-> d[e[a]]]
<1>4. Lists(e, J, Len(d))
  BY <1>2, <1>3, InOrderLists
<1> HIDE DEF e
<1>5. /\ Len(e) \in Nat /\ \A a \in 1..Len(e) : e[a] \in 1..Len(d) /\ e[a] \in J
      /\ \A a, b \in 1..Len(e) : a < b => e[a] < e[b]
      /\ \A j \in 1..Len(d) : j \in J => \E a \in 1..Len(e) : e[a] = j
  BY <1>4, LenProperties, ElementOfSeq DEF Lists
<1>6. f \in Seq(1..n) /\ Len(f) = Len(e) /\ \A a \in 1..Len(e) : f[a] = d[e[a]]
  <2>1. f \in [1..Len(e) -> 1..n]
    BY <1>2, <1>5
  <2>2. f \in Seq(1..n)
    <3> DEFINE m == Len(e)
    <3>1. m \in Nat /\ f \in [1..m -> 1..n]
      BY <1>5, <2>1
    <3> HIDE DEF f, m
    <3> QED BY <3>1
  <2>3. DOMAIN f = 1..Len(e) /\ \A a \in 1..Len(e) : f[a] = d[e[a]]
    OBVIOUS
  <2> HIDE DEF f
  <2>4. Len(f) = Len(e)
    BY <1>5, <2>2, <2>3, LenProperties
  <2> QED BY <2>2, <2>3, <2>4
<1> HIDE DEF f
<1>7. Lists(f, K, n)
  <2>1. \A a \in 1..Len(f) : f[a] \in K
    BY <1>2, <1>5, <1>6 DEF n
  <2>2. ASSUME NEW a \in 1..Len(f), NEW b \in 1..Len(f), a < b PROVE f[a] < f[b]
    <3>1. /\ e[a] \in 1..Len(d) /\ e[b] \in 1..Len(d) /\ e[a] < e[b]
          /\ f[a] = d[e[a]] /\ f[b] = d[e[b]]
      BY <1>5, <1>6, <2>2
    <3>2. d[e[a]] < d[e[b]]
      BY <1>3, <3>1
    <3> QED BY <3>1, <3>2
  <2>3. ASSUME NEW i \in 1..n, i \in K PROVE \E a \in 1..Len(f) : f[a] = i
    <3>1. PICK j \in 1..Len(d) : j \in J /\ d[j] = i
      BY <2>3 DEF n
    <3>2. PICK a \in 1..Len(e) : e[a] = j
      BY <1>5, <3>1
    <3> QED BY <1>6, <3>1, <3>2
  <2> QED BY <1>6, <2>1, <2>2, <2>3 DEF Lists
<1>8. /\ At(t, J) \in Seq(S) /\ Len(At(t, J)) = Len(e)
      /\ \A a \in 1..Len(e) : At(t, J)[a] = t[e[a]]
  BY <1>2, <1>4, AtPicks
<1>9. /\ At(s, K) \in Seq(S) /\ Len(At(s, K)) = Len(f)
      /\ \A a \in 1..Len(f) : At(s, K)[a] = s[f[a]]
  BY <1>7, AtPicks DEF n
<1>10. ASSUME NEW a \in 1..Len(e) PROVE At(t, J)[a] = At(s, K)[a]
  <2>1. At(t, J)[a] = t[e[a]] /\ e[a] \in 1..Len(d)
    BY <1>5, <1>8
  <2>2. At(s, K)[a] = s[f[a]] /\ f[a] = d[e[a]]
    BY <1>6, <1>9
  <2>3. t[e[a]] = s[d[e[a]]]
    BY <1>2, <2>1
  <2> QED BY <2>1, <2>2, <2>3
<1>11. At(t, J) = At(s, K)
  BY <1>6, <1>8, <1>9, <1>10, SeqEqual
<1> QED BY <1>11 DEF t

\* A part that has every character that is of no marker has the same words.
LEMMA WordsStay ==
    ASSUME NEW s \in Seq(Chars), NEW I, \A i \in 1..Len(s) : s[i] \notin {"tick", "*"} => i \in I
    PROVE  At(s, I) \in Seq(Chars) /\ Words(At(s, I)) = Words(s)
<1> DEFINE t == At(s, I)
           d == InOrder(I, Len(s))
           J == {j \in DOMAIN t : t[j] \notin {"tick", "*"}}
           K == {i \in DOMAIN s : s[i] \notin {"tick", "*"}}
<1>1. Lists(d, I, Len(s))
  BY InOrderLists, LenProperties
<1> HIDE DEF d
<1>2. /\ t \in Seq(Chars) /\ Len(t) = Len(d)
      /\ \A a \in 1..Len(d) : d[a] \in 1..Len(s) /\ t[a] = s[d[a]]
  BY <1>1, AtPicks
<1>3. DOMAIN t = 1..Len(d) /\ DOMAIN s = 1..Len(s)
  BY <1>2, LenProperties
<1> HIDE DEF t
<1>4. ASSUME NEW i \in 1..Len(s) PROVE i \in K <=> \E j \in 1..Len(d) : j \in J /\ d[j] = i
  <2>1. i \in K => i \in I
    OBVIOUS
  <2>2. i \in I => \E j \in 1..Len(d) : d[j] = i
    BY <1>1 DEF Lists
  <2> QED BY <1>2, <1>3, <2>1, <2>2
<1>5. Words(t) = At(t, J) /\ Words(s) = At(s, K)
  BY DEF Words
<1> HIDE DEF J, K
<1>6. At(At(s, I), J) = At(s, K)
  BY <1>1, <1>4, PartOfPart
<1> QED BY <1>2, <1>5, <1>6 DEF t

\* Stripping takes no character but those of markers, and leaves no backtick and no two
\* asterisks in a row.
LEMMA StrippedHasNoMarkers ==
    ASSUME NEW s \in Seq(Chars)
    PROVE  /\ Stripped(s) \in Seq(Chars)
           /\ Words(Stripped(s)) = Words(s) /\ ~ HasMarkers(Stripped(s))
<1> DEFINE t == WithoutTicks(s)
           T == {i \in DOMAIN s : s[i] # "tick"}
<1>1. t = At(s, T) /\ DOMAIN s = 1..Len(s) /\ Len(s) \in Nat
  BY LenProperties DEF WithoutTicks
<1>2. t \in Seq(Chars) /\ Words(t) = Words(s)
  BY <1>1, WordsStay
<1>3. \A i \in 1..Len(t) : t[i] # "tick"
  <2>1. Lists(InOrder(T, Len(s)), T, Len(s))
    BY <1>1, InOrderLists
  <2> DEFINE e == InOrder(T, Len(s))
  <2> HIDE DEF e, t
  <2>2. Lists(e, T, Len(s)) /\ Len(e) \in Nat
    BY <2>1, LenProperties DEF e, Lists
  <2>3. Len(t) = Len(e) /\ \A a \in 1..Len(e) : e[a] \in 1..Len(s) /\ t[a] = s[e[a]]
    <3> HIDE DEF T
    <3> QED BY <1>1, <2>2, AtPicks
  <2>4. \A a \in 1..Len(e) : e[a] \in T
    BY <2>2 DEF Lists
  <2> QED BY <2>3, <2>4
<1>4. Stripped(s) = WithoutBold(t)
  BY DEF Stripped
<1> HIDE DEF t
<1> DEFINE u == WithoutBold(t)
           B == {i \in DOMAIN t : t[i] = "*" => /\ (i - RunStart(t, i)) % 2 = 0
                                                /\ i < Len(t) => t[i + 1] # "*"}
           d == InOrder(B, Len(t))
<1>5. u = At(t, B) /\ DOMAIN t = 1..Len(t) /\ Len(t) \in Nat
  BY <1>2, LenProperties DEF WithoutBold
<1>6. \A i \in 1..Len(t) : t[i] # "*" => i \in B
  BY <1>5
<1>7. \A i \in B : t[i] = "*" /\ i < Len(t) => t[i + 1] # "*"
  OBVIOUS
<1>8. Lists(d, B, Len(t))
  BY <1>5, InOrderLists
<1> HIDE DEF d, B, u
<1>9. u \in Seq(Chars) /\ Words(u) = Words(s)
  BY <1>2, <1>5, <1>6, WordsStay
<1>10. /\ Len(u) = Len(d) /\ Len(d) \in Nat /\ DOMAIN u = 1..Len(d)
       /\ \A a \in 1..Len(d) : d[a] \in 1..Len(t) /\ d[a] \in B /\ u[a] = t[d[a]]
       /\ \A a, b \in 1..Len(d) : a < b => d[a] < d[b]
       /\ \A i \in 1..Len(t) : i \in B => \E b \in 1..Len(d) : d[b] = i
  <2>1. Len(u) = Len(d) /\ \A a \in 1..Len(d) : d[a] \in 1..Len(t) /\ u[a] = t[d[a]]
    BY <1>2, <1>5, <1>8, AtPicks
  <2>2. Len(d) \in Nat /\ DOMAIN u = 1..Len(d)
    BY <1>8, <1>9, <2>1, LenProperties DEF Lists
  <2> QED BY <1>8, <2>1, <2>2 DEF Lists
<1>11. ASSUME NEW a \in 1..Len(d), u[a] = "*", a < Len(d), u[a + 1] = "*" PROVE FALSE
  <2>1. a + 1 \in 1..Len(d) /\ a \in Nat
    BY <1>10, <1>11
  <2> DEFINE i == d[a]
  <2>2. i \in 1..Len(t) /\ i \in B /\ t[i] = "*" /\ i < d[a + 1] /\ d[a + 1] \in 1..Len(t)
    BY <1>10, <1>11, <2>1
  <2> HIDE DEF i
  <2>3. i + 1 \in 1..Len(t) /\ t[i + 1] # "*"
    BY <1>5, <1>7, <2>2
  <2>4. PICK b \in 1..Len(d) : d[b] = i + 1
    BY <1>6, <1>10, <2>3
  <2>5. ~ b <= a
    BY <1>10, <2>1, <2>2, <2>4 DEF i
  <2>6. ~ a + 1 < b
    BY <1>10, <2>1, <2>2, <2>4
  <2>7. b = a + 1
    BY <2>1, <2>5, <2>6
  <2> QED BY <1>10, <1>11, <2>3, <2>4, <2>7
<1>12. ~ HasMarkers(u)
  <2>1. \A a \in 1..Len(d) : u[a] # "tick"
    BY <1>3, <1>10
  <2> QED BY <1>10, <1>11, <2>1 DEF HasMarkers
<1> QED BY <1>4, <1>9, <1>12 DEF u
=============================================================================
