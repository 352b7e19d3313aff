---------------------------- MODULE QueueLemmas ----------------------------
(***************************************************************************)
(* The queues of the models: what Append and Tail make of the elements of  *)
(* a sequence, and of how often a value occurs in it.  The proofs about    *)
(* channels and links cite these facts instead of expanding sequences.     *)
(***************************************************************************)
EXTENDS Integers, Sequences, FiniteSetTheorems, FunctionTheorems, WellFoundedInduction, TLAPS

LEMMA Appended ==
  ASSUME NEW S, NEW s \in Seq(S), NEW e \in S
  PROVE  /\ Append(s, e) \in Seq(S) /\ Len(Append(s, e)) = Len(s) + 1
         /\ \A i \in 1 .. Len(s) : Append(s, e)[i] = s[i]
         /\ Append(s, e)[Len(s) + 1] = e
OBVIOUS

LEMMA TailOf ==
  ASSUME NEW S, NEW s \in Seq(S), s # <<>>
  PROVE  /\ Tail(s) \in Seq(S) /\ Len(Tail(s)) = Len(s) - 1 /\ Len(s) \in Nat \ {0}
         /\ \A i \in 1 .. Len(s) - 1 : Tail(s)[i] = s[i + 1]
         /\ Head(s) = s[1] /\ Head(s) \in S
OBVIOUS

LEMMA ElementOf ==
  ASSUME NEW S, NEW s \in Seq(S), NEW i \in 1 .. Len(s) PROVE s[i] \in S
OBVIOUS

Places(s, e) == {i \in 1 .. Len(s) : s[i] = e}

\* How often e is in s.
Occurs(s, e) == Cardinality(Places(s, e))

LEMMA OccursType ==
  ASSUME NEW S, NEW s \in Seq(S), NEW e
  PROVE  IsFiniteSet(Places(s, e)) /\ Occurs(s, e) \in Nat
<1>1. Places(s, e) \subseteq 1 .. Len(s) /\ Len(s) \in Nat
  BY DEF Places
<1>2. IsFiniteSet(1 .. Len(s))
  BY <1>1, FS_Interval
<1> QED
  BY <1>1, <1>2, FS_Subset, FS_CardinalityType DEF Occurs

\* A value that is not in the queue occurs never.
LEMMA OccursNever ==
  ASSUME NEW S, NEW s \in Seq(S), NEW e, \A i \in 1 .. Len(s) : s[i] # e
  PROVE  Occurs(s, e) = 0
<1>1. Places(s, e) = {}
  BY DEF Places
<1> QED
  BY <1>1, FS_EmptySet DEF Occurs

LEMMA OccursAppended ==
  ASSUME NEW S, NEW s \in Seq(S), NEW x \in S, NEW e
  PROVE  Occurs(Append(s, x), e) = IF x = e THEN Occurs(s, e) + 1 ELSE Occurs(s, e)
<1>1. /\ Len(Append(s, x)) = Len(s) + 1 /\ Len(s) \in Nat
      /\ \A i \in 1 .. Len(s) : Append(s, x)[i] = s[i]
      /\ Append(s, x)[Len(s) + 1] = x
  BY Appended
<1>2. \A i \in 1 .. Len(s) + 1 : i \in 1 .. Len(s) \/ i = Len(s) + 1
  BY <1>1
<1>3. CASE x = e
  <2>1. Places(Append(s, x), e) = Places(s, e) \cup {Len(s) + 1}
    BY <1>1, <1>2, <1>3 DEF Places
  <2>2. Len(s) + 1 \notin Places(s, e)
    BY <1>1 DEF Places
  <2> QED
    BY <1>3, <2>1, <2>2, OccursType, FS_AddElement DEF Occurs
<1>4. CASE x # e
  <2>1. Places(Append(s, x), e) = Places(s, e)
    BY <1>1, <1>2, <1>4 DEF Places
  <2> QED
    BY <1>4, <2>1 DEF Occurs
<1> QED
  BY <1>3, <1>4

LEMMA OccursInTail ==
  ASSUME NEW S, NEW s \in Seq(S), s # <<>>, NEW e
  PROVE  Occurs(s, e) = IF Head(s) = e THEN Occurs(Tail(s), e) + 1 ELSE Occurs(Tail(s), e)
<1>1. /\ Len(Tail(s)) = Len(s) - 1 /\ Len(s) \in Nat \ {0} /\ Head(s) = s[1]
      /\ \A i \in 1 .. Len(s) - 1 : Tail(s)[i] = s[i + 1]
      /\ Tail(s) \in Seq(S)
  BY TailOf
<1> DEFINE T == Places(Tail(s), e)
           R == Places(s, e) \ {1}
           f == [i \in T |-> i + 1]
<1>2. f \in Bijection(T, R)
  <2>1. \A i \in T : i \in Nat /\ i + 1 \in R
    BY <1>1 DEF Places
  <2>2. \A i \in R : i - 1 \in T /\ i \in Nat
    BY <1>1 DEF Places
  <2>3. f \in [T -> R]
    BY <2>1
  <2>4. \A i, j \in T : f[i] = f[j] => i = j
    BY <2>1
  <2>5. \A k \in R : \E i \in T : f[i] = k
    BY <2>2
  <2> QED
    BY <2>3, <2>4, <2>5, Fun_IsBij
<1>3. Cardinality(R) = Cardinality(T)
  <2>1. ExistsBijection(T, R)
    BY <1>2 DEF ExistsBijection
  <2> QED
    BY <1>1, <2>1, OccursType, FS_Bijection
<1>4. CASE Head(s) = e
  <2>1. Places(s, e) = R \cup {1} /\ 1 \notin R
    BY <1>1, <1>4 DEF Places
  <2>2. IsFiniteSet(R)
    BY OccursType, FS_Subset
  <2> HIDE DEF T, R
  <2>3. Cardinality(R \cup {1}) = Cardinality(R) + 1
    BY <2>1, <2>2, FS_AddElement
  <2> QED
    BY <1>3, <1>4, <2>1, <2>3 DEF Occurs, T
<1>5. CASE Head(s) # e
  <2>1. Places(s, e) = R
    BY <1>1, <1>5 DEF Places
  <2> QED
    BY <1>3, <1>5, <2>1 DEF Occurs
<1> QED
  BY <1>4, <1>5

-----------------------------------------------------------------------------
(* Induction over the naturals and folds over sequences.  Both are stated  *)
(* of sets and functions, so that they are facts to cite: the least number *)
(* of a set, and the function a fold computes over the sets of places.     *)

LessNat == {p \in Nat \X Nat : p[1] < p[2]}

\* A set of numbers has a least one.
LEMMA Least ==
  ASSUME NEW T \in SUBSET Nat, T # {}
  PROVE  \E n \in T : \A m \in T : n <= m
<1>1. IsWellFoundedOn(LessNat, Nat)
  BY NatLessThanWellFounded, Zenon DEF OpToRel, LessNat
<1>2. PICK n \in T : \A m \in T : ~ (<<m, n>> \in LessNat)
  BY <1>1, WFMin
<1>3. \A m \in T : m \in Nat /\ n \in Nat /\ ~ (m < n)
  BY <1>2 DEF LessNat
<1> QED
  BY <1>2, <1>3

\* Induction, stated of the set of the numbers a statement holds of.
LEMMA Induct ==
  ASSUME NEW n \in Nat, NEW T, 0 \in T, \A k \in 1 .. n : k - 1 \in T => k \in T
  PROVE  \A k \in 0 .. n : k \in T
<1> SUFFICES ASSUME NEW k \in 0 .. n, k \notin T PROVE FALSE
  OBVIOUS
<1> DEFINE Out == {m \in 0 .. n : m \notin T}
<1>1. Out \in SUBSET Nat /\ Out # {}
  OBVIOUS
<1>2. PICK m \in Out : \A l \in Out : m <= l
  BY <1>1, Least
<1>3. m \in 1 .. n /\ m \notin T /\ m - 1 \in 0 .. n /\ m - 1 \in T
  BY <1>2
<1> QED
  BY <1>3

\* k is the last of the places in s.
LastOf(s, k) == k \in s /\ \A i \in s : i <= k

\* The function behind a fold: what has been made of each set of places, when a step
\* takes the last of them.
Folds(h, s, b, F) ==
  /\ s = {} => h[s] = b
  /\ \A k \in s : LastOf(s, k) => h[s] = F[<<k, h[s \ {k}]>>]

LEMMA FoldExists ==
  ASSUME NEW n \in Nat, NEW D, NEW b \in D, NEW F \in [(1 .. n) \X D -> D]
  PROVE  \E h \in [SUBSET (1 .. n) -> D] : \A s \in SUBSET (1 .. n) : Folds(h, s, b, F)
<1> DEFINE Right(h, k) == \A s \in SUBSET (1 .. k) : Folds(h, s, b, F)
           T == {k \in 0 .. n : \E h \in [SUBSET (1 .. k) -> D] : Right(h, k)}
<1>1. 0 \in T
  <2> DEFINE g == [s \in SUBSET (1 .. 0) |-> b]
  <2>1. g \in [SUBSET (1 .. 0) -> D]
    OBVIOUS
  <2>2. Right(g, 0)
    BY DEF Folds
  <2>3. \E h \in [SUBSET (1 .. 0) -> D] : Right(h, 0)
    <3> HIDE DEF g, Right
    <3> QED
      BY <2>1, <2>2
  <2>4. 0 \in 0 .. n
    OBVIOUS
  <2> QED
    BY <2>3, <2>4, Zenon
<1>2. ASSUME NEW k \in 1 .. n, k - 1 \in T PROVE k \in T
  <2>1. PICK h \in [SUBSET (1 .. (k - 1)) -> D] : Right(h, k - 1)
    BY <1>2
  <2> DEFINE g == [s \in SUBSET (1 .. k) |-> IF k \in s THEN F[<<k, h[s \ {k}]>>] ELSE h[s]]
  <2>2. ASSUME NEW s \in SUBSET (1 .. k)
        PROVE  /\ s \ {k} \in SUBSET (1 .. (k - 1))
               /\ k \notin s => s \in SUBSET (1 .. (k - 1))
               /\ k \in s => \A i \in s : LastOf(s, i) => i = k
    BY SMT DEF LastOf
  <2>3. g \in [SUBSET (1 .. k) -> D]
    BY <2>1, <2>2
  <2>4. ASSUME NEW s \in SUBSET (1 .. k), NEW i \in s, LastOf(s, i)
        PROVE  g[s] = F[<<i, g[s \ {i}]>>]
    <3>1. CASE k \in s
      <4>1. g[s] = F[<<k, h[s \ {k}]>>] /\ i = k
        BY <3>1, <2>2, <2>4
      <4>2. s \ {k} \in SUBSET (1 .. k) /\ k \notin s \ {k}
        OBVIOUS
      <4>3. g[s \ {k}] = h[s \ {k}]
        BY <4>2
      <4> QED
        BY <4>1, <4>3
    <3>2. CASE k \notin s
      <4>1. s \in SUBSET (1 .. (k - 1)) /\ g[s] = h[s]
        BY <3>2, <2>2
      <4>2. h[s] = F[<<i, h[s \ {i}]>>]
        BY <4>1, <2>1, <2>4 DEF Folds
      <4>3. g[s \ {i}] = h[s \ {i}]
        BY <3>2
      <4> QED
        BY <4>1, <4>2, <4>3
    <3> QED
      BY <3>1, <3>2
  <2>5. g[{}] = b
    BY <2>1 DEF Folds
  <2>6. Right(g, k)
    <3> HIDE DEF g
    <3> QED
      BY <2>4, <2>5 DEF Folds
  <2> HIDE DEF g, Right
  <2> QED
    BY <2>3, <2>6
<1>3. n \in T
  <2> HIDE DEF T
  <2> QED
    BY <1>1, <1>2, Induct
<1> QED
  BY <1>3

\* What a step keeps holds of all that a fold goes through.
LEMMA FoldKeeps ==
  ASSUME NEW n \in Nat, NEW D, NEW f, f[0] \in D,
         \A k \in 1 .. n : f[k - 1] \in D => f[k] \in D
  PROVE  \A k \in 0 .. n : f[k] \in D
<1> DEFINE T == {k \in 0 .. n : f[k] \in D}
<1>1. 0 \in T /\ \A k \in 1 .. n : k - 1 \in T => k \in T
  OBVIOUS
<1>2. \A k \in 0 .. n : k \in T
  <2> HIDE DEF T
  <2> QED
    BY <1>1, Induct
<1> QED
  BY <1>2

Greatest(s) == CHOOSE x \in s : \A y \in s : x >= y

LEMMA LastPlace ==
  ASSUME NEW s \in SUBSET Nat, NEW k \in s, LastOf(s, k)
  PROVE  Greatest(s) = k
<1>1. \A x \in s : (\A y \in s : x >= y) => x = k
  BY DEF LastOf
<1> QED
  BY <1>1 DEF Greatest, LastOf

LEMMA HasLast ==
  ASSUME NEW n \in Nat, NEW s \in SUBSET (1 .. n), s # {}
  PROVE  LastOf(s, Greatest(s)) /\ Greatest(s) \in 1 .. n
<1> DEFINE T == {n - i : i \in s}
<1>1. T \in SUBSET Nat /\ T # {}
  <2>1. \A i \in s : n - i \in Nat
    OBVIOUS
  <2>2. PICK i \in s : TRUE
    OBVIOUS
  <2>3. n - i \in T
    BY <2>2
  <2> QED
    BY <2>1, <2>3
<1>2. PICK m \in T : \A l \in T : m <= l
  <2> HIDE DEF T
  <2> QED
    BY <1>1, Least
<1>3. PICK k \in s : m = n - k
  BY <1>2
<1>4. ASSUME NEW i \in s PROVE i <= k
  <2>1. n - i \in T
    OBVIOUS
  <2>2. n - k <= n - i
    BY <2>1, <1>2, <1>3
  <2> QED
    BY <2>2
<1>5. LastOf(s, k) /\ k \in 1 .. n
  BY <1>4 DEF LastOf
<1> QED
  BY <1>5, LastPlace

LEMMA FirstPlaces ==
  ASSUME NEW k \in Nat \ {0}
  PROVE  Greatest(1 .. k) = k /\ (1 .. k) \ {k} = 1 .. (k - 1) /\ 1 .. k # {}
<1>1. LastOf(1 .. k, k) /\ (1 .. k) \ {k} = 1 .. (k - 1) /\ 1 .. k \in SUBSET Nat /\ k \in 1 .. k
  BY SMT DEF LastOf
<1> QED
  BY <1>1, LastPlace

\* The same with the last place as the fold names it.
Chosen(h, n, b, F) ==
  \A s \in SUBSET (1 .. n) : h[s] = IF s = {} THEN b ELSE F[<<Greatest(s), h[s \ {Greatest(s)}]>>]

LEMMA FoldChosen ==
  ASSUME NEW n \in Nat, NEW D, NEW b \in D, NEW F \in [(1 .. n) \X D -> D]
  PROVE  \E h \in [SUBSET (1 .. n) -> D] : Chosen(h, n, b, F)
<1>1. PICK h \in [SUBSET (1 .. n) -> D] : \A s \in SUBSET (1 .. n) : Folds(h, s, b, F)
  BY FoldExists
<1>2. ASSUME NEW s \in SUBSET (1 .. n), s # {}
      PROVE  h[s] = F[<<Greatest(s), h[s \ {Greatest(s)}]>>]
  <2>1. LastOf(s, Greatest(s)) /\ Greatest(s) \in s
    BY <1>2, HasLast DEF LastOf
  <2> QED
    BY <1>1, <2>1 DEF Folds
<1>3. h[{}] = b
  BY <1>1 DEF Folds
<1>4. Chosen(h, n, b, F)
  BY <1>2, <1>3 DEF Chosen
<1> QED
  BY <1>4

=============================================================================
