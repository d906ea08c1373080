----------------------------- MODULE PlacesProofs -----------------------------
(***************************************************************************)
(* Lemmas on what is collected from some places of a table or sequence, and  *)
(* on folds: the definition of a fold is a recursive function on sets, whose *)
(* existence and values are proved here by induction on the numbers.         *)
(***************************************************************************)
EXTENDS Places, Integers, WellFoundedInduction, FiniteSetTheorems, FunctionTheorems,
        SequenceTheorems, TLAPS

-----------------------------------------------------------------------------
(* Numbering *)

\* Every set of numbers has a least one.
LEMMA LeastNumber ==
    ASSUME NEW T, T \subseteq Nat, T # {}
    PROVE  \E n \in T : \A m \in T : n <= m
  <1> DEFINE R == OpToRel(<, Nat)
  <1>1. IsWellFoundedOn(R, Nat)
    BY NatLessThanWellFounded
  <1>2. \A m \in Nat, n \in Nat : m < n => <<m, n>> \in R
    BY DEF OpToRel
  <1> HIDE DEF R
  <1>3. PICK n \in T : \A m \in T : ~(<<m, n>> \in R)
    BY <1>1, WFMin
  <1>4. ASSUME NEW m \in T PROVE n <= m
    <2>1. m \in Nat /\ n \in Nat /\ ~(m < n)
      BY <1>2, <1>3
    <2> QED BY <2>1
  <1> QED BY <1>4

\* The elements before one of S.
Below(S, i) == {h \in S : h < i}

\* A later element has more before it,
LEMMA BelowGrows ==
    ASSUME NEW S, IsFiniteSet(S), S \subseteq Nat, NEW i \in S, NEW j \in S, i < j
    PROVE  Cardinality(Below(S, i)) < Cardinality(Below(S, j))
  <1>1. IsFiniteSet(Below(S, i)) /\ IsFiniteSet(Below(S, j))
    <2>1. Below(S, i) \in SUBSET S /\ Below(S, j) \in SUBSET S
      BY DEF Below
    <2> QED BY <2>1, FS_Subset
  <1>2. i \in Nat /\ j \in Nat /\ S \subseteq Nat
    OBVIOUS
  <1>3. i \notin Below(S, i)
    BY <1>2 DEF Below
  <1>4. Below(S, i) \cup {i} \in SUBSET Below(S, j)
    <2>1. i \in Below(S, j)
      BY DEF Below
    <2>2. ASSUME NEW h \in Below(S, i) PROVE h \in Below(S, j)
      <3>1. h \in S /\ h < i
        BY <2>2 DEF Below
      <3>2. h < j
        <4>1. h \in Nat
          BY <3>1
        <4> QED BY <1>2, <3>1, <4>1
      <3> QED BY <3>1, <3>2 DEF Below
    <2> QED BY <2>1, <2>2
  <1>5. Cardinality(Below(S, i) \cup {i}) = Cardinality(Below(S, i)) + 1
    BY <1>1, <1>3, FS_AddElement
  <1>6. Cardinality(Below(S, i) \cup {i}) <= Cardinality(Below(S, j))
    BY <1>1, <1>4, FS_Subset
  <1>7. Cardinality(Below(S, i)) \in Nat /\ Cardinality(Below(S, j)) \in Nat
    BY <1>1, FS_CardinalityType
  <1> QED BY <1>5, <1>6, <1>7

\* and none has all.
LEMMA BelowAll ==
    ASSUME NEW S, IsFiniteSet(S), S \subseteq Nat, NEW i \in S
    PROVE  Cardinality(Below(S, i)) \in Nat /\ Cardinality(Below(S, i)) < Cardinality(S)
  <1>1. Below(S, i) \in SUBSET S
    BY DEF Below
  <1>2. IsFiniteSet(Below(S, i)) /\ Cardinality(Below(S, i)) <= Cardinality(S)
    BY <1>1, FS_Subset
  <1>3. i \in Nat
    OBVIOUS
  <1>4. i \notin Below(S, i)
    BY <1>3 DEF Below
  <1>5. Below(S, i) # S
    BY <1>4
  <1>6. Cardinality(Below(S, i)) # Cardinality(S)
    BY <1>1, <1>5, FS_Subset
  <1>7. Cardinality(Below(S, i)) \in Nat /\ Cardinality(S) \in Nat
    BY <1>2, FS_CardinalityType
  <1> QED BY <1>2, <1>6, <1>7

\* There is an element with any number of elements before it, up to all but one.
LEMMA Ranked ==
    ASSUME NEW S, IsFiniteSet(S), S \subseteq Nat
    PROVE  \A j \in 1 .. Cardinality(S) : \E i \in S : Cardinality(Below(S, i)) = j - 1
  <1> DEFINE c == Cardinality(S)
             rank == [i \in S |-> Cardinality(Below(S, i)) + 1]
  <1>1. c \in Nat
    BY FS_CardinalityType
  <1>2. \A i \in S : Cardinality(Below(S, i)) \in Nat /\ Cardinality(Below(S, i)) < c
    BY BelowAll
  <1>3. rank \in [S -> 1 .. c]
    <2>1. \A i \in S : Cardinality(Below(S, i)) + 1 \in 1 .. c
      BY <1>1, <1>2
    <2> QED BY <2>1
  <1>4. \A i, j \in S : rank[i] = rank[j] => i = j
    <2> SUFFICES ASSUME NEW i \in S, NEW j \in S, rank[i] = rank[j] PROVE i = j
      OBVIOUS
    <2>1. Cardinality(Below(S, i)) = Cardinality(Below(S, j))
      BY <1>2
    <2>2. \A a \in S : Cardinality(Below(S, a)) \in Nat
      BY <1>2
    <2> HIDE DEF rank, c
    <2>4. ASSUME i < j PROVE FALSE
      <3>1. Cardinality(Below(S, i)) < Cardinality(Below(S, j))
        BY <2>4, BelowGrows
      <3> QED BY <2>1, <2>2, <3>1
    <2>5. ASSUME j < i PROVE FALSE
      <3>1. Cardinality(Below(S, j)) < Cardinality(Below(S, i))
        BY <2>5, BelowGrows
      <3> QED BY <2>1, <2>2, <3>1
    <2>3. i \in Nat /\ j \in Nat
      OBVIOUS
    <2> QED BY <2>3, <2>4, <2>5
  <1>5. rank \in Injection(S, 1 .. c)
    <2> HIDE DEF rank, c
    <2> QED BY <1>3, <1>4 DEF Injection, IsInjective
  <1>6. IsFiniteSet(1 .. c) /\ Cardinality(1 .. c) = c
    BY <1>1, FS_Interval
  <1>7. rank \in Surjection(S, 1 .. c)
    <2> HIDE DEF rank
    <2> QED BY <1>5, <1>6, FS_Injection
  <1>8. \A j \in 1 .. c : \E i \in S : rank[i] = j
    <2> HIDE DEF rank, c
    <2> QED BY <1>7 DEF Surjection
  <1> HIDE DEF rank
  <1>9. ASSUME NEW j \in 1 .. c PROVE \E i \in S : Cardinality(Below(S, i)) = j - 1
    <2>1. PICK i \in S : rank[i] = j
      BY <1>8
    <2>2. Cardinality(Below(S, i)) + 1 = j
      BY <2>1 DEF rank
    <2>3. Cardinality(Below(S, i)) = j - 1
      BY <1>2, <2>2
    <2> QED BY <2>3
  <1> QED BY <1>9

\* Nth numbers the elements of S.
LEMMA Numbering ==
    ASSUME NEW S, IsFiniteSet(S), S \subseteq Nat
    PROVE  /\ Cardinality(S) \in Nat
           /\ \A j \in 1 .. Cardinality(S) : Nth(S, j) \in S
           /\ \A i \in S : \E j \in 1 .. Cardinality(S) : Nth(S, j) = i
           /\ \A j, m \in 1 .. Cardinality(S) : Nth(S, j) = Nth(S, m) => j = m
  <1> DEFINE c == Cardinality(S)
             rank == [i \in S |-> Cardinality(Below(S, i)) + 1]
  <1>1. c \in Nat
    BY FS_CardinalityType
  <1>2. \A i \in S : Cardinality(Below(S, i)) \in Nat /\ Cardinality(Below(S, i)) < c
    BY BelowAll
  <1>3. rank \in [S -> 1 .. c]
    <2>1. \A i \in S : Cardinality(Below(S, i)) + 1 \in 1 .. c
      BY <1>1, <1>2
    <2> QED BY <2>1
  <1>4. \A i, j \in S : rank[i] = rank[j] => i = j
    <2> SUFFICES ASSUME NEW i \in S, NEW j \in S, rank[i] = rank[j] PROVE i = j
      OBVIOUS
    <2>1. Cardinality(Below(S, i)) = Cardinality(Below(S, j))
      BY <1>2
    <2>2. \A a \in S : Cardinality(Below(S, a)) \in Nat
      BY <1>2
    <2> HIDE DEF rank, c
    <2>4. ASSUME i < j PROVE FALSE
      <3>1. Cardinality(Below(S, i)) < Cardinality(Below(S, j))
        BY <2>4, BelowGrows
      <3> QED BY <2>1, <2>2, <3>1
    <2>5. ASSUME j < i PROVE FALSE
      <3>1. Cardinality(Below(S, j)) < Cardinality(Below(S, i))
        BY <2>5, BelowGrows
      <3> QED BY <2>1, <2>2, <3>1
    <2>3. i \in Nat /\ j \in Nat
      OBVIOUS
    <2> QED BY <2>3, <2>4, <2>5
  <1>5. rank \in Injection(S, 1 .. c)
    <2> HIDE DEF rank, c
    <2> QED BY <1>3, <1>4 DEF Injection, IsInjective
  <1>6. IsFiniteSet(1 .. c) /\ Cardinality(1 .. c) = c
    BY <1>1, FS_Interval
  <1>7. rank \in Surjection(S, 1 .. c)
    <2> HIDE DEF rank
    <2> QED BY <1>5, <1>6, FS_Injection
  <1>8. \A j \in 1 .. c : \E i \in S : rank[i] = j
    <2> HIDE DEF rank, c
    <2> QED BY <1>7 DEF Surjection
  <1>9. \A j \in 1 .. c : Nth(S, j) \in S /\ rank[Nth(S, j)] = j
    <2> SUFFICES ASSUME NEW j \in 1 .. c PROVE Nth(S, j) \in S /\ rank[Nth(S, j)] = j
      OBVIOUS
    <2>1. PICK i \in S : rank[i] = j
      BY <1>8
    <2>2. Cardinality(Below(S, i)) = j - 1
      BY <1>1, <1>2, <2>1
    <2>3. Nth(S, j) \in S /\ Cardinality(Below(S, Nth(S, j))) = j - 1
      BY <2>2 DEF Nth, Below
    <2> QED BY <1>1, <2>3
  <1>10. \A i \in S : Nth(S, rank[i]) = i /\ rank[i] \in 1 .. c
    <2> HIDE DEF rank, c
    <2> QED BY <1>3, <1>4, <1>9
  <1> HIDE DEF rank
  <1> QED BY <1>1, <1>9, <1>10
-----------------------------------------------------------------------------
(* What is collected *)

\* Each of what is collected comes from a place of S, and each place gives one.
LEMMA CollectedFrom ==
    ASSUME NEW S, IsFiniteSet(S), S \subseteq Nat, NEW f, NEW c, c = Collected(f, S)
    PROVE  /\ Cardinality(S) \in Nat /\ DOMAIN c = 1 .. Cardinality(S)
           /\ \A j \in DOMAIN c : Nth(S, j) \in S /\ c[j] = f[Nth(S, j)]
           /\ \A i \in S : \E j \in DOMAIN c : c[j] = f[i]
           /\ \A j, m \in DOMAIN c : Nth(S, j) = Nth(S, m) => j = m
  <1>1. c = [j \in 1 .. Cardinality(S) |-> f[Nth(S, j)]]
    BY DEF Collected
  <1>2. /\ Cardinality(S) \in Nat
        /\ \A j \in 1 .. Cardinality(S) : Nth(S, j) \in S
        /\ \A i \in S : \E j \in 1 .. Cardinality(S) : Nth(S, j) = i
        /\ \A j, m \in 1 .. Cardinality(S) : Nth(S, j) = Nth(S, m) => j = m
    BY Numbering
  <1>3. DOMAIN c = 1 .. Cardinality(S) /\ \A j \in 1 .. Cardinality(S) : c[j] = f[Nth(S, j)]
    BY <1>1
  <1> QED BY <1>2, <1>3

\* What is collected is a sequence, of as many.
LEMMA CollectedSeq ==
    ASSUME NEW S, IsFiniteSet(S), S \subseteq Nat, NEW f, NEW E, \A i \in S : f[i] \in E,
           NEW c, c = Collected(f, S)
    PROVE  c \in Seq(E) /\ Len(c) = Cardinality(S)
  <1>1. c = [j \in 1 .. Cardinality(S) |-> f[Nth(S, j)]]
    BY DEF Collected
  <1>2. /\ Cardinality(S) \in Nat /\ DOMAIN c = 1 .. Cardinality(S)
        /\ \A j \in DOMAIN c : Nth(S, j) \in S /\ c[j] = f[Nth(S, j)]
    BY CollectedFrom
  <1>3. \A j \in 1 .. Cardinality(S) : c[j] \in E
    BY <1>2
  <1>4. c \in [1 .. Cardinality(S) -> E]
    BY <1>1, <1>2, <1>3
  <1>5. c \in Seq(E)
    BY <1>2, <1>4, SeqDef
  <1> QED BY <1>2, <1>5, LenProperties

\* Nothing changes places.
LEMMA NthGrows ==
    ASSUME NEW S, IsFiniteSet(S), S \subseteq Nat, NEW j \in 1 .. Cardinality(S), NEW m \in 1 .. Cardinality(S), j < m
    PROVE  Nth(S, j) < Nth(S, m)
  <1>0. IsFiniteSet(S) /\ S \subseteq Nat
    OBVIOUS
  <1>1. ASSUME NEW i \in 1 .. Cardinality(S)
        PROVE  Nth(S, i) \in S /\ Cardinality(Below(S, Nth(S, i))) = i - 1
    <2>1. PICK h \in S : Cardinality(Below(S, h)) = i - 1
      BY <1>0, Ranked
    <2> QED BY <2>1 DEF Nth, Below
  <1>2. Nth(S, j) \in S /\ Nth(S, m) \in S /\ Nth(S, j) \in Nat /\ Nth(S, m) \in Nat
    BY <1>1
  <1>3. j \in Int /\ m \in Int
    BY <1>0, FS_CardinalityType
  <1>4. Nth(S, j) # Nth(S, m)
    BY <1>1, <1>3
  <1>5. ASSUME Nth(S, m) < Nth(S, j) PROVE FALSE
    <2>1. Cardinality(Below(S, Nth(S, m))) < Cardinality(Below(S, Nth(S, j)))
      BY <1>0, <1>2, <1>5, BelowGrows
    <2> QED BY <1>1, <1>3, <2>1
  <1> QED BY <1>2, <1>4, <1>5

-----------------------------------------------------------------------------
(* Folds *)

\* What holds of 0 and of each next number holds of all.
LEMMA StepByStep ==
    ASSUME NEW n \in Nat, NEW P, 0 \in P, \A i \in 1 .. n : i - 1 \in P => i \in P
    PROVE  0 .. n \subseteq P
  <1> DEFINE T == {i \in 0 .. n : i \notin P}
  <1> SUFFICES ASSUME T # {} PROVE FALSE
    OBVIOUS
  <1>1. T \subseteq Nat
    OBVIOUS
  <1>2. PICK i \in T : \A m \in T : i <= m
    BY <1>1, LeastNumber
  <1>3. i \in 0 .. n /\ i \notin P
    OBVIOUS
  <1>4. i # 0
    BY <1>3
  <1>5. i \in 1 .. n /\ i - 1 \in 0 .. n
    BY <1>3, <1>4
  <1>6. i - 1 \notin P
    BY <1>3, <1>5
  <1>7. i <= i - 1
    BY <1>2, <1>5, <1>6
  <1> QED BY <1>5, <1>7

Chooses(c, S) == \A s \in SUBSET S : s # {} => c[s] \in s

Small(S, n) == {s \in SUBSET S : Cardinality(s) < n}

\* f folds g over the sets of D, an element c chooses after the other.
Folds(f, D, base, g, c) ==
    f = [s \in D |-> IF s = {} THEN base ELSE g[<<f[s \ {c[s]}], c[s]>>]]

\* A set without the element taken from it.
LEMMA Removed ==
    ASSUME NEW S, IsFiniteSet(S), NEW c, Chooses(c, S), NEW s \in SUBSET S, s # {}
    PROVE  /\ c[s] \in s /\ c[s] \in S /\ s \ {c[s]} \in SUBSET S
           /\ Cardinality(s) \in Nat /\ Cardinality(s \ {c[s]}) = Cardinality(s) - 1
           /\ Cardinality(s \ {c[s]}) \in Nat
  <1>1. c[s] \in s
    BY DEF Chooses
  <1>2. IsFiniteSet(s)
    BY FS_Subset
  <1>3. Cardinality(s) \in Nat /\ Cardinality(s \ {c[s]}) = Cardinality(s) - 1
    BY <1>1, <1>2, FS_CardinalityType, FS_RemoveElement
  <1>4. IsFiniteSet(s \ {c[s]})
    BY <1>2, FS_Subset
  <1>5. Cardinality(s \ {c[s]}) \in Nat
    BY <1>4, FS_CardinalityType
  <1> QED BY <1>1, <1>3, <1>5

\* A fold over the smaller subsets gives one over the next,
LEMMA FoldsGrow ==
    ASSUME NEW S, IsFiniteSet(S), NEW c, Chooses(c, S), NEW W, NEW base \in W,
           NEW g, \A a \in W : \A i \in S : g[<<a, i>>] \in W,
           NEW n \in Nat, NEW f \in [Small(S, n) -> W], Folds(f, Small(S, n), base, g, c)
    PROVE  \E h \in [Small(S, n + 1) -> W] : Folds(h, Small(S, n + 1), base, g, c)
  <1> DEFINE h == [s \in Small(S, n + 1) |-> IF s = {} THEN base ELSE g[<<f[s \ {c[s]}], c[s]>>]]
  <1>0. IsFiniteSet(S) /\ Chooses(c, S)
    OBVIOUS
  <1>1. ASSUME NEW s \in Small(S, n + 1), s # {}
        PROVE  s \ {c[s]} \in Small(S, n) /\ s \ {c[s]} \in Small(S, n + 1) /\ c[s] \in S
    <2>1. s \in SUBSET S /\ Cardinality(s) < n + 1
      BY DEF Small
    <2>2. /\ s \ {c[s]} \in SUBSET S /\ Cardinality(s) \in Nat /\ c[s] \in S
          /\ Cardinality(s \ {c[s]}) = Cardinality(s) - 1
      BY <1>0, <1>1, <2>1, Removed
    <2>3. Cardinality(s \ {c[s]}) < n /\ Cardinality(s \ {c[s]}) < n + 1
      BY <2>1, <2>2
    <2> QED BY <2>2, <2>3 DEF Small
  <1>2. ASSUME NEW s \in Small(S, n) PROVE h[s] = f[s]
    <2>1. s \in Small(S, n + 1)
      <3>1. s \in SUBSET S /\ Cardinality(s) < n
        BY DEF Small
      <3>2. Cardinality(s) \in Nat
        BY <1>0, <3>1, FS_Subset, FS_CardinalityType
      <3>3. Cardinality(s) < n + 1
        BY <3>1, <3>2
      <3> QED BY <3>1, <3>3 DEF Small
    <2>2. h[s] = IF s = {} THEN base ELSE g[<<f[s \ {c[s]}], c[s]>>]
      BY <2>1
    <2>3. f[s] = IF s = {} THEN base ELSE g[<<f[s \ {c[s]}], c[s]>>]
      BY DEF Folds
    <2> QED BY <2>2, <2>3
  <1>3. \A s \in Small(S, n + 1) :
            (IF s = {} THEN base ELSE g[<<f[s \ {c[s]}], c[s]>>])
            = IF s = {} THEN base ELSE g[<<h[s \ {c[s]}], c[s]>>]
    BY <1>1, <1>2
  <1>4. h = [s \in Small(S, n + 1) |-> IF s = {} THEN base ELSE g[<<h[s \ {c[s]}], c[s]>>]]
    BY <1>3
  <1>5. \A s \in Small(S, n + 1) : (IF s = {} THEN base ELSE g[<<f[s \ {c[s]}], c[s]>>]) \in W
    BY <1>1
  <1>6. h \in [Small(S, n + 1) -> W]
    BY <1>5
  <1> QED BY <1>4, <1>6 DEF Folds

\* so there is one over all.
LEMMA FoldsExist ==
    ASSUME NEW S, IsFiniteSet(S), NEW c, Chooses(c, S), NEW W, NEW base \in W,
           NEW g, \A a \in W : \A i \in S : g[<<a, i>>] \in W
    PROVE  \E f \in [SUBSET S -> W] : Folds(f, SUBSET S, base, g, c)
  <1> DEFINE N == {n \in Nat : \E f \in [Small(S, n) -> W] : Folds(f, Small(S, n), base, g, c)}
             m == Cardinality(S) + 1
  <1>0. IsFiniteSet(S) /\ Chooses(c, S) /\ \A a \in W : \A i \in S : g[<<a, i>>] \in W
    OBVIOUS
  <1>1. Cardinality(S) \in Nat /\ m \in Nat
    BY <1>0, FS_CardinalityType
  <1>2. 0 \in N
    <2>1. Small(S, 0) = {}
      BY <1>0, FS_Subset, FS_CardinalityType DEF Small
    <2> DEFINE f == [s \in Small(S, 0) |-> base]
    <2>2. Folds(f, Small(S, 0), base, g, c) /\ f \in [Small(S, 0) -> W]
      BY <2>1 DEF Folds
    <2> QED BY <2>2
  <1>3. ASSUME NEW n \in 1 .. m, n - 1 \in N PROVE n \in N
    <2> DEFINE k == n - 1
    <2>0. n \in Int /\ n >= 1
      <3> HIDE DEF m
      <3> QED BY <1>1
    <2>1. k \in Nat /\ k + 1 = n /\ n \in Nat
      BY <2>0
    <2>2. PICK f \in [Small(S, k) -> W] : Folds(f, Small(S, k), base, g, c)
      BY <1>3
    <2> HIDE DEF k
    <2>3. \E h \in [Small(S, k + 1) -> W] : Folds(h, Small(S, k + 1), base, g, c)
      BY <1>0, <2>1, <2>2, FoldsGrow
    <2> QED BY <2>1, <2>3
  <1>4. Small(S, m) = SUBSET S
    <2> SUFFICES ASSUME NEW s \in SUBSET S PROVE Cardinality(s) < m
      BY DEF Small
    <2>1. Cardinality(s) <= Cardinality(S) /\ Cardinality(s) \in Nat
      BY <1>0, FS_Subset, FS_CardinalityType
    <2> QED BY <2>1, <1>1
  <1>5. m \in N
    <2> HIDE DEF N, m
    <2>1. 0 .. m \subseteq N
      BY <1>1, <1>2, <1>3, StepByStep
    <2> QED BY <1>1, <2>1
  <1>6. \E f \in [Small(S, m) -> W] : Folds(f, Small(S, m), base, g, c)
    BY <1>5
  <1> HIDE DEF m, N
  <1> QED BY <1>4, <1>6

Largest(s) == CHOOSE x \in s : \A y \in s : x >= y

\* The largest number of a set is in it.
LEMMA LargestIs ==
    ASSUME NEW n \in Nat
    PROVE  /\ \A s \in SUBSET (1 .. n) : s # {} => Largest(s) \in s
           /\ \A i \in 1 .. n : Largest(1 .. i) = i
  <1>1. ASSUME NEW s \in SUBSET (1 .. n), s # {} PROVE Largest(s) \in s
    <2> DEFINE T == {n - x : x \in s}
    <2>1. T \subseteq Nat /\ T # {}
      <3>1. \A x \in s : x \in Int /\ x <= n
        OBVIOUS
      <3>2. \A x \in s : n - x \in Nat
        BY <3>1
      <3>3. \E x \in s : TRUE
        BY <1>1
      <3> QED BY <3>2, <3>3
    <2>2. PICK t \in T : \A u \in T : t <= u
      BY <2>1, LeastNumber
    <2>3. PICK x \in s : t = n - x
      BY <2>2
    <2>4. ASSUME NEW y \in s PROVE x >= y
      <3>1. n - y \in T
        OBVIOUS
      <3>2. n - x <= n - y
        BY <2>2, <2>3, <3>1
      <3>3. x \in Int /\ y \in Int
        OBVIOUS
      <3> QED BY <3>2, <3>3
    <2>5. \E z \in s : \A y \in s : z >= y
      BY <2>4
    <2> QED BY <2>5 DEF Largest
  <1>2. ASSUME NEW i \in 1 .. n PROVE Largest(1 .. i) = i
    <2>1. i \in 1 .. i /\ \A y \in 1 .. i : i >= y
      OBVIOUS
    <2>2. Largest(1 .. i) \in 1 .. i /\ \A y \in 1 .. i : Largest(1 .. i) >= y
      BY <2>1 DEF Largest
    <2>3. Largest(1 .. i) >= i
      BY <2>1, <2>2
    <2> QED BY <2>2, <2>3
  <1> QED BY <1>1, <1>2

LargestFirst(f, n, w, g) ==
    f = [x \in SUBSET (1 .. n) |-> IF x = {} THEN w ELSE g[<<f[x \ {Largest(x)}], Largest(x)>>]]

\* The fold that takes the largest first exists, and stays in W.
LEMMA FoldFromLargest ==
    ASSUME NEW n \in Nat, NEW W, NEW w \in W, NEW g, \A a \in W : \A i \in 1 .. n : g[<<a, i>>] \in W
    PROVE  \E f \in [SUBSET (1 .. n) -> W] : LargestFirst(f, n, w, g)
  <1> DEFINE c == [x \in SUBSET (1 .. n) |-> Largest(x)]
             D == SUBSET (1 .. n)
  <1>1. IsFiniteSet(1 .. n)
    BY FS_Interval
  <1>2. \A x \in D : x # {} => Largest(x) \in x
    BY LargestIs
  <1>3. Chooses(c, 1 .. n) /\ \A x \in D : c[x] = Largest(x)
    BY <1>2 DEF Chooses
  <1> HIDE DEF c
  <1>4. \E f \in [D -> W] : Folds(f, D, w, g, c)
    BY <1>1, <1>3, FoldsExist
  <1>5. PICK f \in [D -> W] : f = [x \in D |-> IF x = {} THEN w ELSE g[<<f[x \ {c[x]}], c[x]>>]]
    BY <1>4 DEF Folds
  <1>6. f = [x \in D |-> IF x = {} THEN w ELSE g[<<f[x \ {Largest(x)}], Largest(x)>>]]
    BY <1>3, <1>5
  <1> QED BY <1>6 DEF LargestFirst

\* A fold over an interval goes number by number.
LEMMA IntervalBefore ==
    ASSUME NEW n \in Nat, NEW i \in 1 .. n
    PROVE  /\ 1 .. i \in SUBSET (1 .. n) /\ 1 .. i # {} /\ Largest(1 .. i) = i
           /\ (1 .. i) \ {i} = 1 .. i - 1
  <1>1. i \in Int
    OBVIOUS
  <1>2. \A x : x \in (1 .. i) \ {i} <=> x \in 1 .. i - 1
    BY <1>1
  <1>3. Largest(1 .. i) = i
    BY LargestIs
  <1>4. 1 .. i \in SUBSET (1 .. n) /\ 1 .. i # {}
    OBVIOUS
  <1> QED BY <1>2, <1>3, <1>4
===============================================================================
