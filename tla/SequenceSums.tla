----------------------------- MODULE SequenceSums ------------------------------
(***************************************************************************)
(* Lemmas about folds over sequences, as the community modules define      *)
(* them, and about sums of the numbers in a sequence: there is what a fold *)
(* is defined to be, and what it is at n + 1 follows from what it is at n, *)
(* by induction over numbers.                                              *)
(***************************************************************************)
EXTENDS Integers, Sequences, SequencesExt, WellFoundedInduction, TLAPS

-----------------------------------------------------------------------------
(* Numbers, and folds *)

(* A set of numbers has a least one. *)
LEMMA LeastOK == ASSUME NEW T \in SUBSET Nat, T # {} PROVE \E n \in T : \A m \in T : n <= m
<1> DEFINE R == OpToRel(<, Nat)
<1>1. IsWellFoundedOn(R, Nat)
  BY NatLessThanWellFounded
<1>3. \A x, y \in Nat : x < y => <<x, y>> \in R
  BY DEF OpToRel
<1> HIDE DEF R
<1>2. PICK n \in T : \A y \in T : ~ (<<y, n>> \in R)
  BY <1>1, WFMin
<1>4. ASSUME NEW m \in T PROVE n <= m
  <2>1. ~(m < n)
    BY <1>3, <1>2, <1>4
  <2> QED BY <2>1
<1> QED BY <1>4

(* Induction. *)
LEMMA AllNumbers == ASSUME NEW S, 0 \in S, \A n \in Nat : n \in S => n + 1 \in S PROVE Nat \subseteq S
<1> SUFFICES ASSUME ~(Nat \subseteq S) PROVE FALSE
  OBVIOUS
<1>1. PICK n \in Nat \ S : \A m \in Nat \ S : n <= m
  <2>1. Nat \ S \in SUBSET Nat /\ Nat \ S # {}
    OBVIOUS
  <2> QED BY <2>1, LeastOK
<1>2. n # 0
  OBVIOUS
<1>3. n - 1 \in Nat /\ n - 1 \in S /\ (n - 1) + 1 = n
  BY <1>1, <1>2
<1> QED BY <1>3, <1>1

(* Numbers from 0 to n have a greatest one. *)
LEMMA GreatestOK == ASSUME NEW n \in Nat, NEW T \in SUBSET (0 .. n), T # {} PROVE \E m \in T : \A k \in T : k <= m
<1> DEFINE D == {n - m : m \in T}
<1>1. D \in SUBSET Nat /\ D # {}
  <2>1. \A m \in T : m \in 0 .. n /\ n - m \in Nat
    OBVIOUS
  <2> QED BY <2>1
<1> HIDE DEF D
<1>2. PICK d \in D : \A e \in D : d <= e
  BY <1>1, LeastOK
<1> USE DEF D
<1>3. PICK m \in T : d = n - m
  BY <1>2
<1>4. ASSUME NEW k \in T PROVE k <= m
  <2>1. n - k \in D
    OBVIOUS
  <2>2. d <= n - k
    BY <2>1, <1>2
  <2> QED BY <2>2, <1>3
<1> QED BY <1>4

(* Numbers up to n have a greatest one. *)
LEMMA MaxOK == ASSUME NEW n \in Nat, NEW T \in SUBSET (1 .. n), T # {}
               PROVE  Max(T) \in T /\ \A m \in T : m <= Max(T)
<1> DEFINE D == {n - m : m \in T}
<1>1. D \in SUBSET Nat /\ D # {}
  <2>1. \A m \in T : m \in 1 .. n /\ n - m \in Nat
    OBVIOUS
  <2> QED BY <2>1
<1> HIDE DEF D
<1>2. PICK d \in D : \A e \in D : d <= e
  BY <1>1, LeastOK
<1> USE DEF D
<1>3. PICK m \in T : d = n - m
  BY <1>2
<1>4. ASSUME NEW k \in T PROVE k <= m
  <2>1. n - k \in D
    OBVIOUS
  <2>2. d <= n - k
    BY <2>1, <1>2
  <2> QED BY <2>2, <1>3
<1> HIDE DEF D
<1>5. \E x \in T : \A y \in T : x >= y
  BY <1>4
<1>6. Max(T) \in T /\ \A y \in T : Max(T) >= y
  BY <1>5 DEF Max
<1> QED BY <1>6

(* A set of numbers up to n with n in it has n as its greatest. *)
LEMMA MaxIs == ASSUME NEW n \in Nat, NEW T \in SUBSET (1 .. n), n \in T PROVE Max(T) = n
<1>1. Max(T) \in T /\ \A m \in T : m <= Max(T)
  <2>1. T # {}
    OBVIOUS
  <2> QED BY <2>1, MaxOK
<1>2. \A m \in T : m \in Int /\ m <= n
  OBVIOUS
<1>3. Max(T) <= n /\ n <= Max(T) /\ Max(T) \in Int
  BY <1>1, <1>2
<1> QED BY <1>3

(* The numbers up to n without n are those up to n - 1. *)
LEMMA UpTo ==
  ASSUME NEW N \in Nat, NEW n \in 1 .. N
  PROVE  /\ 1 .. n \in SUBSET (1 .. N) /\ 1 .. n # {} /\ n \in 0 .. N /\ n - 1 \in 0 .. N
         /\ Max(1 .. n) = n /\ (1 .. n) \ {n} = 1 .. n - 1
<1>1. n \in Nat /\ n >= 1 /\ n <= N
  OBVIOUS
<1>2. n \in 1 .. n /\ 1 .. n \in SUBSET (1 .. n)
  BY <1>1
<1>3. 1 .. n \in SUBSET (1 .. N)
  BY <1>1
<1>4. Max(1 .. n) = n
  BY <1>1, <1>2, MaxIs
<1> QED BY <1>1, <1>2, <1>3, <1>4

(* it is what a fold by f makes of each set of numbers up to n. *)
Iterates(it, f, base, n) == \A x \in SUBSET (1 .. n) : it[x] = IF x = {} THEN base ELSE f[it[x \ {Max(x)}], Max(x)]

(* Such a function for the sets up to n gives one for those up to n + 1. *)
LEMMA FoldStep ==
  ASSUME NEW B, NEW base \in B, NEW n \in Nat, NEW f \in [B \X Nat -> B],
         NEW it \in [SUBSET (1 .. n) -> B], Iterates(it, f, base, n)
  PROVE  \E new \in [SUBSET (1 .. n + 1) -> B] : Iterates(new, f, base, n + 1)
<1> DEFINE new == [x \in SUBSET (1 .. n + 1) |-> IF n + 1 \in x THEN f[it[x \ {n + 1}], n + 1] ELSE it[x]]
<1>0. ASSUME NEW x \in SUBSET (1 .. n + 1) PROVE x \ {n + 1} \in SUBSET (1 .. n)
  OBVIOUS
<1>1. ASSUME NEW x \in SUBSET (1 .. n + 1), n + 1 \in x PROVE new[x] = f[it[x \ {n + 1}], n + 1] /\ new[x] \in B
  <2>1. x \ {n + 1} \in SUBSET (1 .. n) /\ n + 1 \in Nat
    BY <1>0
  <2>2. it[x \ {n + 1}] \in B
    BY <2>1
  <2>3. f[it[x \ {n + 1}], n + 1] \in B
    BY <2>1, <2>2
  <2> QED BY <1>1, <2>3
<1>2. ASSUME NEW x \in SUBSET (1 .. n) PROVE x \in SUBSET (1 .. n + 1) /\ new[x] = it[x] /\ new[x] \in B /\ n + 1 \notin x
  <2>1. x \in SUBSET (1 .. n + 1) /\ n + 1 \notin x
    OBVIOUS
  <2>2. new[x] = it[x]
    BY <2>1
  <2>3. it[x] \in B
    OBVIOUS
  <2> QED BY <2>1, <2>2, <2>3
<1>3. ASSUME NEW x \in SUBSET (1 .. n + 1), n + 1 \notin x PROVE x \in SUBSET (1 .. n)
  BY <1>3
<1>4. new \in [SUBSET (1 .. n + 1) -> B]
  <2>1. ASSUME NEW x \in SUBSET (1 .. n + 1) PROVE new[x] \in B
    <3> HIDE DEF new
    <3> QED BY <1>1, <1>2, <1>3
  <2> QED BY <2>1
<1> HIDE DEF new
<1>5. ASSUME NEW x \in SUBSET (1 .. n + 1)
      PROVE  new[x] = IF x = {} THEN base ELSE f[new[x \ {Max(x)}], Max(x)]
  <2>1. CASE n + 1 \in x
    <3>1. Max(x) = n + 1
      <4>1. n + 1 \in Nat
        OBVIOUS
      <4> QED BY <4>1, <2>1, MaxIs
    <3> QED BY <3>1, <2>1, <1>0, <1>1, <1>2
  <2>2. CASE n + 1 \notin x
    <3>1. x \in SUBSET (1 .. n)
      BY <2>2, <1>3
    <3>2. new[x] = IF x = {} THEN base ELSE f[it[x \ {Max(x)}], Max(x)]
      BY <3>1, <1>2 DEF Iterates
    <3>3. x \ {Max(x)} \in SUBSET (1 .. n)
      BY <3>1
    <3>4. new[x \ {Max(x)}] = it[x \ {Max(x)}]
      BY <3>3, <1>2
    <3> QED BY <3>2, <3>4
  <2> QED BY <2>1, <2>2
<1> QED BY <1>4, <1>5 DEF Iterates

(* A fold over numbers up to n. *)
LEMMA FoldExists ==
  ASSUME NEW B, NEW base \in B, NEW n \in Nat, NEW f \in [B \X Nat -> B]
  PROVE  \E it \in [SUBSET (1 .. n) -> B] : Iterates(it, f, base, n)
<1> DEFINE S == {k \in Nat : \E it \in [SUBSET (1 .. k) -> B] : Iterates(it, f, base, k)}
<1>1. 0 \in S
  <2> DEFINE e == [x \in SUBSET (1 .. 0) |-> base]
  <2>1. e \in [SUBSET (1 .. 0) -> B]
    OBVIOUS
  <2>2. \A x \in SUBSET (1 .. 0) : x = {}
    OBVIOUS
  <2>3. Iterates(e, f, base, 0)
    BY <2>2 DEF Iterates
  <2> QED BY <2>1, <2>3
<1>2. ASSUME NEW k \in Nat, k \in S PROVE k + 1 \in S
  <2>1. PICK it \in [SUBSET (1 .. k) -> B] : Iterates(it, f, base, k)
    BY <1>2
  <2>2. \E new \in [SUBSET (1 .. k + 1) -> B] : Iterates(new, f, base, k + 1)
    BY <2>1, FoldStep
  <2> QED BY <2>2
<1>3. Nat \subseteq S
  <2> HIDE DEF S
  <2> QED BY <1>1, <1>2, AllNumbers
<1> QED BY <1>3

-----------------------------------------------------------------------------
(* Sums *)

(* b[k] is the sum of the first k of the weights w. *)
Sums(w, n, b) == b[0] = 0 /\ \A k \in 1 .. n : b[k] = b[k - 1] + w[k]

(* it is the sum of the weights at each set of numbers up to n. *)
SumsSets(it, w, n) == \A x \in SUBSET (1 .. n) : it[x] = IF x = {} THEN 0 ELSE it[x \ {Max(x)}] + w[Max(x)]

(* There is such a function for the sets up to any n. *)
LEMMA SumsSetsExists ==
  ASSUME NEW n \in Nat, NEW w \in [1 .. n -> Nat]
  PROVE  \E it \in [SUBSET (1 .. n) -> Nat] : SumsSets(it, w, n)
<1> DEFINE f == [p \in Nat \X Nat |-> IF p[2] \in 1 .. n THEN p[1] + w[p[2]] ELSE p[1]]
<1>1. f \in [Nat \X Nat -> Nat]
  <2>1. ASSUME NEW p \in Nat \X Nat PROVE (IF p[2] \in 1 .. n THEN p[1] + w[p[2]] ELSE p[1]) \in Nat
    <3>1. p[1] \in Nat
      OBVIOUS
    <3>2. CASE p[2] \in 1 .. n
      <4>1. w[p[2]] \in Nat
        BY <3>2
      <4> QED BY <3>1, <3>2, <4>1
    <3> QED BY <3>1, <3>2
  <2> QED BY <2>1
<1>2. ASSUME NEW a \in Nat, NEW k \in 1 .. n PROVE f[a, k] = a + w[k]
  <2>1. <<a, k>> \in Nat \X Nat /\ <<a, k>>[1] = a /\ <<a, k>>[2] = k
    OBVIOUS
  <2> QED BY <2>1
<1> HIDE DEF f
<1>3. PICK it \in [SUBSET (1 .. n) -> Nat] : Iterates(it, f, 0, n)
  BY <1>1, FoldExists
<1>4. ASSUME NEW x \in SUBSET (1 .. n), x # {} PROVE it[x] = it[x \ {Max(x)}] + w[Max(x)]
  <2>1. Max(x) \in x
    BY <1>4, MaxOK
  <2>2. x \ {Max(x)} \in SUBSET (1 .. n) /\ Max(x) \in 1 .. n
    BY <2>1
  <2>3. it[x \ {Max(x)}] \in Nat
    BY <2>2
  <2> QED BY <1>4, <2>2, <2>3, <1>2, <1>3 DEF Iterates
<1>5. \A x \in SUBSET (1 .. n) : x = {} => it[x] = 0
  BY <1>3 DEF Iterates
<1> QED BY <1>4, <1>5 DEF SumsSets

(* At the set of all numbers up to k, it is the sum of the first k weights. *)
LEMMA SumsOfSets ==
  ASSUME NEW n \in Nat, NEW w \in [1 .. n -> Nat], NEW it, SumsSets(it, w, n)
  PROVE  \E b \in [0 .. n -> Nat] : Sums(w, n, b) /\ it[1 .. n] = b[n]
<1> DEFINE b == [k \in 0 .. n |-> it[1 .. k]]
<1>1. b[0] = 0
  <2>1. 1 .. 0 = {} /\ 0 \in 0 .. n
    OBVIOUS
  <2> QED BY <2>1 DEF SumsSets
<1>2. ASSUME NEW k \in 1 .. n PROVE b[k] = b[k - 1] + w[k]
  <2>1. /\ 1 .. k \in SUBSET (1 .. n) /\ 1 .. k # {} /\ k \in 0 .. n /\ k - 1 \in 0 .. n
        /\ Max(1 .. k) = k /\ (1 .. k) \ {k} = 1 .. k - 1
    BY UpTo
  <2>2. it[1 .. k] = it[(1 .. k) \ {Max(1 .. k)}] + w[Max(1 .. k)]
    BY <2>1 DEF SumsSets
  <2> QED BY <2>1, <2>2
<1>3. it[1 .. n] = b[n]
  OBVIOUS
<1> HIDE DEF b
<1> DEFINE S == {k \in Nat : k <= n => b[k] \in Nat}
<1>4. 0 \in S
  BY <1>1
<1>5. ASSUME NEW k \in Nat, k \in S PROVE k + 1 \in S
  <2> SUFFICES ASSUME k + 1 <= n PROVE b[k + 1] \in Nat
    OBVIOUS
  <2>1. k + 1 \in 1 .. n /\ (k + 1) - 1 = k /\ b[k] \in Nat
    BY <1>5
  <2>2. b[k + 1] = b[(k + 1) - 1] + w[k + 1] /\ w[k + 1] \in Nat
    BY <2>1, <1>2
  <2> QED BY <2>1, <2>2
<1>6. Nat \subseteq S
  <2> HIDE DEF S
  <2> QED BY <1>4, <1>5, AllNumbers
<1>7. b \in [0 .. n -> Nat]
  <2>1. b = [k \in 0 .. n |-> b[k]]
    BY DEF b
  <2>2. \A k \in 0 .. n : b[k] \in Nat
    BY <1>6
  <2> QED BY <2>1, <2>2
<1> QED BY <1>1, <1>2, <1>3, <1>7 DEF Sums

(* There is but one sum. *)
LEMMA SumsAgree ==
  ASSUME NEW n \in Nat, NEW w \in [1 .. n -> Nat], NEW b \in [0 .. n -> Nat], NEW c \in [0 .. n -> Nat],
         Sums(w, n, b), Sums(w, n, c)
  PROVE  \A k \in 0 .. n : b[k] = c[k]
<1> DEFINE S == {k \in Nat : k <= n => b[k] = c[k]}
<1>1. 0 \in S
  BY DEF Sums
<1>2. ASSUME NEW k \in Nat, k \in S PROVE k + 1 \in S
  <2> SUFFICES ASSUME k + 1 <= n PROVE b[k + 1] = c[k + 1]
    OBVIOUS
  <2>1. k + 1 \in 1 .. n /\ (k + 1) - 1 = k /\ b[k] = c[k]
    BY <1>2
  <2> QED BY <2>1 DEF Sums
<1>3. Nat \subseteq S
  <2> HIDE DEF S
  <2> QED BY <1>1, <1>2, AllNumbers
<1> QED BY <1>3

(* The sum of the first n of the weights. *)
SumTo(w, n) == CHOOSE v \in Nat : \E b \in [0 .. n -> Nat] : Sums(w, n, b) /\ v = b[n]

(* SumTo is what Sums says. *)
LEMMA SumToIs ==
  ASSUME NEW n \in Nat, NEW w \in [1 .. n -> Nat], NEW b \in [0 .. n -> Nat], Sums(w, n, b)
  PROVE  SumTo(w, n) = b[n]
<1>1. \E v \in Nat : \E c \in [0 .. n -> Nat] : Sums(w, n, c) /\ v = c[n]
  OBVIOUS
<1>2. PICK c \in [0 .. n -> Nat] : Sums(w, n, c) /\ SumTo(w, n) = c[n]
  BY <1>1 DEF SumTo
<1>3. n \in 0 .. n
  OBVIOUS
<1> QED BY <1>2, <1>3, SumsAgree

(* There are sums of any weights. *)
LEMMA SumsExist ==
  ASSUME NEW n \in Nat, NEW w \in [1 .. n -> Nat]
  PROVE  \E b \in [0 .. n -> Nat] : Sums(w, n, b) /\ SumTo(w, n) = b[n]
BY SumsSetsExists, SumsOfSets, SumToIs

(* A longer sum is no smaller. *)
LEMMA SumsGrow ==
  ASSUME NEW n \in Nat, NEW w \in [1 .. n -> Nat], NEW b \in [0 .. n -> Nat], Sums(w, n, b), NEW i \in 0 .. n
  PROVE  \A j \in 0 .. n : i <= j => b[i] <= b[j]
<1> DEFINE S == {k \in Nat : k \in i .. n => b[i] <= b[k]}
<1>1. 0 \in S
  <2>1. CASE i = 0
    <3>1. b[0] \in Nat
      OBVIOUS
    <3> QED BY <2>1, <3>1
  <2>2. CASE i # 0
    BY <2>2
  <2> QED BY <2>1, <2>2
<1>2. ASSUME NEW k \in Nat, k \in S PROVE k + 1 \in S
  <2>1. PICK m \in Nat : m = k + 1
    OBVIOUS
  <2> SUFFICES ASSUME m \in i .. n PROVE b[i] <= b[m]
    BY <2>1
  <2>2. CASE i = m
    <3>1. b[m] \in Nat
      OBVIOUS
    <3> QED BY <2>2, <3>1
  <2>3. CASE i # m
    <3>1. m \in 1 .. n /\ m - 1 = k /\ k \in i .. n /\ k \in 0 .. n
      BY <2>1, <2>3
    <3>2. b[m] = b[k] + w[m] /\ w[m] \in Nat /\ b[k] \in Nat /\ b[i] \in Nat /\ b[i] <= b[k]
      BY <3>1, <1>2 DEF Sums
    <3>3. PICK x \in Nat, y \in Nat, z \in Nat : x = b[k] /\ y = w[m] /\ z = b[i]
      BY <3>2
    <3> QED BY <3>2, <3>3
  <2> QED BY <2>2, <2>3
<1>3. Nat \subseteq S
  <2> HIDE DEF S
  <2> QED BY <1>1, <1>2, AllNumbers
<1> QED BY <1>3

(* A part of the weights. *)
LEMMA SumOfPart ==
  ASSUME NEW n \in Nat, NEW w \in [1 .. n -> Nat], NEW b \in [0 .. n -> Nat], Sums(w, n, b),
         NEW i \in 0 .. n, NEW m \in Nat, i + m <= n, NEW v \in [1 .. m -> Nat], \A k \in 1 .. m : v[k] = w[i + k]
  PROVE  b[i] <= b[i + m] /\ SumTo(v, m) = b[i + m] - b[i]
<1>1. ASSUME NEW k \in 0 .. m PROVE i + k \in 0 .. n /\ b[i + k] \in Nat /\ b[i] \in Nat /\ b[i] <= b[i + k]
  <2>1. i + k \in 0 .. n /\ i <= i + k
    OBVIOUS
  <2> QED BY <2>1, SumsGrow
<1> DEFINE c == [k \in 0 .. m |-> b[i + k] - b[i]]
<1>4. ASSUME NEW k \in 0 .. m PROVE c[k] = b[i + k] - b[i] /\ c[k] \in Nat
  <2>1. PICK x \in Nat, y \in Nat : x = b[i + k] /\ y = b[i] /\ y <= x
    BY <1>1
  <2>2. c[k] = x - y
    BY <2>1
  <2> QED BY <2>1, <2>2
<1>40. c = [k \in 0 .. m |-> c[k]]
  OBVIOUS
<1> HIDE DEF c
<1>41. c \in [0 .. m -> Nat]
  BY <1>4, <1>40
<1>5. Sums(v, m, c)
  <2>1. c[0] = 0
    <3>1. 0 \in 0 .. m /\ i + 0 = i /\ b[i] \in Nat
      OBVIOUS
    <3> QED BY <3>1, <1>4
  <2>2. ASSUME NEW k \in 1 .. m PROVE c[k] = c[k - 1] + v[k]
    <3>1. PICK j \in 1 .. n : j = i + k
      OBVIOUS
    <3>2. j - 1 = i + (k - 1) /\ k - 1 \in 0 .. m /\ k \in 0 .. m
      BY <3>1
    <3>3. b[j] = b[j - 1] + w[j] /\ w[j] \in Nat /\ v[k] = w[j]
      BY <3>1 DEF Sums
    <3>4. c[k] = b[j] - b[i] /\ c[k - 1] = b[j - 1] - b[i] /\ b[j] \in Nat /\ b[j - 1] \in Nat /\ b[i] \in Nat
      BY <3>1, <3>2, <1>1, <1>4
    <3>5. PICK x \in Nat, y \in Nat, z \in Nat, u \in Nat : x = b[j] /\ y = b[j - 1] /\ z = b[i] /\ u = w[j]
      BY <3>3, <3>4
    <3> QED BY <3>3, <3>4, <3>5
  <2> QED BY <2>1, <2>2 DEF Sums
<1>6. m \in 0 .. m
  OBVIOUS
<1>7. c[m] = b[i + m] - b[i] /\ b[i] <= b[i + m]
  BY <1>1, <1>4, <1>6
<1>8. SumTo(v, m) = c[m]
  BY <1>41, <1>5, SumToIs
<1> QED BY <1>7, <1>8

(* Two sequences of weights, one after the other. *)
LEMMA SumOfBoth ==
  ASSUME NEW n \in Nat, NEW w \in [1 .. n -> Nat], NEW i \in 0 .. n, NEW u \in [1 .. i -> Nat], NEW v \in [1 .. n - i -> Nat],
         \A k \in 1 .. i : u[k] = w[k], \A k \in 1 .. n - i : v[k] = w[i + k]
  PROVE  SumTo(w, n) = SumTo(u, i) + SumTo(v, n - i) /\ SumTo(w, n) \in Nat /\ SumTo(u, i) \in Nat /\ SumTo(v, n - i) \in Nat
<1>1. PICK b \in [0 .. n -> Nat] : Sums(w, n, b) /\ SumTo(w, n) = b[n]
  BY SumsExist
<1>2. PICK m \in Nat : m = n - i
  OBVIOUS
<1>3. SumTo(v, m) = b[i + m] - b[i] /\ b[i] <= b[i + m]
  <2>1. i + m <= n /\ v \in [1 .. m -> Nat] /\ \A k \in 1 .. m : v[k] = w[i + k]
    BY <1>2
  <2> QED BY <2>1, <1>1, SumOfPart
<1>4. SumTo(u, i) = b[0 + i] - b[0] /\ b[0] <= b[0 + i]
  <2>1. 0 \in 0 .. n /\ i \in Nat /\ 0 + i <= n /\ \A k \in 1 .. i : u[k] = w[0 + k]
    OBVIOUS
  <2> QED BY <2>1, <1>1, SumOfPart
<1>5. b[0] = 0 /\ i + m = n /\ 0 + i = i /\ b[i] \in Nat /\ b[n] \in Nat
  BY <1>1, <1>2 DEF Sums
<1>6. PICK x \in Nat, y \in Nat : x = b[i] /\ y = b[n]
  BY <1>5
<1> QED BY <1>1, <1>2, <1>3, <1>4, <1>5, <1>6

(* The weights from the last to the first. *)
LEMMA SumOfReverse ==
  ASSUME NEW n \in Nat, NEW w \in [1 .. n -> Nat], NEW v \in [1 .. n -> Nat], \A k \in 1 .. n : v[k] = w[n + 1 - k]
  PROVE  SumTo(v, n) = SumTo(w, n)
<1>1. PICK b \in [0 .. n -> Nat] : Sums(w, n, b) /\ SumTo(w, n) = b[n]
  BY SumsExist
<1> DEFINE c == [k \in 0 .. n |-> b[n] - b[n - k]]
<1>2. ASSUME NEW k \in 0 .. n PROVE c[k] = b[n] - b[n - k] /\ b[n - k] \in Nat /\ b[n] \in Nat /\ b[n - k] <= b[n]
  <2>1. n - k \in 0 .. n /\ n \in 0 .. n /\ n - k <= n
    OBVIOUS
  <2>2. b[n - k] <= b[n]
    BY <2>1, <1>1, SumsGrow
  <2> QED BY <2>1, <2>2
<1>3. c = [k \in 0 .. n |-> c[k]]
  OBVIOUS
<1> HIDE DEF c
<1>4. ASSUME NEW k \in 0 .. n PROVE c[k] \in Nat
  <2>1. PICK x \in Nat, y \in Nat : x = b[n] /\ y = b[n - k] /\ y <= x
    BY <1>2
  <2>2. c[k] = x - y
    BY <2>1, <1>2
  <2> QED BY <2>1, <2>2
<1>5. Sums(v, n, c)
  <2>1. c[0] = 0
    <3>1. 0 \in 0 .. n /\ n - 0 = n
      OBVIOUS
    <3>2. PICK x \in Nat : x = b[n]
      BY <3>1, <1>2
    <3> QED BY <3>1, <3>2, <1>2
  <2>2. ASSUME NEW k \in 1 .. n PROVE c[k] = c[k - 1] + v[k]
    <3>1. PICK j \in 1 .. n : j = n + 1 - k
      OBVIOUS
    <3>2. j - 1 = n - k /\ j = n - (k - 1) /\ k \in 0 .. n /\ k - 1 \in 0 .. n
      BY <3>1
    <3>3. b[j] = b[j - 1] + w[j] /\ w[j] \in Nat /\ v[k] = w[j]
      BY <3>1, <1>1 DEF Sums
    <3>4. c[k] = b[n] - b[j - 1] /\ c[k - 1] = b[n] - b[j] /\ b[n] \in Nat /\ b[j] \in Nat /\ b[j - 1] \in Nat
      BY <3>2, <1>2
    <3>5. PICK x \in Nat, y \in Nat, z \in Nat, u \in Nat : x = b[j] /\ y = b[j - 1] /\ z = b[n] /\ u = w[j]
      BY <3>3, <3>4
    <3>6. c[k] = z - y /\ c[k - 1] = z - x /\ x = y + u /\ v[k] = u
      BY <3>3, <3>4, <3>5
    <3> QED BY <3>6
  <2> QED BY <2>1, <2>2 DEF Sums
<1>6. c \in [0 .. n -> Nat]
  BY <1>3, <1>4
<1>7. c[n] = b[n]
  <2>1. n \in 0 .. n /\ n - n = 0 /\ b[0] = 0
    BY <1>1 DEF Sums
  <2>2. PICK x \in Nat : x = b[n]
    BY <2>1
  <2>3. c[n] = x - b[0]
    BY <2>1, <2>2, <1>2
  <2> QED BY <2>1, <2>2, <2>3
<1> QED BY <1>1, <1>5, <1>6, <1>7, SumToIs
================================================================================
