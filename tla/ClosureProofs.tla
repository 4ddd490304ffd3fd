----------------------------- MODULE ClosureProofs -----------------------------
(***************************************************************************)
(* The sealed manifest lists everything the run made, in one order, for any *)
(* manifests, schemas and publications and however the registries are      *)
(* walked.                                                                 *)
(*                                                                         *)
(* Names are totally ordered, so the elements of a list are by Precedes,    *)
(* and every place of a sorted list is taken by one of them (PlacesTaken).  *)
(* The invariant ties the ledger to the registries and to replay, entry by  *)
(* entry, and a sealed manifest to what was sealed.                        *)
(***************************************************************************)
EXTENDS RunClosure, SequenceLemmas

-----------------------------------------------------------------------------
(* The order of names.                                                     *)

\* No name is before itself.
LEMMA BeforeIrreflexive ==
  ASSUME NEW a \in Name
  PROVE  ~Before(a, a)
<1> SUFFICES ASSUME NEW n \in 0 .. Len(a), n < Len(a), n = Len(a) \/ a[n + 1] < a[n + 1]
             PROVE  FALSE
  BY DEF Before
<1>1. Len(a) \in Nat /\ n + 1 \in 1 .. Len(a)
  BY DEF Name
<1>2. a[n + 1] \in Nat
  BY <1>1 DEF Name
<1> QED BY <1>1, <1>2

\* The order of names is transitive.
LEMMA BeforeTransitive ==
  ASSUME NEW a \in Name, NEW b \in Name, NEW c \in Name, Before(a, b), Before(b, c)
  PROVE  Before(a, c)
<1>1. PICK n \in 0 .. Len(a) :
        /\ n < Len(b) /\ \A i \in 1 .. n : a[i] = b[i]
        /\ n = Len(a) \/ a[n + 1] < b[n + 1]
  BY DEF Before
<1>2. PICK m \in 0 .. Len(b) :
        /\ m < Len(c) /\ \A i \in 1 .. m : b[i] = c[i]
        /\ m = Len(b) \/ b[m + 1] < c[m + 1]
  BY DEF Before
<1>3. /\ Len(a) \in Nat /\ Len(b) \in Nat /\ Len(c) \in Nat
      /\ \A i \in 1 .. Len(a) : a[i] \in Nat
      /\ \A i \in 1 .. Len(b) : b[i] \in Nat
      /\ \A i \in 1 .. Len(c) : c[i] \in Nat
  BY DEF Name
<1>4. CASE n < m
  <2>1. n < Len(c) /\ n + 1 \in 1 .. m /\ \A i \in 1 .. n : i \in 1 .. m
    BY <1>2, <1>3, <1>4
  <2>2. b[n + 1] = c[n + 1] /\ \A i \in 1 .. n : a[i] = c[i]
    BY <1>1, <1>2, <2>1
  <2> QED BY <1>1, <2>1, <2>2 DEF Before
<1>5. CASE n = m
  <2>1. b[n + 1] < c[n + 1] /\ n < Len(c) /\ \A i \in 1 .. n : a[i] = c[i]
    BY <1>1, <1>2, <1>3, <1>5
  <2>2. n = Len(a) \/ a[n + 1] < c[n + 1]
    <3>1. CASE n # Len(a)
      <4>1. n + 1 \in 1 .. Len(a) /\ n + 1 \in 1 .. Len(b) /\ n + 1 \in 1 .. Len(c)
        BY <1>1, <1>3, <2>1, <3>1
      <4>2. a[n + 1] \in Nat /\ b[n + 1] \in Nat /\ c[n + 1] \in Nat
        BY <1>3, <4>1
      <4> QED BY <1>1, <2>1, <3>1, <4>2
    <3> QED BY <3>1
  <2> QED BY <2>1, <2>2 DEF Before
<1>6. CASE m < n
  <2>1. /\ m \in 0 .. Len(a) /\ m + 1 \in 1 .. n /\ m # Len(b)
        /\ \A i \in 1 .. m : i \in 1 .. n
    BY <1>1, <1>3, <1>6
  <2>2. a[m + 1] = b[m + 1] /\ b[m + 1] < c[m + 1] /\ \A i \in 1 .. m : a[i] = c[i]
    BY <1>1, <1>2, <2>1
  <2> QED BY <1>2, <2>1, <2>2 DEF Before
<1> QED BY <1>3, <1>4, <1>5, <1>6

\* Two names part where one ends, or at the first character that differs.
LEMMA BeforeTotal ==
  ASSUME NEW a \in Name, NEW b \in Name
  PROVE  a = b \/ Before(a, b) \/ Before(b, a)
<1> SUFFICES ASSUME a # b PROVE Before(a, b) \/ Before(b, a)
  OBVIOUS
<1>1. /\ Len(a) \in Nat /\ Len(b) \in Nat
      /\ \A i \in 1 .. Len(a) : a[i] \in Nat
      /\ \A i \in 1 .. Len(b) : b[i] \in Nat
      /\ a = [i \in 1 .. Len(a) |-> a[i]] /\ b = [i \in 1 .. Len(b) |-> b[i]]
  BY DEF Name
<1> DEFINE apart == {n \in Nat : \/ n = Len(a) \/ n = Len(b)
                                 \/ n < Len(a) /\ n < Len(b) /\ a[n + 1] # b[n + 1]}
<1>2. apart # {} /\ apart \subseteq Nat
  BY <1>1
<1> HIDE DEF apart
<1>3. PICK n \in apart : \A m \in apart : n <= m
  BY <1>2, LeastNumber
<1>4. n \in Nat /\ n <= Len(a) /\ n <= Len(b)
  BY <1>1, <1>3 DEF apart
<1>5. \A i \in 1 .. n : a[i] = b[i]
  <2> SUFFICES ASSUME NEW i \in 1 .. n, a[i] # b[i] PROVE FALSE
    OBVIOUS
  <2>1. i - 1 \in Nat /\ i - 1 < n /\ (i - 1) + 1 = i
    BY <1>4
  <2>2. i - 1 \in apart
    BY <1>1, <1>4, <2>1 DEF apart
  <2> QED BY <1>3, <1>4, <2>1, <2>2
<1> DEFINE la == Len(a)  lb == Len(b)
<1>6. CASE n = la
  <2>1. n # lb
    BY <1>1, <1>5, <1>6, Zenon
  <2>2. la \in Nat /\ lb \in Nat /\ n <= la /\ n <= lb
    BY <1>1, <1>4
  <2> HIDE DEF la, lb
  <2>3. n \in 0 .. la /\ n < lb
    BY <1>4, <2>1, <2>2
  <2>4. Before(a, b)
    BY <1>5, <1>6, <2>3, Zenon DEF Before, la, lb
  <2> QED BY <2>4
<1>7. CASE n = lb
  <2>1. n # la
    BY <1>1, <1>5, <1>7, Zenon
  <2>2. la \in Nat /\ lb \in Nat /\ n <= la /\ n <= lb
    BY <1>1, <1>4
  <2>3. \A i \in 1 .. n : b[i] = a[i]
    BY <1>5
  <2> HIDE DEF la, lb
  <2>4. n \in 0 .. lb /\ n < la
    BY <1>4, <2>1, <2>2
  <2>5. Before(b, a)
    BY <1>7, <2>3, <2>4, Zenon DEF Before, la, lb
  <2> QED BY <2>5
<1>8. CASE n < Len(a) /\ n < Len(b) /\ a[n + 1] # b[n + 1]
  <2>1. n + 1 \in 1 .. Len(a) /\ n + 1 \in 1 .. Len(b)
    BY <1>1, <1>4, <1>8
  <2>2. a[n + 1] < b[n + 1] \/ b[n + 1] < a[n + 1]
    BY <1>1, <1>8, <2>1
  <2>3. \A i \in 1 .. n : b[i] = a[i]
    BY <1>5
  <2> QED BY <1>4, <1>5, <1>8, <2>2, <2>3 DEF Before
<1> QED BY <1>3, <1>6, <1>7, <1>8 DEF apart

-----------------------------------------------------------------------------
(* What a sort does.                                                       *)

\* Precedes is a total order of the positions of a list.
LEMMA PrecedesOrder ==
  ASSUME NEW keys \in Seq(Name)
  PROVE  /\ \A i \in DOMAIN keys : ~Precedes(keys, i, i)
         /\ \A i, j \in DOMAIN keys : i = j \/ Precedes(keys, i, j) \/ Precedes(keys, j, i)
         /\ \A i, j, k \in DOMAIN keys :
              Precedes(keys, i, j) /\ Precedes(keys, j, k) => Precedes(keys, i, k)
<1>1. DOMAIN keys \subseteq Nat /\ \A i \in DOMAIN keys : keys[i] \in Name
  OBVIOUS
<1>2. ASSUME NEW i \in DOMAIN keys PROVE ~Precedes(keys, i, i)
  BY <1>1, BeforeIrreflexive DEF Precedes
<1>3. ASSUME NEW i \in DOMAIN keys, NEW j \in DOMAIN keys
      PROVE  i = j \/ Precedes(keys, i, j) \/ Precedes(keys, j, i)
  <2>1. keys[i] = keys[j] \/ Before(keys[i], keys[j]) \/ Before(keys[j], keys[i])
    BY <1>1, BeforeTotal
  <2> QED BY <1>1, <2>1 DEF Precedes
<1>4. ASSUME NEW i \in DOMAIN keys, NEW j \in DOMAIN keys, NEW k \in DOMAIN keys,
             Precedes(keys, i, j), Precedes(keys, j, k)
      PROVE  Precedes(keys, i, k)
  <2>1. CASE Before(keys[i], keys[j]) /\ Before(keys[j], keys[k])
    BY <1>1, <2>1, BeforeTransitive DEF Precedes
  <2>2. CASE keys[i] = keys[j] \/ keys[j] = keys[k]
    BY <1>1, <1>4, <2>2 DEF Precedes
  <2> QED BY <1>4, <2>1, <2>2 DEF Precedes
<1> QED BY <1>2, <1>3, <1>4

\* The elements that precede one are fewer than all, and fewer than those that
\* precede a later one.
LEMMA PlaceOrder ==
  ASSUME NEW keys \in Seq(Name), NEW i \in DOMAIN keys
  PROVE  /\ Place(keys, i) \in DOMAIN keys
         /\ \A j \in DOMAIN keys : Precedes(keys, i, j) => Place(keys, i) < Place(keys, j)
<1> DEFINE D == DOMAIN keys
           Below(k) == {j \in D : Precedes(keys, j, k)}
<1>1. D = 1 .. Len(keys) /\ Len(keys) \in Nat
  OBVIOUS
<1>2. IsFiniteSet(D) /\ Cardinality(D) = Len(keys)
  <2> DEFINE n == Len(keys)  S == 1 .. n
  <2>1. n \in Nat /\ n \in Int /\ 1 \in Int
    BY <1>1
  <2> HIDE DEF n
  <2>2. IsFiniteSet(S) /\ Cardinality(S) = IF 1 > n THEN 0 ELSE n - 1 + 1
    BY <2>1, FS_Interval
  <2>3. Cardinality(S) = n
    <3> HIDE DEF S
    <3> QED BY <2>1, <2>2
  <2> QED BY <1>1, <2>2, <2>3 DEF n
<1>3. ASSUME NEW k \in D PROVE IsFiniteSet(Below(k)) /\ Cardinality(Below(k)) \in Nat
  <2>1. Below(k) \subseteq D
    OBVIOUS
  <2> HIDE DEF D, Below
  <2> QED BY <1>2, <2>1, FS_Subset, FS_CardinalityType
<1>4. \A k \in D : Place(keys, k) = 1 + Cardinality(Below(k))
  BY DEF Place
<1>5. Place(keys, i) \in D
  <2>1. Below(i) \subseteq D /\ i \notin Below(i) /\ i \in D
    BY PrecedesOrder
  <2>2. Cardinality(Below(i)) < Cardinality(D)
    <3> DEFINE B == Below(i)
    <3>1. B \subseteq D /\ B # D
      BY <2>1
    <3> HIDE DEF B, D
    <3>2. Cardinality(B) <= Cardinality(D) /\ (Cardinality(D) = Cardinality(B) => B = D)
      BY <1>2, <3>1, FS_Subset
    <3>3. Cardinality(B) \in Nat /\ Cardinality(D) \in Nat
      BY <1>2, <3>1, FS_Subset, FS_CardinalityType
    <3> QED BY <3>1, <3>2, <3>3 DEF B
  <2> HIDE DEF Below
  <2>3. Cardinality(Below(i)) \in Nat
    BY <1>3
  <2> QED BY <1>1, <1>2, <1>4, <2>2, <2>3
<1>6. ASSUME NEW j \in D, Precedes(keys, i, j) PROVE Place(keys, i) < Place(keys, j)
  <2>1. Below(i) \subseteq Below(j) /\ i \in Below(j) /\ i \notin Below(i)
    BY <1>6, PrecedesOrder
  <2> DEFINE B == Below(i)  C == Below(j)
  <2>2. B \subseteq C /\ B # C
    BY <2>1
  <2>3. IsFiniteSet(C) /\ IsFiniteSet(B) /\ Cardinality(C) \in Nat /\ Cardinality(B) \in Nat
    BY <1>3
  <2>4. Place(keys, i) = 1 + Cardinality(B) /\ Place(keys, j) = 1 + Cardinality(C)
    BY <1>4
  <2> HIDE DEF B, C
  <2>5. Cardinality(B) <= Cardinality(C) /\ (Cardinality(C) = Cardinality(B) => B = C)
    BY <2>2, <2>3, FS_Subset
  <2> QED BY <2>2, <2>3, <2>4, <2>5
<1> QED BY <1>5, <1>6

\* The element a place is taken by.
At(keys, n) == CHOOSE i \in DOMAIN keys : Place(keys, i) = n

\* Every place of the sorted list is taken, by one element.
LEMMA PlacesTaken ==
  ASSUME NEW keys \in Seq(Name)
  PROVE  /\ \A n \in DOMAIN keys : At(keys, n) \in DOMAIN keys /\ Place(keys, At(keys, n)) = n
         /\ \A i \in DOMAIN keys : At(keys, Place(keys, i)) = i
<1> DEFINE D == DOMAIN keys
           place == [i \in D |-> Place(keys, i)]
<1>1. D = 1 .. Len(keys) /\ Len(keys) \in Nat
  OBVIOUS
<1>2. IsFiniteSet(D)
  BY <1>1, FS_Interval
<1>3. \A i \in D : Place(keys, i) \in D
  BY PlaceOrder
<1>4. ASSUME NEW i \in D, NEW j \in D, Place(keys, i) = Place(keys, j) PROVE i = j
  <2>1. i = j \/ Precedes(keys, i, j) \/ Precedes(keys, j, i)
    BY PrecedesOrder
  <2>2. Precedes(keys, i, j) => Place(keys, i) < Place(keys, j)
    BY PlaceOrder
  <2>3. Precedes(keys, j, i) => Place(keys, j) < Place(keys, i)
    BY PlaceOrder
  <2>4. Place(keys, i) \in Nat /\ Place(keys, j) \in Nat
    BY <1>1, <1>3
  <2> QED BY <1>4, <2>1, <2>2, <2>3, <2>4
<1>5. place \in Injection(D, D)
  BY <1>3, <1>4 DEF Injection, IsInjective
<1>6. place \in Surjection(D, D)
  <2> HIDE DEF place, D
  <2> QED BY <1>2, <1>5, FS_Injection
<1>7. \A n \in D : \E i \in D : Place(keys, i) = n
  BY <1>6 DEF Surjection
<1> QED BY <1>3, <1>4, <1>7 DEF At

\* A sort keeps the elements of a list, each as often as it was there, and puts
\* them in the order of Precedes.
LEMMA SortedFacts ==
  ASSUME NEW T, NEW list \in Seq(T), NEW keys \in Seq(Name), DOMAIN keys = DOMAIN list
  PROVE  /\ DOMAIN Sorted(list, keys) = DOMAIN list
         /\ \A n \in DOMAIN list :
              At(keys, n) \in DOMAIN list /\ Sorted(list, keys)[n] = list[At(keys, n)]
         /\ ToSet(Sorted(list, keys)) = ToSet(list)
         /\ IsInjective(list) => IsInjective(Sorted(list, keys))
         /\ \A m, n \in DOMAIN list : m < n => Precedes(keys, At(keys, m), At(keys, n))
<1> DEFINE D == DOMAIN list  sorted == Sorted(list, keys)
<1>1. D = DOMAIN keys /\ D \subseteq Nat
  OBVIOUS
<1>2. /\ \A n \in D : At(keys, n) \in D /\ Place(keys, At(keys, n)) = n
      /\ \A i \in D : At(keys, Place(keys, i)) = i /\ Place(keys, i) \in D
  BY <1>1, PlacesTaken, PlaceOrder
<1>3. DOMAIN sorted = D /\ \A n \in D : sorted[n] = list[At(keys, n)]
  BY <1>1 DEF Sorted, At
<1> HIDE DEF D, sorted
<1>4. ToSet(sorted) = ToSet(list)
  <2>1. ToSet(sorted) \subseteq ToSet(list)
    BY <1>2, <1>3 DEF ToSet, D
  <2>2. ASSUME NEW i \in D PROVE list[i] \in ToSet(sorted)
    <3>1. sorted[Place(keys, i)] = list[i] /\ Place(keys, i) \in D
      BY <1>2, <1>3
    <3> QED BY <1>3, <3>1 DEF ToSet
  <2> QED BY <2>1, <2>2 DEF ToSet, D
<1>5. ASSUME IsInjective(list) PROVE IsInjective(sorted)
  <2> SUFFICES ASSUME NEW m \in D, NEW n \in D, sorted[m] = sorted[n] PROVE m = n
    BY <1>3 DEF IsInjective
  <2>1. At(keys, m) = At(keys, n)
    BY <1>2, <1>3, <1>5 DEF IsInjective, D
  <2> QED BY <1>2, <2>1
<1>6. ASSUME NEW m \in D, NEW n \in D, m < n PROVE Precedes(keys, At(keys, m), At(keys, n))
  <2>1. At(keys, m) # At(keys, n)
    BY <1>1, <1>2, <1>6
  <2>2. \/ Precedes(keys, At(keys, m), At(keys, n))
        \/ Precedes(keys, At(keys, n), At(keys, m))
    BY <1>1, <1>2, <2>1, PrecedesOrder
  <2>3. Precedes(keys, At(keys, n), At(keys, m)) => n < m
    BY <1>1, <1>2, PlaceOrder
  <2> QED BY <1>1, <1>6, <2>2, <2>3
<1> QED BY <1>2, <1>3, <1>4, <1>5, <1>6 DEF D, sorted

\* When the keys tell the elements apart, the keys alone give the order.
LEMMA SortedByKeys ==
  ASSUME NEW T, NEW list \in Seq(T), NEW keys \in Seq(Name), DOMAIN keys = DOMAIN list,
         IsInjective(keys)
  PROVE  \A m, n \in DOMAIN list :
           m < n => Before(keys[At(keys, m)], keys[At(keys, n)])
<1> SUFFICES ASSUME NEW m \in DOMAIN list, NEW n \in DOMAIN list, m < n
             PROVE  Before(keys[At(keys, m)], keys[At(keys, n)])
  OBVIOUS
<1>1. Precedes(keys, At(keys, m), At(keys, n))
  BY SortedFacts
<1>2. /\ At(keys, m) \in DOMAIN keys /\ At(keys, n) \in DOMAIN keys
      /\ \A i \in DOMAIN keys : ~Precedes(keys, i, i)
  BY SortedFacts, PrecedesOrder
<1>3. keys[At(keys, m)] # keys[At(keys, n)]
  BY <1>1, <1>2 DEF IsInjective
<1> QED BY <1>1, <1>3 DEF Precedes

\* A list of the elements of S, each once, with keys that tell them apart.
Keyed(S, key, v, keys) ==
  /\ v \in Seq(S) /\ IsInjective(v) /\ ToSet(v) = S
  /\ keys \in Seq(Name) /\ DOMAIN keys = DOMAIN v /\ IsInjective(keys)
  /\ \A i \in DOMAIN v : keys[i] = key[v[i]]

\* In such a list the keys alone say what precedes what.
LEMMA KeyedFacts ==
  ASSUME NEW S, NEW key, NEW v, NEW keys, Keyed(S, key, v, keys)
  PROVE  /\ DOMAIN v \subseteq Nat /\ IsFiniteSet(DOMAIN v)
         /\ \A i \in DOMAIN v : v[i] \in S
         /\ \A x \in S : \E i \in DOMAIN v : v[i] = x
         /\ \A i, k \in DOMAIN v :
              Precedes(keys, i, k) <=> Before(key[v[i]], key[v[k]])
<1>1. v \in Seq(S) /\ IsInjective(v) /\ ToSet(v) = S
  BY DEF Keyed
<1>2. DOMAIN v = 1 .. Len(v) /\ Len(v) \in Nat /\ \A i \in DOMAIN v : v[i] \in S
  BY <1>1
<1>3. IsFiniteSet(DOMAIN v) /\ DOMAIN v \subseteq Nat
  <2> DEFINE n == Len(v)
  <2>1. n \in Int /\ 1 \in Int
    BY <1>2
  <2> HIDE DEF n
  <2>2. IsFiniteSet(1 .. n)
    BY <2>1, FS_Interval
  <2> QED BY <1>2, <2>2 DEF n
<1>4. \A x \in S : \E i \in DOMAIN v : v[i] = x
  BY <1>1, Zenon DEF ToSet
<1>5. ASSUME NEW i \in DOMAIN v, NEW k \in DOMAIN v
      PROVE  Precedes(keys, i, k) <=> Before(key[v[i]], key[v[k]])
  <2>1. keys[i] = key[v[i]] /\ keys[k] = key[v[k]] /\ keys[k] \in Name
    BY DEF Keyed
  <2>2. keys[i] = keys[k] => i = k
    BY DEF Keyed, IsInjective
  <2>3. i \in Nat /\ k \in Nat
    BY <1>3
  <2> QED BY <2>1, <2>2, <2>3 DEF Precedes
<1> QED BY <1>2, <1>3, <1>4, <1>5

\* Another list of the same elements has no fewer of them before one.
LEMMA PlaceBound ==
  ASSUME NEW S, NEW key, NEW v, NEW kv, Keyed(S, key, v, kv),
         NEW w, NEW kw, Keyed(S, key, w, kw),
         NEW i \in DOMAIN v, NEW j \in DOMAIN w, v[i] = w[j]
  PROVE  Place(kv, i) <= Place(kw, j)
<1> DEFINE B == {k \in DOMAIN v : Precedes(kv, k, i)}
           C == {k \in DOMAIN w : Precedes(kw, k, j)}
           Other(k) == CHOOSE l \in DOMAIN w : w[l] = v[k]
           other == [k \in B |-> Other(k)]
<1>1. IsFiniteSet(C)
  <2>1. C \subseteq DOMAIN w /\ IsFiniteSet(DOMAIN w)
    BY KeyedFacts
  <2> HIDE DEF C
  <2> QED BY <2>1, FS_Subset
<1>2. ASSUME NEW k \in DOMAIN v PROVE Other(k) \in DOMAIN w /\ w[Other(k)] = v[k]
  <2>1. v[k] \in S
    BY KeyedFacts
  <2>2. \E l \in DOMAIN w : w[l] = v[k]
    BY <2>1, KeyedFacts
  <2> QED BY <2>2
<1> HIDE DEF Other
<1>3. ASSUME NEW k \in B PROVE Other(k) \in C
  <2>1. Precedes(kv, k, i) /\ k \in DOMAIN v
    OBVIOUS
  <2>2. Before(key[v[k]], key[v[i]])
    BY <2>1, KeyedFacts
  <2>3. Other(k) \in DOMAIN w /\ w[Other(k)] = v[k]
    BY <1>2, <2>1
  <2>4. Precedes(kw, Other(k), j)
    BY <2>2, <2>3, KeyedFacts
  <2> QED BY <2>3, <2>4
<1>4. ASSUME NEW k \in B, NEW l \in B, Other(k) = Other(l) PROVE k = l
  <2>1. k \in DOMAIN v /\ l \in DOMAIN v
    OBVIOUS
  <2>2. v[k] = v[l]
    BY <1>2, <1>4, <2>1
  <2> QED BY <2>1, <2>2 DEF Keyed, IsInjective
<1>5. other \in Injection(B, C)
  <2> HIDE DEF B, C
  <2>1. other \in [B -> C] /\ \A k \in B : other[k] = Other(k)
    BY <1>3
  <2> HIDE DEF other
  <2> QED BY <1>4, <2>1 DEF Injection, IsInjective
<1>6. Place(kv, i) = 1 + Cardinality(B) /\ Place(kw, j) = 1 + Cardinality(C)
  BY DEF Place, Keyed
<1> HIDE DEF B, C, other
<1>7. IsFiniteSet(B) /\ Cardinality(B) <= Cardinality(C)
  BY <1>1, <1>5, FS_Injection
<1>8. Cardinality(B) \in Nat /\ Cardinality(C) \in Nat
  BY <1>1, <1>7, FS_CardinalityType
<1> QED BY <1>6, <1>7, <1>8

\* Lists of the same elements are sorted to the same list, if the keys tell the
\* elements apart.
LEMMA SortedAlike ==
  ASSUME NEW S, NEW key, NEW v, NEW kv, Keyed(S, key, v, kv),
         NEW w, NEW kw, Keyed(S, key, w, kw), DOMAIN v = DOMAIN w
  PROVE  Sorted(v, kv) = Sorted(w, kw)
<1>1. /\ kv \in Seq(Name) /\ DOMAIN kv = DOMAIN v /\ kw \in Seq(Name)
      /\ DOMAIN kw = DOMAIN w
  BY DEF Keyed
<1>2. ASSUME NEW i \in DOMAIN v, NEW j \in DOMAIN w, v[i] = w[j]
      PROVE  Place(kv, i) = Place(kw, j)
  <2>1. Place(kv, i) <= Place(kw, j)
    BY <1>2, PlaceBound
  <2>2. Place(kw, j) <= Place(kv, i)
    BY <1>2, PlaceBound
  <2>3. Place(kv, i) \in DOMAIN v /\ Place(kw, j) \in DOMAIN w
    BY <1>1, PlaceOrder
  <2>4. DOMAIN v \subseteq Nat /\ DOMAIN w \subseteq Nat
    BY KeyedFacts
  <2> QED BY <2>1, <2>2, <2>3, <2>4
<1>3. ASSUME NEW n \in DOMAIN v PROVE v[At(kv, n)] = w[At(kw, n)]
  <2>1. At(kv, n) \in DOMAIN v /\ Place(kv, At(kv, n)) = n
    BY <1>1, PlacesTaken
  <2>2. v[At(kv, n)] \in S
    BY <2>1, KeyedFacts
  <2>3. PICK j \in DOMAIN w : w[j] = v[At(kv, n)]
    BY <2>2, KeyedFacts
  <2>4. Place(kw, j) = n
    BY <1>2, <2>1, <2>3
  <2>5. At(kw, n) = j
    BY <1>1, <2>4, PlacesTaken
  <2> QED BY <2>3, <2>5
<1>4. /\ Sorted(v, kv) = [n \in DOMAIN v |-> v[At(kv, n)]]
      /\ Sorted(w, kw) = [n \in DOMAIN w |-> w[At(kw, n)]]
  BY <1>1 DEF Sorted, At
<1> QED BY <1>3, <1>4

\* A walk through a finite registry meets every element, each once.
LEMMA WalkFacts ==
  ASSUME NEW S, IsFiniteSet(S), NEW w \in Walks(S)
  PROVE  w \in Seq(S) /\ IsInjective(w) /\ ToSet(w) = S
<1> DEFINE n == Cardinality(S)  D == 1 .. n
<1>1. n \in Nat
  BY FS_CardinalityType
<1>2. w \in [D -> S] /\ \A i, j \in D : i # j => w[i] # w[j]
  BY DEF Walks, SetToSeqs
<1>3. IsFiniteSet(D) /\ Cardinality(D) = n
  <2>1. n \in Int /\ 1 \in Int
    BY <1>1
  <2> HIDE DEF n
  <2>2. IsFiniteSet(D) /\ Cardinality(D) = IF 1 > n THEN 0 ELSE n - 1 + 1
    BY <2>1, FS_Interval
  <2>3. Cardinality(D) = n
    <3> HIDE DEF D
    <3> QED BY <1>1, <2>2
  <2> QED BY <2>2, <2>3
<1>4. w \in Seq(S) /\ DOMAIN w = D
  <2> HIDE DEF n
  <2> QED BY <1>1, <1>2
<1>5. IsInjective(w)
  <2> HIDE DEF D
  <2> QED BY <1>2, <1>4, Zenon DEF IsInjective
<1>6. w \in Surjection(D, S)
  <2>1. w \in Injection(D, S)
    BY <1>2, <1>5 DEF Injection
  <2> HIDE DEF D
  <2> QED BY <1>3, <2>1, FS_Injection DEF n
<1>7. ToSet(w) = S
  <2> HIDE DEF D
  <2> QED BY <1>2, <1>4, <1>6 DEF Surjection, ToSet
<1> QED BY <1>4, <1>5, <1>7

-----------------------------------------------------------------------------
(* The invariant.                                                          *)

Artifact == [artifact_id : Name, source : Name, hash : Payloads, schema : Schemas, nth : Nat]

\* No two manifests have one id, and no two schemas one topic.
RegistryInv ==
  /\ plugins \subseteq Manifests /\ IsFiniteSet(plugins)
  /\ \A m, o \in plugins : m.id = o.id => m = o
  /\ schemas \subseteq Schemas /\ IsFiniteSet(schemas)
  /\ \A s, t \in schemas : s.topic = t.topic => s = t

\* The i-th artifact is what one of these plugins published under one of these
\* schemas.
Backed(a, i, ps, ss) ==
  /\ a.nth = i
  /\ \E m \in ps, s \in ss :
       /\ a.source = m.id /\ a.schema = s
       /\ CanPublish(m, s.topic) /\ a.artifact_id = ArtifactId(s.topic)

LedgerInv ==
  /\ ledger \in Seq(Artifact)
  /\ \A i \in DOMAIN ledger : Backed(ledger[i], i, plugins, schemas)

\* No artifact before the i-th is of the same topic.
OpensTopic(i) ==
  \A j \in DOMAIN ledger : ledger[j].schema.topic = ledger[i].schema.topic => i <= j

\* A topic is deaf once it has an artifact, and of the artifacts of a topic only the
\* first may be of a publication that reached replay.
ReplayInv ==
  /\ replayed \subseteq DOMAIN ledger /\ unrecorded \subseteq DOMAIN ledger
  /\ \A i \in DOMAIN ledger : ledger[i].schema.topic \in deaf
  /\ \A t \in deaf : \E i \in DOMAIN ledger : ledger[i].schema.topic = t
  /\ \A i \in DOMAIN ledger : i \in replayed <=> OpensTopic(i) /\ i \notin unrecorded

SealInv ==
  manifest.sealed =>
    \E pluginWalk \in Walks(plugins), schemaWalk \in Walks(schemas) :
      manifest = Summaries(pluginWalk, schemaWalk)

ClosureInv == RegistryInv /\ LedgerInv /\ ReplayInv /\ SealInv

\* The id made of a topic is a name.
LEMMA ArtifactIdIsName ==
  ASSUME NEW topic \in Name
  PROVE  ArtifactId(topic) \in Name
<1> DEFINE head == [i \in DOMAIN topic |-> IF topic[i] = Dot THEN Underscore ELSE topic[i]]
<1>1. head \in Seq(Nat)
  <2>1. DOMAIN topic = 1 .. Len(topic) /\ Len(topic) \in Nat
    BY DEF Name
  <2>2. \A i \in DOMAIN topic : topic[i] \in Nat
    BY DEF Name
  <2> QED BY <2>1, <2>2 DEF Underscore
<1>2. <<Underscore, 112>> \in Seq(Nat)
  BY DEF Underscore
<1> HIDE DEF head
<1>3. head \o <<Underscore, 112>> \in Seq(Nat)
  BY <1>1, <1>2
<1> QED BY <1>3, Zenon DEF ArtifactId, Name, head

\* The invariant holds of a station that has registered nothing.
LEMMA ClosureInit == Init => ClosureInv
<1> SUFFICES ASSUME Init PROVE ClosureInv
  OBVIOUS
<1>1. RegistryInv
  BY FS_EmptySet DEF Init, RegistryInv
<1>2. LedgerInv /\ ReplayInv
  BY DEF Init, LedgerInv, ReplayInv
<1>3. ~manifest.sealed
  BY DEF Init, Unsealed
<1> QED BY <1>1, <1>2, <1>3 DEF ClosureInv, SealInv

\* What a published artifact adds to the ledger and to replay.
LEMMA PublishKeeps ==
  ASSUME ClosureInv, NEW m \in Manifests, NEW s \in Schemas, NEW payload \in Payloads,
         NEW appended \in BOOLEAN, Publish(m, s, payload, appended)
  PROVE  LedgerInv' /\ ReplayInv'
<1> DEFINE n == Len(ledger) + 1
           artifact == ArtifactOf(m, s, payload, n)
<1>1. ledger \in Seq(Artifact) /\ Len(ledger) \in Nat /\ n \in Nat
  BY DEF ClosureInv, LedgerInv
<1>2. artifact \in Artifact
  <2>1. m.id \in Name /\ s.topic \in Name
    BY ClosureAssumption
  <2>2. ArtifactId(s.topic) \in Name
    BY <2>1, ArtifactIdIsName
  <2> HIDE DEF n
  <2> QED BY <1>1, <2>1, <2>2 DEF Artifact, ArtifactOf
<1>3. /\ artifact.nth = n /\ artifact.schema = s /\ artifact.source = m.id
      /\ artifact.artifact_id = ArtifactId(s.topic)
  BY DEF ArtifactOf
<1>4. /\ ledger' = Append(ledger, artifact)
      /\ deaf' = deaf \cup {s.topic}
      /\ plugins' = plugins /\ schemas' = schemas
      /\ m \in plugins /\ s \in schemas /\ CanPublish(m, s.topic)
  BY DEF Publish
<1>5. /\ replayed' = replayed \cup (IF s.topic \notin deaf /\ appended THEN {n} ELSE {})
      /\ unrecorded' =
           unrecorded \cup (IF s.topic \notin deaf /\ ~appended THEN {n} ELSE {})
  BY DEF Publish
<1> HIDE DEF artifact
<1>6. /\ ledger' \in Seq(Artifact) /\ DOMAIN ledger' = DOMAIN ledger \cup {n}
      /\ ledger'[n] = artifact /\ n \notin DOMAIN ledger
      /\ \A i \in DOMAIN ledger : ledger'[i] = ledger[i] /\ i < n
  <2>1. ledger' \in Seq(Artifact) /\ Len(ledger') = n /\ ledger'[n] = artifact
    BY <1>1, <1>2, <1>4
  <2>2. \A i \in 1 .. Len(ledger) : ledger'[i] = ledger[i]
    BY <1>1, <1>2, <1>4
  <2>3. DOMAIN ledger = 1 .. Len(ledger) /\ DOMAIN ledger' = 1 .. n
    BY <1>1, <2>1
  <2> QED BY <1>1, <2>1, <2>2, <2>3
<1> HIDE DEF n
<1>7. ToSet(ledger') = ToSet(ledger) \cup {artifact}
  BY <1>6 DEF ToSet
<1>8. LedgerInv'
  <2>1. ASSUME NEW i \in DOMAIN ledger PROVE Backed(ledger'[i], i, plugins', schemas')
    <3>1. Backed(ledger[i], i, plugins, schemas)
      BY DEF ClosureInv, LedgerInv
    <3> QED BY <1>4, <1>6, <3>1
  <2>2. Backed(artifact, n, plugins, schemas)
    BY <1>3, <1>4, Zenon DEF Backed
  <2>3. Backed(ledger'[n], n, plugins', schemas')
    BY <1>4, <1>6, <2>2
  <2> QED BY <1>6, <2>1, <2>3 DEF LedgerInv
<1>9. ReplayInv'
  <2>1. /\ replayed \subseteq DOMAIN ledger /\ unrecorded \subseteq DOMAIN ledger
        /\ \A i \in DOMAIN ledger : ledger[i].schema.topic \in deaf
        /\ \A t \in deaf : \E i \in DOMAIN ledger : ledger[i].schema.topic = t
        /\ \A i \in DOMAIN ledger : i \in replayed <=> OpensTopic(i) /\ i \notin unrecorded
    BY DEF ClosureInv, ReplayInv
  <2>2. /\ replayed' \subseteq DOMAIN ledger' /\ unrecorded' \subseteq DOMAIN ledger'
        /\ n \in replayed' <=> s.topic \notin deaf /\ appended
        /\ n \in unrecorded' <=> s.topic \notin deaf /\ ~appended
        /\ \A i \in DOMAIN ledger : i \in replayed' <=> i \in replayed
        /\ \A i \in DOMAIN ledger : i \in unrecorded' <=> i \in unrecorded
    BY <1>5, <1>6, <2>1
  <2>3. \A i \in DOMAIN ledger' : ledger'[i].schema.topic \in deaf'
    BY <1>3, <1>4, <1>6, <2>1
  <2>4. ASSUME NEW t \in deaf' PROVE \E i \in DOMAIN ledger' : ledger'[i].schema.topic = t
    <3>1. CASE t \in deaf
      BY <1>6, <2>1, <3>1
    <3>2. CASE t = s.topic
      BY <1>3, <1>6, <3>2
    <3> QED BY <1>4, <3>1, <3>2
  <2>5. ASSUME NEW i \in DOMAIN ledger PROVE OpensTopic(i)' <=> OpensTopic(i)
    <3>1. i \in Nat /\ i <= n
      BY <1>1, <1>6
    <3> QED BY <1>6, <3>1 DEF OpensTopic
  <2>6. ASSUME NEW i \in DOMAIN ledger', i = n
        PROVE  OpensTopic(i)' <=> s.topic \notin deaf
    <3>1. ledger'[i].schema.topic = s.topic
      BY <1>3, <1>6, <2>6
    <3>2. \A j \in DOMAIN ledger : ~(i <= j) /\ ledger'[j] = ledger[j]
      BY <1>1, <1>6, <2>6
    <3>3. DOMAIN ledger' = DOMAIN ledger \cup {i} /\ i <= i
      BY <1>1, <1>6, <2>6
    <3>4. OpensTopic(i)' <=> \A j \in DOMAIN ledger : ledger[j].schema.topic # s.topic
      BY <3>1, <3>2, <3>3 DEF OpensTopic
    <3>5. (\A j \in DOMAIN ledger : ledger[j].schema.topic # s.topic) <=> s.topic \notin deaf
      BY <2>1
    <3> QED BY <3>4, <3>5
  <2>7. ASSUME NEW i \in DOMAIN ledger'
        PROVE  i \in replayed' <=> OpensTopic(i)' /\ i \notin unrecorded'
    <3>1. CASE i \in DOMAIN ledger
      <4>1. /\ i \in replayed' <=> i \in replayed
            /\ i \in unrecorded' <=> i \in unrecorded
        BY <2>2, <3>1
      <4>2. i \in replayed <=> OpensTopic(i) /\ i \notin unrecorded
        BY <2>1, <3>1
      <4>3. OpensTopic(i)' <=> OpensTopic(i)
        BY <2>5, <3>1
      <4> QED BY <4>1, <4>2, <4>3
    <3>2. CASE i = n
      <4>1. /\ i \in replayed' <=> s.topic \notin deaf /\ appended
            /\ i \in unrecorded' <=> s.topic \notin deaf /\ ~appended
        BY <2>2, <3>2
      <4>2. OpensTopic(i)' <=> s.topic \notin deaf
        BY <2>6, <3>2
      <4> QED BY <4>1, <4>2
    <3> QED BY <1>6, <3>1, <3>2
  <2> QED BY <2>2, <2>3, <2>4, <2>7 DEF ReplayInv
<1> QED BY <1>8, <1>9

\* Registrations, publications and the seal keep the invariant.
LEMMA ClosureStep == ClosureInv /\ [Next]_vars => ClosureInv'
<1> SUFFICES ASSUME ClosureInv, [Next]_vars PROVE ClosureInv'
  OBVIOUS
<1> USE DEF ClosureInv
<1>1. ASSUME NEW m \in Manifests, RegisterPlugin(m) PROVE ClosureInv'
  <2>1. RegistryInv'
    BY <1>1, FS_AddElement DEF RegisterPlugin, RegistryInv
  <2>2. LedgerInv'
    <3>1. /\ ledger' = ledger /\ plugins \subseteq plugins' /\ schemas' = schemas
      BY <1>1 DEF RegisterPlugin
    <3>2. ASSUME NEW i \in DOMAIN ledger
          PROVE  Backed(ledger[i], i, plugins', schemas')
      <4>1. Backed(ledger[i], i, plugins, schemas)
        BY DEF LedgerInv
      <4> QED BY <3>1, <4>1 DEF Backed
    <3> QED BY <3>1, <3>2 DEF LedgerInv
  <2>3. ReplayInv' /\ SealInv'
    BY <1>1 DEF RegisterPlugin, ReplayInv, OpensTopic, SealInv
  <2> QED BY <2>1, <2>2, <2>3
<1>2. ASSUME NEW s \in Schemas, RegisterSchema(s) PROVE ClosureInv'
  <2>1. RegistryInv'
    BY <1>2, FS_AddElement DEF RegisterSchema, RegistryInv
  <2>2. LedgerInv'
    <3>1. /\ ledger' = ledger /\ plugins' = plugins /\ schemas \subseteq schemas'
      BY <1>2 DEF RegisterSchema
    <3>2. ASSUME NEW i \in DOMAIN ledger
          PROVE  Backed(ledger[i], i, plugins', schemas')
      <4>1. Backed(ledger[i], i, plugins, schemas)
        BY DEF LedgerInv
      <4> QED BY <3>1, <4>1 DEF Backed
    <3> QED BY <3>1, <3>2 DEF LedgerInv
  <2>3. ReplayInv' /\ SealInv'
    BY <1>2 DEF RegisterSchema, ReplayInv, OpensTopic, SealInv
  <2> QED BY <2>1, <2>2, <2>3
<1>3. ASSUME NEW m \in Manifests, NEW s \in Schemas, NEW payload \in Payloads,
             NEW appended \in BOOLEAN, Publish(m, s, payload, appended)
      PROVE  ClosureInv'
  <2>1. RegistryInv' /\ SealInv'
    BY <1>3 DEF Publish, RegistryInv, SealInv
  <2> QED BY <1>3, <2>1, PublishKeeps
<1>4. ASSUME NEW pluginWalk \in Walks(plugins), NEW schemaWalk \in Walks(schemas),
             SealRun(pluginWalk, schemaWalk)
      PROVE  ClosureInv'
  <2>1. UNCHANGED <<plugins, schemas, ledger, replayed, unrecorded, deaf>>
    BY <1>4 DEF SealRun
  <2>2. RegistryInv' /\ LedgerInv' /\ ReplayInv'
    BY <2>1 DEF RegistryInv, LedgerInv, ReplayInv, OpensTopic
  <2>3. manifest' = Summaries(pluginWalk, schemaWalk)'
    BY <1>4, <2>1 DEF SealRun, Summaries
  <2>4. SealInv'
    BY <2>1, <2>3 DEF SealInv
  <2> QED BY <2>2, <2>4
<1>5. CASE UNCHANGED vars
  <2>1. UNCHANGED <<plugins, schemas, ledger, replayed, unrecorded, deaf>> /\ manifest' = manifest
    BY <1>5 DEF vars
  <2>2. RegistryInv' /\ LedgerInv' /\ ReplayInv'
    BY <2>1 DEF RegistryInv, LedgerInv, ReplayInv, OpensTopic
  <2>3. SealInv'
    <3>1. CASE manifest.sealed
      <4>1. PICK pluginWalk \in Walks(plugins), schemaWalk \in Walks(schemas) :
              manifest = Summaries(pluginWalk, schemaWalk)
        BY <3>1 DEF SealInv
      <4>2. manifest' = Summaries(pluginWalk, schemaWalk)'
        BY <2>1, <4>1 DEF Summaries
      <4> QED BY <2>1, <4>2 DEF SealInv
    <3>2. CASE ~manifest.sealed
      BY <2>1, <3>2 DEF SealInv
    <3> QED BY <3>1, <3>2
  <2> QED BY <2>2, <2>3
<1> QED BY <1>1, <1>2, <1>3, <1>4, <1>5 DEF Next

\* The invariant holds in every reachable state.
LEMMA ClosureInvHolds == Spec => []ClosureInv
BY ClosureInit, ClosureStep, PTL DEF Spec

-----------------------------------------------------------------------------
(* What a sealed manifest says.                                            *)

\* The lists of a sealed manifest, of walks through the registries.
LEMMA SealedLists ==
  ASSUME ClosureInv, NEW pluginWalk \in Walks(plugins), NEW schemaWalk \in Walks(schemas),
         manifest = Summaries(pluginWalk, schemaWalk)
  PROVE  LET ids == [i \in DOMAIN pluginWalk |-> pluginWalk[i].id]
             topics == [i \in DOMAIN schemaWalk |-> schemaWalk[i].topic]
             names == [i \in DOMAIN ledger |-> ledger[i].artifact_id]
         IN  /\ manifest.plugins = Sorted(pluginWalk, ids)
             /\ manifest.schemas = Sorted(schemaWalk, topics)
             /\ manifest.artifacts = Sorted(ledger, names)
             /\ pluginWalk \in Seq(plugins) /\ IsInjective(pluginWalk)
             /\ ToSet(pluginWalk) = plugins
             /\ ids \in Seq(Name) /\ DOMAIN ids = DOMAIN pluginWalk /\ IsInjective(ids)
             /\ schemaWalk \in Seq(schemas) /\ IsInjective(schemaWalk)
             /\ ToSet(schemaWalk) = schemas
             /\ topics \in Seq(Name) /\ DOMAIN topics = DOMAIN schemaWalk
             /\ IsInjective(topics)
             /\ ledger \in Seq(Artifact) /\ IsInjective(ledger)
             /\ names \in Seq(Name) /\ DOMAIN names = DOMAIN ledger
<1> DEFINE ids == [i \in DOMAIN pluginWalk |-> pluginWalk[i].id]
           topics == [i \in DOMAIN schemaWalk |-> schemaWalk[i].topic]
           names == [i \in DOMAIN ledger |-> ledger[i].artifact_id]
<1>1. /\ manifest.plugins = Sorted(pluginWalk, ids)
      /\ manifest.schemas = Sorted(schemaWalk, topics)
      /\ manifest.artifacts = Sorted(ledger, names)
  BY DEF Summaries
<1>2. /\ pluginWalk \in Seq(plugins) /\ IsInjective(pluginWalk)
      /\ ToSet(pluginWalk) = plugins
      /\ schemaWalk \in Seq(schemas) /\ IsInjective(schemaWalk)
      /\ ToSet(schemaWalk) = schemas
  BY WalkFacts DEF ClosureInv, RegistryInv
<1>3. ids \in Seq(Name) /\ IsInjective(ids)
  <2>1. \A i \in DOMAIN pluginWalk : pluginWalk[i] \in plugins /\ pluginWalk[i].id \in Name
    BY <1>2, ClosureAssumption DEF ClosureInv, RegistryInv
  <2>2. ids \in Seq(Name)
    BY <1>2, <2>1
  <2>3. IsInjective(ids)
    BY <1>2, <2>1 DEF ClosureInv, RegistryInv, IsInjective
  <2> QED BY <2>2, <2>3
<1>4. topics \in Seq(Name) /\ IsInjective(topics)
  <2>1. \A i \in DOMAIN schemaWalk :
          schemaWalk[i] \in schemas /\ schemaWalk[i].topic \in Name
    BY <1>2, ClosureAssumption DEF ClosureInv, RegistryInv
  <2>2. topics \in Seq(Name)
    BY <1>2, <2>1
  <2>3. IsInjective(topics)
    BY <1>2, <2>1 DEF ClosureInv, RegistryInv, IsInjective
  <2> QED BY <2>2, <2>3
<1>5. /\ ledger \in Seq(Artifact) /\ IsInjective(ledger)
      /\ names \in Seq(Name) /\ DOMAIN names = DOMAIN ledger
  <2>1. ledger \in Seq(Artifact) /\ \A i \in DOMAIN ledger : ledger[i].nth = i
    BY DEF ClosureInv, LedgerInv, Backed
  <2>2. \A i \in DOMAIN ledger : ledger[i].artifact_id \in Name
    <3>1. \A i \in DOMAIN ledger : ledger[i] \in Artifact
      BY <2>1
    <3>2. \A a \in Artifact : a.artifact_id \in Name
      BY DEF Artifact
    <3> QED BY <3>1, <3>2
  <2>3. names \in Seq(Name)
    BY <2>1, <2>2
  <2>4. IsInjective(ledger)
    BY <2>1 DEF IsInjective
  <2> QED BY <2>1, <2>3, <2>4
<1> QED BY <1>1, <1>2, <1>3, <1>4, <1>5

\* A sealed run lists every plugin and every schema that is registered and every
\* artifact that was recorded, each once; and each artifact in it was made by a
\* plugin in it, on a topic that plugin may publish, under a schema in it.
THEOREM ClosureCompleteHolds == Spec => []ClosureComplete
<1>1. ClosureInv => ClosureComplete
  <2> SUFFICES ASSUME ClosureInv, manifest.sealed
               PROVE  /\ ToSet(manifest.plugins) = plugins
                      /\ ToSet(manifest.schemas) = schemas
                      /\ ToSet(manifest.artifacts) = ToSet(ledger)
                      /\ IsInjective(manifest.plugins) /\ IsInjective(manifest.schemas)
                      /\ IsInjective(manifest.artifacts)
                      /\ \A a \in ToSet(manifest.artifacts) :
                           \E m \in ToSet(manifest.plugins), s \in ToSet(manifest.schemas) :
                             /\ a.source = m.id /\ a.schema = s
                             /\ CanPublish(m, s.topic) /\ a.artifact_id = ArtifactId(s.topic)
    BY DEF ClosureComplete
  <2>1. PICK pluginWalk \in Walks(plugins), schemaWalk \in Walks(schemas) :
          manifest = Summaries(pluginWalk, schemaWalk)
    BY DEF ClosureInv, SealInv
  <2> DEFINE ids == [i \in DOMAIN pluginWalk |-> pluginWalk[i].id]
             topics == [i \in DOMAIN schemaWalk |-> schemaWalk[i].topic]
             names == [i \in DOMAIN ledger |-> ledger[i].artifact_id]
  <2>2. /\ manifest.plugins = Sorted(pluginWalk, ids)
        /\ pluginWalk \in Seq(plugins) /\ IsInjective(pluginWalk)
        /\ ToSet(pluginWalk) = plugins
        /\ ids \in Seq(Name) /\ DOMAIN ids = DOMAIN pluginWalk
    BY <2>1, SealedLists
  <2>3. /\ manifest.schemas = Sorted(schemaWalk, topics)
        /\ schemaWalk \in Seq(schemas) /\ IsInjective(schemaWalk)
        /\ ToSet(schemaWalk) = schemas
        /\ topics \in Seq(Name) /\ DOMAIN topics = DOMAIN schemaWalk
    BY <2>1, SealedLists
  <2>4. /\ manifest.artifacts = Sorted(ledger, names)
        /\ ledger \in Seq(Artifact) /\ IsInjective(ledger)
        /\ names \in Seq(Name) /\ DOMAIN names = DOMAIN ledger
    BY <2>1, SealedLists
  <2> HIDE DEF ids, topics, names
  <2>5. ToSet(manifest.plugins) = plugins /\ IsInjective(manifest.plugins)
    BY <2>2, SortedFacts
  <2>6. ToSet(manifest.schemas) = schemas /\ IsInjective(manifest.schemas)
    BY <2>3, SortedFacts
  <2>7. ToSet(manifest.artifacts) = ToSet(ledger) /\ IsInjective(manifest.artifacts)
    BY <2>4, SortedFacts
  <2>8. ASSUME NEW a \in ToSet(ledger)
        PROVE  \E m \in plugins, s \in schemas :
                 /\ a.source = m.id /\ a.schema = s
                 /\ CanPublish(m, s.topic) /\ a.artifact_id = ArtifactId(s.topic)
    <3>1. PICK i \in DOMAIN ledger : a = ledger[i]
      BY DEF ToSet
    <3>2. Backed(a, i, plugins, schemas)
      BY <3>1 DEF ClosureInv, LedgerInv
    <3> QED BY <3>2 DEF Backed
  <2> QED BY <2>5, <2>6, <2>7, <2>8
<1> QED BY <1>1, ClosureInvHolds, PTL

\* The lists of a sealed run are in one order, whichever way its hash maps were
\* walked: plugins and schemas by their keys, no two of them equal, artifacts by
\* their ids and those of one id as they were recorded.
THEOREM CanonicalOrderHolds == Spec => []CanonicalOrder
<1>1. ClosureInv => CanonicalOrder
  <2> SUFFICES ASSUME ClosureInv, manifest.sealed PROVE CanonicalOrder
    BY DEF CanonicalOrder
  <2>1. PICK pluginWalk \in Walks(plugins), schemaWalk \in Walks(schemas) :
          manifest = Summaries(pluginWalk, schemaWalk)
    BY DEF ClosureInv, SealInv
  <2> DEFINE ids == [i \in DOMAIN pluginWalk |-> pluginWalk[i].id]
             topics == [i \in DOMAIN schemaWalk |-> schemaWalk[i].topic]
             names == [i \in DOMAIN ledger |-> ledger[i].artifact_id]
  <2>2. /\ manifest.plugins = Sorted(pluginWalk, ids)
        /\ pluginWalk \in Seq(plugins)
        /\ ids \in Seq(Name) /\ DOMAIN ids = DOMAIN pluginWalk /\ IsInjective(ids)
    BY <2>1, SealedLists
  <2>3. /\ manifest.schemas = Sorted(schemaWalk, topics)
        /\ schemaWalk \in Seq(schemas)
        /\ topics \in Seq(Name) /\ DOMAIN topics = DOMAIN schemaWalk /\ IsInjective(topics)
    BY <2>1, SealedLists
  <2>4. /\ manifest.artifacts = Sorted(ledger, names) /\ ledger \in Seq(Artifact)
        /\ names \in Seq(Name) /\ DOMAIN names = DOMAIN ledger
    BY <2>1, SealedLists
  <2>5. /\ \A i \in DOMAIN ids : ids[i] = pluginWalk[i].id
        /\ \A i \in DOMAIN topics : topics[i] = schemaWalk[i].topic
        /\ \A i \in DOMAIN names : names[i] = ledger[i].artifact_id
    OBVIOUS
  <2> HIDE DEF ids, topics, names
  <2>6. ASSUME NEW i \in DOMAIN manifest.plugins, NEW j \in DOMAIN manifest.plugins, i < j
        PROVE  Before(manifest.plugins[i].id, manifest.plugins[j].id)
    <3>1. /\ DOMAIN manifest.plugins = DOMAIN ids
          /\ \A n \in DOMAIN ids : /\ At(ids, n) \in DOMAIN ids
                                   /\ manifest.plugins[n] = pluginWalk[At(ids, n)]
      BY <2>2, SortedFacts
    <3>2. Before(ids[At(ids, i)], ids[At(ids, j)])
      BY <2>2, <2>6, <3>1, SortedByKeys
    <3> QED BY <2>5, <2>6, <3>1, <3>2
  <2>7. ASSUME NEW i \in DOMAIN manifest.schemas, NEW j \in DOMAIN manifest.schemas, i < j
        PROVE  Before(manifest.schemas[i].topic, manifest.schemas[j].topic)
    <3>1. /\ DOMAIN manifest.schemas = DOMAIN topics
          /\ \A n \in DOMAIN topics : /\ At(topics, n) \in DOMAIN topics
                                      /\ manifest.schemas[n] = schemaWalk[At(topics, n)]
      BY <2>3, SortedFacts
    <3>2. Before(topics[At(topics, i)], topics[At(topics, j)])
      BY <2>3, <2>7, <3>1, SortedByKeys
    <3> QED BY <2>5, <2>7, <3>1, <3>2
  <2>8. ASSUME NEW i \in DOMAIN manifest.artifacts, NEW j \in DOMAIN manifest.artifacts,
               i < j
        PROVE  LET a == manifest.artifacts[i] b == manifest.artifacts[j]
               IN  \/ Before(a.artifact_id, b.artifact_id)
                   \/ a.artifact_id = b.artifact_id /\ a.nth < b.nth
    <3>1. /\ DOMAIN manifest.artifacts = DOMAIN names
          /\ \A n \in DOMAIN names : /\ At(names, n) \in DOMAIN names
                                     /\ manifest.artifacts[n] = ledger[At(names, n)]
      BY <2>4, SortedFacts
    <3>2. Precedes(names, At(names, i), At(names, j))
      BY <2>4, <2>8, <3>1, SortedFacts
    <3>3. \A n \in DOMAIN ledger : ledger[n].nth = n
      BY DEF ClosureInv, LedgerInv, Backed
    <3> QED BY <2>4, <2>5, <2>8, <3>1, <3>2, <3>3 DEF Precedes
  <2> QED BY <2>6, <2>7, <2>8 DEF CanonicalOrder
<1> QED BY <1>1, ClosureInvHolds, PTL

\* However the hash maps are walked, seal_run makes one manifest: what is sealed
\* depends on what was registered and recorded, and on nothing else.
OneManifest ==
  \A pluginWalk, otherPlugins \in Walks(plugins), schemaWalk, otherSchemas \in Walks(schemas) :
    Summaries(pluginWalk, schemaWalk) = Summaries(otherPlugins, otherSchemas)

\* Ids tell the registered plugins apart, topics the registered schemas.
LEMMA WalksKeyed ==
  ASSUME ClosureInv
  PROVE  /\ \A w \in Walks(plugins) :
              Keyed(plugins, [m \in plugins |-> m.id], w, [i \in DOMAIN w |-> w[i].id])
         /\ \A w \in Walks(schemas) :
              Keyed(schemas, [s \in schemas |-> s.topic], w, [i \in DOMAIN w |-> w[i].topic])
<1>1. /\ IsFiniteSet(plugins) /\ \A m, o \in plugins : m.id = o.id => m = o
      /\ IsFiniteSet(schemas) /\ \A s, t \in schemas : s.topic = t.topic => s = t
      /\ \A m \in plugins : m.id \in Name
      /\ \A s \in schemas : s.topic \in Name
  BY ClosureAssumption DEF ClosureInv, RegistryInv
<1>2. ASSUME NEW w \in Walks(plugins)
      PROVE  Keyed(plugins, [m \in plugins |-> m.id], w, [i \in DOMAIN w |-> w[i].id])
  <2> DEFINE ids == [i \in DOMAIN w |-> w[i].id]
  <2>1. w \in Seq(plugins) /\ IsInjective(w) /\ ToSet(w) = plugins
    BY <1>1, WalkFacts
  <2>2. \A i \in DOMAIN w : w[i] \in plugins
    BY <2>1
  <2>3. ids \in Seq(Name)
    BY <1>1, <2>1, <2>2
  <2>4. IsInjective(ids)
    BY <1>1, <2>1, <2>2 DEF IsInjective
  <2> QED BY <2>1, <2>2, <2>3, <2>4 DEF Keyed
<1>3. ASSUME NEW w \in Walks(schemas)
      PROVE  Keyed(schemas, [s \in schemas |-> s.topic], w, [i \in DOMAIN w |-> w[i].topic])
  <2> DEFINE topics == [i \in DOMAIN w |-> w[i].topic]
  <2>1. w \in Seq(schemas) /\ IsInjective(w) /\ ToSet(w) = schemas
    BY <1>1, WalkFacts
  <2>2. \A i \in DOMAIN w : w[i] \in schemas
    BY <2>1
  <2>3. topics \in Seq(Name)
    BY <1>1, <2>1, <2>2
  <2>4. IsInjective(topics)
    BY <1>1, <2>1, <2>2 DEF IsInjective
  <2> QED BY <2>1, <2>2, <2>3, <2>4 DEF Keyed
<1> QED BY <1>2, <1>3

\* Two seals of the same run would make the same manifest, in every reachable state.
THEOREM OneManifestHolds == Spec => []OneManifest
<1>1. ClosureInv => OneManifest
  <2> SUFFICES ASSUME ClosureInv,
                      NEW v \in Walks(plugins), NEW w \in Walks(plugins),
                      NEW x \in Walks(schemas), NEW y \in Walks(schemas)
               PROVE  Summaries(v, x) = Summaries(w, y)
    BY DEF OneManifest
  <2>1. DOMAIN v = DOMAIN w /\ DOMAIN x = DOMAIN y
    BY DEF Walks, SetToSeqs
  <2> DEFINE id == [m \in plugins |-> m.id]  topic == [s \in schemas |-> s.topic]
             vIds == [i \in DOMAIN v |-> v[i].id]  wIds == [i \in DOMAIN w |-> w[i].id]
             xTopics == [i \in DOMAIN x |-> x[i].topic]
             yTopics == [i \in DOMAIN y |-> y[i].topic]
  <2>2. /\ Keyed(plugins, id, v, vIds) /\ Keyed(plugins, id, w, wIds)
        /\ Keyed(schemas, topic, x, xTopics) /\ Keyed(schemas, topic, y, yTopics)
    BY WalksKeyed
  <2> HIDE DEF id, topic, vIds, wIds, xTopics, yTopics
  <2>3. Sorted(v, vIds) = Sorted(w, wIds)
    BY <2>1, <2>2, SortedAlike
  <2>4. Sorted(x, xTopics) = Sorted(y, yTopics)
    BY <2>1, <2>2, SortedAlike
  <2> QED BY <2>3, <2>4 DEF Summaries, vIds, wIds, xTopics, yTopics
<1> QED BY <1>1, ClosureInvHolds, PTL

\* Of the artifacts of one topic in a sealed manifest replay holds the first and no
\* other, unless the append of the first failed; and it holds nothing else.
THEOREM ReplayedIsListedHolds == Spec => []ReplayedIsListed
<1>1. ClosureInv /\ ClosureComplete => ReplayedIsListed
  <2> SUFFICES ASSUME ClosureInv, ClosureComplete, manifest.sealed
               PROVE  /\ \A n \in replayed : \E a \in ToSet(manifest.artifacts) : a.nth = n
                      /\ \A a \in ToSet(manifest.artifacts) :
                           a.nth \in replayed <=> FirstOfTopic(a) /\ a.nth \notin unrecorded
    BY DEF ReplayedIsListed
  <2>1. ToSet(manifest.artifacts) = {ledger[i] : i \in DOMAIN ledger}
    BY DEF ClosureComplete, ToSet
  <2>2. \A i \in DOMAIN ledger : ledger[i].nth = i
    BY DEF ClosureInv, LedgerInv, Backed
  <2>3. \A n \in replayed : \E a \in ToSet(manifest.artifacts) : a.nth = n
    BY <2>1, <2>2 DEF ClosureInv, ReplayInv
  <2>4. ASSUME NEW a \in ToSet(manifest.artifacts)
        PROVE  a.nth \in replayed <=> FirstOfTopic(a) /\ a.nth \notin unrecorded
    <3>1. PICK i \in DOMAIN ledger : a = ledger[i] /\ a.nth = i
      BY <2>1, <2>2
    <3>2. FirstOfTopic(a) <=> OpensTopic(i)
      BY <2>1, <2>2, <3>1 DEF FirstOfTopic, OpensTopic
    <3> QED BY <3>1, <3>2 DEF ClosureInv, ReplayInv
  <2> QED BY <2>3, <2>4
<1> QED BY <1>1, ClosureInvHolds, ClosureCompleteHolds, PTL
=============================================================================
