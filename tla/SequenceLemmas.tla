--------------------------- MODULE SequenceLemmas ---------------------------
(***************************************************************************)
(* Induction, and what Only returns.                                        *)
(*                                                                         *)
(* The induction theorems of the library take the statement to be proved as *)
(* an operator; here the statement is the set of the numbers, or of the     *)
(* sequences, that it is true of.                                          *)
(***************************************************************************)
EXTENDS Subsequences, FiniteSets, SequenceTheorems, FiniteSetTheorems,
        WellFoundedInduction, TLAPS

-----------------------------------------------------------------------------
(* Induction and recursion.                                                *)

\* Among the intervals that end in S and lie below one of its numbers there is
\* one that contains no other.
LEMMA LeastNumber ==
  ASSUME NEW S, S \subseteq Nat, S # {}
  PROVE  \E n \in S : \A m \in S : n <= m
<1> PICK top \in S : TRUE
  OBVIOUS
<1> DEFINE Top == 0 .. top
           T == {0 .. n : n \in {m \in S : m <= top}}
<1>0. top \in Nat
  OBVIOUS
<1>1. IsWellFoundedOn(StrictSubsetOrdering(Top), FiniteSubsetsOf(Top))
  BY FS_StrictSubsetOrderingWellFounded
<1>2. T \subseteq FiniteSubsetsOf(Top)
  <2> SUFFICES ASSUME NEW n \in S, n <= top PROVE 0 .. n \in FiniteSubsetsOf(Top)
    OBVIOUS
  <2>1. n \in Nat /\ 0 \in Int
    OBVIOUS
  <2>2. IsFiniteSet(0 .. n)
    BY <2>1, FS_Interval
  <2>3. 0 .. n \subseteq Top
    BY <1>0, <2>1
  <2> QED BY <2>2, <2>3 DEF FiniteSubsetsOf
<1>3. T # {}
  BY <1>0
<1> HIDE DEF T
<1>4. PICK t \in T : \A u \in T : <<u, t>> \notin StrictSubsetOrdering(Top)
  <2> DEFINE R == StrictSubsetOrdering(Top)  F == FiniteSubsetsOf(Top)
  <2>1. IsWellFoundedOn(R, F) /\ T \subseteq F /\ T # {}
    BY <1>1, <1>2, <1>3
  <2> HIDE DEF R, F
  <2>2. \E x \in T : \A y \in T : ~ (<<y, x>> \in R)
    BY <2>1, WFMin
  <2> QED BY <2>2 DEF R
<1>5. PICK n \in S : n <= top /\ t = 0 .. n
  BY DEF T
<1>6. ASSUME NEW m \in S, m < n PROVE FALSE
  <2>1. 0 .. m \in T
    BY <1>5, <1>6 DEF T
  <2>2. /\ 0 .. m \subseteq Top /\ 0 .. n \subseteq Top
        /\ 0 .. m \subseteq 0 .. n /\ n \in 0 .. n /\ n \notin 0 .. m
    BY <1>0, <1>5, <1>6
  <2>3. <<0 .. m, 0 .. n>> \in StrictSubsetOrdering(Top)
    BY <2>2 DEF StrictSubsetOrdering
  <2> QED BY <1>4, <1>5, <2>1, <2>3
<1>7. \A m \in S : n <= m
  BY <1>6
<1> QED BY <1>7

LEMMA Induction ==
  ASSUME NEW S, 0 \in S, \A n \in Nat : n \in S => n + 1 \in S
  PROVE  Nat \subseteq S
<1> SUFFICES ASSUME Nat \ S # {} PROVE FALSE
  OBVIOUS
<1>1. PICK n \in Nat \ S : \A m \in Nat \ S : n <= m
  <2> DEFINE B == Nat \ S
  <2>1. B \subseteq Nat /\ B # {}
    OBVIOUS
  <2> HIDE DEF B
  <2>2. \E n \in B : \A m \in B : n <= m
    BY <2>1, LeastNumber
  <2> QED BY <2>2 DEF B
<1>2. n - 1 \in Nat /\ n - 1 \in S
  BY <1>1
<1> QED BY <1>1, <1>2

LEMMA SequenceInduction ==
  ASSUME NEW T, NEW S, <<>> \in S,
         \A s \in Seq(T), x \in T : s \in S => Append(s, x) \in S
  PROVE  Seq(T) \subseteq S
<1> DEFINE N == {n \in Nat : \A s \in Seq(T) : Len(s) = n => s \in S}
<1>1. 0 \in N
  <2>1. \A s \in Seq(T) : Len(s) = 0 => s = <<>>
    OBVIOUS
  <2> QED BY <2>1
<1>2. ASSUME NEW n \in Nat, n \in N PROVE n + 1 \in N
  <2> SUFFICES ASSUME NEW s \in Seq(T), Len(s) = n + 1 PROVE s \in S
    OBVIOUS
  <2> DEFINE front == SubSeq(s, 1, n)
  <2>1. front \in Seq(T) /\ Len(front) = n /\ s[n + 1] \in T
    OBVIOUS
  <2>2. s = Append(front, s[n + 1])
    OBVIOUS
  <2>3. front \in S
    BY <1>2, <2>1
  <2> HIDE DEF front
  <2> QED BY <2>1, <2>2, <2>3
<1> HIDE DEF N
<1>3. Nat \subseteq N
  BY <1>1, <1>2, Induction
<1> QED BY <1>3 DEF N

\* f goes from base through step[1] .. step[n].
Recurs(f, n, base, step) == f[0] = base /\ \A i \in 1 .. n : f[i] = step[i][f[i - 1]]

\* There is such a recursion ...
LEMMA RecursionExists ==
  ASSUME NEW n \in Nat, NEW V, NEW base \in V, NEW step \in [1 .. n -> [V -> V]]
  PROVE  \E f \in [0 .. n -> V] : Recurs(f, n, base, step)
<1> USE DEF Recurs
<1> DEFINE Upto(m) == \E f \in [0 .. m -> V] : Recurs(f, m, base, step)
           S == {m \in Nat : m <= n => Upto(m)}
<1>1. 0 \in S
  <2>1. [i \in 0 .. 0 |-> base] \in [0 .. 0 -> V]
    OBVIOUS
  <2>2. [i \in 0 .. 0 |-> base][0] = base /\ 1 .. 0 = {}
    OBVIOUS
  <2> QED BY <2>1, <2>2
<1>2. ASSUME NEW m \in Nat, m \in S PROVE m + 1 \in S
  <2> SUFFICES ASSUME m + 1 <= n PROVE Upto(m + 1)
    OBVIOUS
  <2>1. PICK f \in [0 .. m -> V] : Recurs(f, m, base, step)
    BY <1>2
  <2> DEFINE g == [i \in 0 .. (m + 1) |-> IF i = m + 1 THEN step[m + 1][f[m]] ELSE f[i]]
  <2>2. step[m + 1] \in [V -> V] /\ f[m] \in V
    OBVIOUS
  <2>3. step[m + 1][f[m]] \in V
    BY <2>2
  <2>4. g \in [0 .. (m + 1) -> V]
    BY <2>3
  <2>5. g[0] = base
    BY <2>1
  <2>6. ASSUME NEW i \in 1 .. (m + 1) PROVE g[i] = step[i][g[i - 1]]
    <3>1. CASE i = m + 1
      BY <3>1
    <3>2. CASE i # m + 1
      BY <2>1, <3>2
    <3> QED BY <3>1, <3>2
  <2> HIDE DEF g
  <2> QED BY <2>4, <2>5, <2>6
<1> HIDE DEF S
<1>3. Nat \subseteq S
  BY <1>1, <1>2, Induction
<1>4. n \in S
  BY <1>3
<1> QED BY <1>4 DEF S

\* f and g start alike, and step alike from the same value.
Alike(f, g, n) ==
  f[0] = g[0] /\ \A i \in 1 .. n : f[i - 1] = g[i - 1] => f[i] = g[i]

\* ... and only one: as far as two recursions take the same steps they agree.
LEMMA RecursionUnique ==
  ASSUME NEW n \in Nat, NEW f, NEW g, Alike(f, g, n)
  PROVE  \A i \in 0 .. n : f[i] = g[i]
<1> USE DEF Alike
<1> DEFINE S == {m \in Nat : m <= n => f[m] = g[m]}
<1>1. 0 \in S
  OBVIOUS
<1>2. ASSUME NEW m \in Nat, m \in S PROVE m + 1 \in S
  <2> SUFFICES ASSUME m + 1 <= n PROVE f[m + 1] = g[m + 1]
    OBVIOUS
  <2>1. f[(m + 1) - 1] = g[(m + 1) - 1]
    BY <1>2
  <2> QED BY <2>1
<1> HIDE DEF S
<1>3. Nat \subseteq S
  BY <1>1, <1>2, Induction
<1> QED BY <1>3 DEF S

-----------------------------------------------------------------------------
(* Only.                                                                   *)

\* f is the recursive function in Only ...
Sifts(f, s, S) ==
  /\ f[0] = <<>>
  /\ \A i \in 1 .. Len(s) :
       f[i] = IF s[i] \in S THEN Append(f[i - 1], s[i]) ELSE f[i - 1]
  /\ Only(s, S) = f[Len(s)]

\* ... which is there.
LEMMA OnlyRecursion ==
  ASSUME NEW T, NEW s \in Seq(T), NEW S
  PROVE  \E f \in [0 .. Len(s) -> Seq(T)] : Sifts(f, s, S)
<1> DEFINE V == Seq(T)
           step == [i \in 1 .. Len(s) |->
                      [v \in V |-> IF s[i] \in S THEN Append(v, s[i]) ELSE v]]
           Body(f, n) == IF n = 0 THEN <<>>
                         ELSE IF s[n] \in S THEN Append(f[n - 1], s[n]) ELSE f[n - 1]
           Defines(f) == f = [n \in 0 .. Len(s) |-> Body(f, n)]
           among == CHOOSE f : Defines(f)
<1>1. Len(s) \in Nat /\ <<>> \in V
  OBVIOUS
<1>2. step \in [1 .. Len(s) -> [V -> V]]
  OBVIOUS
<1>3. PICK g \in [0 .. Len(s) -> V] : Recurs(g, Len(s), <<>>, step)
  <2> HIDE DEF V, step
  <2> QED BY <1>1, <1>2, RecursionExists
<1>4. ASSUME NEW n \in 0 .. Len(s) PROVE g[n] = Body(g, n)
  <2>1. CASE n = 0
    BY <1>3, <2>1 DEF Recurs
  <2>2. CASE n # 0
    <3>1. n \in 1 .. Len(s) /\ n - 1 \in 0 .. Len(s)
      BY <2>2
    <3>2. g[n - 1] \in V
      BY <3>1
    <3> QED BY <1>3, <2>2, <3>1, <3>2 DEF Recurs
  <2> QED BY <2>1, <2>2
<1>5. Defines(g)
  BY <1>4
<1>6. Defines(among)
  <2> HIDE DEF Defines
  <2> QED BY <1>5
<1>7. Only(s, S) = among[Len(s)]
  BY DEF Only
<1> HIDE DEF among
<1>8. among[0] = <<>>
  BY <1>1, <1>6
<1>9. ASSUME NEW i \in 1 .. Len(s)
      PROVE  among[i] = IF s[i] \in S THEN Append(among[i - 1], s[i]) ELSE among[i - 1]
  <2>1. among = [n \in 0 .. Len(s) |-> Body(among, n)]
    BY <1>6
  <2>2. i \in 0 .. Len(s) /\ i # 0
    OBVIOUS
  <2>3. among[i] = Body(among, i)
    BY <2>1, <2>2
  <2> QED BY <2>2, <2>3
<1>10. ASSUME NEW i \in 1 .. Len(s), among[i - 1] = g[i - 1] PROVE among[i] = g[i]
  <2>1. i \in 0 .. Len(s) /\ i # 0
    OBVIOUS
  <2>2. g[i] = Body(g, i)
    BY <1>4, <2>1
  <2> QED BY <1>9, <1>10, <2>1, <2>2
<1>11. \A i \in 0 .. Len(s) : among[i] = g[i]
  <2>1. among[0] = g[0]
    BY <1>3, <1>8 DEF Recurs
  <2>2. Alike(among, g, Len(s))
    BY <1>10, <2>1 DEF Alike
  <2> QED BY <1>1, <2>2, RecursionUnique
<1>12. among \in [0 .. Len(s) -> V]
  <2>1. among = [n \in 0 .. Len(s) |-> Body(among, n)]
    BY <1>6
  <2>2. \A i \in 0 .. Len(s) : among[i] \in V
    BY <1>11
  <2> QED BY <2>1, <2>2
<1> QED BY <1>7, <1>8, <1>9, <1>12 DEF Sifts

LEMMA OnlyEmpty == \A S : Only(<<>>, S) = <<>>
<1> TAKE S
<1>1. <<>> \in Seq({}) /\ Len(<<>>) = 0
  OBVIOUS
<1>2. PICK f : Sifts(f, <<>>, S)
  BY <1>1, OnlyRecursion
<1> QED BY <1>1, <1>2 DEF Sifts

LEMMA OnlyAppend ==
  ASSUME NEW T, NEW s \in Seq(T), NEW x \in T, NEW S
  PROVE  Only(Append(s, x), S) = IF x \in S THEN Append(Only(s, S), x) ELSE Only(s, S)
<1> DEFINE t == Append(s, x)  n == Len(s)
<1>1. t \in Seq(T) /\ Len(t) = n + 1 /\ n \in Nat /\ t[n + 1] = x
      /\ \A i \in 1 .. n : t[i] = s[i]
  OBVIOUS
<1> HIDE DEF t
<1>2. PICK f : Sifts(f, s, S)
  BY OnlyRecursion
<1>3. PICK g : Sifts(g, t, S)
  BY <1>1, OnlyRecursion
<1>4. \A i \in 0 .. n : f[i] = g[i]
  <2>1. ASSUME NEW i \in 1 .. n, f[i - 1] = g[i - 1] PROVE f[i] = g[i]
    BY <1>1, <1>2, <1>3, <2>1 DEF Sifts
  <2>2. f[0] = g[0] /\ n \in Nat
    BY <1>1, <1>2, <1>3 DEF Sifts
  <2> HIDE DEF n
  <2>3. Alike(f, g, n)
    BY <2>1, <2>2 DEF Alike
  <2> QED BY <2>2, <2>3, RecursionUnique
<1>5. g[n + 1] = IF x \in S THEN Append(g[n], x) ELSE g[n]
  <2>1. n + 1 \in 1 .. Len(t) /\ (n + 1) - 1 = n
    BY <1>1
  <2> QED BY <1>1, <1>3, <2>1 DEF Sifts
<1>6. f[n] = g[n]
  BY <1>1, <1>4
<1> QED BY <1>1, <1>2, <1>3, <1>5, <1>6 DEF t, Sifts

LEMMA OnlyType ==
  ASSUME NEW T, NEW s \in Seq(T), NEW S
  PROVE  Only(s, S) \in Seq(T \cap S)
<1> DEFINE R == {q \in Seq(T) : Only(q, S) \in Seq(T \cap S)}
<1>1. <<>> \in R
  <2>1. Only(<<>>, S) = <<>>
    BY OnlyEmpty, Zenon
  <2>2. <<>> \in Seq(T) /\ <<>> \in Seq(T \cap S)
    OBVIOUS
  <2> QED BY <2>1, <2>2, Zenon
<1>2. ASSUME NEW q \in Seq(T), NEW x \in T, q \in R PROVE Append(q, x) \in R
  <2>1. Only(Append(q, x), S) = IF x \in S THEN Append(Only(q, S), x) ELSE Only(q, S)
    BY OnlyAppend
  <2>2. Only(q, S) \in Seq(T \cap S)
    BY <1>2
  <2>3. Only(Append(q, x), S) \in Seq(T \cap S)
    BY <2>1, <2>2
  <2> QED BY <2>3
<1> HIDE DEF R
<1>3. Seq(T) \subseteq R
  BY <1>1, <1>2, SequenceInduction
<1> QED BY <1>3 DEF R

LEMMA OnlyConcat ==
  ASSUME NEW T, NEW s \in Seq(T), NEW t \in Seq(T), NEW S
  PROVE  Only(s \o t, S) = Only(s, S) \o Only(t, S)
<1> DEFINE R == {q \in Seq(T) : Only(s \o q, S) = Only(s, S) \o Only(q, S)}
<1>0. Only(s, S) \in Seq(T)
  <2>1. Only(s, S) \in Seq(T \cap S)
    BY OnlyType
  <2> QED BY <2>1
<1>1. <<>> \in R
  <2>1. s \o <<>> = s /\ Only(s, S) \o <<>> = Only(s, S)
    BY <1>0
  <2>2. Only(<<>>, S) = <<>>
    BY OnlyEmpty, Zenon
  <2>3. <<>> \in Seq(T)
    OBVIOUS
  <2>4. Only(s \o <<>>, S) = Only(s, S) \o Only(<<>>, S)
    BY <2>1, <2>2, Zenon
  <2> QED BY <2>3, <2>4
<1>2. ASSUME NEW q \in Seq(T), NEW x \in T, q \in R PROVE Append(q, x) \in R
  <2>1. s \o Append(q, x) = Append(s \o q, x) /\ s \o q \in Seq(T)
    OBVIOUS
  <2>2. Only(Append(q, x), S) = IF x \in S THEN Append(Only(q, S), x) ELSE Only(q, S)
    BY OnlyAppend
  <2>3. Only(Append(s \o q, x), S) =
          IF x \in S THEN Append(Only(s \o q, S), x) ELSE Only(s \o q, S)
    BY <2>1, OnlyAppend
  <2>4. Only(s \o q, S) = Only(s, S) \o Only(q, S)
    BY <1>2
  <2>5. Only(q, S) \in Seq(T)
    <3>1. Only(q, S) \in Seq(T \cap S)
      BY OnlyType
    <3> QED BY <3>1
  <2>6. Only(s, S) \o Append(Only(q, S), x) = Append(Only(s, S) \o Only(q, S), x)
    BY <1>0, <2>5
  <2>7. Only(s \o Append(q, x), S) = Only(s, S) \o Only(Append(q, x), S)
    BY <2>1, <2>2, <2>3, <2>4, <2>6
  <2> QED BY <2>7
<1> HIDE DEF R
<1>3. Seq(T) \subseteq R
  BY <1>1, <1>2, SequenceInduction
<1> QED BY <1>3 DEF R

LEMMA OnlySingle ==
  ASSUME NEW x, NEW S
  PROVE  Only(<<x>>, S) = IF x \in S THEN <<x>> ELSE <<>>
<1>1. <<>> \in Seq({x}) /\ Append(<<>>, x) = <<x>>
  OBVIOUS
<1>2. Only(Append(<<>>, x), S) = IF x \in S THEN Append(Only(<<>>, S), x) ELSE Only(<<>>, S)
  <2> DEFINE none == <<>>
  <2>1. none \in Seq({x}) /\ x \in {x}
    BY <1>1
  <2> HIDE DEF none
  <2>2. Only(Append(none, x), S) = IF x \in S THEN Append(Only(none, S), x) ELSE Only(none, S)
    BY <2>1, OnlyAppend
  <2> QED BY <2>2 DEF none
<1>3. Only(<<>>, S) = <<>>
  BY OnlyEmpty, Zenon
<1> QED BY <1>1, <1>2, <1>3, Zenon

\* A head that counts comes first, another makes no difference.
LEMMA OnlyHead ==
  ASSUME NEW T, NEW s \in Seq(T), s # <<>>, NEW S
  PROVE  Only(s, S) = IF Head(s) \in S THEN <<Head(s)>> \o Only(Tail(s), S)
                                       ELSE Only(Tail(s), S)
<1> DEFINE first == <<Head(s)>>
<1>1. s = first \o Tail(s) /\ first \in Seq(T) /\ Tail(s) \in Seq(T)
  OBVIOUS
<1>2. Only(s, S) = Only(first, S) \o Only(Tail(s), S)
  <2>1. \A p, q \in Seq(T) : Only(p \o q, S) = Only(p, S) \o Only(q, S)
    <3> TAKE p, q \in Seq(T)
    <3> QED BY OnlyConcat
  <2> HIDE DEF first
  <2> QED BY <1>1, <2>1, Zenon
<1>3. Only(Tail(s), S) \in Seq(T \cap S)
  BY <1>1, OnlyType
<1>4. <<>> \o Only(Tail(s), S) = Only(Tail(s), S)
  BY <1>3
<1>5. Only(first, S) = IF Head(s) \in S THEN first ELSE <<>>
  BY OnlySingle, Zenon
<1> QED BY <1>2, <1>4, <1>5, Zenon

LEMMA OnlyNone ==
  ASSUME NEW T, NEW s \in Seq(T), NEW S, T \cap S = {}
  PROVE  Only(s, S) = <<>>
<1>1. Only(s, S) \in Seq({})
  BY OnlyType
<1> QED BY <1>1

LEMMA OnlyAll ==
  ASSUME NEW T, NEW s \in Seq(T), NEW S, T \subseteq S
  PROVE  Only(s, S) = s
<1> DEFINE R == {q \in Seq(T) : Only(q, S) = q}
<1>1. <<>> \in R
  BY OnlyEmpty
<1>2. ASSUME NEW q \in Seq(T), NEW x \in T, q \in R PROVE Append(q, x) \in R
  <2>1. Only(Append(q, x), S) = Append(q, x)
    BY <1>2, OnlyAppend
  <2> QED BY <2>1
<1> HIDE DEF R
<1>3. Seq(T) \subseteq R
  BY <1>1, <1>2, SequenceInduction
<1> QED BY <1>3 DEF R

\* Two sets with the same elements of T leave the same of a sequence over T.
LEMMA OnlyAgree ==
  ASSUME NEW T, NEW s \in Seq(T), NEW S, NEW R, T \cap S = T \cap R
  PROVE  Only(s, S) = Only(s, R)
<1> DEFINE P == {q \in Seq(T) : Only(q, S) = Only(q, R)}
<1>1. <<>> \in P
  <2>1. Only(<<>>, S) = Only(<<>>, R)
    BY OnlyEmpty, Zenon
  <2> QED BY <2>1
<1>2. ASSUME NEW q \in Seq(T), NEW x \in T, q \in P PROVE Append(q, x) \in P
  <2>1. x \in S <=> x \in R
    OBVIOUS
  <2>2. Only(Append(q, x), S) = IF x \in S THEN Append(Only(q, S), x) ELSE Only(q, S)
    BY OnlyAppend
  <2>3. Only(Append(q, x), R) = IF x \in R THEN Append(Only(q, R), x) ELSE Only(q, R)
    BY OnlyAppend
  <2>4. Only(Append(q, x), S) = Only(Append(q, x), R)
    BY <1>2, <2>1, <2>2, <2>3
  <2> QED BY <2>4
<1> HIDE DEF P
<1>3. Seq(T) \subseteq P
  BY <1>1, <1>2, SequenceInduction
<1> QED BY <1>3 DEF P

LEMMA OnlyLength ==
  ASSUME NEW T, NEW s \in Seq(T), NEW S
  PROVE  Len(Only(s, S)) <= Len(s)
<1> DEFINE P == {q \in Seq(T) : Len(Only(q, S)) <= Len(q)}
<1>1. <<>> \in P
  <2>1. Only(<<>>, S) = <<>>
    BY OnlyEmpty, Zenon
  <2> QED BY <2>1
<1>2. ASSUME NEW q \in Seq(T), NEW x \in T, q \in P PROVE Append(q, x) \in P
  <2> DEFINE k == Only(q, S)  l == Only(Append(q, x), S)
  <2>1. k \in Seq(T \cap S)
    BY OnlyType
  <2>2. l = IF x \in S THEN Append(k, x) ELSE k
    BY OnlyAppend
  <2>3. Len(k) <= Len(q)
    BY <1>2
  <2> HIDE DEF k, l
  <2>4. Len(l) <= Len(Append(q, x))
    BY <2>1, <2>2, <2>3
  <2> QED BY <2>4 DEF l
<1> HIDE DEF P
<1>3. Seq(T) \subseteq P
  BY <1>1, <1>2, SequenceInduction
<1> QED BY <1>3 DEF P

\* What a sequence is cut into.
LEMMA CutType ==
  ASSUME NEW T, NEW s \in Seq(T), NEW n \in 0 .. Len(s)
  PROVE  /\ SubSeq(s, 1, n) \in Seq(T)
         /\ SubSeq(s, n + 1, Len(s)) \in Seq(T)
OBVIOUS

LEMMA RangeAppend ==
  ASSUME NEW T, NEW s \in Seq(T), NEW x
  PROVE  Range(Append(s, x)) = Range(s) \cup {x}
<1> DEFINE t == Append(s, x)
<1>1. DOMAIN s = 1 .. Len(s) /\ DOMAIN t = 1 .. (Len(s) + 1) /\ Len(s) \in Nat
  OBVIOUS
<1>2. t[Len(s) + 1] = x /\ \A i \in 1 .. Len(s) : t[i] = s[i]
  OBVIOUS
<1> HIDE DEF t
<1>3. ASSUME NEW y \in Range(t) PROVE y \in Range(s) \cup {x}
  BY <1>1, <1>2 DEF Range
<1>4. ASSUME NEW y \in Range(s) PROVE y \in Range(t)
  BY <1>1, <1>2 DEF Range
<1>5. x \in Range(t)
  BY <1>1, <1>2 DEF Range
<1> QED BY <1>3, <1>4, <1>5 DEF t

LEMMA OneElement ==
  ASSUME NEW T, NEW q \in Seq(T), q # <<>>, Len(q) <= 1
  PROVE  \E x \in T : q = <<x>>
<1>1. Len(q) = 1
  <2>1. Len(q) \in Nat \ {0}
    BY EmptySeq
  <2>2. \A n \in Nat \ {0} : n <= 1 => n = 1
    OBVIOUS
  <2> QED BY <2>1, <2>2, Zenon
<1> DEFINE x == q[1]
<1>2. x \in T
  BY <1>1
<1>3. <<x>> \in Seq(T) /\ Len(<<x>>) = 1 /\ <<x>>[1] = x
  BY <1>2
<1>4. \A i \in 1 .. Len(q) : q[i] = <<x>>[i]
  BY <1>1, <1>3
<1> HIDE DEF x
<1>5. q = <<x>>
  BY <1>1, <1>3, <1>4, SeqEqual
<1> QED BY <1>2, <1>5

\* The elements left are those there were, of the ones that count.
LEMMA OnlyRange ==
  ASSUME NEW T, NEW s \in Seq(T), NEW S
  PROVE  Range(Only(s, S)) = Range(s) \cap S
<1> DEFINE P == {q \in Seq(T) : Range(Only(q, S)) = Range(q) \cap S}
<1>1. <<>> \in P
  <2>1. Only(<<>>, S) = <<>>
    BY OnlyEmpty, Zenon
  <2>2. Range(<<>>) = {} /\ <<>> \in Seq(T)
    BY DEF Range
  <2> QED BY <2>1, <2>2
<1>2. ASSUME NEW q \in Seq(T), NEW x \in T, q \in P PROVE Append(q, x) \in P
  <2> DEFINE k == Only(q, S)  l == Only(Append(q, x), S)
  <2>1. l = IF x \in S THEN Append(k, x) ELSE k
    BY OnlyAppend
  <2>2. k \in Seq(T) /\ Append(q, x) \in Seq(T)
    <3>1. k \in Seq(T \cap S) /\ T \cap S \subseteq T
      BY OnlyType
    <3> QED BY <3>1, SeqMonotonic
  <2>3. Range(k) = Range(q) \cap S
    BY <1>2
  <2> HIDE DEF k, l
  <2>4. Range(Append(q, x)) = Range(q) \cup {x} /\ Range(Append(k, x)) = Range(k) \cup {x}
    BY <2>2, RangeAppend
  <2>5. Range(l) = Range(Append(q, x)) \cap S
    <3>1. CASE x \in S
      <4>1. l = Append(k, x)
        BY <2>1, <3>1
      <4> QED BY <2>3, <2>4, <3>1, <4>1
    <3>2. CASE x \notin S
      <4>1. l = k
        BY <2>1, <3>2
      <4> QED BY <2>3, <2>4, <3>2, <4>1
    <3> QED BY <3>1, <3>2
  <2> QED BY <2>2, <2>5 DEF l
<1> HIDE DEF P
<1>3. Seq(T) \subseteq P
  BY <1>1, <1>2, SequenceInduction
<1> QED BY <1>3 DEF P

\* None is lost between the two halves of a set.
LEMMA OnlySplit ==
  ASSUME NEW T, NEW s \in Seq(T), NEW S
  PROVE  Len(Only(s, S)) + Len(Only(s, T \ S)) = Len(s)
<1> DEFINE R == T \ S
           P == {q \in Seq(T) : Len(Only(q, S)) + Len(Only(q, R)) = Len(q)}
<1>0. R = T \ S
  OBVIOUS
<1> HIDE DEF R
<1>1. <<>> \in P
  <2>1. Only(<<>>, S) = <<>> /\ Only(<<>>, R) = <<>>
    BY OnlyEmpty, Zenon
  <2> QED BY <2>1
<1>2. ASSUME NEW q \in Seq(T), NEW x \in T, q \in P PROVE Append(q, x) \in P
  <2> DEFINE k == Only(q, S)  m == Only(q, R)
             kx == Only(Append(q, x), S)  mx == Only(Append(q, x), R)
  <2>1. /\ kx = IF x \in S THEN Append(k, x) ELSE k
        /\ mx = IF x \in R THEN Append(m, x) ELSE m
    BY OnlyAppend
  <2>2. k \in Seq(T \cap S) /\ m \in Seq(T \cap R)
    BY OnlyType
  <2>3. k \in Seq(T) /\ m \in Seq(T)
    <3>1. T \cap S \subseteq T /\ T \cap R \subseteq T
      OBVIOUS
    <3> QED BY <2>2, <3>1, SeqMonotonic
  <2>4. Len(k) + Len(m) = Len(q)
    BY <1>2
  <2> HIDE DEF k, m, kx, mx
  <2>5. /\ Len(Append(k, x)) = Len(k) + 1 /\ Len(Append(m, x)) = Len(m) + 1
        /\ Len(Append(q, x)) = Len(q) + 1 /\ Append(q, x) \in Seq(T)
        /\ Len(k) \in Nat /\ Len(m) \in Nat
    BY <2>3, AppendProperties
  <2>6. x \in R <=> x \notin S
    BY <1>0
  <2>7. Len(kx) + Len(mx) = Len(k) + Len(m) + 1
    <3>1. CASE x \in S
      <4>1. kx = Append(k, x) /\ mx = m
        BY <2>1, <2>6, <3>1
      <4> QED BY <2>5, <4>1
    <3>2. CASE x \notin S
      <4>1. kx = k /\ mx = Append(m, x)
        BY <2>1, <2>6, <3>2
      <4> QED BY <2>5, <4>1
    <3> QED BY <3>1, <3>2
  <2>8. Len(kx) + Len(mx) = Len(Append(q, x))
    BY <2>4, <2>5, <2>7
  <2> QED BY <2>5, <2>8 DEF kx, mx
<1> HIDE DEF P
<1>3. Seq(T) \subseteq P
  BY <1>1, <1>2, SequenceInduction
<1> QED BY <1>3 DEF P, R

\* Which places of s those of o come from, in order.
Embeds(e, o, s) ==
  /\ e \in [1 .. Len(o) -> 1 .. Len(s)]
  /\ \A i \in 1 .. Len(o) : o[i] = s[e[i]]
  /\ \A i, j \in 1 .. Len(o) : i < j => e[i] < e[j]

\* What is left is in the order it was in.
LEMMA OnlyOrder ==
  ASSUME NEW T, NEW s \in Seq(T), NEW S
  PROVE  \E e : Embeds(e, Only(s, S), s)
<1> DEFINE P == {q \in Seq(T) : \E e : Embeds(e, Only(q, S), q)}
<1>1. <<>> \in P
  <2>1. Only(<<>>, S) = <<>>
    BY OnlyEmpty, Zenon
  <2>2. Embeds([i \in 1 .. 0 |-> i], <<>>, <<>>)
    BY DEF Embeds
  <2>3. \E e : Embeds(e, Only(<<>>, S), <<>>)
    BY <2>1, <2>2, Zenon
  <2>4. <<>> \in Seq(T)
    OBVIOUS
  <2> QED BY <2>3, <2>4
<1>2. ASSUME NEW q \in Seq(T), NEW x \in T, q \in P PROVE Append(q, x) \in P
  <2> DEFINE k == Only(q, S)  l == Only(Append(q, x), S)  qx == Append(q, x)
  <2>1. l = IF x \in S THEN Append(k, x) ELSE k
    BY OnlyAppend
  <2>2. k \in Seq(T)
    <3>1. k \in Seq(T \cap S) /\ T \cap S \subseteq T
      BY OnlyType
    <3> QED BY <3>1, SeqMonotonic
  <2>3. /\ qx \in Seq(T) /\ Len(qx) = Len(q) + 1 /\ Len(q) \in Nat
        /\ \A i \in 1 .. Len(q) : qx[i] = q[i]
        /\ qx[Len(q) + 1] = x
    BY AppendProperties
  <2>4. PICK e : Embeds(e, k, q)
    BY <1>2
  <2> HIDE DEF k, l, qx
  <2>5. CASE x \in S
    <3> DEFINE n == Len(k)
               d == [i \in 1 .. (n + 1) |-> IF i <= n THEN e[i] ELSE Len(q) + 1]
    <3>1. l = Append(k, x)
      BY <2>1, <2>5
    <3>2. Len(l) = n + 1 /\ n \in Nat /\ l[n + 1] = x /\ \A i \in 1 .. n : l[i] = k[i]
      BY <2>2, <3>1, AppendProperties
    <3>3. \A i \in 1 .. n : e[i] \in 1 .. Len(q) /\ k[i] = q[e[i]]
      BY <2>4 DEF Embeds
    <3>4. \A i, j \in 1 .. n : i < j => e[i] < e[j]
      BY <2>4 DEF Embeds
    <3>5. /\ \A i \in 1 .. n : d[i] = e[i]
          /\ d[n + 1] = Len(q) + 1
          /\ \A i \in 1 .. (n + 1) : i \in 1 .. n \/ i = n + 1
      BY <3>2
    <3>6. \A i \in 1 .. (n + 1) : d[i] \in 1 .. Len(qx)
      BY <2>3, <3>3, <3>5
    <3>7. d \in [1 .. (n + 1) -> 1 .. Len(qx)]
      BY <3>6
    <3> HIDE DEF d, n
    <3>8. ASSUME NEW i \in 1 .. (n + 1) PROVE l[i] = qx[d[i]]
      <4>1. CASE i \in 1 .. n
        <5>1. e[i] \in 1 .. Len(q) /\ k[i] = q[e[i]]
          BY <3>3, <4>1
        <5>2. qx[e[i]] = q[e[i]]
          BY <2>3, <5>1
        <5>3. d[i] = e[i] /\ l[i] = k[i]
          BY <3>2, <3>5, <4>1
        <5> QED BY <5>1, <5>2, <5>3
      <4>2. CASE i = n + 1
        BY <2>3, <3>2, <3>5, <4>2
      <4> QED BY <3>5, <4>1, <4>2
    <3>9. ASSUME NEW i \in 1 .. (n + 1), NEW j \in 1 .. (n + 1), i < j PROVE d[i] < d[j]
      <4>1. i \in 1 .. n
        BY <3>2, <3>9
      <4>2. CASE j \in 1 .. n
        BY <3>4, <3>5, <3>9, <4>1, <4>2
      <4>3. CASE j = n + 1
        <5>1. d[i] \in 1 .. Len(q) /\ d[j] = Len(q) + 1
          BY <3>3, <3>5, <4>1, <4>3
        <5> QED BY <2>3, <5>1
      <4> QED BY <3>5, <4>2, <4>3
    <3>10. Embeds(d, l, qx)
      BY <3>2, <3>7, <3>8, <3>9 DEF Embeds
    <3> QED BY <2>3, <3>10 DEF l, qx
  <2>6. CASE x \notin S
    <3>1. l = k
      BY <2>1, <2>6
    <3>2. 1 .. Len(q) \subseteq 1 .. Len(qx)
      BY <2>3
    <3>3. e \in [1 .. Len(k) -> 1 .. Len(qx)]
      BY <2>4, <3>2 DEF Embeds
    <3>4. \A i \in 1 .. Len(k) : k[i] = qx[e[i]]
      BY <2>3, <2>4 DEF Embeds
    <3>5. Embeds(e, k, qx)
      BY <2>4, <3>3, <3>4 DEF Embeds
    <3> QED BY <2>3, <3>1, <3>5 DEF l, qx
  <2> QED BY <2>5, <2>6
<1> HIDE DEF P
<1>3. Seq(T) \subseteq P
  BY <1>1, <1>2, SequenceInduction
<1> QED BY <1>3 DEF P

\* Where the elements of a concatenation come from.
LEMMA ConcatAt ==
  ASSUME NEW T, NEW p \in Seq(T), NEW q \in Seq(T)
  PROVE  /\ p \o q \in Seq(T) /\ Len(p \o q) = Len(p) + Len(q)
         /\ Len(p) \in Nat /\ Len(q) \in Nat
         /\ DOMAIN (p \o q) = 1 .. (Len(p) + Len(q))
         /\ \A i \in 1 .. Len(p) : i \in 1 .. (Len(p) + Len(q)) /\ (p \o q)[i] = p[i]
         /\ \A i \in 1 .. Len(q) : /\ Len(p) + i \in 1 .. (Len(p) + Len(q))
                                   /\ (p \o q)[Len(p) + i] = q[i]
         /\ \A i \in 1 .. (Len(p) + Len(q)) :
              i \in 1 .. Len(p) \/ i - Len(p) \in 1 .. Len(q)
<1> DEFINE r == p \o q  m == Len(p)  n == Len(q)
<1>1. /\ r \in Seq(T) /\ Len(r) = m + n
      /\ \A i \in 1 .. m + n : r[i] = IF i <= m THEN p[i] ELSE q[i - m]
  BY ConcatProperties
<1>2. m \in Nat /\ n \in Nat /\ DOMAIN r = 1 .. Len(r)
  <2>1. p \in Seq(T) /\ q \in Seq(T)
    OBVIOUS
  <2> QED BY <1>1, <2>1, LenProperties
<1> HIDE DEF r, m, n
<1>3. ASSUME NEW i \in 1 .. m PROVE i \in 1 .. (m + n) /\ r[i] = p[i]
  <2>1. i \in 1 .. (m + n) /\ i <= m
    BY <1>2
  <2> QED BY <1>1, <2>1
<1>4. ASSUME NEW i \in 1 .. n PROVE m + i \in 1 .. (m + n) /\ r[m + i] = q[i]
  <2>1. m + i \in 1 .. (m + n) /\ ~(m + i <= m) /\ (m + i) - m = i
    BY <1>2
  <2>2. r[m + i] = q[(m + i) - m]
    BY <1>1, <2>1, Zenon
  <2> QED BY <2>1, <2>2
<1>5. ASSUME NEW i \in 1 .. (m + n) PROVE i \in 1 .. m \/ i - m \in 1 .. n
  BY <1>2
<1>6. DOMAIN r = 1 .. (m + n)
  BY <1>1, <1>2
<1> QED BY <1>1, <1>2, <1>3, <1>4, <1>5, <1>6, Zenon DEF r, m, n

\* The same, of one element.
LEMMA ConcatCases ==
  ASSUME NEW T, NEW p \in Seq(T), NEW q \in Seq(T), NEW i \in 1 .. Len(p \o q)
  PROVE  \/ i \in 1 .. Len(p) /\ (p \o q)[i] = p[i]
         \/ \E j \in 1 .. Len(q) : i = Len(p) + j /\ (p \o q)[i] = q[j]
<1> DEFINE r == p \o q  m == Len(p)  n == Len(q)
<1>1. /\ Len(r) = m + n /\ m \in Nat /\ n \in Nat
      /\ \A k \in 1 .. m : k \in 1 .. (m + n) /\ r[k] = p[k]
      /\ \A k \in 1 .. n : m + k \in 1 .. (m + n) /\ r[m + k] = q[k]
  BY ConcatAt
<1>2. i \in 1 .. Len(r)
  OBVIOUS
<1> HIDE DEF r, m, n
<1>3. CASE i <= m
  <2>1. i \in 1 .. m
    BY <1>1, <1>2, <1>3
  <2> QED BY <1>1, <2>1, Zenon DEF r, m
<1>4. CASE ~(i <= m)
  <2>1. i - m \in 1 .. n /\ i = m + (i - m)
    BY <1>1, <1>2, <1>4
  <2>2. r[m + (i - m)] = q[i - m]
    BY <1>1, <2>1, Zenon
  <2>3. r[i] = q[i - m]
    BY <2>1, <2>2, Zenon
  <2> QED BY <2>1, <2>3, Zenon DEF r, m, n
<1> QED BY <1>3, <1>4

\* Every element is in relation R to every later one.
Linked(q, R) == \A i, j \in DOMAIN q : i < j => <<q[i], q[j]>> \in R

LEMMA LinkedFew ==
  ASSUME NEW x, NEW R
  PROVE  Linked(<<>>, R) /\ Linked(<<x>>, R)
<1>1. DOMAIN <<x>> = {1} /\ ~(1 < 1)
  OBVIOUS
<1>2. Linked(<<x>>, R)
  BY <1>1, Zenon DEF Linked
<1>3. Linked(<<>>, R)
  BY DEF Linked
<1> QED BY <1>2, <1>3

\* A concatenation is linked when its parts are, and the one to the other.
LEMMA LinkedConcat ==
  ASSUME NEW T, NEW p \in Seq(T), NEW q \in Seq(T), NEW R
  PROVE  Linked(p \o q, R) <=>
           /\ Linked(p, R) /\ Linked(q, R)
           /\ \A x \in Range(p), y \in Range(q) : <<x, y>> \in R
<1> DEFINE r == p \o q  m == Len(p)  n == Len(q)
<1>1. /\ m \in Nat /\ n \in Nat /\ DOMAIN r = 1 .. (m + n)
      /\ \A i \in 1 .. m : i \in 1 .. (m + n) /\ r[i] = p[i]
      /\ \A i \in 1 .. n : m + i \in 1 .. (m + n) /\ r[m + i] = q[i]
      /\ \A i \in 1 .. (m + n) : i \in 1 .. m \/ i - m \in 1 .. n
  BY ConcatAt
<1>2. DOMAIN p = 1 .. m /\ DOMAIN q = 1 .. n
  BY LenProperties
<1> HIDE DEF r, m, n
<1>3. ASSUME Linked(r, R)
      PROVE  /\ Linked(p, R) /\ Linked(q, R)
             /\ \A x \in Range(p), y \in Range(q) : <<x, y>> \in R
  <2>1. \A i, j \in 1 .. (m + n) : i < j => <<r[i], r[j]>> \in R
    BY <1>1, <1>3 DEF Linked
  <2>2. Linked(p, R)
    <3>1. ASSUME NEW i \in 1 .. m, NEW j \in 1 .. m, i < j PROVE <<p[i], p[j]>> \in R
      <4>1. /\ i \in 1 .. (m + n) /\ j \in 1 .. (m + n)
            /\ r[i] = p[i] /\ r[j] = p[j]
        BY <1>1
      <4>2. <<r[i], r[j]>> \in R
        BY <2>1, <3>1, <4>1
      <4> QED BY <4>1, <4>2
    <3> QED BY <1>2, <3>1 DEF Linked
  <2>3. Linked(q, R)
    <3>1. ASSUME NEW i \in 1 .. n, NEW j \in 1 .. n, i < j PROVE <<q[i], q[j]>> \in R
      <4>1. /\ m + i \in 1 .. (m + n) /\ m + j \in 1 .. (m + n) /\ m + i < m + j
            /\ r[m + i] = q[i] /\ r[m + j] = q[j]
        BY <1>1, <3>1
      <4>2. <<r[m + i], r[m + j]>> \in R
        BY <2>1, <4>1
      <4> QED BY <4>1, <4>2
    <3> QED BY <1>2, <3>1 DEF Linked
  <2>4. ASSUME NEW x \in Range(p), NEW y \in Range(q) PROVE <<x, y>> \in R
    <3>1. PICK i \in 1 .. m : x = p[i]
      BY <1>2 DEF Range
    <3>2. PICK j \in 1 .. n : y = q[j]
      BY <1>2 DEF Range
    <3>3. /\ i \in 1 .. (m + n) /\ m + j \in 1 .. (m + n) /\ i < m + j
          /\ r[i] = x /\ r[m + j] = y
      BY <1>1, <3>1, <3>2
    <3>4. <<r[i], r[m + j]>> \in R
      BY <2>1, <3>3
    <3> QED BY <3>3, <3>4
  <2> QED BY <2>2, <2>3, <2>4
<1>4. ASSUME Linked(p, R), Linked(q, R),
             \A x \in Range(p), y \in Range(q) : <<x, y>> \in R
      PROVE  Linked(r, R)
  <2>1. ASSUME NEW i \in 1 .. (m + n), NEW j \in 1 .. (m + n), i < j
        PROVE  <<r[i], r[j]>> \in R
    <3>1. CASE i \in 1 .. m /\ j \in 1 .. m
      <4>1. r[i] = p[i] /\ r[j] = p[j]
        BY <1>1, <3>1
      <4> QED BY <1>2, <1>4, <2>1, <3>1, <4>1 DEF Linked
    <3>2. CASE i \in 1 .. m /\ j - m \in 1 .. n
      <4>1. m + (j - m) = j
        BY <1>1
      <4>2. r[i] = p[i] /\ r[j] = q[j - m]
        BY <1>1, <3>2, <4>1
      <4>3. p[i] \in Range(p) /\ q[j - m] \in Range(q)
        BY <1>2, <3>2 DEF Range
      <4> QED BY <1>4, <4>2, <4>3
    <3>3. CASE i - m \in 1 .. n /\ j - m \in 1 .. n
      <4>1. m + (i - m) = i /\ m + (j - m) = j /\ i - m < j - m
        BY <1>1, <2>1
      <4>2. r[i] = q[i - m] /\ r[j] = q[j - m]
        BY <1>1, <3>3, <4>1
      <4>3. <<q[i - m], q[j - m]>> \in R
        BY <1>2, <1>4, <3>3, <4>1 DEF Linked
      <4> QED BY <4>2, <4>3
    <3>4. ~(i - m \in 1 .. n /\ j \in 1 .. m)
      BY <1>1, <2>1
    <3> QED BY <1>1, <3>1, <3>2, <3>3, <3>4
  <2> QED BY <1>1, <2>1 DEF Linked
<1> QED BY <1>3, <1>4 DEF r

LEMMA LinkedOnly ==
  ASSUME NEW T, NEW q \in Seq(T), NEW S, NEW R, Linked(q, R)
  PROVE  Linked(Only(q, S), R)
<1> DEFINE o == Only(q, S)
<1>1. PICK e : Embeds(e, o, q)
  BY OnlyOrder
<1>2. o \in Seq(T \cap S)
  BY OnlyType
<1>3. DOMAIN o = 1 .. Len(o) /\ DOMAIN q = 1 .. Len(q)
  BY <1>2, LenProperties
<1> HIDE DEF o
<1>4. ASSUME NEW i \in 1 .. Len(o), NEW j \in 1 .. Len(o), i < j
      PROVE  <<o[i], o[j]>> \in R
  <2>1. /\ e[i] \in DOMAIN q /\ e[j] \in DOMAIN q /\ e[i] < e[j]
        /\ o[i] = q[e[i]] /\ o[j] = q[e[j]]
    BY <1>1, <1>3, <1>4 DEF Embeds
  <2>2. <<q[e[i]], q[e[j]]>> \in R
    BY <2>1 DEF Linked
  <2> QED BY <2>1, <2>2
<1>5. Linked(o, R)
  BY <1>3, <1>4 DEF Linked
<1> QED BY <1>5 DEF o
=============================================================================
