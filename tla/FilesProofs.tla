------------------------------ MODULE FilesProofs ------------------------------
(***************************************************************************)
(* The paths of a run mean what they meant, and stay where they should, for *)
(* any workspace, any names and any edits.                                 *)
(*                                                                         *)
(* Walk and Collapse are recursions over the parts of a path; what they do  *)
(* with one part more (WalkAppend, CollapseAppend) is all the rest needs.   *)
(***************************************************************************)
EXTENDS SidecarFiles, SequenceLemmas

-----------------------------------------------------------------------------
(* The two recursions.                                                     *)

\* A sequence is its front and its last element.
LEMMA FrontFacts ==
  ASSUME NEW T, NEW s \in Seq(T), s # <<>>
  PROVE  /\ Front(s) \in Seq(T) /\ Len(Front(s)) = Len(s) - 1
         /\ s = Append(Front(s), s[Len(s)]) /\ s[Len(s)] \in T
<1> DEFINE n == Len(s)
<1>1. n \in Nat /\ n # 0 /\ n \in 1 .. n /\ 1 \in 1 .. n /\ n - 1 \in 0 .. n
  OBVIOUS
<1>2. s[n] \in T
  BY <1>1
<1>3. \A i \in 1 .. n - 1 : s[i] \in T
  BY <1>1
<1>4. Front(s) \in Seq(T) /\ Len(Front(s)) = n - 1
  <2>1. /\ SubSeq(s, 1, n - 1) \in Seq(T)
        /\ Len(SubSeq(s, 1, n - 1)) = IF 1 <= n - 1 THEN (n - 1) - 1 + 1 ELSE 0
    <3>1. 1 \in Int /\ n - 1 \in Int
      BY <1>1
    <3> HIDE DEF n
    <3> QED BY ONLY <1>3, <3>1, SubSeqProperties
  <2> DEFINE l == Len(SubSeq(s, 1, n - 1))
  <2>2. l = IF 1 <= n - 1 THEN (n - 1) - 1 + 1 ELSE 0
    BY <2>1
  <2> HIDE DEF l, n
  <2>3. l = n - 1
    BY ONLY <1>1, <2>2
  <2> QED BY <2>1, <2>3 DEF Front, l, n
<1>5. s = Front(s) \o <<s[n]>>
  <2>1. SubSeq(s, 1, n) = SubSeq(s, 1, n - 1) \o <<s[n]>>
    BY <1>1, SubSeqRecursiveSecond
  <2>2. SubSeq(s, 1, n) = s
    BY SubSeqFull
  <2> QED BY <2>1, <2>2 DEF Front
<1>6. Append(Front(s), s[n]) = Front(s) \o <<s[n]>>
  <2> HIDE DEF n
  <2> QED BY <1>2, <1>4, AppendIsConcat
<1> QED BY <1>2, <1>4, <1>5, <1>6

\* The front of an appended sequence is the sequence.
LEMMA FrontAppend ==
  ASSUME NEW T, NEW s \in Seq(T), NEW x \in T
  PROVE  Front(Append(s, x)) = s /\ Append(s, x) # <<>>
<1> DEFINE t == Append(s, x)
<1>1. t \in Seq(T) /\ t # <<>>
  BY AppendProperties
<1> HIDE DEF t
<1>2. /\ Front(t) \in Seq(T) /\ t = Append(Front(t), t[Len(t)]) /\ t[Len(t)] \in T
  BY <1>1, FrontFacts
<1>3. Front(t) = s
  BY <1>2, AppendInjective DEF t
<1> QED BY <1>1, <1>3 DEF t

\* A step along a path leads from a place to a place.
LEMMA StepType ==
  ASSUME NEW place \in PlaceName, NEW part \in Part
  PROVE  Step(place, part) \in PlaceName
<1>1. Above(place) \in PlaceName
  <2>1. CASE place = <<>>
    BY <2>1 DEF Above
  <2>2. CASE place # <<>>
    BY <2>2, FrontFacts DEF Above, PlaceName
  <2> QED BY <2>1, <2>2
<1>2. Append(place, part) \in PlaceName
  BY AppendProperties DEF PlaceName
<1> QED BY <1>1, <1>2 DEF Step

\* The places after one more part.
Further(at, part) == {Step(p, part) : p \in {q \in at : IsDir(q)}}

\* f is the recursive function in Walk ...
Strides(f, from, parts) ==
  /\ f[0] = {from}
  /\ \A i \in 1 .. Len(parts) : f[i] = Further(f[i - 1], parts[i])
  /\ Walk(from, parts) = f[Len(parts)]

\* ... which is there.
LEMMA WalkRecursion ==
  ASSUME NEW from \in PlaceName, NEW parts \in PlaceName
  PROVE  \E f \in [0 .. Len(parts) -> SUBSET PlaceName] : Strides(f, from, parts)
<1> DEFINE V == SUBSET PlaceName
           step == [i \in 1 .. Len(parts) |-> [at \in V |-> Further(at, parts[i])]]
           Body(f, n) == IF n = 0 THEN {from}
                         ELSE {Step(p, parts[n]) : p \in {q \in f[n - 1] : IsDir(q)}}
           Defines(f) == f = [n \in 0 .. Len(parts) |-> Body(f, n)]
           walked == CHOOSE f : Defines(f)
<1>1. Len(parts) \in Nat /\ {from} \in V /\ \A i \in 1 .. Len(parts) : parts[i] \in Part
  BY DEF PlaceName
<1>2. step \in [1 .. Len(parts) -> [V -> V]]
  <2>1. ASSUME NEW i \in 1 .. Len(parts), NEW at \in V PROVE Further(at, parts[i]) \in V
    BY <1>1, StepType DEF Further
  <2> QED BY <2>1
<1>3. PICK g \in [0 .. Len(parts) -> V] : Recurs(g, Len(parts), {from}, step)
  <2> HIDE DEF V, step
  <2> QED BY <1>1, <1>2, RecursionExists
<1>4. ASSUME NEW n \in 0 .. Len(parts) PROVE g[n] = Body(g, n)
  <2>1. CASE n = 0
    BY <1>3, <2>1 DEF Recurs
  <2>2. CASE n # 0
    <3>1. n \in 1 .. Len(parts) /\ n - 1 \in 0 .. Len(parts)
      BY <1>1, <2>2
    <3>2. g[n - 1] \in V
      BY <3>1
    <3>3. g[n] = step[n][g[n - 1]]
      BY <1>3, <3>1 DEF Recurs
    <3>4. g[n] = Further(g[n - 1], parts[n])
      BY <3>1, <3>2, <3>3
    <3> QED BY <2>2, <3>4 DEF Further
  <2> QED BY <2>1, <2>2
<1>5. Defines(g)
  BY <1>4
<1>6. Defines(walked)
  <2> HIDE DEF Defines
  <2> QED BY <1>5
<1>7. Walk(from, parts) = walked[Len(parts)]
  BY DEF Walk
<1> HIDE DEF walked
<1>8. walked[0] = {from}
  BY <1>1, <1>6
<1>9. ASSUME NEW i \in 1 .. Len(parts) PROVE walked[i] = Further(walked[i - 1], parts[i])
  <2>1. walked = [n \in 0 .. Len(parts) |-> Body(walked, n)]
    BY <1>6
  <2>2. i \in 0 .. Len(parts) /\ i # 0
    OBVIOUS
  <2>3. walked[i] = Body(walked, i)
    BY <2>1, <2>2
  <2> QED BY <2>2, <2>3 DEF Further
<1>10. ASSUME NEW i \in 1 .. Len(parts), walked[i - 1] = g[i - 1] PROVE walked[i] = g[i]
  <2>1. i \in 0 .. Len(parts) /\ i # 0
    OBVIOUS
  <2>2. g[i] = Further(g[i - 1], parts[i])
    BY <1>4, <2>1 DEF Further
  <2> QED BY <1>9, <1>10, <2>2
<1>11. \A i \in 0 .. Len(parts) : walked[i] = g[i]
  <2>1. walked[0] = g[0]
    BY <1>3, <1>8 DEF Recurs
  <2>2. Alike(walked, g, Len(parts))
    BY <1>10, <2>1 DEF Alike
  <2> QED BY <1>1, <2>2, RecursionUnique
<1>12. walked \in [0 .. Len(parts) -> V]
  <2>1. walked = [n \in 0 .. Len(parts) |-> Body(walked, n)]
    BY <1>6
  <2>2. \A i \in 0 .. Len(parts) : walked[i] \in V
    BY <1>11
  <2> HIDE DEF Body, V
  <2> QED BY <2>1, <2>2
<1> QED BY <1>7, <1>8, <1>9, <1>12 DEF Strides

\* A path without parts leads nowhere else.
LEMMA WalkEmpty == \A from \in PlaceName : Walk(from, <<>>) = {from}
<1> TAKE from \in PlaceName
<1>1. <<>> \in PlaceName /\ Len(<<>>) = 0
  BY DEF PlaceName
<1>2. PICK f : Strides(f, from, <<>>)
  BY <1>1, WalkRecursion
<1> QED BY <1>1, <1>2 DEF Strides

\* One part more is one step more, from a directory.
LEMMA WalkAppend ==
  ASSUME NEW from \in PlaceName, NEW parts \in PlaceName, NEW x \in Part
  PROVE  /\ Walk(from, parts) \subseteq PlaceName
         /\ Walk(from, Append(parts, x)) = Further(Walk(from, parts), x)
<1> DEFINE more == Append(parts, x)  n == Len(parts)
<1>1. /\ more \in PlaceName /\ Len(more) = n + 1 /\ n \in Nat /\ more[n + 1] = x
      /\ \A i \in 1 .. n : more[i] = parts[i]
  BY DEF PlaceName
<1> HIDE DEF more
<1>2. PICK f \in [0 .. n -> SUBSET PlaceName] : Strides(f, from, parts)
  BY WalkRecursion
<1>3. PICK g : Strides(g, from, more)
  BY <1>1, WalkRecursion
<1>4. \A i \in 0 .. n : f[i] = g[i]
  <2>1. ASSUME NEW i \in 1 .. n, f[i - 1] = g[i - 1] PROVE f[i] = g[i]
    <3>1. f[i] = Further(f[i - 1], parts[i])
      BY <1>2 DEF Strides
    <3>2. i \in 1 .. Len(more)
      BY <1>1
    <3>3. g[i] = Further(g[i - 1], more[i])
      BY <1>3, <3>2 DEF Strides
    <3> QED BY <1>1, <2>1, <3>1, <3>3
  <2>2. f[0] = g[0] /\ n \in Nat
    BY <1>1, <1>2, <1>3 DEF Strides
  <2> HIDE DEF n
  <2>3. Alike(f, g, n)
    BY <2>1, <2>2 DEF Alike
  <2> QED BY <2>2, <2>3, RecursionUnique
<1>5. g[n + 1] = Further(g[n], x)
  <2>1. n + 1 \in 1 .. Len(more) /\ (n + 1) - 1 = n
    BY <1>1
  <2>2. g[n + 1] = Further(g[(n + 1) - 1], more[n + 1])
    BY <1>3, <2>1 DEF Strides
  <2> QED BY <1>1, <2>1, <2>2
<1>6. f[n] = g[n] /\ f[n] \in SUBSET PlaceName
  BY <1>1, <1>4
<1>7. Walk(from, parts) = f[n] /\ Walk(from, more) = g[n + 1]
  BY <1>1, <1>2, <1>3 DEF Strides
<1> QED BY <1>5, <1>6, <1>7 DEF more

\* The outcomes of Collapse after one more part.
Reduced(done, part) == {Step(d, part) : d \in {e \in done : e # <<>> \/ part # ".."}}

Reduces(f, parts) ==
  /\ f[0] = {<<>>}
  /\ \A i \in 1 .. Len(parts) : f[i] = Reduced(f[i - 1], parts[i])
  /\ Collapse(parts) = f[Len(parts)]

\* Collapse is the last value of its recursion.
LEMMA CollapseRecursion ==
  ASSUME NEW parts \in PlaceName
  PROVE  \E f \in [0 .. Len(parts) -> SUBSET PlaceName] : Reduces(f, parts)
<1> DEFINE V == SUBSET PlaceName
           step == [i \in 1 .. Len(parts) |-> [done \in V |-> Reduced(done, parts[i])]]
           Body(f, n) ==
             IF n = 0 THEN {<<>>}
             ELSE {Step(d, parts[n]) : d \in {e \in f[n - 1] : e # <<>> \/ parts[n] # ".."}}
           Defines(f) == f = [n \in 0 .. Len(parts) |-> Body(f, n)]
           reached == CHOOSE f : Defines(f)
<1>1. Len(parts) \in Nat /\ {<<>>} \in V /\ \A i \in 1 .. Len(parts) : parts[i] \in Part
  BY DEF PlaceName
<1>2. step \in [1 .. Len(parts) -> [V -> V]]
  <2>1. ASSUME NEW i \in 1 .. Len(parts), NEW done \in V PROVE Reduced(done, parts[i]) \in V
    BY <1>1, StepType DEF Reduced
  <2> QED BY <2>1
<1>3. PICK g \in [0 .. Len(parts) -> V] : Recurs(g, Len(parts), {<<>>}, step)
  <2> DEFINE base == {<<>>}
  <2>1. base \in V
    BY <1>1
  <2> HIDE DEF V, step, base
  <2>2. \E g \in [0 .. Len(parts) -> V] : Recurs(g, Len(parts), base, step)
    BY <1>1, <1>2, <2>1, RecursionExists
  <2> QED BY <2>2 DEF base
<1>4. ASSUME NEW n \in 0 .. Len(parts) PROVE g[n] = Body(g, n)
  <2>1. CASE n = 0
    BY <1>3, <2>1 DEF Recurs
  <2>2. CASE n # 0
    <3>1. n \in 1 .. Len(parts) /\ n - 1 \in 0 .. Len(parts)
      BY <1>1, <2>2
    <3>2. g[n - 1] \in V
      BY <3>1
    <3>3. g[n] = step[n][g[n - 1]]
      BY <1>3, <3>1 DEF Recurs
    <3>4. g[n] = Reduced(g[n - 1], parts[n])
      BY <3>1, <3>2, <3>3
    <3> QED BY <2>2, <3>4 DEF Reduced
  <2> QED BY <2>1, <2>2
<1>5. Defines(g)
  BY <1>4
<1>6. Defines(reached)
  <2> HIDE DEF Defines
  <2> QED BY <1>5
<1>7. Collapse(parts) = reached[Len(parts)]
  BY DEF Collapse
<1> HIDE DEF reached
<1>8. reached[0] = {<<>>}
  BY <1>1, <1>6
<1>9. ASSUME NEW i \in 1 .. Len(parts) PROVE reached[i] = Reduced(reached[i - 1], parts[i])
  <2>1. reached = [n \in 0 .. Len(parts) |-> Body(reached, n)]
    BY <1>6
  <2>2. i \in 0 .. Len(parts) /\ i # 0
    OBVIOUS
  <2>3. reached[i] = Body(reached, i)
    BY <2>1, <2>2
  <2> QED BY <2>2, <2>3 DEF Reduced
<1>10. ASSUME NEW i \in 1 .. Len(parts), reached[i - 1] = g[i - 1] PROVE reached[i] = g[i]
  <2>1. i \in 0 .. Len(parts) /\ i # 0
    OBVIOUS
  <2>2. g[i] = Reduced(g[i - 1], parts[i])
    BY <1>4, <2>1 DEF Reduced
  <2> QED BY <1>9, <1>10, <2>2
<1>11. \A i \in 0 .. Len(parts) : reached[i] = g[i]
  <2>1. reached[0] = g[0]
    BY <1>3, <1>8 DEF Recurs
  <2>2. Alike(reached, g, Len(parts))
    BY <1>10, <2>1 DEF Alike
  <2> QED BY <1>1, <2>2, RecursionUnique
<1>12. reached \in [0 .. Len(parts) -> V]
  <2>1. reached = [n \in 0 .. Len(parts) |-> Body(reached, n)]
    BY <1>6
  <2>2. \A i \in 0 .. Len(parts) : reached[i] \in V
    BY <1>11
  <2> HIDE DEF Body, V
  <2> QED BY <2>1, <2>2
<1> QED BY <1>7, <1>8, <1>9, <1>12 DEF Reduces

\* Nothing collapses to nothing.
LEMMA CollapseEmpty == Collapse(<<>>) = {<<>>}
<1>1. <<>> \in PlaceName /\ Len(<<>>) = 0
  BY DEF PlaceName
<1>2. PICK f : Reduces(f, <<>>)
  BY <1>1, CollapseRecursion
<1> QED BY <1>1, <1>2 DEF Reduces

\* One part more is one step more, unless it leads above the start.
LEMMA CollapseAppend ==
  ASSUME NEW parts \in PlaceName, NEW x \in Part
  PROVE  /\ Collapse(parts) \subseteq PlaceName
         /\ Collapse(Append(parts, x)) = Reduced(Collapse(parts), x)
<1> DEFINE more == Append(parts, x)  n == Len(parts)
<1>1. /\ more \in PlaceName /\ Len(more) = n + 1 /\ n \in Nat /\ more[n + 1] = x
      /\ \A i \in 1 .. n : more[i] = parts[i]
  BY DEF PlaceName
<1> HIDE DEF more
<1>2. PICK f \in [0 .. n -> SUBSET PlaceName] : Reduces(f, parts)
  BY CollapseRecursion
<1>3. PICK g : Reduces(g, more)
  BY <1>1, CollapseRecursion
<1>4. \A i \in 0 .. n : f[i] = g[i]
  <2>1. ASSUME NEW i \in 1 .. n, f[i - 1] = g[i - 1] PROVE f[i] = g[i]
    <3>1. f[i] = Reduced(f[i - 1], parts[i])
      BY <1>2 DEF Reduces
    <3>2. i \in 1 .. Len(more)
      BY <1>1
    <3>3. g[i] = Reduced(g[i - 1], more[i])
      BY <1>3, <3>2 DEF Reduces
    <3> QED BY <1>1, <2>1, <3>1, <3>3
  <2>2. f[0] = g[0] /\ n \in Nat
    BY <1>1, <1>2, <1>3 DEF Reduces
  <2> HIDE DEF n
  <2>3. Alike(f, g, n)
    BY <2>1, <2>2 DEF Alike
  <2> QED BY <2>2, <2>3, RecursionUnique
<1>5. g[n + 1] = Reduced(g[n], x)
  <2>1. n + 1 \in 1 .. Len(more) /\ (n + 1) - 1 = n
    BY <1>1
  <2>2. g[n + 1] = Reduced(g[(n + 1) - 1], more[n + 1])
    BY <1>3, <2>1 DEF Reduces
  <2> QED BY <1>1, <2>1, <2>2
<1>6. f[n] = g[n] /\ f[n] \in SUBSET PlaceName
  BY <1>1, <1>4
<1>7. Collapse(parts) = f[n] /\ Collapse(more) = g[n + 1]
  BY <1>1, <1>2, <1>3 DEF Reduces
<1> QED BY <1>5, <1>6, <1>7 DEF more

-----------------------------------------------------------------------------
(* Sequences of names.                                                     *)

\* A concatenation grows with its second part.
LEMMA ConcatAppend ==
  ASSUME NEW T, NEW s \in Seq(T), NEW t \in Seq(T), NEW x \in T
  PROVE  s \o Append(t, x) = Append(s \o t, x)
<1>1. Append(t, x) = t \o <<x>> /\ s \o t \in Seq(T) /\ <<x>> \in Seq(T)
  BY AppendIsConcat, ConcatProperties
<1>2. Append(s \o t, x) = (s \o t) \o <<x>>
  BY <1>1, AppendIsConcat
<1>3. (s \o t) \o <<x>> = s \o (t \o <<x>>)
  BY <1>1, ConcatAssociative
<1> QED BY <1>1, <1>2, <1>3, Zenon

\* A prefix is what something is added to.
LEMMA PrefixIsConcat ==
  ASSUME NEW T, NEW s \in Seq(T), NEW t \in Seq(T)
  PROVE  /\ IsPrefix(s, s \o t) /\ SubSeq(s \o t, Len(s) + 1, Len(s \o t)) = t
         /\ IsPrefix(s, t) =>
              /\ SubSeq(t, Len(s) + 1, Len(t)) \in Seq(T)
              /\ t = s \o SubSeq(t, Len(s) + 1, Len(t))
<1> DEFINE m == Len(s)  n == Len(t)  u == s \o t
<1>1. m \in Nat /\ n \in Nat /\ u \in Seq(T) /\ Len(u) = m + n
  BY ConcatProperties
<1>2. \A i \in 1 .. m + n : u[i] = IF i <= m THEN s[i] ELSE t[i - m]
  BY ConcatProperties
<1> HIDE DEF u
<1>3. SubSeq(u, 1, m) = s
  <2>1. /\ \A i \in 1 .. m : u[i] \in T /\ u[i] = s[i]
        /\ 1 \in Int /\ m \in Int
    BY <1>1, <1>2
  <2> DEFINE v == SubSeq(u, 1, m)
  <2>2. v \in Seq(T) /\ Len(v) = (IF 1 <= m THEN m - 1 + 1 ELSE 0)
        /\ \A i \in 1 .. m - 1 + 1 : v[i] = u[1 + i - 1]
    BY <2>1, SubSeqProperties
  <2> HIDE DEF v
  <2>3. Len(v) = m /\ \A i \in 1 .. m : v[i] = s[i]
    BY <1>1, <2>1, <2>2
  <2>4. v = s
    BY <2>2, <2>3, SeqEqual
  <2> QED BY <2>4 DEF v
<1>4. SubSeq(u, m + 1, m + n) = t
  <2>1. /\ \A i \in m + 1 .. m + n : u[i] \in T /\ u[i] = t[i - m]
        /\ m + 1 \in Int /\ m + n \in Int
    BY <1>1, <1>2
  <2> DEFINE v == SubSeq(u, m + 1, m + n)
  <2>2. v \in Seq(T) /\ Len(v) = (IF m + 1 <= m + n THEN (m + n) - (m + 1) + 1 ELSE 0)
        /\ \A i \in 1 .. (m + n) - (m + 1) + 1 : v[i] = u[(m + 1) + i - 1]
    BY <2>1, SubSeqProperties
  <2> HIDE DEF v
  <2>3. Len(v) = n /\ \A i \in 1 .. n : v[i] = t[i]
    <3> HIDE DEF m, n
    <3>1. (m + n) - (m + 1) + 1 = n
      BY <1>1
    <3>2. Len(v) = n
      BY <1>1, <2>2, <3>1
    <3>3. ASSUME NEW i \in 1 .. n PROVE v[i] = t[i]
      <4>1. (m + 1) + i - 1 = m + i /\ m + i \in m + 1 .. m + n /\ (m + i) - m = i
        BY <1>1
      <4>2. v[i] = u[m + i]
        BY <2>2, <3>1, <4>1
      <4> QED BY <2>1, <4>1, <4>2
    <3> QED BY <3>2, <3>3
  <2>4. v = t
    BY <2>2, <2>3, SeqEqual
  <2> QED BY <2>4 DEF v
<1>5. IsPrefix(s, u)
  <2>1. SubSeq(s, 1, m) = s
    BY SubSeqFull
  <2>2. m <= Len(u)
    <3> HIDE DEF m, n
    <3> QED BY <1>1
  <2> QED BY <1>3, <2>1, <2>2, Zenon DEF IsPrefix
<1>6. ASSUME IsPrefix(s, t)
      PROVE  SubSeq(t, m + 1, n) \in Seq(T) /\ t = s \o SubSeq(t, m + 1, n)
  <2>1. m <= n /\ s = SubSeq(t, 1, m)
    BY <1>6, SubSeqFull DEF IsPrefix
  <2>2. SubSeq(t, m + 1, n) \in Seq(T)
    BY <1>1, <2>1, CutType
  <2>3. SubSeq(t, 1, m) \o SubSeq(t, m + 1, n) = SubSeq(t, 1, n)
    <3>1. 1 \in 1 .. n + 1 /\ m \in 1 - 1 .. n /\ n \in m .. n
      BY <1>1, <2>1
    <3> QED BY <3>1, ConcatAdjacentSubSeq, Zenon
  <2>4. SubSeq(t, 1, n) = t
    BY SubSeqFull
  <2> QED BY <2>1, <2>2, <2>3, <2>4
<1> QED BY <1>1, <1>4, <1>5, <1>6 DEF u

\* A sequence is plain when its parts are.
LEMMA PlainConcat ==
  ASSUME NEW a \in PlaceName, NEW b \in PlaceName
  PROVE  Plain(a \o b) <=> Plain(a) /\ Plain(b)
<1> DEFINE m == Len(a)  n == Len(b)  u == a \o b
<1>1. /\ m \in Nat /\ n \in Nat /\ Len(u) = m + n
      /\ DOMAIN a = 1 .. m /\ DOMAIN b = 1 .. n /\ DOMAIN u = 1 .. m + n
  BY ConcatProperties DEF PlaceName
<1>2. \A i \in 1 .. m + n : u[i] = IF i <= m THEN a[i] ELSE b[i - m]
  BY ConcatProperties DEF PlaceName
<1> HIDE DEF m, n, u
<1>3. \A i \in 1 .. m : i \in 1 .. m + n /\ u[i] = a[i]
  BY <1>1, <1>2
<1>4. \A i \in 1 .. n : m + i \in 1 .. m + n /\ u[m + i] = b[i]
  BY <1>1, <1>2
<1>5. \A i \in 1 .. m + n : i \in 1 .. m \/ i - m \in 1 .. n
  BY <1>1
<1>6. \A i \in 1 .. m + n : i \notin 1 .. m => u[i] = b[i - m]
  BY <1>1, <1>2
<1>7. Plain(u) => Plain(a) /\ Plain(b)
  BY <1>1, <1>3, <1>4 DEF Plain
<1>8. Plain(a) /\ Plain(b) => Plain(u)
  BY <1>1, <1>3, <1>5, <1>6 DEF Plain
<1> QED BY <1>7, <1>8 DEF u

\* A plain path with one plain part more is plain.
LEMMA PlainAppend ==
  ASSUME NEW s \in PlaceName, NEW x \in Part
  PROVE  Plain(Append(s, x)) <=> Plain(s) /\ x \notin {".", ".."}
<1> DEFINE t == Append(s, x)  n == Len(s)
<1>1. n \in Nat /\ DOMAIN s = 1 .. n /\ DOMAIN t = 1 .. (n + 1)
      /\ t[n + 1] = x /\ \A i \in 1 .. n : t[i] = s[i]
  <2>1. s \in Seq(Part)
    BY DEF PlaceName
  <2>2. /\ t \in Seq(Part) /\ Len(t) = n + 1
        /\ t[n + 1] = x /\ \A i \in 1 .. n : t[i] = s[i]
    BY <2>1, AppendProperties
  <2>3. n \in Nat /\ DOMAIN s = 1 .. n /\ DOMAIN t = 1 .. Len(t)
    BY <2>1, <2>2, LenProperties
  <2> QED BY <2>2, <2>3
<1> HIDE DEF t, n
<1>2. /\ n + 1 \in 1 .. (n + 1)
      /\ \A i \in 1 .. (n + 1) : i \in 1 .. n \/ i = n + 1
      /\ \A j \in 1 .. n : j \in 1 .. (n + 1)
  BY <1>1
<1>3. Plain(t) <=> Plain(s) /\ x \notin {".", ".."}
  BY <1>1, <1>2 DEF Plain
<1> QED BY <1>3 DEF t

-----------------------------------------------------------------------------
(* Walks.                                                                  *)

\* A walk leads to places.
LEMMA WalkType ==
  ASSUME NEW from \in PlaceName, NEW parts \in PlaceName
  PROVE  Walk(from, parts) \subseteq PlaceName
<1> DEFINE n == Len(parts)
<1>1. n \in 0 .. n
  BY DEF PlaceName
<1> HIDE DEF n
<1>2. PICK f \in [0 .. n -> SUBSET PlaceName] : Strides(f, from, parts)
  BY WalkRecursion DEF n
<1>3. Walk(from, parts) = f[n]
  BY <1>2 DEF Strides, n
<1> QED BY <1>1, <1>2, <1>3

\* A collapsed path is a path.
LEMMA CollapseType ==
  ASSUME NEW parts \in PlaceName
  PROVE  Collapse(parts) \subseteq PlaceName
<1> DEFINE n == Len(parts)
<1>1. n \in 0 .. n
  BY DEF PlaceName
<1> HIDE DEF n
<1>2. PICK f \in [0 .. n -> SUBSET PlaceName] : Reduces(f, parts)
  BY CollapseRecursion DEF n
<1>3. Collapse(parts) = f[n]
  BY <1>2 DEF Reduces, n
<1> QED BY <1>1, <1>2, <1>3

\* A walk goes on from where its first part ended.
LEMMA WalkConcat ==
  ASSUME NEW from \in PlaceName, NEW a \in PlaceName, NEW b \in PlaceName,
         NEW p \in PlaceName, Walk(from, a) = {p}
  PROVE  Walk(from, a \o b) = Walk(p, b)
<1> DEFINE P == {q \in PlaceName : Walk(from, a \o q) = Walk(p, q)}
<1>1. <<>> \in P
  <2>1. a \o <<>> = a /\ <<>> \in PlaceName
    BY ConcatEmptySeq DEF PlaceName
  <2>2. Walk(p, <<>>) = {p}
    BY WalkEmpty
  <2> QED BY <2>1, <2>2
<1>2. ASSUME NEW q \in Seq(Part), NEW x \in Part, q \in P PROVE Append(q, x) \in P
  <2>1. a \o Append(q, x) = Append(a \o q, x) /\ a \o q \in PlaceName
    <3>1. a \in Seq(Part) /\ a \o q \in Seq(Part)
      BY ConcatProperties DEF PlaceName
    <3>2. a \o Append(q, x) = Append(a \o q, x)
      BY <3>1, ConcatAppend
    <3> QED BY <3>1, <3>2 DEF PlaceName
  <2>2. Walk(from, Append(a \o q, x)) = Further(Walk(from, a \o q), x)
    BY <2>1, WalkAppend
  <2>3. Walk(p, Append(q, x)) = Further(Walk(p, q), x)
    BY WalkAppend DEF PlaceName
  <2>4. Append(q, x) \in PlaceName
    BY AppendProperties DEF PlaceName
  <2> QED BY <1>2, <2>1, <2>2, <2>3, <2>4
<1> HIDE DEF P
<1>3. Seq(Part) \subseteq P
  BY <1>1, <1>2, SequenceInduction
<1> QED BY <1>3 DEF P, PlaceName

\* A step leaves no dots in a place that has none.
LEMMA StepPlain ==
  ASSUME NEW place \in PlaceName, Plain(place), NEW part \in Part
  PROVE  Plain(Step(place, part))
<1>1. CASE part = "."
  BY <1>1 DEF Step
<1>2. CASE part = ".."
  <2>1. CASE place = <<>>
    BY <1>2, <2>1 DEF Step, Above
  <2>2. CASE place # <<>>
    <3>1. Step(place, part) = Front(place)
      BY <1>2, <2>2 DEF Step, Above
    <3>2. /\ Front(place) \in PlaceName /\ place[Len(place)] \in Part
          /\ place = Append(Front(place), place[Len(place)])
      BY <2>2, FrontFacts DEF PlaceName
    <3>3. Plain(Front(place))
      BY <3>2, PlainAppend
    <3> QED BY <3>1, <3>3
  <2> QED BY <2>1, <2>2
<1>3. CASE part \notin {".", ".."}
  BY <1>3, PlainAppend DEF Step
<1> QED BY <1>1, <1>2, <1>3

\* Nor does a walk.
LEMMA WalkStaysPlain ==
  ASSUME NEW from \in PlaceName, Plain(from), NEW parts \in PlaceName
  PROVE  \A p \in Walk(from, parts) : Plain(p)
<1> DEFINE P == {q \in PlaceName : \A p \in Walk(from, q) : Plain(p)}
<1>1. <<>> \in P
  BY WalkEmpty DEF PlaceName
<1>2. ASSUME NEW q \in Seq(Part), NEW x \in Part, q \in P PROVE Append(q, x) \in P
  <2>1. Walk(from, Append(q, x)) = Further(Walk(from, q), x) /\ Walk(from, q) \subseteq PlaceName
    BY WalkAppend DEF PlaceName
  <2>2. \A p \in Further(Walk(from, q), x) : Plain(p)
    BY <1>2, <2>1, StepPlain DEF Further
  <2>3. Append(q, x) \in PlaceName
    BY AppendProperties DEF PlaceName
  <2> QED BY <2>1, <2>2, <2>3
<1> HIDE DEF P
<1>3. Seq(Part) \subseteq P
  BY <1>1, <1>2, SequenceInduction
<1> QED BY <1>3 DEF P, PlaceName

\* A collapsed path has no dots.
LEMMA CollapsePlain ==
  ASSUME NEW parts \in PlaceName
  PROVE  \A d \in Collapse(parts) : Plain(d)
<1> DEFINE P == {q \in PlaceName : \A d \in Collapse(q) : Plain(d)}
<1>1. <<>> \in P
  <2> DEFINE none == <<>>
  <2>1. none \in PlaceName /\ Plain(none)
    BY DEF PlaceName, Plain
  <2>2. Collapse(none) = {none}
    BY CollapseEmpty
  <2> HIDE DEF none
  <2>3. none \in P
    BY <2>1, <2>2
  <2> QED BY <2>3 DEF none
<1>2. ASSUME NEW q \in Seq(Part), NEW x \in Part, q \in P PROVE Append(q, x) \in P
  <2>1. Collapse(Append(q, x)) = Reduced(Collapse(q), x) /\ Collapse(q) \subseteq PlaceName
    BY CollapseAppend DEF PlaceName
  <2>2. \A d \in Reduced(Collapse(q), x) : Plain(d)
    BY <1>2, <2>1, StepPlain DEF Reduced
  <2>3. Append(q, x) \in PlaceName
    BY AppendProperties DEF PlaceName
  <2> QED BY <2>1, <2>2, <2>3
<1> HIDE DEF P
<1>3. Seq(Part) \subseteq P
  BY <1>1, <1>2, SequenceInduction
<1> QED BY <1>3 DEF P, PlaceName

-----------------------------------------------------------------------------
(* The file system.                                                        *)

\* Where the workspace is, and what is in it.
LEMMA RootFacts ==
  ASSUME root \in Checkouts
  PROVE  /\ root \in PlaceName /\ Plain(root)
         /\ Outside \in PlaceName /\ Plain(Outside) /\ ~IsPrefix(root, Outside)
         /\ <<>> \in PlaceName /\ Profiles \in PlaceName /\ Profiles # <<>>
         /\ \A u \in PlaceName : /\ root \o u \in PlaceName
                                 /\ InWorkspace(root \o u) /\ Within(root \o u) = u
         /\ \A p \in PlaceName : InWorkspace(p) =>
              Within(p) \in PlaceName /\ p = root \o Within(p)
<1>1. /\ root \in PlaceName /\ Plain(root)
      /\ Outside \in PlaceName /\ Plain(Outside) /\ ~IsPrefix(root, Outside)
      /\ Profiles \in PlaceName
  BY FilesAssumption
<1>2. <<>> \in PlaceName /\ Profiles # <<>>
  BY DEF PlaceName, Profiles
<1>3. ASSUME NEW u \in PlaceName
      PROVE  root \o u \in PlaceName /\ InWorkspace(root \o u) /\ Within(root \o u) = u
  <2>1. root \in Seq(Part) /\ u \in Seq(Part)
    BY <1>1 DEF PlaceName
  <2>2. IsPrefix(root, root \o u)
        /\ SubSeq(root \o u, Len(root) + 1, Len(root \o u)) = u
    BY <2>1, PrefixIsConcat
  <2>3. root \o u \in Seq(Part)
    BY <2>1, ConcatProperties
  <2> QED BY <2>2, <2>3, Zenon DEF InWorkspace, Within, PlaceName
<1>4. ASSUME NEW p \in PlaceName, InWorkspace(p)
      PROVE  Within(p) \in PlaceName /\ p = root \o Within(p)
  <2>1. root \in Seq(Part) /\ p \in Seq(Part) /\ IsPrefix(root, p)
    BY <1>1, <1>4 DEF PlaceName, InWorkspace
  <2>2. /\ SubSeq(p, Len(root) + 1, Len(p)) \in Seq(Part)
        /\ p = root \o SubSeq(p, Len(root) + 1, Len(p))
    BY <2>1, PrefixIsConcat
  <2> QED BY <2>2, Zenon DEF Within, PlaceName
<1> QED BY <1>1, <1>2, <1>3, <1>4

\* What is a directory: those on the way to the workspace and to Outside, and
\* those of the workspace.
LEMMA DirCases ==
  ASSUME root \in Checkouts, NEW p \in PlaceName
  PROVE  IsDir(p) <=> \/ \E u \in PlaceName : root = p \o u
                      \/ \E u \in PlaceName : Outside = p \o u
                      \/ \E u \in Directories : p = root \o u
<1>1. ASSUME NEW t \in PlaceName PROVE IsPrefix(p, t) <=> \E u \in PlaceName : t = p \o u
  <2>1. p \in Seq(Part) /\ t \in Seq(Part)
    BY DEF PlaceName
  <2>2. ASSUME IsPrefix(p, t) PROVE \E u \in PlaceName : t = p \o u
    <3> DEFINE rest == SubSeq(t, Len(p) + 1, Len(t))
    <3>1. rest \in Seq(Part) /\ t = p \o rest
      BY <2>1, <2>2, PrefixIsConcat, Zenon
    <3> HIDE DEF rest
    <3> QED BY <3>1 DEF PlaceName
  <2>3. ASSUME NEW u \in PlaceName, t = p \o u PROVE IsPrefix(p, t)
    <3>1. u \in Seq(Part)
      BY DEF PlaceName
    <3> QED BY <2>1, <2>3, <3>1, PrefixIsConcat
  <2> QED BY <2>2, <2>3
<1>2. InWorkspace(p) /\ Within(p) \in Directories <=> \E u \in Directories : p = root \o u
  <2>1. \A u \in Directories : u \in PlaceName
    BY FilesAssumption
  <2> QED BY <2>1, RootFacts
<1>3. root \in PlaceName /\ Outside \in PlaceName
  BY RootFacts
<1> QED BY <1>1, <1>2, <1>3 DEF IsDir

\* The front of a concatenation is taken from its second part.
LEMMA FrontConcat ==
  ASSUME NEW T, NEW s \in Seq(T), NEW t \in Seq(T), t # <<>>
  PROVE  Front(s \o t) = s \o Front(t)
<1> DEFINE f == Front(t)  x == t[Len(t)]
<1>1. f \in Seq(T) /\ x \in T /\ t = Append(f, x)
  BY FrontFacts
<1> HIDE DEF f, x
<1>2. s \o t = Append(s \o f, x) /\ s \o f \in Seq(T)
  BY <1>1, ConcatAppend, ConcatProperties
<1>3. Front(Append(s \o f, x)) = s \o f
  BY <1>1, <1>2, FrontAppend
<1> QED BY <1>2, <1>3 DEF f

\* The directory above whatever exists is there, and no name in it is "." or "..".
LEMMA ExistsFacts ==
  ASSUME root \in Checkouts, NEW p \in PlaceName, Exists(p)
  PROVE  Plain(p) /\ (p # <<>> => IsDir(Front(p)))
<1>1. ASSUME NEW t \in PlaceName, Plain(t), NEW u \in PlaceName, t = p \o u,
             \A q \in PlaceName : (\E v \in PlaceName : t = q \o v) => IsDir(q)
      PROVE  Plain(p) /\ (p # <<>> => IsDir(Front(p)))
  <2>1. Plain(p)
    BY <1>1, PlainConcat
  <2>2. ASSUME p # <<>> PROVE IsDir(Front(p))
    <3> DEFINE f == Front(p)  x == p[Len(p)]
    <3>1. p \in Seq(Part) /\ u \in Seq(Part)
      BY DEF PlaceName
    <3>2. f \in Seq(Part) /\ x \in Part /\ p = Append(f, x)
      BY <2>2, <3>1, FrontFacts
    <3> HIDE DEF f, x
    <3>3. p = f \o <<x>> /\ <<x>> \in Seq(Part)
      BY <3>2, AppendIsConcat
    <3>4. (f \o <<x>>) \o u = f \o (<<x>> \o u)
      BY <3>1, <3>2, <3>3, ConcatAssociative
    <3>5. <<x>> \o u \in Seq(Part)
      BY <3>1, <3>3, ConcatProperties
    <3>6. t = f \o (<<x>> \o u)
      BY <1>1, <3>3, <3>4, Zenon
    <3>7. IsDir(f)
      BY <1>1, <3>2, <3>5, <3>6, Zenon DEF PlaceName
    <3> QED BY <3>7 DEF f
  <2> QED BY <2>1, <2>2
<1>2. ASSUME NEW u \in Directories \cup Places, p = root \o u
      PROVE  Plain(p) /\ (p # <<>> => IsDir(Front(p)))
  <2>1. u \in PlaceName /\ Plain(u) /\ (u # <<>> => Front(u) \in Directories)
    BY FilesAssumption
  <2>2. root \in PlaceName /\ Plain(root)
    BY RootFacts
  <2>3. CASE u = <<>>
    <3>1. p = root /\ root = p \o <<>> /\ <<>> \in PlaceName
      BY <1>2, <2>2, <2>3, ConcatEmptySeq DEF PlaceName
    <3>2. \A q \in PlaceName : (\E v \in PlaceName : root = q \o v) => IsDir(q)
      BY DirCases
    <3> QED BY <1>1, <2>2, <3>1, <3>2
  <2>4. CASE u # <<>>
    <3>1. Plain(p)
      BY <1>2, <2>1, <2>2, PlainConcat
    <3>2. Front(p) = root \o Front(u)
      BY <1>2, <2>1, <2>2, <2>4, FrontConcat DEF PlaceName
    <3>3. Front(p) \in PlaceName
      <4>1. Front(u) \in PlaceName
        BY <2>1, <2>4, FilesAssumption
      <4> QED BY <3>2, <4>1, RootFacts
    <3>4. IsDir(Front(p))
      BY <2>1, <2>4, <3>2, <3>3, DirCases
    <3> QED BY <3>1, <3>4
  <2> QED BY <2>3, <2>4
<1>3. CASE IsDir(p)
  <2>1. CASE \E u \in PlaceName : root = p \o u
    <3>1. \A q \in PlaceName : (\E v \in PlaceName : root = q \o v) => IsDir(q)
      BY DirCases
    <3>2. root \in PlaceName /\ Plain(root)
      BY RootFacts
    <3> QED BY <1>1, <2>1, <3>1, <3>2
  <2>2. CASE \E u \in PlaceName : Outside = p \o u
    <3>1. \A q \in PlaceName : (\E v \in PlaceName : Outside = q \o v) => IsDir(q)
      BY DirCases
    <3>2. Outside \in PlaceName /\ Plain(Outside)
      BY RootFacts
    <3> QED BY <1>1, <2>2, <3>1, <3>2
  <2>3. CASE \E u \in Directories : p = root \o u
    BY <1>2, <2>3
  <2> QED BY <1>3, <2>1, <2>2, <2>3, DirCases
<1>4. CASE Content(p) # NoFile
  <2>1. InWorkspace(p) /\ Within(p) \in Places
    BY <1>4 DEF Content
  <2>2. p = root \o Within(p)
    BY <2>1, RootFacts
  <2> QED BY <1>2, <2>1, <2>2
<1> QED BY <1>3, <1>4 DEF Exists

\* From the root directory the system finds whatever exists by its own name, and
\* by a plain name nothing else.
LEMMA WalkByName ==
  ASSUME root \in Checkouts, NEW p \in PlaceName
  PROVE  /\ Plain(p) => Walk(<<>>, p) \subseteq {p}
         /\ Exists(p) => Walk(<<>>, p) = {p}
<1> DEFINE top == <<>>
           P == {q \in PlaceName : /\ Plain(q) => Walk(top, q) \subseteq {q}
                                   /\ q = <<>> \/ Exists(q) => Walk(top, q) = {q}}
<1>0. top \in PlaceName
  BY RootFacts
<1> HIDE DEF top
<1>1. <<>> \in P
  <2>1. Walk(top, <<>>) = {<<>>}
    BY <1>0, WalkEmpty DEF top
  <2> QED BY <1>0, <2>1 DEF top
<1>2. ASSUME NEW q \in Seq(Part), NEW x \in Part, q \in P PROVE Append(q, x) \in P
  <2> DEFINE r == Append(q, x)
  <2>1. r \in PlaceName /\ r # <<>> /\ Front(r) = q
    BY AppendProperties, FrontAppend DEF PlaceName
  <2>2. Walk(top, r) = Further(Walk(top, q), x)
    BY <1>0, WalkAppend DEF PlaceName
  <2>3. Plain(r) => Plain(q) /\ x \notin {".", ".."}
    BY PlainAppend DEF PlaceName
  <2>4. x \notin {".", ".."} => Step(q, x) = r
    BY DEF Step
  <2> HIDE DEF r
  <2>5. Plain(r) => Walk(top, r) \subseteq {r}
    BY <1>2, <2>2, <2>3, <2>4 DEF Further
  <2>6. ASSUME Exists(r) PROVE Walk(top, r) = {r}
    <3>1. Plain(r) /\ IsDir(q)
      BY <2>1, <2>6, ExistsFacts
    <3>2. Walk(top, q) = {q}
      BY <1>2, <3>1 DEF Exists
    <3> QED BY <2>2, <2>3, <2>4, <3>1, <3>2 DEF Further
  <2> QED BY <2>1, <2>5, <2>6 DEF r
<1> HIDE DEF P
<1>3. Seq(Part) \subseteq P
  BY <1>1, <1>2, SequenceInduction
<1> QED BY <1>3 DEF P, PlaceName, top

-----------------------------------------------------------------------------
(* Paths.                                                                  *)

\* Paths and their two fields.
LEMMA PathFacts ==
  /\ \A abs \in BOOLEAN, parts \in PlaceName :
       /\ Path(abs, parts) \in PathName
       /\ Path(abs, parts).abs = abs /\ Path(abs, parts).parts = parts
  /\ \A parts \in PlaceName :
       /\ Absolute(parts) \in PathName /\ Absolute(parts).abs
       /\ Relative(parts) \in PathName /\ ~Relative(parts).abs
       /\ Absolute(parts).parts = parts /\ Relative(parts).parts = parts
       /\ Absolute(parts) # Relative(<<>>)
  /\ \A path \in PathName : path.abs \in BOOLEAN /\ path.parts \in PlaceName
<1>1. \A abs \in BOOLEAN, parts \in PlaceName :
        /\ Path(abs, parts) \in PathName
        /\ Path(abs, parts).abs = abs /\ Path(abs, parts).parts = parts
  BY DEF Path, PathName
<1>2. \A path \in PathName : path.abs \in BOOLEAN /\ path.parts \in PlaceName
  BY DEF PathName
<1>3. ASSUME NEW parts \in PlaceName
      PROVE  /\ Absolute(parts) \in PathName /\ Absolute(parts).abs
             /\ Relative(parts) \in PathName /\ ~Relative(parts).abs
             /\ Absolute(parts).parts = parts /\ Relative(parts).parts = parts
  BY <1>1 DEF Absolute, Relative
<1>4. \A parts \in PlaceName : Absolute(parts) # Relative(<<>>)
  <2> DEFINE none == <<>>
  <2>1. none \in PlaceName
    BY DEF PlaceName
  <2> HIDE DEF none
  <2>2. \A parts \in PlaceName : Absolute(parts) # Relative(none)
    BY <1>3, <2>1
  <2> QED BY <2>2 DEF none
<1> QED BY <1>1, <1>2, <1>3, <1>4

\* The directories the kernel starts from are places and paths.
LEMMA CwdFacts ==
  ASSUME root \in Checkouts, spelling \in Spellings
  PROVE  Cwd \in PlaceName /\ Plain(Cwd) /\ ProfileDir \in PathName
<1>1. root \in PlaceName /\ Plain(root) /\ Profiles \in PlaceName /\ <<>> \in PlaceName
      /\ root \o Profiles \in PlaceName
  BY RootFacts
<1>2. Plain(root \o Profiles)
  BY <1>1, PlainConcat, FilesAssumption
<1>3. ProfileDir \in PathName
  <2> DEFINE none == <<>>  beside == root \o Profiles
  <2>1. none \in PlaceName /\ beside \in PlaceName /\ Profiles \in PlaceName
    BY <1>1
  <2> HIDE DEF none, beside
  <2>2. /\ Absolute(beside) \in PathName /\ Relative(Profiles) \in PathName
        /\ Relative(none) \in PathName
    BY <2>1, PathFacts
  <2>3. spelling \in {"absolute", "from_workspace", "bare"}
    BY FilesAssumption
  <2> QED BY <2>2, <2>3 DEF ProfileDir, none, beside
<1> QED BY <1>1, <1>2, <1>3 DEF Cwd

\* Where the walk along a path starts.
Base(path) == IF path.abs THEN <<>> ELSE Cwd

\* What the system finds along a path exists and has no dots.
LEMMA FoundFacts ==
  ASSUME root \in Checkouts, spelling \in Spellings, NEW path \in PathName
  PROVE  /\ Base(path) \in PlaceName /\ Plain(Base(path)) /\ path.parts \in PlaceName
         /\ \A p \in Found(path) :
              /\ p \in Walk(Base(path), path.parts)
              /\ p \in PlaceName /\ Plain(p) /\ Exists(p)
<1>1. path.abs \in BOOLEAN /\ path.parts \in PlaceName
  BY PathFacts
<1>2. Base(path) \in PlaceName /\ Plain(Base(path))
  <2>1. <<>> \in PlaceName /\ Plain(<<>>)
    BY DEF PlaceName, Plain
  <2> QED BY <2>1, CwdFacts DEF Base
<1>3. Found(path) \subseteq Walk(Base(path), path.parts) /\ \A p \in Found(path) : Exists(p)
  BY DEF Found, Base
<1>4. \A p \in Walk(Base(path), path.parts) : p \in PlaceName /\ Plain(p)
  <2> DEFINE b == Base(path)  q == path.parts
  <2>1. b \in PlaceName /\ Plain(b) /\ q \in PlaceName
    BY <1>1, <1>2
  <2> HIDE DEF b, q
  <2>2. \A p \in Walk(b, q) : p \in PlaceName /\ Plain(p)
    BY <2>1, WalkType, WalkStaysPlain
  <2> QED BY <2>2 DEF b, q
<1> QED BY <1>1, <1>2, <1>3, <1>4

\* A path that was canonicalized or normalized has no dots.
LEMMA CanonicalFacts ==
  ASSUME root \in Checkouts, spelling \in Spellings, NEW path \in PathName,
         NEW n \in CanonicalizeOrNormalize(path)
  PROVE  n \in PathName /\ Plain(n.parts)
<1>1. CASE Found(path) # {}
  <2>1. PICK p \in Found(path) : n = Absolute(p)
    BY <1>1 DEF CanonicalizeOrNormalize
  <2>2. p \in PlaceName /\ Plain(p)
    BY <2>1, FoundFacts
  <2> QED BY <2>1, <2>2, PathFacts
<1>2. CASE Found(path) = {}
  <2>1. PICK parts \in Collapse(path.parts) : n = Path(path.abs, parts)
    BY <1>2 DEF CanonicalizeOrNormalize, Normalize
  <2>2. path.abs \in BOOLEAN /\ path.parts \in PlaceName
    BY PathFacts
  <2>3. parts \in PlaceName /\ Plain(parts)
    BY <2>2, CollapseType, CollapsePlain
  <2> QED BY <2>1, <2>2, <2>3, PathFacts
<1> QED BY <1>1, <1>2

\* Joining paths makes a path.
LEMMA JoinType ==
  ASSUME NEW path \in PathName, NEW more \in PathName
  PROVE  /\ Join(path, more) \in PathName
         /\ ~more.abs => /\ Join(path, more).abs = path.abs
                         /\ Join(path, more).parts = path.parts \o more.parts
<1>1. path.abs \in BOOLEAN /\ path.parts \in PlaceName /\ more.parts \in PlaceName
  BY PathFacts
<1>2. path.parts \o more.parts \in PlaceName
  BY <1>1, ConcatProperties DEF PlaceName
<1> QED BY <1>1, <1>2, PathFacts DEF Join

\* The roots of working directories are paths.
LEMMA RootsType ==
  ASSUME root \in Checkouts, spelling \in Spellings
  PROVE  ProfileRoot \subseteq PathName /\ WorkspaceRoot \subseteq PathName
<1>1. ProfileRoot \subseteq PathName
  BY CwdFacts, CanonicalFacts DEF ProfileRoot
<1>2. ASSUME NEW p \in ProfileRoot, NEW q \in Parent(p) PROVE q \in PathName
  <2>1. p.parts # <<>> /\ q = Path(p.abs, Front(p.parts))
    BY DEF Parent
  <2>2. p.abs \in BOOLEAN /\ p.parts \in PlaceName
    BY <1>1, PathFacts
  <2>3. Front(p.parts) \in PlaceName
    BY <2>1, <2>2, FrontFacts DEF PlaceName
  <2> QED BY <2>1, <2>2, <2>3, PathFacts
<1>3. WorkspaceRoot \subseteq PathName
  BY <1>2, CanonicalFacts DEF WorkspaceRoot
<1> QED BY <1>1, <1>3

\* The directory that start_plugin goes on with is a plain path under a root.
LEMMA WorkingDirFacts ==
  ASSUME root \in Checkouts, spelling \in Spellings, NEW working_dir \in WorkingDirs,
         working_dir # NoDir, WorkingDir(working_dir) # Refused
  PROVE  LET d == WorkingDir(working_dir)
         IN  /\ d \in PathName /\ d # NoDir /\ Plain(d.parts)
             /\ \E r \in ProfileRoot \cup WorkspaceRoot : StartsWith(d, r)
<1> DEFINE resolved == ResolveBoundedWorkingDir(working_dir)
<1>1. working_dir \in PathName /\ NoDir \notin PathName
  BY FilesAssumption
<1>2. ASSUME NEW d \in resolved
      PROVE  \E c \in PathName : d \in InBounds(c)
  <2> DEFINE near == IF working_dir.abs THEN {working_dir}
                     ELSE {Join(p, working_dir) : p \in ProfileRoot}
             far == IF working_dir.abs THEN {}
                    ELSE {Join(w, working_dir) : w \in WorkspaceRoot}
  <2>1. near \subseteq PathName /\ far \subseteq PathName
    BY <1>1, RootsType, JoinType
  <2>2. d \in UNION {InBounds(c) : c \in near} \/ d \in UNION {InBounds(c) : c \in far}
    BY DEF ResolveBoundedWorkingDir
  <2> HIDE DEF near, far
  <2> QED BY <2>1, <2>2
<1>3. WorkingDir(working_dir) \in resolved
  BY DEF WorkingDir
<1> HIDE DEF resolved
<1>4. PICK c \in PathName : WorkingDir(working_dir) \in InBounds(c)
  BY <1>2, <1>3
<1>5. /\ WorkingDir(working_dir) \in CanonicalizeOrNormalize(c)
      /\ \E r \in ProfileRoot \cup WorkspaceRoot : StartsWith(WorkingDir(working_dir), r)
  BY <1>4 DEF InBounds
<1>6. WorkingDir(working_dir) \in PathName /\ Plain(WorkingDir(working_dir).parts)
  BY <1>5, CanonicalFacts
<1> QED BY <1>1, <1>5, <1>6

-----------------------------------------------------------------------------
(* What the child opens is what was hashed.                                *)

\* A walk ends in one place at most.
LEMMA WalkSingle ==
  ASSUME NEW from \in PlaceName, NEW parts \in PlaceName,
         NEW p \in Walk(from, parts)
  PROVE  Walk(from, parts) = {p}
<1> DEFINE P == {q \in PlaceName : \A y, z \in Walk(from, q) : y = z}
<1>1. <<>> \in P
  BY WalkEmpty DEF PlaceName
<1>2. ASSUME NEW q \in Seq(Part), NEW x \in Part, q \in P PROVE Append(q, x) \in P
  <2>1. Walk(from, Append(q, x)) = Further(Walk(from, q), x)
    BY WalkAppend DEF PlaceName
  <2>2. \A y, z \in Further(Walk(from, q), x) : y = z
    BY <1>2 DEF Further
  <2>3. Append(q, x) \in PlaceName
    BY AppendProperties DEF PlaceName
  <2> QED BY <2>1, <2>2, <2>3
<1> HIDE DEF P
<1>3. Seq(Part) \subseteq P
  BY <1>1, <1>2, SequenceInduction
<1> QED BY <1>3 DEF P, PlaceName

\* The child opens by its own walk the file that the kernel hashed by its own.
LEMMA OpensWhatIsHashed ==
  ASSUME root \in Checkouts, spelling \in Spellings,
         NEW dir \in PathName, NEW arg \in PathName, NEW place \in ChildIn(dir)
  PROVE  Opens(arg, place) = SidecarArgsHash(arg, dir).file
<1>1. dir # NoDir
  BY FilesAssumption
<1>2. CASE arg.abs
  BY <1>2 DEF Opens, SidecarArgsHash
<1>3. CASE ~arg.abs
  <2> DEFINE there == Absolute(place \o arg.parts)  joined == Join(dir, arg)
             b == Base(dir)  d == dir.parts  a == arg.parts
  <2>1. place \in Found(dir)
    BY <1>1 DEF ChildIn
  <2>2. /\ b \in PlaceName /\ d \in PlaceName /\ place \in Walk(b, d)
        /\ place \in PlaceName /\ Exists(place)
    BY <2>1, FoundFacts
  <2>3. a \in PlaceName /\ place \o a \in PlaceName /\ d \o a \in PlaceName
    BY <2>2, PathFacts, ConcatProperties DEF PlaceName
  <2>4. joined.abs = dir.abs /\ joined.parts = d \o a /\ joined \in PathName
    BY <1>3, JoinType
  <2>5. there.abs /\ there.parts = place \o a /\ there # Relative(<<>>)
    BY <2>3, PathFacts
  <2>6. joined # Relative(<<>>)
    <3> SUFFICES ASSUME joined = Relative(<<>>) PROVE FALSE
      OBVIOUS
    <3>1. joined.parts = <<>> /\ ~joined.abs
      <4> DEFINE none == <<>>
      <4>1. none \in PlaceName
        BY DEF PlaceName
      <4> HIDE DEF none
      <4>2. Relative(none).parts = none /\ ~Relative(none).abs
        BY <4>1, PathFacts
      <4> QED BY <4>2 DEF none
    <3>2. d = <<>> /\ ~dir.abs
      <4>1. d \in Seq(Part) /\ a \in Seq(Part) /\ d \o a = <<>>
        BY <2>2, <2>3, <2>4, <3>1 DEF PlaceName
      <4>2. d = <<>>
        BY <4>1, ConcatEqualIffEmpty
      <4> QED BY <2>4, <3>1, <4>2
    <3>3. dir = Relative(<<>>)
      <4>1. dir = [abs |-> dir.abs, parts |-> dir.parts] /\ dir.abs = FALSE
        BY <3>2 DEF PathName
      <4> QED BY <3>2, <4>1 DEF Relative, Path
    <3> QED BY <2>1, <3>3 DEF Found
  <2> HIDE DEF b, d, a, joined, there
  <2>7. Walk(b, d \o a) = Walk(place, a)
    <3>1. Walk(b, d) = {place}
      BY <2>2, WalkSingle
    <3> QED BY <2>2, <2>3, <3>1, WalkConcat
  <2>8. Walk(<<>>, place \o a) = Walk(place, a)
    <3>1. Walk(<<>>, place) = {place}
      BY <2>2, WalkByName
    <3>2. <<>> \in PlaceName
      BY DEF PlaceName
    <3> QED BY <2>2, <2>3, <3>1, <3>2, WalkConcat
  <2>9. Found(there) = Found(joined)
    <3>1. Found(there) = {p \in Walk(<<>>, place \o a) : Exists(p)}
      BY <2>5 DEF Found
    <3>2. Found(joined) = {p \in Walk(b, d \o a) : Exists(p)}
      BY <2>4, <2>6 DEF Found, Base, b
    <3> QED BY <2>7, <2>8, <3>1, <3>2
  <2>10. FileAt(there) = FileAt(joined)
    BY <2>9 DEF FileAt
  <2> QED BY <1>1, <1>3, <2>10 DEF Opens, SidecarArgsHash, there, joined, a
<1> QED BY <1>2, <1>3

-----------------------------------------------------------------------------
(* Inside the workspace.                                                   *)

\* When the profile's path has a directory, the roots are the workspace's own.
LEMMA Roots ==
  ASSUME root \in Checkouts, spelling \in Spellings, spelling # "bare"
  PROVE  /\ IsDir(root) /\ IsDir(root \o Profiles) /\ Cwd = root
         /\ Walk(<<>>, root) = {root}
         /\ ProfileRoot = {Absolute(root \o Profiles)}
         /\ WorkspaceRoot = {Absolute(root)}
<1> DEFINE beside == root \o Profiles
<1>1. /\ root \in PlaceName /\ Profiles \in PlaceName /\ Profiles # <<>>
      /\ beside \in PlaceName /\ <<>> \in PlaceName
  BY RootFacts
<1>2. IsDir(root) /\ IsDir(beside)
  <2>1. <<>> \in Directories /\ Profiles \in Directories
    BY FilesAssumption
  <2>2. root \o <<>> = root
    BY <1>1, ConcatEmptySeq DEF PlaceName
  <2> QED BY <1>1, <2>1, <2>2, DirCases
<1>3. spelling \in {"absolute", "from_workspace"} /\ Cwd = root
  BY FilesAssumption DEF Cwd
<1>4. Walk(<<>>, root) = {root} /\ Walk(<<>>, beside) = {beside}
  BY <1>1, <1>2, WalkByName DEF Exists
<1>5. Walk(root, Profiles) = {beside}
  BY <1>1, <1>4, WalkConcat
<1>6. Found(ProfileDir) = {beside}
  <2>1. CASE spelling = "absolute"
    <3>1. ProfileDir = Absolute(beside)
      BY <2>1 DEF ProfileDir
    <3> HIDE DEF beside
    <3>2. /\ Absolute(beside).abs /\ Absolute(beside).parts = beside
          /\ Absolute(beside) # Relative(<<>>)
      BY <1>1, PathFacts
    <3> QED BY <1>2, <1>4, <3>1, <3>2 DEF Found, Exists
  <2>2. CASE spelling = "from_workspace"
    <3>1. ProfileDir = Relative(Profiles)
      BY <2>2 DEF ProfileDir
    <3> DEFINE none == <<>>
    <3>2. ~Relative(Profiles).abs /\ Relative(Profiles).parts = Profiles
      BY <1>1, PathFacts
    <3>3. Relative(none).parts = none
      <4>1. none \in PlaceName
        BY <1>1
      <4> HIDE DEF none
      <4> QED BY <4>1, PathFacts
    <3>4. Relative(Profiles) # Relative(none)
      BY <1>1, <3>2, <3>3
    <3> HIDE DEF beside
    <3> QED BY <1>2, <1>3, <1>5, <3>1, <3>2, <3>4 DEF Found, Exists
  <2> QED BY <1>3, <2>1, <2>2
<1>7. ProfileRoot = {Absolute(beside)}
  BY <1>6 DEF ProfileRoot, CanonicalizeOrNormalize
<1>8. Parent(Absolute(beside)) = {Absolute(root)}
  <2>1. Absolute(beside).abs = TRUE /\ Absolute(beside).parts = beside
    BY DEF Absolute, Path
  <2>2. beside # <<>> /\ Front(beside) = root
    <3> DEFINE x == "profiles"
    <3>1. Front(beside) = root \o Front(Profiles)
      BY <1>1, FrontConcat DEF PlaceName
    <3>2. Front(Profiles) = <<>>
      BY DEF Front, Profiles
    <3>3. root \o <<>> = root
      BY <1>1, ConcatEmptySeq DEF PlaceName
    <3>4. beside # <<>>
      BY <1>1, ConcatEqualIffEmpty DEF PlaceName
    <3> QED BY <3>1, <3>2, <3>3, <3>4
  <2> HIDE DEF beside
  <2> QED BY <2>1, <2>2 DEF Parent, Absolute
<1>9. WorkspaceRoot = {Absolute(root)}
  <2>1. /\ Absolute(root).abs /\ Absolute(root).parts = root
        /\ Absolute(root) # Relative(<<>>)
    BY <1>1, PathFacts
  <2>2. Found(Absolute(root)) = {root}
    BY <1>2, <1>4, <2>1 DEF Found, Exists
  <2>3. CanonicalizeOrNormalize(Absolute(root)) = {Absolute(root)}
    BY <2>2 DEF CanonicalizeOrNormalize
  <2> HIDE DEF beside
  <2> QED BY <1>7, <1>8, <2>1, <2>3 DEF WorkspaceRoot
<1> QED BY <1>2, <1>3, <1>4, <1>7, <1>9

\* What is found by a path that starts with a root is in the workspace.
LEMMA InsideFacts ==
  ASSUME root \in Checkouts, spelling \in Spellings, spelling # "bare",
         NEW d \in PathName, Plain(d.parts),
         NEW r \in ProfileRoot \cup WorkspaceRoot, StartsWith(d, r),
         NEW place \in Found(d)
  PROVE  InWorkspace(place)
<1>1. /\ root \in PlaceName /\ Profiles \in PlaceName /\ root \o Profiles \in PlaceName
      /\ \A u \in PlaceName : InWorkspace(root \o u)
  BY RootFacts
<1>2. PICK s \in {root, root \o Profiles} : r = Absolute(s)
  BY Roots
<1>3. s \in PlaceName /\ r.abs /\ r.parts = s /\ r # Relative(<<>>) /\ d.parts \in PlaceName
  BY <1>1, <1>2, PathFacts
<1>4. d.abs /\ IsPrefix(s, d.parts)
  BY <1>3 DEF StartsWith
<1>5. PICK u \in PlaceName : d.parts = s \o u
  <2> DEFINE q == d.parts  rest == SubSeq(q, Len(s) + 1, Len(q))
  <2>1. q \in Seq(Part) /\ s \in Seq(Part) /\ IsPrefix(s, q)
    BY <1>3, <1>4 DEF PlaceName
  <2> HIDE DEF q
  <2>2. rest \in Seq(Part) /\ q = s \o rest
    BY <2>1, PrefixIsConcat, Zenon
  <2> HIDE DEF rest
  <2> QED BY <2>2 DEF PlaceName, q
<1>6. place = d.parts
  <2> DEFINE q == d.parts
  <2>1. place \in Walk(<<>>, q)
    BY <1>4, FoundFacts DEF Base
  <2>2. q \in PlaceName /\ Plain(q)
    BY <1>3
  <2> HIDE DEF q
  <2>3. place = q
    BY <2>1, <2>2, WalkByName
  <2> QED BY <2>3 DEF q
<1>7. CASE s = root
  BY <1>1, <1>5, <1>6, <1>7
<1>8. CASE s = root \o Profiles
  <2>1. root \in Seq(Part) /\ Profiles \in Seq(Part) /\ u \in Seq(Part)
    BY <1>1 DEF PlaceName
  <2>2. (root \o Profiles) \o u = root \o (Profiles \o u) /\ Profiles \o u \in PlaceName
    BY <2>1, ConcatAssociative, ConcatProperties DEF PlaceName
  <2> QED BY <1>1, <1>5, <1>6, <1>8, <2>2
<1> QED BY <1>2, <1>7, <1>8

-----------------------------------------------------------------------------
(* The invariant.                                                          *)

SignedInv ==
  manifest.signed =>
    /\ manifest.working_dir \in WorkingDirs /\ manifest.arg \in Args
    /\ manifest.run.executable = manifest.executable
    /\ manifest.working_dir # NoDir => manifest.run.script = manifest.args.file

ChildInv ==
  child.ran =>
    /\ manifest.signed /\ child.executable = manifest.executable
    /\ manifest.working_dir # NoDir =>
         /\ child.script = manifest.args.file
         /\ spelling # "bare" => InWorkspace(child.in)

FilesInv ==
  /\ root \in Checkouts /\ spelling \in Spellings
  /\ SignedInv /\ ChildInv

\* What a run opens is what was hashed for it, and it is in the workspace.
LEMMA RunFacts ==
  ASSUME root \in Checkouts, spelling \in Spellings,
         NEW working_dir \in WorkingDirs, NEW arg \in Args,
         WorkingDir(working_dir) # Refused, NEW run \in Runs(arg, WorkingDir(working_dir))
  PROVE  /\ run.ran /\ run.executable = ExecutableHash
         /\ working_dir # NoDir =>
              /\ run.script = SidecarArgsHash(arg, WorkingDir(working_dir)).file
              /\ spelling # "bare" => InWorkspace(run.in)
<1> DEFINE dir == WorkingDir(working_dir)
<1>1. PICK place \in ChildIn(dir) :
        run = [ran |-> TRUE, in |-> place, executable |-> ExecutableHash,
               script |-> Opens(arg, place)]
  BY DEF Runs
<1>2. run.ran /\ run.executable = ExecutableHash /\ run.in = place
      /\ run.script = Opens(arg, place)
  BY <1>1
<1>3. ASSUME working_dir # NoDir
      PROVE  /\ run.script = SidecarArgsHash(arg, dir).file
             /\ spelling # "bare" => InWorkspace(run.in)
  <2>1. /\ dir \in PathName /\ dir # NoDir /\ Plain(dir.parts)
        /\ \E r \in ProfileRoot \cup WorkspaceRoot : StartsWith(dir, r)
    BY <1>3, WorkingDirFacts
  <2>2. arg \in PathName
    BY FilesAssumption
  <2> HIDE DEF dir
  <2>3. Opens(arg, place) = SidecarArgsHash(arg, dir).file
    BY <2>1, <2>2, OpensWhatIsHashed
  <2>4. place \in Found(dir)
    BY <2>1 DEF ChildIn
  <2>5. spelling # "bare" => InWorkspace(place)
    BY <2>1, <2>4, InsideFacts
  <2> QED BY <1>2, <2>3, <2>5
<1> QED BY <1>2, <1>3

\* Nothing is signed and nothing runs at the beginning.
LEMMA FilesInit == Init => FilesInv
BY DEF Init, FilesInv, SignedInv, ChildInv, Unsigned, Idle

\* Edits, moves, signatures and starts keep the invariant.
LEMMA FilesStep == FilesInv /\ [Next]_vars => FilesInv'
<1> SUFFICES ASSUME FilesInv, [Next]_vars PROVE FilesInv'
  OBVIOUS
<1> USE DEF FilesInv
<1>1. ASSUME NEW place \in Places, NEW bytes \in Bytes \cup {NoFile}, Write(place, bytes)
      PROVE  FilesInv'
  BY <1>1 DEF Write, SignedInv, ChildInv, InWorkspace
<1>2. ASSUME NEW i \in DOMAIN bins, NEW bytes \in Bytes \cup {NoFile}, Install(i, bytes)
      PROVE  FilesInv'
  BY <1>2 DEF Install, SignedInv, ChildInv, InWorkspace
<1>3. ASSUME NEW place \in Checkouts, Move(place) PROVE FilesInv'
  BY <1>3 DEF Move, SignedInv, ChildInv
<1>4. ASSUME NEW working_dir \in WorkingDirs, NEW arg \in Args, Sign(working_dir, arg)
      PROVE  FilesInv'
  <2> DEFINE dir == WorkingDir(working_dir)  hashes == SidecarArgsHash(arg, dir)
             hash == ExecutableHash
  <2>1. /\ ~manifest.signed /\ dir # Refused
        /\ root' = root /\ spelling' = spelling /\ child' = child
    BY <1>4 DEF Sign
  <2>2. PICK run \in Runs(arg, dir) :
          manifest' = [signed |-> TRUE, working_dir |-> working_dir, arg |-> arg,
                       executable |-> hash, args |-> hashes, edits |-> edits, run |-> run]
    BY <1>4 DEF Sign
  <2>3. run.executable = hash /\ (working_dir # NoDir => run.script = hashes.file)
    BY <2>1, <2>2, RunFacts
  <2> HIDE DEF dir, hashes, hash
  <2>4. /\ manifest'.working_dir = working_dir /\ manifest'.arg = arg
        /\ manifest'.executable = hash /\ manifest'.args = hashes /\ manifest'.run = run
    BY <2>2
  <2>5. SignedInv'
    BY <2>3, <2>4 DEF SignedInv
  <2>6. ChildInv'
    BY <2>1 DEF ChildInv
  <2> QED BY <2>1, <2>5, <2>6
<1>5. ASSUME StartPlugin PROVE FilesInv'
  <2> DEFINE dir == WorkingDir(manifest.working_dir)
  <2>1. /\ manifest.signed /\ dir # Refused /\ ExecutableHash = manifest.executable
        /\ SidecarArgsHash(manifest.arg, dir) = manifest.args
        /\ UNCHANGED <<root, spelling, manifest>>
    BY <1>5 DEF StartPlugin, Accepts
  <2>2. PICK run \in Runs(manifest.arg, dir) : child' = run
    BY <1>5 DEF StartPlugin
  <2>3. manifest.working_dir \in WorkingDirs /\ manifest.arg \in Args
    BY <2>1 DEF SignedInv
  <2>4. /\ run.executable = ExecutableHash
        /\ manifest.working_dir # NoDir =>
             /\ run.script = SidecarArgsHash(manifest.arg, dir).file
             /\ spelling # "bare" => InWorkspace(run.in)
    BY <2>1, <2>2, <2>3, RunFacts
  <2> HIDE DEF dir
  <2>5. SignedInv' /\ ChildInv'
    BY <2>1, <2>2, <2>4 DEF SignedInv, ChildInv, InWorkspace
  <2> QED BY <2>1, <2>5
<1>6. ASSUME ChildEnds PROVE FilesInv'
  BY <1>6 DEF ChildEnds, SignedInv, ChildInv, Idle
<1>7. CASE UNCHANGED vars
  BY <1>7 DEF vars, SignedInv, ChildInv, InWorkspace
<1> QED BY <1>1, <1>2, <1>3, <1>4, <1>5, <1>6, <1>7 DEF Next

\* The invariant holds in every reachable state.
LEMMA FilesInvHolds == Spec => []FilesInv
BY FilesInit, FilesStep, PTL DEF Spec

\* Whatever is edited, removed, installed earlier on PATH or moved after a manifest
\* was signed: a child that start_plugin spawns runs the executable, and opens the
\* script, that its author saw run.
THEOREM RunsWhatWasSignedHolds == Spec => []RunsWhatWasSigned
<1>1. FilesInv => RunsWhatWasSigned
  BY DEF FilesInv, SignedInv, ChildInv, RunsWhatWasSigned
<1> QED BY <1>1, FilesInvHolds, PTL

\* A sidecar with a working directory runs in the workspace, whatever its path is
\* made of.
THEOREM RunsInWorkspaceHolds == Spec => []RunsInWorkspace
<1>1. FilesInv => RunsInWorkspace
  BY DEF FilesInv, ChildInv, RunsInWorkspace
<1> QED BY <1>1, FilesInvHolds, PTL

-----------------------------------------------------------------------------
(* What a profile lists.                                                   *)

\* Below the profile's directory and below the workspace the system looks for what
\* stands there, however the profile's path is given.
LEMMA FoundNear ==
  ASSUME root \in Checkouts, spelling \in Spellings, spelling # "bare",
         NEW arg \in PathName, ~arg.abs
  PROVE  /\ Found(Join(ProfileDir, arg)) =
              {p \in Walk(<<>>, root \o Profiles \o arg.parts) : Exists(p)}
         /\ arg.parts # <<>> =>
              \E w : /\ Parent(ProfileDir) = {w}
                     /\ Found(Join(w, arg)) =
                          {p \in Walk(<<>>, root \o arg.parts) : Exists(p)}
<1> DEFINE q == arg.parts  beside == root \o Profiles  none == <<>>
<1>1. /\ root \in PlaceName /\ Profiles \in PlaceName /\ Profiles # none
      /\ beside \in PlaceName /\ none \in PlaceName /\ q \in PlaceName
  BY RootFacts, PathFacts
<1>2. /\ beside \o q \in PlaceName /\ Profiles \o q \in PlaceName /\ root \o q \in PlaceName
      /\ beside \o q = root \o (Profiles \o q)
  <2> HIDE DEF q
  <2>1. /\ root \in Seq(Part) /\ Profiles \in Seq(Part) /\ q \in Seq(Part)
        /\ root \o Profiles \in Seq(Part)
    BY <1>1 DEF PlaceName
  <2>2. /\ (root \o Profiles) \o q \in Seq(Part) /\ Profiles \o q \in Seq(Part)
        /\ root \o q \in Seq(Part)
    BY <2>1, ConcatProperties
  <2>3. (root \o Profiles) \o q = root \o (Profiles \o q)
    BY <2>1, ConcatAssociative
  <2> QED BY <2>2, <2>3 DEF PlaceName
<1>3. /\ Walk(none, root) = {root} /\ Cwd = root
      /\ spelling \in {"absolute", "from_workspace"}
  BY Roots, FilesAssumption
<1>4. /\ Walk(none, beside \o q) = Walk(root, Profiles \o q)
      /\ Walk(none, root \o q) = Walk(root, q)
  BY <1>1, <1>2, <1>3, WalkConcat
<1>5. /\ Front(Profiles) = none /\ beside # none /\ Front(beside) = root
      /\ none \o q = q /\ Profiles \o q # none
  <2>1. Front(Profiles) = none
    BY DEF Front, Profiles
  <2>2. Front(beside) = root \o Front(Profiles)
    BY <1>1, FrontConcat DEF PlaceName
  <2>3. root \o none = root /\ none \o q = q
    BY <1>1, ConcatEmptySeq DEF PlaceName
  <2>4. beside # none /\ Profiles \o q # none
    BY <1>1, ConcatEqualIffEmpty DEF PlaceName
  <2> QED BY <2>1, <2>2, <2>3, <2>4
<1> HIDE DEF q, beside, none
<1>6. \A parts \in PlaceName :
        /\ Found(Absolute(parts)) = {p \in Walk(none, parts) : Exists(p)}
        /\ parts # none => Found(Relative(parts)) = {p \in Walk(root, parts) : Exists(p)}
  <2> TAKE parts \in PlaceName
  <2>1. /\ Absolute(parts).abs /\ Absolute(parts).parts = parts
        /\ ~Relative(parts).abs /\ Relative(parts).parts = parts
        /\ Relative(none).parts = none /\ Absolute(parts) # Relative(none)
    BY <1>1, PathFacts DEF none
  <2>2. parts # none => Relative(parts) # Relative(none)
    BY <2>1
  <2> QED BY <1>3, <2>1, <2>2 DEF Found, none
<1>7. \A parts \in PlaceName : /\ Join(Absolute(parts), arg) = Absolute(parts \o q)
                               /\ Join(Relative(parts), arg) = Relative(parts \o q)
  BY PathFacts DEF Join, q, Absolute, Relative
<1>8. CASE spelling = "absolute"
  <2>1. ProfileDir = Absolute(beside)
    BY <1>8 DEF ProfileDir, beside
  <2>2. Join(ProfileDir, arg) = Absolute(beside \o q)
    BY <1>1, <1>7, <2>1
  <2>3. Parent(ProfileDir) = {Absolute(root)}
    <3>1. Absolute(beside).abs = TRUE /\ Absolute(beside).parts = beside
      BY DEF Absolute, Path
    <3> QED BY <1>5, <2>1, <3>1 DEF Parent, none, Absolute
  <2>4. Join(Absolute(root), arg) = Absolute(root \o q)
    BY <1>1, <1>7
  <2>5. Found(Join(ProfileDir, arg)) = {p \in Walk(none, beside \o q) : Exists(p)}
    BY <1>2, <1>6, <2>2
  <2>6. Found(Join(Absolute(root), arg)) = {p \in Walk(none, root \o q) : Exists(p)}
    BY <1>2, <1>6, <2>4
  <2> QED BY <2>3, <2>5, <2>6 DEF q, beside, none
<1>9. CASE spelling = "from_workspace"
  <2>1. ProfileDir = Relative(Profiles)
    BY <1>9 DEF ProfileDir
  <2>2. Join(ProfileDir, arg) = Relative(Profiles \o q)
    BY <1>1, <1>7, <2>1
  <2>3. Parent(ProfileDir) = {Relative(none)}
    <3>1. Relative(Profiles).abs = FALSE /\ Relative(Profiles).parts = Profiles
      BY DEF Relative, Path
    <3> QED BY <1>1, <1>5, <2>1, <3>1 DEF Parent, none, Relative
  <2>4. Join(Relative(none), arg) = Relative(q)
    BY <1>1, <1>5, <1>7
  <2>5. Found(Join(ProfileDir, arg)) = {p \in Walk(none, beside \o q) : Exists(p)}
    BY <1>2, <1>4, <1>5, <1>6, <2>2
  <2>6. q # none =>
          Found(Join(Relative(none), arg)) = {p \in Walk(none, root \o q) : Exists(p)}
    BY <1>1, <1>4, <1>6, <2>4
  <2> QED BY <2>3, <2>5, <2>6 DEF q, beside, none
<1> QED BY <1>3, <1>8, <1>9

\* A manifest or schema that a profile lists is found beside the profile if it is
\* there, and else in the workspace if it is there, whichever way the profile's path
\* is spelled.
THEOREM FoundWhereItIsHolds == Spec => []FoundWhereItIs
<1>1. FilesInv => FoundWhereItIs
  <2> SUFFICES ASSUME FilesInv, spelling # "bare", NEW arg \in Args, ~arg.abs
               PROVE  LET beside == root \o Profiles \o arg.parts
                          above == root \o arg.parts
                          found == Found(ResolveProfilePath(arg))
                      IN  /\ Exists(beside) => found = {beside}
                          /\ ~Exists(beside) /\ Exists(above) => found = {above}
    BY DEF FoundWhereItIs
  <2> DEFINE q == arg.parts
             beside == root \o Profiles \o arg.parts
             above == root \o arg.parts
             near == {w \in Parent(ProfileDir) : Found(Join(w, arg)) # {}}
  <2>1. root \in Checkouts /\ spelling \in Spellings /\ arg \in PathName
    BY FilesAssumption DEF FilesInv
  <2>2. /\ root \in PlaceName /\ Profiles \in PlaceName /\ q \in PlaceName
        /\ root \o Profiles \in PlaceName
    BY <2>1, RootFacts, PathFacts
  <2>3. beside \in PlaceName /\ above \in PlaceName
    BY <2>2, ConcatProperties DEF PlaceName
  <2>4. /\ Found(Join(ProfileDir, arg)) = {p \in Walk(<<>>, beside) : Exists(p)}
        /\ q # <<>> => \E w : /\ Parent(ProfileDir) = {w}
                              /\ Found(Join(w, arg)) = {p \in Walk(<<>>, above) : Exists(p)}
    BY <2>1, FoundNear
  <2>5. Plain(above) => Plain(beside)
    <3>1. Plain(Profiles)
      BY FilesAssumption
    <3> QED BY <2>2, <3>1, PlainConcat
  <2>6. ~Exists(beside) => q # <<>>
    <3>1. (root \o Profiles) \o <<>> = root \o Profiles
      BY <2>2, ConcatEmptySeq DEF PlaceName
    <3>2. IsDir(root \o Profiles)
      BY <2>1, Roots
    <3> QED BY <3>1, <3>2 DEF Exists
  <2> HIDE DEF beside, above, q
  <2>7. ASSUME Exists(beside) PROVE Found(ResolveProfilePath(arg)) = {beside}
    <3>1. Walk(<<>>, beside) = {beside}
      BY <2>1, <2>3, <2>7, WalkByName
    <3>2. Found(Join(ProfileDir, arg)) = {beside}
      BY <2>4, <2>7, <3>1
    <3>3. ResolveProfilePath(arg) = Join(ProfileDir, arg)
      BY <3>2 DEF ResolveProfilePath
    <3> QED BY <3>2, <3>3
  <2>8. ASSUME ~Exists(beside), Exists(above)
        PROVE  Found(ResolveProfilePath(arg)) = {above}
    <3>1. Walk(<<>>, above) = {above} /\ Plain(above)
      BY <2>1, <2>3, <2>8, WalkByName, ExistsFacts
    <3>2. Walk(<<>>, beside) \subseteq {beside}
      BY <2>1, <2>3, <2>5, <3>1, WalkByName
    <3>3. Found(Join(ProfileDir, arg)) = {}
      BY <2>4, <2>8, <3>2
    <3>4. PICK w : Parent(ProfileDir) = {w}
                   /\ Found(Join(w, arg)) = {p \in Walk(<<>>, above) : Exists(p)}
      BY <2>4, <2>6, <2>8
    <3>5. Found(Join(w, arg)) = {above}
      BY <2>8, <3>1, <3>4
    <3>6. near = {w}
      BY <3>4, <3>5
    <3>7. {Join(v, arg) : v \in near} = {Join(w, arg)}
      BY <3>6
    <3>8. ResolveProfilePath(arg) = Join(w, arg)
      <4> DEFINE ways == {Join(v, arg) : v \in near}
      <4>1. ResolveProfilePath(arg) = CHOOSE p \in ways : TRUE
        BY <3>3, <3>6 DEF ResolveProfilePath
      <4>2. ways = {Join(w, arg)}
        BY <3>7
      <4> HIDE DEF ways
      <4> QED BY <4>1, <4>2
    <3> QED BY <3>5, <3>8
  <2> QED BY <2>7, <2>8 DEF beside, above
<1> QED BY <1>1, FilesInvHolds, PTL

-----------------------------------------------------------------------------
(* A walk that stays inside.                                               *)

\* Collapsing has one outcome at most.
LEMMA CollapseSingle ==
  ASSUME NEW parts \in PlaceName, NEW d \in Collapse(parts)
  PROVE  Collapse(parts) = {d}
<1> DEFINE P == {q \in PlaceName : \A y, z \in Collapse(q) : y = z}
<1>1. <<>> \in P
  BY CollapseEmpty DEF PlaceName
<1>2. ASSUME NEW q \in Seq(Part), NEW x \in Part, q \in P PROVE Append(q, x) \in P
  <2>1. Collapse(Append(q, x)) = Reduced(Collapse(q), x)
    BY CollapseAppend DEF PlaceName
  <2>2. \A y, z \in Reduced(Collapse(q), x) : y = z
    BY <1>2 DEF Reduced
  <2>3. Append(q, x) \in PlaceName
    BY AppendProperties DEF PlaceName
  <2> QED BY <2>1, <2>2, <2>3
<1> HIDE DEF P
<1>3. Seq(Part) \subseteq P
  BY <1>1, <1>2, SequenceInduction
<1> QED BY <1>3 DEF P, PlaceName

\* Paths that come to the same go on to the same, and one that fails goes nowhere.
LEMMA CollapseConcat ==
  ASSUME NEW a \in PlaceName, NEW b \in PlaceName, NEW c \in PlaceName
  PROVE  /\ Collapse(a) = Collapse(b) => Collapse(a \o c) = Collapse(b \o c)
         /\ Collapse(a) = {} => Collapse(a \o c) = {}
<1> DEFINE P == {q \in PlaceName :
                   /\ Collapse(a) = Collapse(b) => Collapse(a \o q) = Collapse(b \o q)
                   /\ Collapse(a) = {} => Collapse(a \o q) = {}}
<1>1. <<>> \in P
  <2>1. a \o <<>> = a /\ b \o <<>> = b /\ <<>> \in PlaceName
    BY ConcatEmptySeq DEF PlaceName
  <2> QED BY <2>1
<1>2. ASSUME NEW q \in Seq(Part), NEW x \in Part, q \in P PROVE Append(q, x) \in P
  <2>1. a \in Seq(Part) /\ b \in Seq(Part)
    BY DEF PlaceName
  <2>2. a \o Append(q, x) = Append(a \o q, x) /\ b \o Append(q, x) = Append(b \o q, x)
    BY <2>1, ConcatAppend
  <2>3. a \o q \in PlaceName /\ b \o q \in PlaceName
    BY <2>1, ConcatProperties DEF PlaceName
  <2>4. /\ Collapse(Append(a \o q, x)) = Reduced(Collapse(a \o q), x)
        /\ Collapse(Append(b \o q, x)) = Reduced(Collapse(b \o q), x)
    BY <2>3, CollapseAppend
  <2>5. Reduced({}, x) = {}
    BY DEF Reduced
  <2>6. Append(q, x) \in PlaceName
    BY AppendProperties DEF PlaceName
  <2> QED BY <1>2, <2>2, <2>4, <2>5, <2>6
<1> HIDE DEF P
<1>3. Seq(Part) \subseteq P
  BY <1>1, <1>2, SequenceInduction
<1> QED BY <1>3 DEF P, PlaceName

\* A path without dots collapses to itself.
LEMMA CollapseByName ==
  ASSUME NEW p \in PlaceName, Plain(p)
  PROVE  Collapse(p) = {p}
<1> DEFINE P == {q \in PlaceName : Plain(q) => Collapse(q) = {q}}
<1>1. <<>> \in P
  BY CollapseEmpty DEF PlaceName
<1>2. ASSUME NEW q \in Seq(Part), NEW x \in Part, q \in P PROVE Append(q, x) \in P
  <2> DEFINE r == Append(q, x)
  <2>1. r \in PlaceName
    BY AppendProperties DEF PlaceName
  <2>2. Collapse(r) = Reduced(Collapse(q), x)
    BY CollapseAppend DEF PlaceName
  <2>3. Plain(r) => Plain(q) /\ x \notin {".", ".."}
    BY PlainAppend DEF PlaceName
  <2>4. x \notin {".", ".."} => Step(q, x) = r
    BY DEF Step
  <2> HIDE DEF r
  <2>5. Plain(r) => Collapse(r) = {r}
    BY <1>2, <2>2, <2>3, <2>4 DEF Reduced
  <2> QED BY <2>1, <2>5 DEF r
<1> HIDE DEF P
<1>3. Seq(Part) \subseteq P
  BY <1>1, <1>2, SequenceInduction
<1> QED BY <1>3 DEF P, PlaceName

\* A step below a place that does not leave it.
LEMMA StepBelow ==
  ASSUME NEW place \in PlaceName, NEW d \in PlaceName, NEW x \in Part, d # <<>> \/ x # ".."
  PROVE  Step(place \o d, x) = place \o Step(d, x)
<1>0. place \in Seq(Part) /\ d \in Seq(Part)
  BY DEF PlaceName
<1>1. CASE x = "."
  BY <1>1 DEF Step
<1>2. CASE x = ".."
  <2>1. Front(place \o d) = place \o Front(d)
    BY <1>0, <1>2, FrontConcat
  <2>2. place \o d # <<>>
    BY <1>0, <1>2, ConcatEqualIffEmpty
  <2> QED BY <1>2, <2>1, <2>2 DEF Step, Above
<1>3. CASE x \notin {".", ".."}
  <2>1. place \o Append(d, x) = Append(place \o d, x)
    BY <1>0, ConcatAppend
  <2> QED BY <1>3, <2>1 DEF Step
<1> QED BY <1>1, <1>2, <1>3

\* From any place a path that stays below its start collapses to the same below it.
LEMMA CollapseBelow ==
  ASSUME NEW place \in PlaceName, Plain(place), NEW parts \in PlaceName,
         Collapse(parts) # {}
  PROVE  Collapse(place \o parts) = {place \o d : d \in Collapse(parts)}
<1> DEFINE P == {q \in PlaceName :
                   Collapse(q) # {} =>
                     Collapse(place \o q) = {place \o d : d \in Collapse(q)}}
<1>0. place \in Seq(Part)
  BY DEF PlaceName
<1>1. <<>> \in P
  <2>1. place \o <<>> = place /\ <<>> \in PlaceName
    BY <1>0, ConcatEmptySeq DEF PlaceName
  <2>2. Collapse(place) = {place}
    BY CollapseByName
  <2> QED BY <2>1, <2>2, CollapseEmpty
<1>2. ASSUME NEW q \in Seq(Part), NEW x \in Part, q \in P PROVE Append(q, x) \in P
  <2> SUFFICES ASSUME Collapse(Append(q, x)) # {}
               PROVE  Collapse(place \o Append(q, x)) =
                        {place \o d : d \in Collapse(Append(q, x))}
    BY AppendProperties DEF PlaceName
  <2>1. place \o Append(q, x) = Append(place \o q, x) /\ place \o q \in PlaceName
    BY <1>0, ConcatAppend, ConcatProperties DEF PlaceName
  <2>2. Collapse(Append(q, x)) = Reduced(Collapse(q), x) /\ Collapse(q) \subseteq PlaceName
    BY CollapseAppend DEF PlaceName
  <2>3. PICK e \in Collapse(q) : e # <<>> \/ x # ".."
    BY <2>2 DEF Reduced
  <2>4. Collapse(q) = {e} /\ e \in PlaceName
    BY <2>2, <2>3, CollapseSingle DEF PlaceName
  <2>5. Collapse(Append(q, x)) = {Step(e, x)}
    BY <2>2, <2>3, <2>4 DEF Reduced
  <2>6. Collapse(place \o q) = {place \o e}
    BY <1>2, <2>4
  <2>7. place \o e # <<>> \/ x # ".."
    <3>1. e \in Seq(Part)
      BY <2>4 DEF PlaceName
    <3> QED BY <1>0, <2>3, <3>1, ConcatEqualIffEmpty
  <2>8. Collapse(Append(place \o q, x)) = {Step(place \o e, x)}
    <3>1. Collapse(Append(place \o q, x)) = Reduced(Collapse(place \o q), x)
      BY <2>1, CollapseAppend
    <3> QED BY <2>6, <2>7, <3>1 DEF Reduced
  <2>9. Step(place \o e, x) = place \o Step(e, x)
    BY <2>3, <2>4, StepBelow
  <2> QED BY <2>1, <2>5, <2>8, <2>9
<1> HIDE DEF P
<1>3. Seq(Part) \subseteq P
  BY <1>1, <1>2, SequenceInduction
<1> QED BY <1>3 DEF P, PlaceName

\* Every directory that a path goes through in the workspace is there.
Passable(parts) ==
  \A n \in 0 .. Len(parts) - 1 : Collapse(SubSeq(parts, 1, n)) \subseteq Directories

\* A path without parts goes through no directory.
LEMMA PassableEmpty == Passable(<<>>)
<1>1. 0 .. Len(<<>>) - 1 = {}
  OBVIOUS
<1> QED BY <1>1 DEF Passable

\* A longer path also goes through where the shorter one ended.
LEMMA PassableAppend ==
  ASSUME NEW parts \in PlaceName, NEW x \in Part
  PROVE  Passable(Append(parts, x)) <=>
           Passable(parts) /\ Collapse(parts) \subseteq Directories
<1> DEFINE n == Len(parts)  more == Append(parts, x)
<1>1. parts \in Seq(Part)
  BY DEF PlaceName
<1>2. /\ n \in Nat /\ more \in Seq(Part) /\ Len(more) = n + 1
      /\ \A i \in 1 .. n : more[i] = parts[i] /\ parts[i] \in Part
  BY <1>1, AppendProperties
<1> HIDE DEF more
<1>3. ASSUME NEW m \in 0 .. n PROVE SubSeq(more, 1, m) = SubSeq(parts, 1, m)
  <2> DEFINE s == SubSeq(more, 1, m)  t == SubSeq(parts, 1, m)
             k == IF 1 <= m THEN m - 1 + 1 ELSE 0
  <2>1. 1 \in Int /\ m \in Int /\ k = m /\ m - 1 + 1 = m /\ \A i \in 1 .. m : i \in 1 .. n
    BY <1>2
  <2>2. \A i \in 1 .. m : more[i] = parts[i] /\ parts[i] \in Part /\ more[i] \in Part
    BY <1>2, <2>1
  <2>3. /\ s \in Seq(Part) /\ Len(s) = k /\ \A i \in 1 .. m - 1 + 1 : s[i] = more[1 + i - 1]
        /\ t \in Seq(Part) /\ Len(t) = k /\ \A i \in 1 .. m - 1 + 1 : t[i] = parts[1 + i - 1]
    BY <2>1, <2>2, SubSeqProperties
  <2> HIDE DEF s, t, k, n
  <2>4. Len(s) = m /\ Len(t) = m /\ \A i \in 1 .. m : 1 + i - 1 = i
    BY <2>1, <2>3
  <2>5. \A i \in 1 .. m : s[i] = t[i]
    BY <2>1, <2>2, <2>3, <2>4
  <2>6. s = t
    BY <2>3, <2>4, <2>5, SeqEqual
  <2> QED BY <2>6 DEF s, t
<1>4. SubSeq(parts, 1, n) = parts
  BY <1>1, SubSeqFull
<1> HIDE DEF n
<1>5. \A m : m \in 0 .. (n + 1) - 1 <=> m \in 0 .. n - 1 \/ m = n
  BY <1>2
<1>6. \A m \in 0 .. n - 1 : m \in 0 .. n
  BY <1>2
<1>7. Passable(more) <=> Passable(parts) /\ Collapse(parts) \subseteq Directories
  <2>1. n \in 0 .. n
    BY <1>2
  <2>2. Passable(more) <=>
          \A m \in 0 .. (n + 1) - 1 : Collapse(SubSeq(more, 1, m)) \subseteq Directories
    BY <1>2 DEF Passable
  <2>3. Passable(parts) <=>
          \A m \in 0 .. n - 1 : Collapse(SubSeq(parts, 1, m)) \subseteq Directories
    BY DEF Passable, n
  <2> QED BY <1>3, <1>4, <1>5, <1>6, <2>1, <2>2, <2>3
<1> QED BY <1>7 DEF more

\* The directories in the workspace are those it has, wherever it is.
LEMMA DirBelow ==
  ASSUME root \in Checkouts, NEW d \in PlaceName
  PROVE  IsDir(root \o d) <=> d \in Directories
<1>1. /\ root \in Seq(Part) /\ d \in Seq(Part) /\ root \o d \in PlaceName
      /\ Outside \in Seq(Part) /\ ~IsPrefix(root, Outside) /\ <<>> \in Directories
      /\ \A u \in Directories : u \in Seq(Part)
  BY RootFacts, FilesAssumption DEF PlaceName
<1>2. ASSUME NEW u \in PlaceName
      PROVE  (root \o d) \o u = root \o (d \o u) /\ d \o u \in Seq(Part)
  <2>1. root \in Seq(Part) /\ d \in Seq(Part) /\ u \in Seq(Part)
    BY <1>1 DEF PlaceName
  <2>2. (root \o d) \o u = root \o (d \o u)
    BY <2>1, ConcatAssociative
  <2>3. d \o u \in Seq(Part)
    BY <2>1, ConcatProperties
  <2> QED BY <2>2, <2>3
<1>3. ASSUME NEW u \in PlaceName, root = (root \o d) \o u PROVE d \in Directories
  <2>1. root = root \o (d \o u) /\ d \o u \in Seq(Part) /\ u \in Seq(Part)
    BY <1>2, <1>3 DEF PlaceName
  <2>2. d \o u = <<>>
    BY <1>1, <2>1, ConcatEqualIffEmpty
  <2>3. d = <<>>
    BY <1>1, <2>1, <2>2, ConcatEqualIffEmpty
  <2> QED BY <1>1, <2>3
<1>4. ASSUME NEW u \in PlaceName, Outside = (root \o d) \o u PROVE FALSE
  <2>1. Outside = root \o (d \o u) /\ d \o u \in Seq(Part)
    BY <1>2, <1>4
  <2>2. IsPrefix(root, root \o (d \o u))
    BY <1>1, <2>1, PrefixIsConcat
  <2> QED BY <1>1, <2>1, <2>2
<1>5. ASSUME NEW u \in Directories, root \o d = root \o u PROVE d = u
  BY <1>1, <1>5, ConcatSimplifications
<1>6. IsDir(root \o d) <=> \/ \E u \in PlaceName : root = (root \o d) \o u
                           \/ \E u \in PlaceName : Outside = (root \o d) \o u
                           \/ \E u \in Directories : root \o d = root \o u
  BY <1>1, DirCases
<1> QED BY <1>3, <1>4, <1>5, <1>6

\* In the workspace the system's walk and the kernel's rewriting of a path agree,
\* wherever the workspace is.
LEMMA WalkBelow ==
  ASSUME root \in Checkouts, NEW parts \in PlaceName, Collapse(parts) # {}
  PROVE  Walk(root, parts) =
           IF Passable(parts) THEN {root \o d : d \in Collapse(parts)} ELSE {}
<1> DEFINE P == {q \in PlaceName :
                   Collapse(q) # {} =>
                     Walk(root, q) =
                       IF Passable(q) THEN {root \o d : d \in Collapse(q)} ELSE {}}
<1>0. root \in PlaceName /\ root \in Seq(Part)
  BY RootFacts DEF PlaceName
<1>1. <<>> \in P
  <2>1. root \o <<>> = root /\ <<>> \in PlaceName
    BY <1>0, ConcatEmptySeq DEF PlaceName
  <2>2. Walk(root, <<>>) = {root}
    BY <1>0, WalkEmpty
  <2>3. Passable(<<>>)
    BY PassableEmpty
  <2> QED BY <2>1, <2>2, <2>3, CollapseEmpty
<1>2. ASSUME NEW q \in Seq(Part), NEW x \in Part, q \in P PROVE Append(q, x) \in P
  <2> DEFINE r == Append(q, x)
  <2> SUFFICES ASSUME Collapse(r) # {}
               PROVE  Walk(root, r) =
                        IF Passable(r) THEN {root \o d : d \in Collapse(r)} ELSE {}
    BY AppendProperties DEF PlaceName
  <2>1. Collapse(r) = Reduced(Collapse(q), x) /\ Collapse(q) \subseteq PlaceName
    BY CollapseAppend DEF PlaceName
  <2>2. PICK e \in Collapse(q) : e # <<>> \/ x # ".."
    BY <2>1 DEF Reduced
  <2>3. Collapse(q) = {e} /\ e \in PlaceName
    BY <2>1, <2>2, CollapseSingle DEF PlaceName
  <2>4. Collapse(r) = {Step(e, x)}
    BY <2>1, <2>2, <2>3 DEF Reduced
  <2>5. Walk(root, r) = Further(Walk(root, q), x)
    BY <1>0, WalkAppend DEF PlaceName
  <2>6. Passable(r) <=> Passable(q) /\ e \in Directories
    BY <2>3, PassableAppend DEF PlaceName
  <2> HIDE DEF r
  <2>7. CASE ~Passable(q)
    BY <1>2, <2>3, <2>5, <2>6, <2>7 DEF Further
  <2>8. CASE Passable(q)
    <3>1. Walk(root, q) = {root \o e}
      BY <1>2, <2>3, <2>8
    <3>2. IsDir(root \o e) <=> e \in Directories
      BY <2>3, DirBelow
    <3>3. Step(root \o e, x) = root \o Step(e, x)
      BY <1>0, <2>2, <2>3, StepBelow
    <3> DEFINE place == root \o e  next == Step(e, x)
    <3>4. Walk(root, r) = {Step(p, x) : p \in {y \in {place} : IsDir(y)}}
      BY <2>5, <3>1 DEF Further
    <3>5. {root \o d : d \in Collapse(r)} = {root \o next}
      BY <2>4
    <3> HIDE DEF place, next
    <3>6. Walk(root, r) = IF IsDir(place) THEN {Step(place, x)} ELSE {}
      BY <3>4
    <3>7. Step(place, x) = root \o next /\ (IsDir(place) <=> Passable(r))
      BY <2>6, <2>8, <3>2, <3>3 DEF place, next
    <3> QED BY <3>5, <3>6, <3>7
  <2> QED BY <2>7, <2>8
<1> HIDE DEF P
<1>3. Seq(Part) \subseteq P
  BY <1>1, <1>2, SequenceInduction
<1> QED BY <1>3 DEF P, PlaceName

-----------------------------------------------------------------------------
(* What moves with the checkout.                                           *)

\* The bytes that a path in the workspace leads to, among these files.
BytesIn(contents, parts) ==
  LET at == {d \in Collapse(parts) : Passable(parts) /\ d \in Places \ Directories}
  IN IF at = {} THEN NoFile ELSE contents[CHOOSE d \in at : TRUE]

\* Those that a manifest is signed for: what it names in the workspace, without the
\* workspace's own place.
SignedBytes(contents, working_dir, arg) ==
  IF working_dir = NoDir THEN NoFile
  ELSE BytesIn(contents,
               (CHOOSE v \in Collapse(Profiles \o working_dir.parts) : TRUE) \o arg.parts)

\* The file at a path in the workspace does not depend on where the workspace is.
LEMMA FileBelow ==
  ASSUME root \in Checkouts, NEW parts \in PlaceName, Collapse(parts) # {},
         Walk(<<>>, root) = {root}
  PROVE  FileAt(Absolute(root \o parts)) = BytesIn(files, parts)
<1> DEFINE path == Absolute(root \o parts)
           places == {p \in Found(path) : ~IsDir(p)}
           at == {d \in Collapse(parts) : Passable(parts) /\ d \in Places \ Directories}
<1>1. /\ root \in PlaceName /\ root \o parts \in PlaceName /\ <<>> \in PlaceName
      /\ \A d \in PlaceName : InWorkspace(root \o d) /\ Within(root \o d) = d
  BY RootFacts
<1>2. PICK e \in Collapse(parts) : TRUE
  OBVIOUS
<1>3. Collapse(parts) = {e} /\ e \in PlaceName
  BY CollapseSingle, CollapseType
<1>4. Found(path) = {p \in Walk(<<>>, root \o parts) : Exists(p)}
  <2> DEFINE whole == root \o parts
  <2>1. whole \in PlaceName
    BY <1>1
  <2> HIDE DEF whole
  <2>2. /\ Absolute(whole).abs /\ Absolute(whole).parts = whole
        /\ Absolute(whole) # Relative(<<>>)
    BY <2>1, PathFacts
  <2>3. Found(Absolute(whole)) = {p \in Walk(<<>>, whole) : Exists(p)}
    BY <2>2 DEF Found
  <2> QED BY <2>3 DEF whole
<1>5. Walk(<<>>, root \o parts) = IF Passable(parts) THEN {root \o e} ELSE {}
  <2>1. Walk(<<>>, root \o parts) = Walk(root, parts)
    BY <1>1, WalkConcat
  <2>2. {root \o d : d \in Collapse(parts)} = {root \o e}
    BY <1>3
  <2> QED BY <2>1, <2>2, WalkBelow
<1>6. /\ IsDir(root \o e) <=> e \in Directories
      /\ Content(root \o e) = IF e \in Places THEN files[e] ELSE NoFile
  BY <1>1, <1>3, DirBelow DEF Content
<1>7. at = IF Passable(parts) /\ e \in Places \ Directories THEN {e} ELSE {}
  BY <1>3
<1> DEFINE there == root \o e
<1>8. places = IF Passable(parts) /\ e \notin Directories /\ Content(there) # NoFile
               THEN {there} ELSE {}
  BY <1>4, <1>5, <1>6 DEF Exists
<1>9. FileAt(path) = IF places = {} THEN NoFile ELSE Content(CHOOSE p \in places : TRUE)
  BY DEF FileAt
<1>10. BytesIn(files, parts) = IF at = {} THEN NoFile ELSE files[CHOOSE d \in at : TRUE]
  BY DEF BytesIn
<1> HIDE DEF places, at, path, there
<1>11. CASE Passable(parts) /\ e \notin Directories /\ e \in Places
  <2>1. at = {e} /\ BytesIn(files, parts) = files[e] /\ Content(there) = files[e]
    BY <1>6, <1>7, <1>10, <1>11 DEF there
  <2>2. CASE files[e] = NoFile
    BY <1>8, <1>9, <2>1, <2>2 DEF path
  <2>3. CASE files[e] # NoFile
    <3>1. places = {there}
      BY <1>8, <1>11, <2>1, <2>3
    <3>2. FileAt(path) = Content(there)
      BY <1>9, <3>1
    <3> QED BY <2>1, <3>2 DEF path
  <2> QED BY <2>2, <2>3
<1>12. CASE ~(Passable(parts) /\ e \notin Directories /\ e \in Places)
  <2>1. at = {} /\ places = {}
    BY <1>6, <1>7, <1>8, <1>12 DEF there
  <2> QED BY <1>9, <1>10, <2>1 DEF path
<1> QED BY <1>11, <1>12

\* A relative working directory that stays inside is one directory of the workspace,
\* the first candidate, whether it exists or not.
LEMMA WorkingDirBelow ==
  ASSUME root \in Checkouts, spelling \in Spellings, spelling # "bare",
         NEW working_dir \in PathName, ~working_dir.abs,
         NEW v \in Collapse(Profiles \o working_dir.parts)
  PROVE  WorkingDir(working_dir) = Absolute(root \o v)
<1> DEFINE q == working_dir.parts  inside == Profiles \o q  beside == root \o Profiles
           c == Absolute(root \o inside)  home == Absolute(root \o v)
<1>1. /\ root \in PlaceName /\ Plain(root) /\ Profiles \in PlaceName /\ q \in PlaceName
      /\ beside \in PlaceName /\ <<>> \in PlaceName
      /\ \A u \in PlaceName : root \o u \in PlaceName /\ InWorkspace(root \o u)
  BY RootFacts, PathFacts
<1>2. inside \in PlaceName /\ beside \o q = root \o inside
  <2> HIDE DEF q
  <2>1. root \in Seq(Part) /\ Profiles \in Seq(Part) /\ q \in Seq(Part)
    BY <1>1 DEF PlaceName
  <2>2. Profiles \o q \in Seq(Part)
    BY <2>1, ConcatProperties
  <2>3. (root \o Profiles) \o q = root \o (Profiles \o q)
    BY <2>1, ConcatAssociative
  <2> QED BY <2>2, <2>3 DEF PlaceName
<1>3. /\ Collapse(inside) = {v} /\ v \in PlaceName
  <2>1. v \in Collapse(inside)
    OBVIOUS
  <2> HIDE DEF inside
  <2> QED BY <1>2, <2>1, CollapseSingle, CollapseType
<1> HIDE DEF q, beside
<1> HIDE DEF inside
<1>4. /\ root \o v \in PlaceName /\ root \o inside \in PlaceName
      /\ InWorkspace(root \o v)
  BY <1>1, <1>2, <1>3
<1>5. /\ ProfileRoot = {Absolute(beside)} /\ WorkspaceRoot = {Absolute(root)}
      /\ Walk(<<>>, root) = {root}
  BY Roots DEF beside
<1>6. Join(Absolute(beside), working_dir) = c
  BY <1>1, <1>2, PathFacts DEF Join, Absolute, q
<1>7. Found(c) \subseteq {root \o v}
  <2> DEFINE whole == root \o inside
  <2>1. Walk(<<>>, whole) = Walk(root, inside)
    BY <1>1, <1>2, <1>5, WalkConcat
  <2>2. Walk(root, inside) \subseteq {root \o v}
    BY <1>2, <1>3, WalkBelow
  <2>3. whole \in PlaceName
    BY <1>4
  <2> HIDE DEF whole
  <2>4. Absolute(whole).abs /\ Absolute(whole).parts = whole
    BY <2>3, PathFacts
  <2>5. Found(Absolute(whole)) \subseteq Walk(<<>>, whole)
    BY <2>4 DEF Found
  <2> QED BY <2>1, <2>2, <2>5 DEF whole
<1>8. Normalize(c) = {home}
  <2>1. Collapse(root \o inside) = {root \o d : d \in Collapse(inside)}
    BY <1>1, <1>2, <1>3, CollapseBelow
  <2>2. Collapse(root \o inside) = {root \o v}
    BY <1>3, <2>1
  <2>3. c.abs = TRUE /\ c.parts = root \o inside
    BY DEF Absolute, Path
  <2> HIDE DEF c
  <2> QED BY <2>2, <2>3 DEF Normalize, Absolute
<1>9. CanonicalizeOrNormalize(c) = {home}
  <2>1. CASE Found(c) = {}
    BY <1>8, <2>1 DEF CanonicalizeOrNormalize
  <2>2. CASE Found(c) # {}
    <3>1. Found(c) = {root \o v}
      BY <1>7, <2>2
    <3> HIDE DEF c
    <3> QED BY <3>1 DEF CanonicalizeOrNormalize
  <2> QED BY <2>1, <2>2
<1>10. StartsWith(home, Absolute(root))
  <2>1. /\ home.abs = TRUE /\ home.parts = root \o v
        /\ Absolute(root).abs = TRUE /\ Absolute(root).parts = root
    BY DEF Absolute, Path
  <2> HIDE DEF home
  <2> QED BY <1>4, <2>1 DEF StartsWith, InWorkspace
<1> HIDE DEF c, home
<1>11. InBounds(c) = {home}
  BY <1>5, <1>9, <1>10 DEF InBounds
<1>12. ResolveBoundedWorkingDir(working_dir) = {home}
  <2> DEFINE near == {Join(p, working_dir) : p \in ProfileRoot}
             kept == UNION {InBounds(d) : d \in near}
  <2>1. near = {c}
    BY <1>5, <1>6
  <2> HIDE DEF near
  <2>2. kept = {home}
    BY <1>11, <2>1
  <2> HIDE DEF kept
  <2> QED BY <2>2 DEF ResolveBoundedWorkingDir, near, kept
<1>13. working_dir # NoDir
  BY FilesAssumption
<1> DEFINE resolved == ResolveBoundedWorkingDir(working_dir)
<1>14. WorkingDir(working_dir) = IF resolved = {} THEN Refused ELSE CHOOSE d \in resolved : TRUE
  BY <1>13 DEF WorkingDir
<1>15. resolved = {home}
  BY <1>12
<1> HIDE DEF resolved
<1> QED BY <1>14, <1>15 DEF home

\* The hash of the arguments of a manifest that stays inside says nothing of where
\* the workspace is.
LEMMA HashBelow ==
  ASSUME root \in Checkouts, spelling \in Spellings, spelling # "bare",
         NEW working_dir \in WorkingDirs, NEW arg \in Args, StaysInside(working_dir, arg)
  PROVE  /\ WorkingDir(working_dir) # Refused
         /\ SidecarArgsHash(arg, WorkingDir(working_dir)) =
              [raw |-> arg, file |-> SignedBytes(files, working_dir, arg)]
<1>1. ~arg.abs /\ arg \in PathName /\ NoDir # Refused
  BY FilesAssumption DEF StaysInside
<1>2. CASE working_dir = NoDir
  BY <1>1, <1>2 DEF WorkingDir, SidecarArgsHash, SignedBytes
<1>3. CASE working_dir # NoDir
  <2> DEFINE a == arg.parts  w == working_dir.parts  inside == Profiles \o w
             v == CHOOSE d \in Collapse(inside) : TRUE
             home == Absolute(root \o v)
  <2>1. /\ working_dir \in PathName /\ ~working_dir.abs /\ Collapse(inside \o a) # {}
    BY <1>3, FilesAssumption DEF StaysInside
  <2>2. a \in PlaceName /\ w \in PlaceName /\ inside \in PlaceName
    <3>1. Profiles \in PlaceName /\ a \in PlaceName /\ w \in PlaceName
      BY <1>1, <2>1, PathFacts, FilesAssumption
    <3> HIDE DEF w
    <3> QED BY <3>1, ConcatProperties DEF PlaceName
  <2> HIDE DEF a, w, inside
  <2>3. Collapse(inside) # {}
    BY <2>1, <2>2, CollapseConcat
  <2>4. Collapse(inside) = {v} /\ v \in PlaceName /\ Plain(v)
    <3>1. v \in Collapse(inside)
      BY <2>3
    <3> HIDE DEF v
    <3> QED BY <2>2, <3>1, CollapseSingle, CollapseType, CollapsePlain
  <2>5. v \in Collapse(inside)
    BY <2>4
  <2> HIDE DEF v
  <2>6. WorkingDir(working_dir) = home
    BY <2>1, <2>5, WorkingDirBelow DEF inside, w
  <2>7. Collapse(v \o a) # {}
    <3>1. Collapse(v) = Collapse(inside)
      BY <2>4, CollapseByName
    <3>2. \A p, r, t \in PlaceName :
            Collapse(p) = Collapse(r) => Collapse(p \o t) = Collapse(r \o t)
      BY ONLY CollapseConcat
    <3>3. Collapse(v \o a) = Collapse(inside \o a)
      BY ONLY <2>2, <2>4, <3>1, <3>2
    <3> QED BY <2>1, <3>3
  <2>8. /\ root \in PlaceName /\ root \o v \in PlaceName /\ v \o a \in PlaceName
        /\ (root \o v) \o a = root \o (v \o a)
    <3>1. root \in Seq(Part) /\ v \in Seq(Part) /\ a \in Seq(Part)
      BY <2>2, <2>4, RootFacts DEF PlaceName
    <3>2. root \o v \in Seq(Part) /\ v \o a \in Seq(Part)
      BY <3>1, ConcatProperties
    <3>3. (root \o v) \o a = root \o (v \o a)
      BY <3>1, ConcatAssociative
    <3> QED BY <3>1, <3>2, <3>3 DEF PlaceName
  <2>9. home \in PathName /\ home # NoDir /\ home # Refused
    <3>1. home \in PathName
      BY <2>8, PathFacts
    <3> HIDE DEF home
    <3> QED BY <3>1, FilesAssumption
  <2>10. Join(home, arg) = Absolute(root \o (v \o a))
    BY <1>1, <2>8, PathFacts DEF Join, Absolute, a
  <2>11. FileAt(Join(home, arg)) = BytesIn(files, v \o a)
    <3>1. Walk(<<>>, root) = {root}
      BY Roots
    <3> QED BY <2>7, <2>8, <2>10, <3>1, FileBelow
  <2> HIDE DEF home
  <2>12. SidecarArgsHash(arg, home) = [raw |-> arg, file |-> BytesIn(files, v \o a)]
    BY <1>1, <2>9, <2>11 DEF SidecarArgsHash
  <2>13. SignedBytes(files, working_dir, arg) = BytesIn(files, v \o a)
    BY <1>3 DEF SignedBytes, v, inside, w, a
  <2> QED BY <2>6, <2>9, <2>12, <2>13
<1> QED BY <1>2, <1>3

\* Until something is edited, the manifest is signed for what is there.
MoveInv ==
  /\ edits \in Nat
  /\ manifest.signed =>
       /\ manifest.edits \in Nat /\ manifest.edits <= edits
       /\ edits = manifest.edits =>
            /\ CommandTarget # 0 /\ ExecutableHash = manifest.executable
            /\ spelling # "bare" /\ StaysInside(manifest.working_dir, manifest.arg) =>
                 manifest.args =
                   [raw |-> manifest.arg,
                    file |-> SignedBytes(files, manifest.working_dir, manifest.arg)]

\* Nothing is signed at the beginning.
LEMMA MoveInit == Init => MoveInv
BY DEF Init, MoveInv, Unsigned

\* Only an edit changes what the signed hashes are of, and it ends the premise.
LEMMA MoveStep == FilesInv /\ MoveInv /\ [Next]_vars => MoveInv'
<1> SUFFICES ASSUME FilesInv, MoveInv, [Next]_vars PROVE MoveInv'
  OBVIOUS
<1>1. ASSUME Edited, manifest' = manifest PROVE MoveInv'
  BY <1>1 DEF Edited, MoveInv
<1>2. ASSUME NEW place \in Places, NEW bytes \in Bytes \cup {NoFile}, Write(place, bytes)
      PROVE  MoveInv'
  BY <1>1, <1>2 DEF Write
<1>3. ASSUME NEW i \in DOMAIN bins, NEW bytes \in Bytes \cup {NoFile}, Install(i, bytes)
      PROVE  MoveInv'
  BY <1>1, <1>3 DEF Install
<1>4. ASSUME UNCHANGED <<spelling, files, bins, manifest, edits>> PROVE MoveInv'
  BY <1>4 DEF MoveInv, ExecutableHash, CommandTarget
<1>5. ASSUME NEW working_dir \in WorkingDirs, NEW arg \in Args, Sign(working_dir, arg)
      PROVE  MoveInv'
  <2> DEFINE hashes == SidecarArgsHash(arg, WorkingDir(working_dir))
             hash == ExecutableHash  target == CommandTarget
  <2>1. /\ hash # NoFile /\ UNCHANGED <<spelling, files, bins, edits>>
        /\ root \in Checkouts /\ spelling \in Spellings
    BY <1>5 DEF Sign, FilesInv
  <2>2. PICK run :
          manifest' = [signed |-> TRUE, working_dir |-> working_dir, arg |-> arg,
                       executable |-> hash, args |-> hashes, edits |-> edits, run |-> run]
    BY <1>5 DEF Sign
  <2>3. target # 0
    BY <2>1 DEF ExecutableHash
  <2>4. hash' = hash /\ target' = target
    BY <2>1 DEF ExecutableHash, CommandTarget
  <2>5. spelling # "bare" /\ StaysInside(working_dir, arg) =>
          hashes = [raw |-> arg, file |-> SignedBytes(files, working_dir, arg)]
    BY <2>1, HashBelow
  <2>6. edits \in Nat
    BY DEF MoveInv
  <2> HIDE DEF hashes
  <2>7. /\ manifest'.working_dir = working_dir /\ manifest'.arg = arg
        /\ manifest'.executable = hash /\ manifest'.args = hashes
        /\ manifest'.edits = edits
    BY <2>2
  <2> QED BY <2>1, <2>3, <2>4, <2>5, <2>6, <2>7 DEF MoveInv
<1>6. ASSUME NEW place \in Checkouts, Move(place) PROVE MoveInv'
  BY <1>4, <1>6 DEF Move
<1>7. ASSUME StartPlugin PROVE MoveInv'
  BY <1>4, <1>7 DEF StartPlugin
<1>8. ASSUME ChildEnds PROVE MoveInv'
  BY <1>4, <1>8 DEF ChildEnds
<1>9. CASE UNCHANGED vars
  BY <1>4, <1>9 DEF vars
<1> QED BY <1>2, <1>3, <1>5, <1>6, <1>7, <1>8, <1>9 DEF Next

\* A checkout can be moved: a manifest whose paths stay inside the workspace is
\* accepted in any place where nothing was edited since it was signed.
THEOREM MovesFreelyHolds == Spec => []MovesFreely
<1>1. FilesInv /\ MoveInv => MovesFreely
  <2> SUFFICES ASSUME FilesInv, MoveInv, manifest.signed, spelling # "bare",
                      edits = manifest.edits,
                      StaysInside(manifest.working_dir, manifest.arg)
               PROVE  Accepts
    BY DEF MovesFreely
  <2> DEFINE dir == WorkingDir(manifest.working_dir)
  <2>1. /\ root \in Checkouts /\ spelling \in Spellings
        /\ manifest.working_dir \in WorkingDirs /\ manifest.arg \in Args
    BY DEF FilesInv, SignedInv
  <2>2. /\ CommandTarget # 0 /\ ExecutableHash = manifest.executable
        /\ manifest.args =
             [raw |-> manifest.arg,
              file |-> SignedBytes(files, manifest.working_dir, manifest.arg)]
    BY DEF MoveInv
  <2>3. /\ dir # Refused
        /\ SidecarArgsHash(manifest.arg, dir) =
             [raw |-> manifest.arg,
              file |-> SignedBytes(files, manifest.working_dir, manifest.arg)]
    BY <2>1, HashBelow
  <2> QED BY <2>2, <2>3 DEF Accepts
<1>2. FilesInv /\ MoveInv /\ [Next]_vars => MoveInv'
  BY MoveStep
<1> QED BY <1>1, <1>2, MoveInit, FilesInvHolds, PTL DEF Spec
=============================================================================
