---------------------------- MODULE ReplayProofs ----------------------------
(***************************************************************************)
(* The replay log, for any number of appends, failures, crashes and         *)
(* sessions: what reading the file back computes, and the invariants.       *)
(***************************************************************************)
EXTENDS ReplayLog, SequenceLemmas

-----------------------------------------------------------------------------
(* Records, pieces of their lines, and readings of pieces.                 *)

Record == [index : Nat, event : Nat, previous : Seq(Nat \X Nat)]

\* The pieces of the lines of records in R, without and with the newline.
Parts(R) == {Start(r) : r \in R} \cup {Rest(r) : r \in R}
Pieces(R) == Parts(R) \cup {Newline}

\* What a reading of such pieces can be.
Readings(R) == [records : Seq(R), line : Seq(Parts(R)), ok : BOOLEAN]

Blank == [records |-> <<>>, line |-> <<>>, ok |-> TRUE]

LEMMA BlankReading == \A R : Blank \in Readings(R)
BY DEF Blank, Readings

\* A piece has the record it was made from, and the newline has none.
LEMMA PartRecord ==
  ASSUME NEW R, NEW x \in Parts(R)
  PROVE  x.record \in R /\ x # Newline
  /\ x \in Pieces(R)
BY DEF Parts, Pieces, Start, Rest, Newline

LEMMA ReadPieceType ==
  ASSUME NEW R, NEW acc \in Readings(R), NEW x \in Pieces(R)
  PROVE  ReadPiece(acc, x) \in Readings(R)
<1> USE DEF Readings
<1>1. CASE x # Newline
  <2>1. x \in Parts(R)
    BY <1>1 DEF Pieces
  <2>2. Append(acc.line, x) \in Seq(Parts(R))
    BY <2>1
  <2>3. ReadPiece(acc, x) = [acc EXCEPT !.line = Append(acc.line, x)]
    BY <1>1 DEF ReadPiece
  <2> QED BY <2>2, <2>3
<1>2. CASE x = Newline /\ acc.line = <<>>
  BY <1>2 DEF ReadPiece
<1>3. CASE x = Newline /\ acc.line # <<>>
  <2> DEFINE r == acc.line[1].record
  <2>1. acc.line[1] \in Parts(R)
    BY <1>3
  <2>2. r \in R
    BY <2>1, PartRecord
  <2>3. ReadPiece(acc, x) = [records |-> Append(acc.records, r), line |-> <<>>,
                             ok |-> acc.ok /\ acc.line = <<Start(r), Rest(r)>>]
    BY <1>3 DEF ReadPiece
  <2> HIDE DEF r
  <2>4. Append(acc.records, r) \in Seq(R)
    BY <2>2
  <2> QED BY <2>3, <2>4
<1> QED BY <1>1, <1>2, <1>3

-----------------------------------------------------------------------------
(* Scan.                                                                   *)

\* f is the recursive function in Scan ...
Scans(f, p) ==
  /\ f[0] = Blank
  /\ \A i \in 1 .. Len(p) : f[i] = ReadPiece(f[i - 1], p[i])
  /\ Scan(p) = f[Len(p)]

\* ... which is there.
LEMMA ScanRecursion ==
  ASSUME NEW R, NEW p \in Seq(Pieces(R))
  PROVE  \E f \in [0 .. Len(p) -> Readings(R)] : Scans(f, p)
<1> DEFINE V == Readings(R)
           step == [i \in 1 .. Len(p) |-> [v \in V |-> ReadPiece(v, p[i])]]
           Body(f, n) == IF n = 0 THEN Blank ELSE ReadPiece(f[n - 1], p[n])
           Defines(f) == f = [n \in 0 .. Len(p) |-> Body(f, n)]
           read == CHOOSE f : Defines(f)
<1>1. Len(p) \in Nat /\ Blank \in V
  BY BlankReading
<1>2. step \in [1 .. Len(p) -> [V -> V]]
  <2>1. ASSUME NEW i \in 1 .. Len(p), NEW v \in V PROVE ReadPiece(v, p[i]) \in V
    BY ReadPieceType
  <2> HIDE DEF V
  <2> QED BY <2>1
<1>3. PICK g : g \in [0 .. Len(p) -> V] /\ Recurs(g, Len(p), Blank, step)
  <2> HIDE DEF V, step
  <2> QED BY <1>1, <1>2, RecursionExists
<1>4. ASSUME NEW n \in 0 .. Len(p) PROVE g[n] = Body(g, n)
  <2>1. CASE n = 0
    BY <1>3, <2>1 DEF Recurs
  <2>2. CASE n # 0
    <3>1. n \in 1 .. Len(p) /\ n - 1 \in 0 .. Len(p)
      BY <2>2
    <3>2. g[n - 1] \in V
      BY <1>3, <3>1
    <3> HIDE DEF V
    <3> QED BY <1>3, <2>2, <3>1, <3>2 DEF Recurs
  <2> QED BY <2>1, <2>2
<1>5. Defines(g)
  <2> HIDE DEF V, Body
  <2> QED BY <1>3, <1>4
<1>6. Defines(read)
  <2> HIDE DEF Defines
  <2> QED BY <1>5
<1>7. Scan(p) = read[Len(p)]
  BY DEF Scan, Blank
<1> HIDE DEF read, V
<1>8. read[0] = Blank
  BY <1>1, <1>6
<1>9. ASSUME NEW i \in 1 .. Len(p)
      PROVE  read[i] = ReadPiece(read[i - 1], p[i])
  <2>1. read = [n \in 0 .. Len(p) |-> Body(read, n)]
    BY <1>6
  <2>2. i \in 0 .. Len(p) /\ i # 0
    OBVIOUS
  <2>3. read[i] = Body(read, i)
    BY <2>1, <2>2
  <2> QED BY <2>2, <2>3
<1>10. ASSUME NEW i \in 1 .. Len(p), read[i - 1] = g[i - 1] PROVE read[i] = g[i]
  <2>1. i \in 0 .. Len(p) /\ i # 0
    OBVIOUS
  <2>2. g[i] = Body(g, i)
    BY <1>4, <2>1
  <2> QED BY <1>9, <1>10, <2>1, <2>2
<1>11. \A i \in 0 .. Len(p) : read[i] = g[i]
  <2>1. read[0] = g[0]
    BY <1>3, <1>8 DEF Recurs
  <2>2. Alike(read, g, Len(p))
    BY <1>10, <2>1 DEF Alike
  <2> QED BY <1>1, <2>2, RecursionUnique
<1>12. read \in [0 .. Len(p) -> V]
  <2>1. read = [n \in 0 .. Len(p) |-> Body(read, n)]
    BY <1>6
  <2>2. \A i \in 0 .. Len(p) : read[i] \in V
    BY <1>3, <1>11
  <2> HIDE DEF Body
  <2> QED BY <2>1, <2>2
<1> QED BY <1>7, <1>8, <1>9, <1>12 DEF Scans, V

LEMMA ScanEmpty == Scan(<<>>) = Blank
<1>1. <<>> \in Seq(Pieces({})) /\ Len(<<>>) = 0
  OBVIOUS
<1>2. PICK f : Scans(f, <<>>)
  BY <1>1, ScanRecursion
<1> QED BY <1>1, <1>2 DEF Scans

LEMMA ScanAppend ==
  ASSUME NEW R, NEW p \in Seq(Pieces(R)), NEW x \in Pieces(R)
  PROVE  Scan(Append(p, x)) = ReadPiece(Scan(p), x)
<1> DEFINE q == Append(p, x)  n == Len(p)
<1>1. q \in Seq(Pieces(R)) /\ Len(q) = n + 1 /\ n \in Nat /\ q[n + 1] = x
      /\ \A i \in 1 .. n : q[i] = p[i]
  OBVIOUS
<1> HIDE DEF q
<1>2. PICK f : Scans(f, p)
  BY ScanRecursion
<1>3. PICK g : Scans(g, q)
  BY <1>1, ScanRecursion
<1>4. \A i \in 0 .. n : f[i] = g[i]
  <2>1. ASSUME NEW i \in 1 .. n, f[i - 1] = g[i - 1] PROVE f[i] = g[i]
    BY <1>1, <1>2, <1>3, <2>1 DEF Scans
  <2>2. f[0] = g[0] /\ n \in Nat
    BY <1>1, <1>2, <1>3 DEF Scans
  <2> HIDE DEF n
  <2>3. Alike(f, g, n)
    BY <2>1, <2>2 DEF Alike
  <2> QED BY <2>2, <2>3, RecursionUnique
<1>5. g[n + 1] = ReadPiece(g[n], x)
  <2>1. n + 1 \in 1 .. Len(q) /\ (n + 1) - 1 = n
    BY <1>1
  <2> QED BY <1>1, <1>3, <2>1 DEF Scans
<1>6. f[n] = g[n]
  BY <1>1, <1>4
<1> QED BY <1>1, <1>2, <1>3, <1>5, <1>6 DEF q, Scans

\* Reading pieces that keep a reading within P keeps it there.
LEMMA ScanKeeps ==
  ASSUME NEW R, NEW P, NEW Q, Q \subseteq Pieces(R),
         NEW p \in Seq(Pieces(R)), Scan(p) \in P,
         \A acc \in P, x \in Q : ReadPiece(acc, x) \in P,
         NEW q \in Seq(Q)
  PROVE  Scan(p \o q) \in P
<1> DEFINE S == {s \in Seq(Q) : Scan(p \o s) \in P}
<1>1. <<>> \in S
  <2>1. p \o <<>> = p /\ <<>> \in Seq(Q)
    OBVIOUS
  <2> QED BY <2>1
<1>2. ASSUME NEW s \in Seq(Q), NEW x \in Q, s \in S PROVE Append(s, x) \in S
  <2>1. p \o s \in Seq(Pieces(R)) /\ x \in Pieces(R) /\ Append(s, x) \in Seq(Q)
    OBVIOUS
  <2>2. p \o Append(s, x) = Append(p \o s, x)
    OBVIOUS
  <2>3. Scan(Append(p \o s, x)) = ReadPiece(Scan(p \o s), x)
    BY <2>1, ScanAppend
  <2>4. Scan(p \o s) \in P
    BY <1>2
  <2> QED BY <2>1, <2>2, <2>3, <2>4
<1> HIDE DEF S
<1>3. Seq(Q) \subseteq S
  BY <1>1, <1>2, SequenceInduction
<1> QED BY <1>3 DEF S

LEMMA ScanType ==
  ASSUME NEW R, NEW p \in Seq(Pieces(R))
  PROVE  Scan(p) \in Readings(R)
<1>1. PICK f \in [0 .. Len(p) -> Readings(R)] : Scans(f, p)
  BY ScanRecursion
<1>2. Len(p) \in 0 .. Len(p)
  OBVIOUS
<1> QED BY <1>1, <1>2 DEF Scans

\* A line that is read whole.
LEMMA ScanLine ==
  ASSUME NEW R, NEW p \in Seq(Pieces(R)), NEW r \in R
  PROVE  Scan(p \o LineOf(r))
           = ReadPiece(ReadPiece(ReadPiece(Scan(p), Start(r)), Rest(r)), Newline)
<1> DEFINE p1 == Append(p, Start(r))  p2 == Append(p1, Rest(r))
<1>1. Start(r) \in Pieces(R) /\ Rest(r) \in Pieces(R) /\ Newline \in Pieces(R)
  BY DEF Pieces, Parts
<1>2. p1 \in Seq(Pieces(R)) /\ Scan(p1) = ReadPiece(Scan(p), Start(r))
  BY <1>1, ScanAppend
<1> HIDE DEF p1
<1>3. p2 \in Seq(Pieces(R)) /\ Scan(p2) = ReadPiece(Scan(p1), Rest(r))
  BY <1>1, <1>2, ScanAppend
<1> HIDE DEF p2
<1>4. Scan(Append(p2, Newline)) = ReadPiece(Scan(p2), Newline)
  BY <1>1, <1>3, ScanAppend
<1>5. p \o LineOf(r) = Append(p2, Newline)
  <2>1. \A a, b, c : p \o <<a, b, c>> = Append(Append(Append(p, a), b), c)
    OBVIOUS
  <2> QED BY <2>1 DEF LineOf, p1, p2
<1> QED BY <1>2, <1>3, <1>4, <1>5

LEMMA PiecesMore ==
  ASSUME NEW R, NEW Q, R \subseteq Q
  PROVE  /\ Pieces(R) \subseteq Pieces(Q)
         /\ Readings(R) \subseteq Readings(Q)
<1>1. Parts(R) \subseteq Parts(Q)
  BY DEF Parts
<1>2. Seq(R) \subseteq Seq(Q) /\ Seq(Parts(R)) \subseteq Seq(Parts(Q))
  BY <1>1
<1> QED BY <1>1, <1>2 DEF Pieces, Readings

LEMMA LineType ==
  ASSUME NEW R, NEW r \in R
  PROVE  LineOf(r) \in Seq(Pieces(R)) /\ Len(LineOf(r)) = 3
         /\ \A j \in 0 .. 3 : SubSeq(LineOf(r), 1, j) \in Seq(Pieces(R))
<1>1. Start(r) \in Pieces(R) /\ Rest(r) \in Pieces(R) /\ Newline \in Pieces(R)
  BY DEF Pieces, Parts
<1>2. LineOf(r) \in Seq(Pieces(R)) /\ Len(LineOf(r)) = 3
  BY <1>1 DEF LineOf
<1> QED BY <1>2, CutType

-----------------------------------------------------------------------------
(* Types.                                                                  *)

\* The records of the first n calls of append_record.
MadeBy(n) == {r \in Record : r.event <= n}

\* What seal_run can have read back.
Seals == {Unsealed} \cup [status : {"sealed"}, valid : BOOLEAN, records : Nat]

ReplayTypes ==
  /\ file \in Seq(Pieces(MadeBy(appends)))
  /\ buffer \in Seq(Pieces(MadeBy(appends) \ Range(acked)))
  /\ isOpen \in BOOLEAN
  /\ nextIndex \in Nat /\ lastHash \in Seq(Nat \X Nat)
  /\ acked \in Seq(MadeBy(appends))
  /\ appends \in Nat /\ failures \in Nat /\ crashes \in Nat /\ reopens \in Nat
  /\ sealed \in Seals

LEMMA HashType == \A r \in Record : RecordHash(r) \in Seq(Nat \X Nat)
BY DEF Record, RecordHash

LEMMA MadeMore ==
  ASSUME NEW n \in Nat, NEW m \in Nat, n <= m
  PROVE  MadeBy(n) \subseteq MadeBy(m)
BY DEF MadeBy, Record

\* A new record is none of those made before.
LEMMA NewRecordMade ==
  ASSUME ReplayTypes
  PROVE  /\ NewRecord \in MadeBy(appends + 1)
         /\ NewRecord \notin MadeBy(appends)
         /\ NewRecord \notin Range(acked)
         /\ RecordHash(NewRecord) \in Seq(Nat \X Nat)
<1> USE DEF ReplayTypes
<1>1. NewRecord \in MadeBy(appends + 1) /\ NewRecord \notin MadeBy(appends)
  BY DEF NewRecord, MadeBy, Record
<1>2. Range(acked) \subseteq MadeBy(appends)
  BY DEF Range
<1>3. RecordHash(NewRecord) \in Seq(Nat \X Nat)
  BY <1>1, HashType DEF MadeBy
<1> QED BY <1>1, <1>2, <1>3

\* What a write leaves in file and buffer.
LEMMA WriteOutType ==
  ASSUME NEW R, NEW pending \in Seq(Pieces(R)), NEW n, WriteOut(pending, n)
  PROVE  /\ buffer' \in Seq(Pieces(R))
         /\ \E q \in Seq(Pieces(R)) : file' = file \o q
BY CutType DEF WriteOut

LEMMA ReadBackType ==
  ASSUME ReplayTypes
  PROVE  ReadBack(file) \in Readings(MadeBy(appends))
         /\ ReadBack(file) = ReadPiece(Scan(file), Newline)
<1>1. Newline \in Pieces(MadeBy(appends))
  BY DEF Pieces
<1>2. Append(file, Newline) \in Seq(Pieces(MadeBy(appends)))
  BY <1>1 DEF ReplayTypes
<1> QED BY <1>1, <1>2, ScanType, ScanAppend DEF ReadBack, ReplayTypes

\* Pieces of the lines of records in I are added to the file, and left in the buffer.
Adds(I) ==
  /\ \E q \in Seq(Pieces(I)) : file' = file \o q
  /\ buffer' \in Seq(Pieces(I))

\* What the actions that acknowledge nothing do: what moves is what the buffer had
\* and the line of a new record.
LEMMA UnacknowledgedAdds ==
  ASSUME ReplayTypes, NEW I, buffer \in Seq(Pieces(I)),
         appends' = appends + 1 => NewRecord \in I,
         NEW j, NEW n,
         \/ j \in 0 .. 3 /\ AppendFails(j, n)
         \/ Close(n)
         \/ Crash(n)
         \/ Open
         \/ Seal
  PROVE  Adds(I)
<1>1. <<>> \in Seq(Pieces(I)) /\ file = file \o <<>>
  BY DEF ReplayTypes
<1>2. CASE j \in 0 .. 3 /\ AppendFails(j, n)
  <2> DEFINE pending == buffer \o SubSeq(LineOf(NewRecord), 1, j)
  <2>1. appends' = appends + 1 /\ WriteOut(pending, n)
    BY <1>2 DEF AppendFails, Appending
  <2>2. SubSeq(LineOf(NewRecord), 1, j) \in Seq(Pieces(I))
    BY <1>2, <2>1, LineType
  <2>3. pending \in Seq(Pieces(I))
    BY <2>2, ConcatProperties
  <2> HIDE DEF pending
  <2> QED BY <2>1, <2>3, WriteOutType DEF Adds
<1>3. CASE Close(n)
  <2>1. buffer' = <<>> /\ n \in 0 .. Len(buffer) /\ file' = file \o SubSeq(buffer, 1, n)
    BY <1>3 DEF Close
  <2>2. SubSeq(buffer, 1, n) \in Seq(Pieces(I))
    BY <2>1, CutType
  <2> QED BY <1>1, <2>1, <2>2 DEF Adds
<1>4. CASE Crash(n)
  <2> DEFINE pending == buffer \o LineOf(NewRecord)
  <2>1. appends' = appends + 1 /\ buffer' = <<>>
        /\ n \in 0 .. Len(pending) /\ file' = file \o SubSeq(pending, 1, n)
    BY <1>4 DEF Crash, Appending
  <2>2. pending \in Seq(Pieces(I))
    BY <2>1, LineType, ConcatProperties
  <2> HIDE DEF pending
  <2>3. SubSeq(pending, 1, n) \in Seq(Pieces(I))
    BY <2>1, <2>2, CutType
  <2> QED BY <1>1, <2>1, <2>3 DEF Adds
<1>5. CASE Open
  <2>1. buffer' = <<>> /\ file' = file
    BY <1>5 DEF Open
  <2> QED BY <1>1, <2>1 DEF Adds
<1>6. CASE Seal
  <2>1. buffer' = buffer /\ file' = file
    BY <1>6 DEF Seal
  <2> QED BY <1>1, <2>1 DEF Adds
<1> QED BY <1>2, <1>3, <1>4, <1>5, <1>6

\* Pieces of records that are not acknowledged move, and no other is acknowledged.
Moves ==
  /\ Adds(MadeBy(appends') \ Range(acked))
  /\ acked' = acked
  /\ appends' \in {appends, appends + 1}

LEMMA UnacknowledgedMoves ==
  ASSUME ReplayTypes, NEW j, NEW n,
         \/ j \in 0 .. 3 /\ AppendFails(j, n)
         \/ Close(n)
         \/ Crash(n)
         \/ Open
         \/ Seal
  PROVE  Moves
<1> DEFINE U == MadeBy(appends') \ Range(acked)
<1>1. appends' \in {appends, appends + 1} /\ acked' = acked
  BY DEF AppendFails, Close, Crash, Open, Seal, Appending
<1>2. MadeBy(appends) \subseteq MadeBy(appends')
  BY <1>1, MadeMore DEF ReplayTypes
<1>3. Pieces(MadeBy(appends) \ Range(acked)) \subseteq Pieces(U)
  BY <1>2, PiecesMore
<1>4. buffer \in Seq(Pieces(MadeBy(appends) \ Range(acked)))
  BY DEF ReplayTypes
<1>5. buffer \in Seq(Pieces(U))
  BY <1>3, <1>4, SeqMonotonic
<1>6. appends' = appends + 1 => NewRecord \in U
  BY NewRecordMade
<1> HIDE DEF U
<1>7. Adds(U)
  BY <1>5, <1>6, UnacknowledgedAdds
<1> QED BY <1>1, <1>7 DEF Moves, U

\* What an append that succeeds does.
LEMMA AppendMoves ==
  ASSUME ReplayTypes, AppendRecord
  PROVE  /\ file' = (file \o buffer) \o LineOf(NewRecord)
         /\ buffer' = <<>>
         /\ appends' = appends + 1 /\ acked' = Append(acked, NewRecord)
<1> DEFINE pending == buffer \o LineOf(NewRecord)
<1>1. appends' = appends + 1 /\ acked' = Append(acked, NewRecord)
      /\ file' = file \o SubSeq(pending, 1, Len(pending))
      /\ buffer' = SubSeq(pending, Len(pending) + 1, Len(pending))
  BY DEF AppendRecord, Appending, WriteOut
<1> DEFINE U == Pieces(MadeBy(appends'))
<1>2. file \in Seq(U) /\ buffer \in Seq(U) /\ LineOf(NewRecord) \in Seq(U)
  <2>1. MadeBy(appends) \subseteq MadeBy(appends')
    BY <1>1, MadeMore DEF ReplayTypes
  <2>2. Pieces(MadeBy(appends)) \subseteq U
        /\ Pieces(MadeBy(appends) \ Range(acked)) \subseteq U
    BY <2>1, PiecesMore
  <2>3. LineOf(NewRecord) \in Seq(U)
    BY <1>1, NewRecordMade, LineType
  <2>4. file \in Seq(Pieces(MadeBy(appends)))
        /\ buffer \in Seq(Pieces(MadeBy(appends) \ Range(acked)))
    BY DEF ReplayTypes
  <2> QED BY <2>2, <2>3, <2>4, SeqMonotonic
<1>3. pending \in Seq(U)
  BY <1>2, ConcatProperties
<1> HIDE DEF pending
<1>4. SubSeq(pending, 1, Len(pending)) = pending
      /\ SubSeq(pending, Len(pending) + 1, Len(pending)) = <<>>
  BY <1>3, SubSeqFull
<1>5. file' = file \o (buffer \o LineOf(NewRecord)) /\ buffer' = <<>>
  BY <1>1, <1>4 DEF pending
<1>6. file \o (buffer \o LineOf(NewRecord)) = (file \o buffer) \o LineOf(NewRecord)
  BY <1>2, ConcatAssociative
<1> QED BY <1>1, <1>5, <1>6

-----------------------------------------------------------------------------
(* What reading the file back makes of what was acknowledged.              *)

\* No line of an acknowledged record is unfinished, and a reading that is whole
\* so far has the acknowledged records, in their order, and others.
Kept(R, a) ==
  {acc \in Readings(R) :
     /\ acc.line \in Seq(Parts(R \ Range(a)))
     /\ acc.ok => Only(acc.records, Range(a)) = a}

LEMMA KeptIf ==
  ASSUME NEW R, NEW a, NEW acc \in Readings(R), acc.line \in Seq(Parts(R \ Range(a))),
         acc.ok => Only(acc.records, Range(a)) = a
  PROVE  acc \in Kept(R, a)
BY DEF Kept

LEMMA KeptBlank == \A R : Blank \in Kept(R, <<>>)
<1> TAKE R
<1> DEFINE a == <<>>
<1>1. Only(<<>>, Range(a)) = <<>>
  BY OnlyEmpty, Zenon
<1>2. Blank.line = <<>> /\ Blank.records = <<>> /\ <<>> \in Seq(Parts(R \ Range(a)))
  BY DEF Blank
<1>3. Blank.ok => Only(Blank.records, Range(a)) = a
  BY <1>1, <1>2, Zenon
<1>4. Blank.line \in Seq(Parts(R \ Range(a)))
  BY <1>2, Zenon
<1> HIDE DEF a
<1>5. Blank \in Kept(R, a)
  BY <1>3, <1>4, BlankReading, KeptIf
<1> QED BY <1>5 DEF a

LEMMA KeptMore ==
  ASSUME NEW R, NEW Q, R \subseteq Q, NEW a
  PROVE  Kept(R, a) \subseteq Kept(Q, a)
<1> SUFFICES ASSUME NEW acc \in Kept(R, a) PROVE acc \in Kept(Q, a)
  OBVIOUS
<1>1. acc \in Readings(Q)
  BY PiecesMore DEF Kept
<1>2. acc.line \in Seq(Parts(Q \ Range(a)))
  <2>1. Parts(R \ Range(a)) \subseteq Parts(Q \ Range(a))
    BY DEF Parts
  <2>2. acc.line \in Seq(Parts(R \ Range(a)))
    BY DEF Kept
  <2> QED BY <2>1, <2>2, SeqMonotonic
<1> QED BY <1>1, <1>2 DEF Kept

\* A piece of a record that is not acknowledged leaves it so.
LEMMA KeptPiece ==
  ASSUME NEW R, NEW a, NEW acc \in Kept(R, a), NEW x \in Pieces(R \ Range(a))
  PROVE  ReadPiece(acc, x) \in Kept(R, a)
<1> DEFINE U == R \ Range(a)  next == ReadPiece(acc, x)
<1> SUFFICES next \in Kept(R, a)
  OBVIOUS
<1>1. acc \in Readings(R) /\ acc.line \in Seq(Parts(U))
      /\ (acc.ok => Only(acc.records, Range(a)) = a)
  BY DEF Kept
<1>2. next \in Readings(R)
  <2>1. x \in Pieces(R)
    BY PiecesMore
  <2> QED BY <1>1, <2>1, ReadPieceType
<1>3. CASE x # Newline
  <2>1. next = [acc EXCEPT !.line = Append(acc.line, x)]
    BY <1>3 DEF ReadPiece
  <2>2. x \in Parts(U)
    BY <1>3 DEF Pieces
  <2>3. Append(acc.line, x) \in Seq(Parts(U))
    BY <1>1, <2>2
  <2>4. next.line \in Seq(Parts(U)) /\ next.ok = acc.ok /\ next.records = acc.records
    BY <1>1, <2>1, <2>3 DEF Readings
  <2> HIDE DEF next
  <2> QED BY <1>1, <1>2, <2>4, KeptIf
<1>4. CASE x = Newline /\ acc.line = <<>>
  BY <1>4 DEF ReadPiece
<1>5. CASE x = Newline /\ acc.line # <<>>
  <2> DEFINE r == acc.line[1].record
  <2>1. acc.line[1] \in Parts(U)
    BY <1>1, <1>5
  <2>2. r \in R /\ r \notin Range(a)
    BY <2>1, PartRecord
  <2>3. next = [records |-> Append(acc.records, r), line |-> <<>>,
                ok |-> acc.ok /\ acc.line = <<Start(r), Rest(r)>>]
    BY <1>5 DEF ReadPiece
  <2> HIDE DEF r
  <2>4. acc.records \in Seq(R)
    BY <1>1 DEF Readings
  <2>5. Only(Append(acc.records, r), Range(a)) = Only(acc.records, Range(a))
    BY <2>2, <2>4, OnlyAppend
  <2>6. next.line = <<>> /\ next.records = Append(acc.records, r) /\ (next.ok => acc.ok)
    <3> HIDE DEF next
    <3>1. next.line = <<>> /\ next.records = Append(acc.records, r)
          /\ next.ok = (acc.ok /\ acc.line = <<Start(r), Rest(r)>>)
      BY <2>3, Zenon
    <3> QED BY <3>1
  <2>7. <<>> \in Seq(Parts(U))
    OBVIOUS
  <2> HIDE DEF next, U
  <2>8. next.line \in Seq(Parts(U)) /\ (next.ok => Only(next.records, Range(a)) = a)
    BY <1>1, <2>5, <2>6, <2>7, Zenon
  <2> QED BY <1>2, <2>8, KeptIf DEF U
<1> QED BY <1>3, <1>4, <1>5

\* The whole line of a record makes it acknowledged, unless there is a piece of a
\* line before it: then the line does not parse.
LEMMA KeptLine ==
  ASSUME NEW R, NEW a \in Seq(R), NEW acc \in Kept(R, a),
         NEW Q, R \subseteq Q, NEW r \in Q, r \notin R
  PROVE  ReadPiece(ReadPiece(ReadPiece(acc, Start(r)), Rest(r)), Newline)
           \in Kept(Q, Append(a, r))
<1> DEFINE one == ReadPiece(acc, Start(r))  two == ReadPiece(one, Rest(r))
           all == ReadPiece(two, Newline)
           b == Append(a, r)
<1>1. acc \in Readings(R) /\ acc.line \in Seq(Parts(R))
      /\ (acc.ok => Only(acc.records, Range(a)) = a)
  BY DEF Kept, Readings
<1>2. Start(r) # Newline /\ Rest(r) # Newline /\ Start(r).record = r
      /\ Start(r) \in Pieces(Q) /\ Rest(r) \in Pieces(Q) /\ Newline \in Pieces(Q)
      /\ Start(r) \in Parts(Q) /\ Rest(r) \in Parts(Q)
  BY DEF Start, Rest, Newline, Pieces, Parts
<1>3. acc \in Readings(Q)
  BY <1>1, PiecesMore
<1>4. one \in Readings(Q) /\ one.records = acc.records /\ one.ok = acc.ok
      /\ one.line = Append(acc.line, Start(r))
  <2>1. one \in Readings(Q)
    BY <1>2, <1>3, ReadPieceType
  <2> QED BY <1>2, <1>3, <2>1 DEF ReadPiece, Readings
<1> HIDE DEF one
<1>5. two \in Readings(Q) /\ two.records = acc.records /\ two.ok = acc.ok
      /\ two.line = Append(Append(acc.line, Start(r)), Rest(r))
  <2>1. two \in Readings(Q)
    BY <1>2, <1>4, ReadPieceType
  <2> QED BY <1>2, <1>4, <2>1 DEF ReadPiece, Readings
<1> HIDE DEF two
<1>6. all \in Readings(Q)
  BY <1>2, <1>5, ReadPieceType
<1> DEFINE first == two.line[1].record
<1>7. two.line # <<>> /\ (acc.line = <<>> => first = r)
      /\ (two.line = <<Start(first), Rest(first)>> => acc.line = <<>>)
  <2>1. Len(two.line) = Len(acc.line) + 2 /\ Len(acc.line) \in Nat
    BY <1>1, <1>2, <1>5
  <2>2. Len(<<Start(first), Rest(first)>>) = 2 /\ Len(<<>>) = 0
    OBVIOUS
  <2>3. ASSUME acc.line = <<>> PROVE two.line[1] = Start(r)
    BY <1>1, <1>2, <1>5, <2>3
  <2> HIDE DEF first
  <2>4. two.line = <<Start(first), Rest(first)>> => Len(acc.line) = 0
    BY <2>1, <2>2
  <2>5. Len(acc.line) = 0 => acc.line = <<>>
    BY <1>1
  <2> QED BY <1>2, <2>1, <2>2, <2>3, <2>4, <2>5 DEF first
<1>8. all = [records |-> Append(acc.records, first), line |-> <<>>,
             ok |-> acc.ok /\ two.line = <<Start(first), Rest(first)>>]
  BY <1>5, <1>7 DEF ReadPiece
<1>9. all.line = <<>> /\ all.records = Append(acc.records, first)
      /\ (all.ok => acc.ok /\ first = r)
  <2> HIDE DEF all, first
  <2>1. all.line = <<>> /\ all.records = Append(acc.records, first)
        /\ all.ok = (acc.ok /\ two.line = <<Start(first), Rest(first)>>)
    BY <1>8, Zenon
  <2> QED BY <1>7, <2>1
<1> HIDE DEF all, first
<1>10. Only(Append(acc.records, r), Range(b)) = Append(Only(acc.records, Range(a)), r)
  <2>1. Range(b) = Range(a) \cup {r} /\ Range(a) \subseteq R
    BY RangeAppend, RangeOfSeq
  <2>2. acc.records \in Seq(R) /\ acc.records \in Seq(Q)
    BY <1>1, <1>3 DEF Readings
  <2>3. R \cap Range(b) = R \cap Range(a)
    BY <2>1
  <2>4. Only(acc.records, Range(b)) = Only(acc.records, Range(a))
    BY <2>2, <2>3, OnlyAgree
  <2>5. r \in Range(b)
    BY <2>1
  <2>6. Only(Append(acc.records, r), Range(b)) = Append(Only(acc.records, Range(b)), r)
    BY <2>2, <2>5, OnlyAppend
  <2> QED BY <2>4, <2>6
<1>11. all.line \in Seq(Parts(Q \ Range(b)))
  BY <1>9
<1>12. all.ok => Only(all.records, Range(b)) = b
  BY <1>1, <1>9, <1>10
<1> HIDE DEF b
<1>13. all \in Kept(Q, b)
  BY <1>6, <1>11, <1>12, KeptIf
<1> QED BY <1>13 DEF all, two, one, b

-----------------------------------------------------------------------------
(* The invariants.                                                         *)

LEMMA ReplayTypesInit == Init => ReplayTypes
<1> SUFFICES ASSUME Init PROVE ReplayTypes
  OBVIOUS
<1>1. /\ file = <<>> /\ buffer = <<>> /\ acked = <<>> /\ lastHash = <<>>
      /\ isOpen = TRUE /\ nextIndex = 0 /\ sealed = Unsealed
      /\ appends = 0 /\ failures = 0 /\ crashes = 0 /\ reopens = 0
  BY DEF Init
<1> QED BY <1>1 DEF ReplayTypes, Seals

\* The pieces that move are in a file of records made.
LEMMA MovesTypes ==
  ASSUME ReplayTypes, Moves
  PROVE  /\ file' \in Seq(Pieces(MadeBy(appends')))
         /\ buffer' \in Seq(Pieces(MadeBy(appends') \ Range(acked')))
         /\ acked' \in Seq(MadeBy(appends'))
         /\ appends' \in Nat
<1> DEFINE R == MadeBy(appends')  U == Pieces(R \ Range(acked))
<1>1. appends \in Nat /\ appends' \in {appends, appends + 1} /\ acked' = acked
      /\ buffer' \in Seq(U)
  BY DEF ReplayTypes, Moves, Adds
<1>2. MadeBy(appends) \subseteq R
  BY <1>1, MadeMore
<1>3. Pieces(MadeBy(appends)) \subseteq Pieces(R) /\ U \subseteq Pieces(R)
  BY <1>2, PiecesMore
<1>4. PICK q \in Seq(U) : file' = file \o q
  BY DEF Moves, Adds
<1>5. file \in Seq(Pieces(MadeBy(appends))) /\ acked \in Seq(MadeBy(appends))
  BY DEF ReplayTypes
<1> HIDE DEF R, U
<1>6. file \in Seq(Pieces(R)) /\ q \in Seq(Pieces(R)) /\ acked \in Seq(R)
  BY <1>2, <1>3, <1>5, SeqMonotonic
<1>7. file' \in Seq(Pieces(R))
  BY <1>4, <1>6, ConcatProperties
<1> QED BY <1>1, <1>6, <1>7 DEF R, U

LEMMA ReplayTypesNext == ReplayTypes /\ [Next]_vars => ReplayTypes'
<1> SUFFICES ASSUME ReplayTypes, [Next]_vars PROVE ReplayTypes'
  OBVIOUS
<1>1. /\ isOpen \in BOOLEAN /\ nextIndex \in Nat /\ lastHash \in Seq(Nat \X Nat)
      /\ appends \in Nat /\ failures \in Nat /\ crashes \in Nat /\ reopens \in Nat
      /\ sealed \in Seals
  BY DEF ReplayTypes
<1> DEFINE OtherTypes ==
             /\ isOpen' \in BOOLEAN
             /\ nextIndex' \in Nat /\ lastHash' \in Seq(Nat \X Nat)
             /\ failures' \in Nat /\ crashes' \in Nat /\ reopens' \in Nat
           SealType == sealed' \in Seals
<1>2. Moves /\ OtherTypes /\ SealType => ReplayTypes'
  BY MovesTypes DEF ReplayTypes
<1>3. CASE AppendRecord
  <2>1. appends' = appends + 1 /\ acked' = Append(acked, NewRecord) /\ buffer' = <<>>
        /\ file' = (file \o buffer) \o LineOf(NewRecord)
    BY <1>3, AppendMoves
  <2> DEFINE R == MadeBy(appends')
  <2>2. NewRecord \in R /\ RecordHash(NewRecord) \in Seq(Nat \X Nat)
    BY <2>1, NewRecordMade
  <2>3. MadeBy(appends) \subseteq R
    BY <1>1, <2>1, MadeMore
  <2>4. Pieces(MadeBy(appends)) \subseteq Pieces(R)
        /\ Pieces(MadeBy(appends) \ Range(acked)) \subseteq Pieces(R)
    BY <2>3, PiecesMore
  <2>5. file \in Seq(Pieces(MadeBy(appends))) /\ acked \in Seq(MadeBy(appends))
        /\ buffer \in Seq(Pieces(MadeBy(appends) \ Range(acked)))
    BY DEF ReplayTypes
  <2> HIDE DEF R
  <2>6. file \in Seq(Pieces(R)) /\ buffer \in Seq(Pieces(R)) /\ acked \in Seq(R)
    BY <2>3, <2>4, <2>5, SeqMonotonic
  <2>7. LineOf(NewRecord) \in Seq(Pieces(R))
    BY <2>2, LineType
  <2>8. file' \in Seq(Pieces(R))
    BY <2>1, <2>6, <2>7, ConcatProperties
  <2>9. acked' \in Seq(R)
    BY <2>1, <2>2, <2>6
  <2>10. OtherTypes /\ SealType /\ appends' \in Nat
    BY <1>1, <1>3, <2>1, <2>2 DEF AppendRecord
  <2>11. buffer' \in Seq(Pieces(R \ Range(acked')))
    BY <2>1
  <2> QED BY <2>8, <2>9, <2>10, <2>11 DEF ReplayTypes, R
<1>4. ASSUME NEW j \in 0 .. 3, NEW n \in 0 .. (Len(buffer) + 3), AppendFails(j, n)
      PROVE  ReplayTypes'
  <2>1. Moves
    BY <1>4, UnacknowledgedMoves
  <2>2. OtherTypes /\ SealType
    BY <1>1, <1>4 DEF AppendFails
  <2> QED BY <1>2, <2>1, <2>2
<1>5. ASSUME NEW n \in 0 .. Len(buffer), Close(n) PROVE ReplayTypes'
  <2>1. Moves
    BY <1>5, UnacknowledgedMoves
  <2>2. nextIndex' = nextIndex /\ lastHash' = lastHash
        /\ crashes' = crashes /\ reopens' = reopens /\ sealed' = sealed
        /\ failures' \in {failures, failures + 1}
    BY <1>5 DEF Close
  <2>3. isOpen' \in BOOLEAN
    BY <1>5 DEF Close
  <2>4. OtherTypes /\ SealType
    BY <1>1, <2>2, <2>3
  <2> QED BY <1>2, <2>1, <2>4
<1>6. ASSUME NEW n \in 0 .. (Len(buffer) + 3), Crash(n) PROVE ReplayTypes'
  <2>1. Moves
    BY <1>6, UnacknowledgedMoves
  <2>2. nextIndex' = nextIndex /\ lastHash' = lastHash
        /\ crashes' = crashes + 1 /\ reopens' = reopens /\ sealed' = sealed
        /\ failures' = failures
    BY <1>6 DEF Crash
  <2>3. isOpen' \in BOOLEAN
    BY <1>6 DEF Crash
  <2>4. OtherTypes /\ SealType
    BY <1>1, <2>2, <2>3
  <2> QED BY <1>2, <2>1, <2>4
<1>7. CASE Open
  <2>1. Moves
    BY <1>7, UnacknowledgedMoves
  <2> DEFINE records == ReadBack(file).records
  <2>2. records \in Seq(Record)
    <3>1. ReadBack(file).records \in Seq(MadeBy(appends))
      BY ReadBackType DEF Readings
    <3>2. MadeBy(appends) \subseteq Record
      BY DEF MadeBy
    <3> QED BY <3>1, <3>2, SeqMonotonic
  <2>3. /\ nextIndex' = IF records = <<>> THEN 0 ELSE Last(records).index + 1
        /\ lastHash' = IF records = <<>> THEN <<>> ELSE RecordHash(Last(records))
    BY <1>7 DEF Open
  <2>4. OtherTypes /\ SealType
    <3>1. isOpen' \in BOOLEAN /\ failures' \in Nat /\ crashes' \in Nat
          /\ reopens' \in Nat /\ SealType
      BY <1>1, <1>7 DEF Open
    <3> HIDE DEF records
    <3>2. records # <<>> => Last(records) \in Record
      BY <2>2 DEF Last
    <3>3. records # <<>> => Last(records).index \in Nat
                            /\ RecordHash(Last(records)) \in Seq(Nat \X Nat)
      BY <3>2, HashType DEF Record
    <3> QED BY <2>3, <3>1, <3>3
  <2> QED BY <1>2, <2>1, <2>4
<1>8. CASE Seal
  <2>1. Moves
    BY <1>8, UnacknowledgedMoves
  <2>2. OtherTypes
    BY <1>1, <1>8 DEF Seal
  <2>3. Len(ReadBack(file).records) \in Nat /\ ReadBack(file).ok \in BOOLEAN
    BY ReadBackType DEF Readings
  <2>4. sealed' = [status |-> "sealed", valid |-> Verified(file),
                   records |-> IF Verified(file) THEN Len(ReadBack(file).records) ELSE 0]
    BY <1>8 DEF Seal
  <2>5. SealType
    <3>1. Verified(file) \in BOOLEAN
      BY DEF Verified, ChainHolds
    <3>2. (IF Verified(file) THEN Len(ReadBack(file).records) ELSE 0) \in Nat
      BY <2>3
    <3> QED BY <2>4, <3>1, <3>2 DEF Seals
  <2> QED BY <1>2, <2>1, <2>2, <2>5
<1>9. CASE UNCHANGED vars
  BY <1>9 DEF vars, ReplayTypes
<1> QED BY <1>3, <1>4, <1>5, <1>6, <1>7, <1>8, <1>9 DEF Next

\* Types: the file and the buffer have pieces of records that were made, and the
\* buffer (BufWriter) none of one that was acknowledged.
THEOREM ReplayTypesHold == Spec => []ReplayTypes
<1> QED BY ReplayTypesInit, ReplayTypesNext, PTL DEF Spec

-----------------------------------------------------------------------------
\* What reading the file has so far.
FileKept == Scan(file) \in Kept(MadeBy(appends), acked)

LEMMA FileKeptInit == Init => FileKept
<1> SUFFICES ASSUME Init PROVE FileKept
  OBVIOUS
<1>1. file = <<>> /\ acked = <<>>
  BY DEF Init
<1>2. Scan(file) = Blank
  BY <1>1, ScanEmpty, Zenon
<1>3. Blank \in Kept(MadeBy(appends), acked)
  BY <1>1, KeptBlank, Zenon
<1> QED BY <1>2, <1>3 DEF FileKept

LEMMA FileKeptNext == ReplayTypes /\ FileKept /\ [Next]_vars => FileKept'
<1> SUFFICES ASSUME ReplayTypes, FileKept, [Next]_vars PROVE FileKept'
  OBVIOUS
<1> DEFINE R == MadeBy(appends)  Q == MadeBy(appends')
<1>1. appends \in Nat /\ file \in Seq(Pieces(R)) /\ acked \in Seq(R)
      /\ buffer \in Seq(Pieces(R \ Range(acked)))
  BY DEF ReplayTypes
<1>2. ASSUME NEW K, R \subseteq K, NEW q \in Seq(Pieces(K \ Range(acked)))
      PROVE  Scan(file \o q) \in Kept(K, acked)
  <2>1. Pieces(R) \subseteq Pieces(K) /\ Pieces(K \ Range(acked)) \subseteq Pieces(K)
    BY <1>2, PiecesMore
  <2>2. file \in Seq(Pieces(K))
    BY <1>1, <2>1, SeqMonotonic
  <2>3. Scan(file) \in Kept(K, acked)
    BY <1>2, KeptMore DEF FileKept
  <2>4. \A acc \in Kept(K, acked), x \in Pieces(K \ Range(acked)) :
          ReadPiece(acc, x) \in Kept(K, acked)
    BY KeptPiece
  <2> HIDE DEF R
  <2> QED BY <1>2, <2>1, <2>2, <2>3, <2>4, ScanKeeps
<1>3. CASE Moves
  <2>1. PICK q \in Seq(Pieces(Q \ Range(acked))) : file' = file \o q
    BY <1>3 DEF Moves, Adds
  <2>2. R \subseteq Q /\ acked' = acked
    BY <1>1, <1>3, MadeMore DEF Moves
  <2> HIDE DEF R, Q
  <2>3. Scan(file \o q) \in Kept(Q, acked)
    BY <1>2, <2>2
  <2> QED BY <2>1, <2>2, <2>3 DEF FileKept, Q
<1>4. CASE AppendRecord
  <2>1. appends' = appends + 1 /\ acked' = Append(acked, NewRecord)
        /\ file' = (file \o buffer) \o LineOf(NewRecord)
    BY <1>4, AppendMoves
  <2>2. R \subseteq Q /\ NewRecord \in Q /\ NewRecord \notin R
    BY <1>1, <2>1, NewRecordMade, MadeMore
  <2> DEFINE p == file \o buffer
  <2>3. Scan(p) \in Kept(R, acked)
    BY <1>1, <1>2
  <2>4. p \in Seq(Pieces(Q))
    <3>1. Pieces(R) \subseteq Pieces(Q) /\ Pieces(R \ Range(acked)) \subseteq Pieces(Q)
      BY <2>2, PiecesMore
    <3> HIDE DEF R, Q
    <3>2. file \in Seq(Pieces(Q)) /\ buffer \in Seq(Pieces(Q))
      BY <1>1, <3>1, SeqMonotonic
    <3> QED BY <3>2, ConcatProperties
  <2> HIDE DEF R, Q, p
  <2>5. Scan(p \o LineOf(NewRecord))
          = ReadPiece(ReadPiece(ReadPiece(Scan(p), Start(NewRecord)), Rest(NewRecord)),
                      Newline)
    BY <2>2, <2>4, ScanLine
  <2>6. Scan(p \o LineOf(NewRecord)) \in Kept(Q, Append(acked, NewRecord))
    BY <1>1, <2>2, <2>3, <2>5, KeptLine
  <2> QED BY <2>1, <2>6 DEF FileKept, Q, p
<1>5. CASE UNCHANGED vars
  BY <1>5 DEF vars, FileKept
<1>6. CASE \/ \E j \in 0 .. 3, n \in 0 .. (Len(buffer) + 3) : AppendFails(j, n)
           \/ \E n \in 0 .. Len(buffer) : Close(n)
           \/ \E n \in 0 .. (Len(buffer) + 3) : Crash(n)
           \/ Open
           \/ Seal
  BY <1>3, <1>6, UnacknowledgedMoves
<1> QED BY <1>4, <1>5, <1>6 DEF Next

LEMMA KeptRead == ReplayTypes /\ FileKept => VerifiedHoldsAcked
<1> SUFFICES ASSUME ReplayTypes, FileKept, Verified(file)
             PROVE  Only(ReadBack(file).records, Range(acked)) = acked
  BY DEF VerifiedHoldsAcked
<1>1. Newline \in Pieces(MadeBy(appends) \ Range(acked))
  BY DEF Pieces
<1>2. ReadBack(file) \in Kept(MadeBy(appends), acked)
  BY <1>1, ReadBackType, KeptPiece DEF FileKept
<1> QED BY <1>2 DEF Kept, Verified

\* A file that verifies has every record that append_record returned Ok for, in
\* their order, whatever write failed and wherever the process died.
THEOREM VerifiedHoldsAckedHolds == Spec => []VerifiedHoldsAcked
<1>1. ReplayTypes /\ FileKept /\ [Next]_vars => (ReplayTypes /\ FileKept)'
  BY ReplayTypesNext, FileKeptNext
<1>2. Init => ReplayTypes /\ FileKept
  BY ReplayTypesInit, FileKeptInit
<1> QED BY <1>1, <1>2, KeptRead, PTL DEF Spec

-----------------------------------------------------------------------------
(* Sessions without a failure.                                             *)

\* What lastHash is after the records in a.
HashAfter(a) == IF a = <<>> THEN <<>> ELSE RecordHash(a[Len(a)])

\* A failed write alone leaves anything in the buffer.  Without one, and without a
\* death, reading the file gives the acknowledged records, and the log stands
\* after them.
Faithful ==
  /\ failures = 0 => buffer = <<>>
  /\ failures = 0 /\ crashes = 0 =>
       /\ Scan(file).records = acked /\ Scan(file).line = <<>> /\ Scan(file).ok
       /\ ChainHolds(acked)
       /\ nextIndex = Len(acked) /\ lastHash = HashAfter(acked)

LEMMA ChainAppend ==
  ASSUME NEW a \in Seq(Record), ChainHolds(a), NEW r, r.index = Len(a),
         r.previous = HashAfter(a)
  PROVE  ChainHolds(Append(a, r))
<1> DEFINE b == Append(a, r)
<1>1. DOMAIN b = 1 .. (Len(a) + 1) /\ DOMAIN a = 1 .. Len(a) /\ Len(a) \in Nat
      /\ b[Len(a) + 1] = r /\ \A i \in 1 .. Len(a) : b[i] = a[i]
  OBVIOUS
<1> HIDE DEF b
<1>2. ASSUME NEW i \in DOMAIN b
      PROVE  /\ b[i].index = i - 1
             /\ b[i].previous = IF i = 1 THEN <<>> ELSE RecordHash(b[i - 1])
  <2>1. CASE i <= Len(a)
    <3>1. i \in DOMAIN a /\ b[i] = a[i] /\ (i # 1 => b[i - 1] = a[i - 1])
      BY <1>1, <2>1
    <3> QED BY <3>1 DEF ChainHolds
  <2>2. CASE i = Len(a) + 1
    <3>1. b[i] = r /\ i - 1 = Len(a)
      BY <1>1, <2>2
    <3>2. CASE a = <<>>
      BY <1>1, <2>2, <3>1, <3>2 DEF HashAfter
    <3>3. CASE a # <<>>
      <4>1. i # 1 /\ b[i - 1] = a[Len(a)]
        BY <1>1, <2>2, <3>3
      <4> QED BY <3>1, <3>3, <4>1 DEF HashAfter
    <3> QED BY <3>2, <3>3
  <2> QED BY <1>1, <2>1, <2>2
<1>3. ChainHolds(b)
  BY <1>2 DEF ChainHolds
<1> QED BY <1>3 DEF b

\* A reading between two lines that reads one more line.
LEMMA ReadLine ==
  ASSUME NEW R, NEW acc \in Readings(R), acc.line = <<>>, NEW r
  PROVE  LET all == ReadPiece(ReadPiece(ReadPiece(acc, Start(r)), Rest(r)), Newline)
         IN all.records = Append(acc.records, r) /\ all.line = <<>> /\ all.ok = acc.ok
<1> DEFINE one == ReadPiece(acc, Start(r))  two == ReadPiece(one, Rest(r))
           all == ReadPiece(two, Newline)
<1>1. Start(r) # Newline /\ Rest(r) # Newline /\ Start(r).record = r
  BY DEF Start, Rest, Newline
<1>2. one = [acc EXCEPT !.line = Append(acc.line, Start(r))]
  BY <1>1 DEF ReadPiece
<1>3. one = [records |-> acc.records, line |-> <<Start(r)>>, ok |-> acc.ok]
  BY <1>2 DEF Readings
<1> HIDE DEF one
<1>4. two = [one EXCEPT !.line = Append(one.line, Rest(r))]
  BY <1>1 DEF ReadPiece
<1>5. two = [records |-> acc.records, line |-> <<Start(r), Rest(r)>>, ok |-> acc.ok]
  BY <1>3, <1>4
<1> HIDE DEF two
<1>6. two.line = <<Start(r), Rest(r)>> /\ two.line # <<>> /\ two.line[1].record = r
  BY <1>1, <1>5
<1>7. all = [records |-> Append(two.records, r), line |-> <<>>,
             ok |-> two.ok /\ two.line = <<Start(r), Rest(r)>>]
  BY <1>6 DEF ReadPiece
<1>8. two.records = acc.records /\ two.ok = acc.ok
  BY <1>5
<1> HIDE DEF all
<1>9. all.records = Append(two.records, r) /\ all.line = <<>> /\ all.ok = (two.ok /\ TRUE)
  BY <1>6, <1>7, Zenon
<1>10. acc.ok \in BOOLEAN
  BY DEF Readings
<1>11. all.ok = acc.ok
  BY <1>8, <1>9, <1>10
<1>12. all.records = Append(acc.records, r) /\ all.line = <<>> /\ all.ok = acc.ok
  BY <1>8, <1>9, <1>11
<1> QED BY <1>12 DEF all, two, one

LEMMA FaithfulInit == Init => Faithful
<1> SUFFICES ASSUME Init PROVE Faithful
  OBVIOUS
<1>1. file = <<>> /\ acked = <<>> /\ buffer = <<>> /\ nextIndex = 0 /\ lastHash = <<>>
  BY DEF Init
<1>2. Scan(file) = Blank
  BY <1>1, ScanEmpty, Zenon
<1>3. Scan(file).records = acked /\ Scan(file).line = <<>> /\ Scan(file).ok
  <2>1. Blank.records = <<>> /\ Blank.line = <<>> /\ Blank.ok
    BY DEF Blank
  <2> QED BY <1>1, <1>2, <2>1, Zenon
<1>4. ChainHolds(acked) /\ HashAfter(acked) = <<>> /\ Len(acked) = 0
  BY <1>1 DEF ChainHolds, HashAfter
<1> QED BY <1>1, <1>3, <1>4 DEF Faithful

LEMMA FaithfulNext == ReplayTypes /\ Faithful /\ [Next]_vars => Faithful'
<1> SUFFICES ASSUME ReplayTypes, Faithful, [Next]_vars PROVE Faithful'
  OBVIOUS
<1> DEFINE R == MadeBy(appends)
<1>1. failures \in Nat /\ crashes \in Nat /\ file \in Seq(Pieces(R))
      /\ acked \in Seq(R) /\ acked \in Seq(Record) /\ Scan(file) \in Readings(R)
  <2>1. R \subseteq Record
    BY DEF MadeBy
  <2>2. failures \in Nat /\ crashes \in Nat /\ file \in Seq(Pieces(R)) /\ acked \in Seq(R)
    BY DEF ReplayTypes
  <2> HIDE DEF R
  <2> QED BY <2>1, <2>2, ScanType, SeqMonotonic
<1> HIDE DEF R
<1>2. CASE AppendRecord
  <2>1. acked' = Append(acked, NewRecord) /\ buffer' = <<>> /\ appends' = appends + 1
        /\ file' = (file \o buffer) \o LineOf(NewRecord)
    BY <1>2, AppendMoves
  <2> SUFFICES ASSUME failures' = 0, crashes' = 0
               PROVE  /\ Scan(file').records = acked' /\ Scan(file').line = <<>>
                      /\ Scan(file').ok
                      /\ ChainHolds(acked') /\ nextIndex' = Len(acked')
                      /\ lastHash' = HashAfter(acked')
    BY <2>1 DEF Faithful
  <2>2. failures = 0 /\ crashes = 0 /\ nextIndex' = nextIndex + 1
        /\ lastHash' = RecordHash(NewRecord)
    BY <1>2 DEF AppendRecord
  <2>3. buffer = <<>> /\ Scan(file).records = acked /\ Scan(file).line = <<>>
        /\ Scan(file).ok /\ ChainHolds(acked) /\ nextIndex = Len(acked)
        /\ lastHash = HashAfter(acked)
    BY <2>2 DEF Faithful
  <2>4. file' = file \o LineOf(NewRecord)
    BY <1>1, <2>1, <2>3, ConcatEmptySeq
  <2>5. R \subseteq MadeBy(appends') /\ NewRecord \in MadeBy(appends')
    BY <2>1, NewRecordMade, MadeMore DEF R, ReplayTypes
  <2>6. file \in Seq(Pieces(MadeBy(appends')))
    BY <1>1, <2>5, PiecesMore, SeqMonotonic
  <2>7. Scan(file') = ReadPiece(ReadPiece(ReadPiece(Scan(file), Start(NewRecord)),
                                          Rest(NewRecord)), Newline)
    BY <2>4, <2>5, <2>6, ScanLine
  <2>8. Scan(file').records = Append(Scan(file).records, NewRecord)
        /\ Scan(file').line = <<>> /\ Scan(file').ok = Scan(file).ok
    BY <1>1, <2>3, <2>7, ReadLine
  <2>9. NewRecord.index = Len(acked) /\ NewRecord.previous = HashAfter(acked)
    BY <2>3 DEF NewRecord
  <2>10. ChainHolds(acked')
    BY <1>1, <2>1, <2>3, <2>9, ChainAppend
  <2>11. Len(acked') = Len(acked) + 1 /\ acked' # <<>> /\ acked'[Len(acked')] = NewRecord
    <3>1. NewRecord \in Record
      BY <2>5 DEF MadeBy
    <3> QED BY <1>1, <2>1, <3>1, AppendProperties
  <2>12. nextIndex' = Len(acked') /\ lastHash' = HashAfter(acked')
    BY <2>2, <2>3, <2>11 DEF HashAfter
  <2> QED BY <2>1, <2>3, <2>8, <2>10, <2>12
<1>3. ASSUME NEW j \in 0 .. 3, NEW n \in 0 .. (Len(buffer) + 3), AppendFails(j, n)
      PROVE  Faithful'
  <2>1. failures' = failures + 1
    BY <1>3 DEF AppendFails
  <2>2. failures' # 0
    BY <1>1, <2>1
  <2> QED BY <2>2 DEF Faithful
<1>4. ASSUME NEW n \in 0 .. Len(buffer), Close(n) PROVE Faithful'
  <2>1. /\ file' = file \o SubSeq(buffer, 1, n) /\ buffer' = <<>>
        /\ nextIndex' = nextIndex /\ lastHash' = lastHash /\ acked' = acked
        /\ crashes' = crashes
        /\ failures' \in {failures, failures + 1}
    BY <1>4 DEF Close
  <2>2. failures' = 0 => failures = 0
    BY <1>1, <2>1
  <2>3. ASSUME failures = 0 PROVE file' = file
    <3>1. buffer = <<>> /\ n = 0
      BY <2>3 DEF Faithful
    <3>2. SubSeq(buffer, 1, n) = <<>>
      BY <3>1
    <3> QED BY <1>1, <2>1, <3>2, ConcatEmptySeq
  <2> QED BY <2>1, <2>2, <2>3 DEF Faithful
<1>5. ASSUME NEW n \in 0 .. (Len(buffer) + 3), Crash(n) PROVE Faithful'
  <2>1. crashes' = crashes + 1 /\ buffer' = <<>>
    BY <1>5 DEF Crash
  <2>2. crashes' # 0
    BY <1>1, <2>1
  <2> QED BY <2>1, <2>2 DEF Faithful
<1>6. CASE Open
  <2> DEFINE records == ReadBack(file).records
  <2>1. /\ buffer' = <<>> /\ file' = file /\ acked' = acked
        /\ failures' = failures /\ crashes' = crashes
        /\ nextIndex' = IF records = <<>> THEN 0 ELSE Last(records).index + 1
        /\ lastHash' = IF records = <<>> THEN <<>> ELSE RecordHash(Last(records))
    BY <1>6 DEF Open
  <2>2. ASSUME failures = 0, crashes = 0
        PROVE  nextIndex' = Len(acked) /\ lastHash' = HashAfter(acked)
    <3>1. Scan(file).records = acked /\ Scan(file).line = <<>> /\ ChainHolds(acked)
      BY <2>2 DEF Faithful
    <3>2. ReadBack(file) = ReadPiece(Scan(file), Newline)
      BY ReadBackType
    <3>3. records = acked
      BY <3>1, <3>2 DEF ReadPiece
    <3> HIDE DEF records
    <3>4. CASE acked = <<>>
      BY <2>1, <3>3, <3>4 DEF HashAfter
    <3>5. CASE acked # <<>>
      <4>1. Len(acked) \in DOMAIN acked /\ Len(acked) \in Nat
        BY <1>1, <3>5
      <4>2. acked[Len(acked)].index = Len(acked) - 1
        BY <3>1, <4>1 DEF ChainHolds
      <4>3. Last(records) = acked[Len(acked)]
        BY <3>3 DEF Last
      <4> QED BY <2>1, <3>3, <3>5, <4>1, <4>2, <4>3 DEF HashAfter
    <3> QED BY <3>4, <3>5
  <2> HIDE DEF records
  <2> QED BY <2>1, <2>2 DEF Faithful
<1>7. CASE Seal
  BY <1>7 DEF Seal, Faithful
<1>8. CASE UNCHANGED vars
  BY <1>8 DEF vars, Faithful
<1> QED BY <1>2, <1>3, <1>4, <1>5, <1>6, <1>7, <1>8 DEF Next

LEMMA FaithfulRead == ReplayTypes /\ Faithful => ReadBackIsAcked
<1> SUFFICES ASSUME ReplayTypes, Faithful, failures = 0, crashes = 0
             PROVE  Verified(file) /\ ReadBack(file).records = acked
  BY DEF ReadBackIsAcked
<1>1. Scan(file).records = acked /\ Scan(file).line = <<>> /\ Scan(file).ok
      /\ ChainHolds(acked)
  BY DEF Faithful
<1>2. ReadBack(file) = ReadPiece(Scan(file), Newline)
  BY ReadBackType
<1>3. ReadBack(file) = Scan(file)
  BY <1>1, <1>2 DEF ReadPiece
<1> QED BY <1>1, <1>3 DEF Verified

\* Over any number of sessions without a failure the file verifies and reads back
\* as the acknowledged records, no more and no fewer (append_record and open).
THEOREM ReadBackIsAckedHolds == Spec => []ReadBackIsAcked
<1>1. ReplayTypes /\ Faithful /\ [Next]_vars => (ReplayTypes /\ Faithful)'
  BY ReplayTypesNext, FaithfulNext
<1>2. Init => ReplayTypes /\ Faithful
  BY ReplayTypesInit, FaithfulInit
<1> QED BY <1>1, <1>2, FaithfulRead, PTL DEF Spec

-----------------------------------------------------------------------------
(* What the manifest says of the log.                                      *)

\* The file does not change after it was sealed, unless a write failed: nothing is
\* left to write when the log is dropped.
LEMMA SealStaysTrueNext ==
  ReplayTypes /\ Faithful /\ SealStaysTrue /\ [Next]_vars => SealStaysTrue'
<1> SUFFICES ASSUME ReplayTypes, Faithful, SealStaysTrue, [Next]_vars,
                    sealed' # Unsealed, failures' = 0
             PROVE  /\ sealed'.valid = Verified(file')
                    /\ sealed'.valid => sealed'.records = Len(ReadBack(file').records)
  BY DEF SealStaysTrue
<1>1. failures \in Nat /\ file \o <<>> = file
  BY DEF ReplayTypes
<1>2. ASSUME sealed' = sealed, failures' \in {failures, failures + 1}, file' = file
      PROVE  /\ sealed'.valid = Verified(file')
             /\ sealed'.valid => sealed'.records = Len(ReadBack(file').records)
  <2>1. failures = 0
    BY <1>1, <1>2
  <2> QED BY <1>2, <2>1 DEF SealStaysTrue
<1>3. ASSUME NEW n \in 0 .. Len(buffer), Close(n)
      PROVE  sealed' = sealed /\ failures' \in {failures, failures + 1} /\ file' = file
  <2>1. sealed' = sealed /\ failures' \in {failures, failures + 1}
        /\ file' = file \o SubSeq(buffer, 1, n)
    BY <1>3 DEF Close
  <2>2. failures = 0
    BY <1>1, <2>1
  <2>3. buffer = <<>> /\ n = 0
    BY <2>2 DEF Faithful
  <2>4. SubSeq(buffer, 1, n) = <<>>
    BY <2>3
  <2> QED BY <1>1, <2>1, <2>4
<1>4. CASE Seal
  <2>1. file' = file
        /\ sealed' = [status |-> "sealed", valid |-> Verified(file),
                      records |-> IF Verified(file) THEN Len(ReadBack(file).records)
                                  ELSE 0]
    BY <1>4 DEF Seal
  <2>2. sealed'.valid = Verified(file)
        /\ sealed'.records = IF Verified(file) THEN Len(ReadBack(file).records) ELSE 0
    BY <2>1, Zenon
  <2> QED BY <2>1, <2>2, Zenon
<1>5. CASE UNCHANGED vars
  BY <1>2, <1>5 DEF vars
<1>6. CASE AppendRecord
  BY <1>6 DEF AppendRecord, Appending
<1>7. ASSUME NEW j \in 0 .. 3, NEW n \in 0 .. (Len(buffer) + 3), AppendFails(j, n)
      PROVE  FALSE
  BY <1>7 DEF AppendFails, Appending
<1>8. ASSUME NEW n \in 0 .. (Len(buffer) + 3), Crash(n) PROVE FALSE
  BY <1>8 DEF Crash, Appending
<1>9. CASE Open
  BY <1>9 DEF Open
<1> QED BY <1>2, <1>3, <1>4, <1>5, <1>6, <1>7, <1>8, <1>9 DEF Next

\* What the manifest says of the log stays true of its file, as long as no write
\* failed (build_run_manifest reads the file before the log is dropped).
THEOREM SealStaysTrueHolds == Spec => []SealStaysTrue
<1> DEFINE Inv == ReplayTypes /\ Faithful /\ SealStaysTrue
<1>1. Init => Inv
  BY ReplayTypesInit, FaithfulInit DEF Init, SealStaysTrue
<1>2. Inv /\ [Next]_vars => Inv'
  BY ReplayTypesNext, FaithfulNext, SealStaysTrueNext
<1> QED BY <1>1, <1>2, PTL DEF Spec

\* The records whose index is at most n.
IndexedTo(n) == {r \in Record : r.index <= n}

\* In its first session a log has given Ok for every index before its next one, and
\* no line in file or buffer has a later index than the next.
FirstSession ==
  reopens = 0 =>
    /\ nextIndex = Len(acked)
    /\ file \in Seq(Pieces(IndexedTo(nextIndex)))
    /\ buffer \in Seq(Pieces(IndexedTo(nextIndex)))

LEMMA FirstSessionInit == Init => FirstSession
BY DEF Init, FirstSession

LEMMA FirstSessionNext == ReplayTypes /\ FirstSession /\ [Next]_vars => FirstSession'
<1> SUFFICES ASSUME ReplayTypes, FirstSession, [Next]_vars, reopens' = 0
             PROVE  /\ nextIndex' = Len(acked')
                    /\ file' \in Seq(Pieces(IndexedTo(nextIndex')))
                    /\ buffer' \in Seq(Pieces(IndexedTo(nextIndex')))
  BY DEF FirstSession
<1> DEFINE I == IndexedTo(nextIndex)
<1>1. reopens \in Nat /\ nextIndex \in Nat /\ acked \in Seq(MadeBy(appends))
  BY DEF ReplayTypes
<1>2. NewRecord \in I
  BY <1>1, NewRecordMade DEF NewRecord, IndexedTo, MadeBy
<1>3. ASSUME reopens' = reopens
      PROVE  nextIndex = Len(acked) /\ file \in Seq(Pieces(I)) /\ buffer \in Seq(Pieces(I))
  BY <1>3 DEF FirstSession
<1> HIDE DEF I
<1>4. ASSUME Adds(I), reopens' = reopens, nextIndex' = nextIndex, acked' = acked
      PROVE  /\ nextIndex' = Len(acked')
             /\ file' \in Seq(Pieces(IndexedTo(nextIndex')))
             /\ buffer' \in Seq(Pieces(IndexedTo(nextIndex')))
  <2>1. file' \in Seq(Pieces(I)) /\ buffer' \in Seq(Pieces(I))
    BY <1>3, <1>4, ConcatProperties DEF Adds
  <2> QED BY <1>3, <1>4, <2>1 DEF I
<1>5. CASE AppendRecord
  <2>1. acked' = Append(acked, NewRecord) /\ buffer' = <<>>
        /\ file' = (file \o buffer) \o LineOf(NewRecord)
    BY <1>5, AppendMoves
  <2>2. reopens' = reopens /\ nextIndex' = nextIndex + 1
    BY <1>5 DEF AppendRecord
  <2>3. LineOf(NewRecord) \in Seq(Pieces(I))
    BY <1>2, LineType
  <2>4. file' \in Seq(Pieces(I))
    BY <1>3, <2>1, <2>2, <2>3, ConcatProperties
  <2>5. I \subseteq IndexedTo(nextIndex')
    BY <1>1, <2>2 DEF I, IndexedTo, Record
  <2>6. Pieces(I) \subseteq Pieces(IndexedTo(nextIndex'))
    BY <2>5, PiecesMore
  <2>7. file' \in Seq(Pieces(IndexedTo(nextIndex')))
    BY <2>4, <2>6, SeqMonotonic
  <2>8. Len(acked') = Len(acked) + 1
    BY <1>1, <2>1
  <2>9. nextIndex' = Len(acked')
    BY <1>3, <2>2, <2>8
  <2>10. buffer' = <<>>
    BY <2>1
  <2> QED BY <2>7, <2>9, <2>10
<1>6. ASSUME NEW j \in 0 .. 3, NEW n \in 0 .. (Len(buffer) + 3), AppendFails(j, n)
      PROVE  Adds(I) /\ reopens' = reopens /\ nextIndex' = nextIndex /\ acked' = acked
  <2>1. reopens' = reopens /\ nextIndex' = nextIndex /\ acked' = acked
    BY <1>6 DEF AppendFails
  <2> QED BY <1>2, <1>3, <1>6, <2>1, UnacknowledgedAdds
<1>7. ASSUME NEW n \in 0 .. Len(buffer), Close(n)
      PROVE  Adds(I) /\ reopens' = reopens /\ nextIndex' = nextIndex /\ acked' = acked
  <2>1. reopens' = reopens /\ nextIndex' = nextIndex /\ acked' = acked
    BY <1>7 DEF Close
  <2> QED BY <1>2, <1>3, <1>7, <2>1, UnacknowledgedAdds
<1>8. ASSUME NEW n \in 0 .. (Len(buffer) + 3), Crash(n)
      PROVE  Adds(I) /\ reopens' = reopens /\ nextIndex' = nextIndex /\ acked' = acked
  <2>1. reopens' = reopens /\ nextIndex' = nextIndex /\ acked' = acked
    BY <1>8 DEF Crash
  <2> QED BY <1>2, <1>3, <1>8, <2>1, UnacknowledgedAdds
<1>9. CASE Open
  <2>1. reopens' = reopens + 1
    BY <1>9 DEF Open
  <2> QED BY <1>1, <2>1
<1>10. CASE Seal
  <2>1. reopens' = reopens /\ nextIndex' = nextIndex /\ acked' = acked
    BY <1>10 DEF Seal
  <2>2. Adds(I)
    BY <1>2, <1>3, <1>10, <2>1, UnacknowledgedAdds
  <2> QED BY <1>4, <2>1, <2>2
<1>11. CASE UNCHANGED vars
  BY <1>11 DEF vars, FirstSession
<1> QED BY <1>4, <1>5, <1>6, <1>7, <1>8, <1>9, <1>10, <1>11 DEF Next

\* A file of the first session that verifies has the acknowledged records, and at
\* most one more: indices count up from 0 and none is beyond the next.
LEMMA VerifiedCount ==
  ASSUME ReplayTypes, FileKept, FirstSession, reopens = 0, Verified(file)
  PROVE  Len(ReadBack(file).records) \in {Len(acked), Len(acked) + 1}
<1> DEFINE records == ReadBack(file).records  I == IndexedTo(nextIndex)
<1>1. nextIndex = Len(acked) /\ file \in Seq(Pieces(I)) /\ Len(acked) \in Nat
  BY DEF FirstSession, ReplayTypes
<1>2. ReadBack(file) \in Readings(I)
  <2>1. Newline \in Pieces(I)
    BY DEF Pieces
  <2>2. Scan(file) \in Readings(I)
    BY <1>1, ScanType
  <2> HIDE DEF I
  <2> QED BY <2>1, <2>2, ReadBackType, ReadPieceType
<1>3. records \in Seq(I)
  BY <1>2 DEF Readings
<1>4. Only(records, Range(acked)) = acked
  BY KeptRead DEF VerifiedHoldsAcked
<1>5. ChainHolds(records)
  BY DEF Verified
<1> HIDE DEF records
<1>6. Len(acked) <= Len(records)
  BY <1>3, <1>4, OnlyLength
<1>7. Len(records) <= Len(acked) + 1
  <2>1. CASE records = <<>>
    BY <1>1, <2>1
  <2>2. CASE records # <<>>
    <3>1. Len(records) \in DOMAIN records /\ Len(records) \in Nat
          /\ records[Len(records)] \in I
      BY <1>3, <2>2
    <3>2. records[Len(records)].index = Len(records) - 1
      BY <1>5, <3>1 DEF ChainHolds
    <3>3. records[Len(records)].index <= nextIndex
      BY <3>1 DEF IndexedTo
    <3> QED BY <1>1, <3>1, <3>2, <3>3
  <2> QED BY <2>1, <2>2
<1>8. Len(records) \in Nat
  BY <1>3
<1> QED BY <1>1, <1>6, <1>7, <1>8 DEF records

LEMMA SealedCountNext ==
  ReplayTypes /\ FileKept /\ FirstSession /\ SealedCount /\ [Next]_vars => SealedCount'
<1> SUFFICES ASSUME ReplayTypes, FileKept, FirstSession, SealedCount, [Next]_vars,
                    reopens' = 0, sealed' # Unsealed, sealed'.valid
             PROVE  sealed'.records \in {Len(acked'), Len(acked') + 1}
  BY DEF SealedCount
<1>1. CASE Seal
  <2>1. reopens' = reopens /\ acked' = acked
        /\ sealed' = [status |-> "sealed", valid |-> Verified(file),
                      records |-> IF Verified(file) THEN Len(ReadBack(file).records)
                                  ELSE 0]
    BY <1>1 DEF Seal
  <2>2. sealed'.valid = Verified(file)
        /\ sealed'.records = IF Verified(file) THEN Len(ReadBack(file).records) ELSE 0
    BY <2>1, Zenon
  <2>3. Verified(file) /\ sealed'.records = Len(ReadBack(file).records)
    BY <2>2, Zenon
  <2>4. Len(ReadBack(file).records) \in {Len(acked), Len(acked) + 1}
    BY <2>1, <2>3, VerifiedCount
  <2> QED BY <2>1, <2>3, <2>4
<1>2. ASSUME NEW n \in 0 .. Len(buffer), Close(n)
      PROVE  sealed'.records \in {Len(acked'), Len(acked') + 1}
  BY <1>2 DEF Close, SealedCount
<1>3. CASE UNCHANGED vars
  BY <1>3 DEF vars, SealedCount
<1>4. CASE AppendRecord
  BY <1>4 DEF AppendRecord, Appending
<1>5. ASSUME NEW j \in 0 .. 3, NEW n \in 0 .. (Len(buffer) + 3), AppendFails(j, n)
      PROVE  FALSE
  BY <1>5 DEF AppendFails, Appending
<1>6. ASSUME NEW n \in 0 .. (Len(buffer) + 3), Crash(n) PROVE FALSE
  BY <1>6 DEF Crash, Appending
<1>7. CASE Open
  BY <1>7 DEF Open
<1> QED BY <1>1, <1>2, <1>3, <1>4, <1>5, <1>6, <1>7 DEF Next

\* A manifest of the log's first session that calls the replay valid counts the
\* acknowledged records and at most the one whose append was reported as failed.
THEOREM SealedCountHolds == Spec => []SealedCount
<1> DEFINE Inv == ReplayTypes /\ FileKept /\ FirstSession /\ SealedCount
<1>1. Init => Inv
  BY ReplayTypesInit, FileKeptInit, FirstSessionInit DEF Init, SealedCount
<1>2. Inv /\ [Next]_vars => Inv'
  BY ReplayTypesNext, FileKeptNext, FirstSessionNext, SealedCountNext
<1> QED BY <1>1, <1>2, PTL DEF Spec
=============================================================================
