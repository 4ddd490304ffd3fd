---------------------------- MODULE TransportProofs ---------------------------
(***************************************************************************)
(* SubprocessTransport, for pipes of every size, a child that writes any   *)
(* number of lines and any number of sessions: it implements               *)
(* TransportProgress and SidecarFeed, and the lines of a session become    *)
(* candidates and evidence once, in order, up to a point.                  *)
(*                                                                         *)
(* TransportInv bounds the lines on their way by the lines written and     *)
(* says that a stopped transport has no line, reader or child.  LineInv    *)
(* says that the lines heard of a stream of a session are numbered 1 to    *)
(* some h, and that those on their way follow them (Way).  OrderInv adds   *)
(* the order in which lines and reports were heard, and ExitInv what       *)
(* reports say of the child.                                               *)
(***************************************************************************)
EXTENDS SubprocessTransport, SequenceLemmas, TLAPS

ChildStates == {"none"} \cup Alive \cup Exited
ReaderStates == {"none", "reading", "broken", "ended"}

\* How many lines of this session wait for a pump.
Ahead ==
  Len(pipe["stdout"]) + Len(pipe["stderr"]) + Len(hand["stdout"])
  + Len(hand["stderr"]) + Len(channel)

TransportTypes ==
  /\ state \in {"Stopped", "Started"}
  /\ session \in Nat
  /\ child \in ChildStates
  /\ stdin \in Nat /\ stdinOpen \in BOOLEAN
  /\ written \in [Streams -> 0 .. MaxLines]
  /\ pipe \in [Streams -> Seq(Line)]
  /\ hand \in [Streams -> Seq(Line)]
  /\ reader \in [Streams -> ReaderStates]
  /\ channel \in Seq(Line)
  /\ call \in Calls
  /\ elapsed \in BOOLEAN /\ timedOut \in BOOLEAN

\* No more lines wait than the child wrote, a reader has one at most in its hand,
\* and a transport that is stopped has nothing under way.
TransportInv ==
  /\ TransportTypes
  /\ \A s \in Streams : Len(hand[s]) <= 1
  /\ Ahead <= written["stdout"] + written["stderr"]
  /\ state = "Stopped" =>
       /\ call \in {"idle", "drain_candidates", "drain_evidence"}
       /\ pipe = NoLines /\ hand = NoLines /\ channel = <<>>
       /\ reader = [s \in Streams |-> "none"]

LEMMA BoundsTyped ==
  /\ StdinCapacity \in Nat /\ PipeCapacity \in Nat /\ MaxLines \in Nat
  /\ StdoutKinds \subseteq LineKinds /\ StderrKinds \subseteq LineKinds
BY TransportAssumption DEF TransportAssumption

LEMMA InitTransport == Init => TransportInv
<1> SUFFICES ASSUME Init PROVE TransportInv
  OBVIOUS
<1> USE BoundsTyped DEF Init, NoLines, Streams
<1>1. /\ pipe \in [Streams -> Seq(Line)] /\ hand \in [Streams -> Seq(Line)]
      /\ channel \in Seq(Line)
  OBVIOUS
<1>2. reader \in [Streams -> ReaderStates] /\ child \in ChildStates /\ call \in Calls
  BY DEF ReaderStates, ChildStates, Calls
<1>3. written \in [Streams -> 0 .. MaxLines]
  OBVIOUS
<1>4. TransportTypes
  BY <1>1, <1>2, <1>3 DEF TransportTypes
<1>5. \A s \in Streams : Len(hand[s]) = 0 /\ Len(pipe[s]) = 0
  OBVIOUS
<1>6. Ahead = 0 /\ written["stdout"] + written["stderr"] = 0
  BY <1>5 DEF Ahead
<1> QED
  BY <1>4, <1>5, <1>6 DEF TransportInv

-----------------------------------------------------------------------------
(* Steps that leave the lines alone.                                       *)

LEMMA CallsInvariant ==
  ASSUME TransportInv,
         UNCHANGED <<state, session, streamVars, channel>>,
         child' \in ChildStates, stdin' \in Nat, stdinOpen' \in BOOLEAN,
         elapsed' \in BOOLEAN, timedOut' \in BOOLEAN, call' \in Calls,
         state = "Stopped" => call' \in {"idle", "drain_candidates", "drain_evidence"}
  PROVE  TransportInv'
BY DEF TransportInv, TransportTypes, Ahead, streamVars

LEMMA QuietStepInvariant ==
  ASSUME TransportInv,
         \/ SendBegins \/ SendWrites \/ SendFails \/ SendReturns \/ Drain
         \/ StopBegins \/ StopClosesStdin \/ StopTriesWait \/ StopChecksDeadline
         \/ StopKills \/ StopCannotKill \/ StopReaps \/ Tick \/ ChildReads
         \/ \E status \in Exited : ChildExits(status)
  PROVE  TransportInv'
<1> USE DEF TransportInv, TransportTypes, Calls, ChildStates, Alive, Exited,
            waitVars
<1>1. CASE SendBegins
  BY <1>1, CallsInvariant DEF SendBegins
<1>2. CASE SendWrites
  <2>1. stdin' \in Nat
    BY <1>2 DEF SendWrites
  <2>2. state = "Started"
    BY <1>2 DEF SendWrites
  <2> QED
    BY <1>2, <2>1, <2>2, CallsInvariant DEF SendWrites
<1>3. CASE SendFails
  BY <1>3, CallsInvariant DEF SendFails
<1>4. CASE SendReturns
  BY <1>4, CallsInvariant DEF SendReturns
<1>5. CASE Drain
  <2>1. ASSUME NEW drain, DrainBegins(drain) PROVE TransportInv'
    BY <2>1, CallsInvariant DEF DrainBegins
  <2>2. CASE DrainCandidatesReturns
    BY <2>2, CallsInvariant DEF DrainCandidatesReturns
  <2>3. CASE DrainEvidenceReturns
    BY <2>3, CallsInvariant DEF DrainEvidenceReturns
  <2>4. ASSUME NEW denied, AdmitCandidates(denied) PROVE TransportInv'
    BY <2>4, CallsInvariant DEF AdmitCandidates
  <2> QED
    BY <1>5, <2>1, <2>2, <2>3, <2>4 DEF Drain
<1>6. CASE StopBegins
  BY <1>6, CallsInvariant DEF StopBegins
<1>7. CASE StopClosesStdin
  BY <1>7, CallsInvariant DEF StopClosesStdin
<1>8. CASE StopTriesWait
  BY <1>8, CallsInvariant DEF StopTriesWait
<1>9. CASE StopChecksDeadline
  BY <1>9, CallsInvariant DEF StopChecksDeadline
<1>10. CASE StopKills
  BY <1>10, CallsInvariant DEF StopKills
<1>11. CASE StopCannotKill
  BY <1>11, CallsInvariant DEF StopCannotKill
<1>12. CASE StopReaps
  BY <1>12, CallsInvariant DEF StopReaps
<1>13. CASE Tick
  BY <1>13, CallsInvariant DEF Tick
<1>14. CASE ChildReads
  <2>1. stdin' \in Nat
    BY <1>14 DEF ChildReads
  <2> QED
    BY <1>14, <2>1, CallsInvariant DEF ChildReads
<1>15. CASE \E status \in Exited : ChildExits(status)
  BY <1>15, CallsInvariant DEF ChildExits
<1> QED
  BY <1>1, <1>2, <1>3, <1>4, <1>5, <1>6, <1>7, <1>8, <1>9, <1>10, <1>11, <1>12,
     <1>13, <1>14, <1>15

-----------------------------------------------------------------------------
(* Steps that move lines.                                                  *)

LEMMA StreamPair ==
  /\ "stdout" \in Streams /\ "stderr" \in Streams /\ "stdout" # "stderr"
  /\ \A s \in Streams : s = "stdout" \/ s = "stderr"
BY DEF Streams

\* The numbers that Ahead adds up.
LEMMA CountsTyped ==
  ASSUME TransportInv
  PROVE  /\ Len(pipe["stdout"]) \in Nat /\ Len(pipe["stderr"]) \in Nat
         /\ Len(hand["stdout"]) \in Nat /\ Len(hand["stderr"]) \in Nat
         /\ Len(channel) \in Nat
         /\ written["stdout"] \in 0 .. MaxLines /\ written["stderr"] \in 0 .. MaxLines
         /\ Len(pipe["stdout"]) + Len(pipe["stderr"]) + Len(hand["stdout"])
            + Len(hand["stderr"]) + Len(channel)
              <= written["stdout"] + written["stderr"]
<1>1. TransportTypes
  BY DEF TransportInv
<1>2. \A s \in Streams : /\ pipe[s] \in Seq(Line) /\ hand[s] \in Seq(Line)
                         /\ written[s] \in 0 .. MaxLines
  BY <1>1 DEF TransportTypes
<1>3. /\ pipe["stdout"] \in Seq(Line) /\ pipe["stderr"] \in Seq(Line)
      /\ hand["stdout"] \in Seq(Line) /\ hand["stderr"] \in Seq(Line)
      /\ written["stdout"] \in 0 .. MaxLines /\ written["stderr"] \in 0 .. MaxLines
      /\ channel \in Seq(Line)
  BY <1>1, <1>2, StreamPair DEF TransportTypes
<1>4. Len(pipe["stdout"]) + Len(pipe["stderr"]) + Len(hand["stdout"])
      + Len(hand["stderr"]) + Len(channel) <= written["stdout"] + written["stderr"]
  BY DEF TransportInv, Ahead
<1>5. /\ Len(pipe["stdout"]) \in Nat /\ Len(pipe["stderr"]) \in Nat
      /\ Len(hand["stdout"]) \in Nat /\ Len(hand["stderr"]) \in Nat
      /\ Len(channel) \in Nat
  BY <1>3
<1> QED
  BY <1>3, <1>4, <1>5, Zenon

\* The arithmetic of one line more or less.
LEMMA OneLess ==
  ASSUME NEW a \in Nat, NEW b \in Nat, NEW c \in Nat, NEW d \in Nat, NEW e \in Nat,
         NEW t \in Nat, a + b + c + d + e <= t, e > 0
  PROVE  a + b + c + d + (e - 1) <= t
OBVIOUS

LEMMA OneMore ==
  ASSUME NEW a \in Nat, NEW b \in Nat, NEW c \in Nat, NEW d \in Nat, NEW e \in Nat,
         NEW v \in Nat, NEW w \in Nat, NEW m \in Nat,
         a + b + c + d + e <= v + w, v <= m, w <= m, v < m \/ w < m
  PROVE  /\ a + b + c + d + e < 2 * m
         /\ (a + 1) + b + c + d + e <= (v + 1) + w
         /\ a + (b + 1) + c + d + e <= v + (w + 1)
OBVIOUS

LEMMA StartInvariant ==
  ASSUME TransportInv, Start
  PROVE  TransportInv'
<1> USE BoundsTyped DEF Start, TransportInv, waitVars
<1>1. written' \in [Streams -> 0 .. MaxLines] /\ reader' \in [Streams -> ReaderStates]
  BY DEF ReaderStates
<1>2. TransportTypes'
  BY <1>1 DEF TransportTypes, ChildStates, Alive
<1>3. /\ pipe = NoLines /\ hand = NoLines /\ channel = <<>>
      /\ pipe' = NoLines /\ hand' = NoLines /\ channel' = <<>>
  OBVIOUS
<1>4. \A s \in Streams : Len(hand'[s]) = 0 /\ Len(pipe'[s]) = 0 /\ written'[s] = 0
  BY <1>3 DEF NoLines
<1>5. Ahead' <= written'["stdout"] + written'["stderr"]
  <2>1. /\ Len(hand'["stdout"]) = 0 /\ Len(hand'["stderr"]) = 0
        /\ Len(pipe'["stdout"]) = 0 /\ Len(pipe'["stderr"]) = 0
        /\ written'["stdout"] = 0 /\ written'["stderr"] = 0
        /\ Len(channel') = 0
    BY <1>3, <1>4, StreamPair
  <2> HIDE DEF Start, TransportInv
  <2> QED
    BY <2>1 DEF Ahead
<1> QED
  BY <1>2, <1>4, <1>5

LEMMA PumpInvariant ==
  ASSUME TransportInv, Pump
  PROVE  TransportInv' /\ Len(channel) > 0 /\ Len(channel') = Len(channel) - 1
<1> USE DEF Pump, TransportInv, streamVars, waitVars
<1>1. channel \in Seq(Line) /\ channel # <<>> /\ channel' = Tail(channel)
  BY DEF TransportTypes
<1>2. /\ channel' \in Seq(Line)
      /\ Len(channel) \in Nat /\ Len(channel) > 0 /\ Len(channel') = Len(channel) - 1
  BY <1>1
<1>3. TransportTypes'
  BY <1>2 DEF TransportTypes
<1>4. Ahead' <= written'["stdout"] + written'["stderr"]
  <2>1. UNCHANGED <<pipe, hand, written>>
    OBVIOUS
  <2> HIDE DEF Pump, TransportInv
  <2>2. PICK a \in Nat, b \in Nat, c \in Nat, d \in Nat, e \in Nat,
             v \in 0 .. MaxLines, w \in 0 .. MaxLines :
          /\ a = Len(pipe["stdout"]) /\ b = Len(pipe["stderr"])
          /\ c = Len(hand["stdout"]) /\ d = Len(hand["stderr"]) /\ e = Len(channel)
          /\ v = written["stdout"] /\ w = written["stderr"]
          /\ a + b + c + d + e <= v + w
    BY CountsTyped, Zenon
  <2>3. e > 0 /\ Ahead' = a + b + c + d + (e - 1)
    BY <1>2, <2>1, <2>2 DEF Ahead
  <2>4. v + w \in Nat
    BY BoundsTyped
  <2>5. a + b + c + d + (e - 1) <= v + w
    BY <2>2, <2>3, <2>4, OneLess
  <2>6. Ahead' <= v + w
    BY <2>3, <2>5, Zenon
  <2> QED
    BY <2>1, <2>2, <2>6
<1>5. state # "Stopped"
  BY <1>1
<1> QED
  BY <1>2, <1>3, <1>4, <1>5

LEMMA StopReturnsInvariant ==
  ASSUME TransportInv, StopReturns
  PROVE  TransportInv'
<1> USE DEF StopReturns, TransportInv, waitVars
<1>1. pipe' = NoLines /\ hand' = NoLines /\ channel' = <<>> /\ written' = written
  OBVIOUS
<1>2. pipe' \in [Streams -> Seq(Line)] /\ hand' \in [Streams -> Seq(Line)]
  BY <1>1 DEF NoLines
<1>3. TransportTypes'
  BY <1>2 DEF TransportTypes, ChildStates, ReaderStates, Calls
<1>4. \A s \in Streams : Len(hand'[s]) = 0 /\ Len(pipe'[s]) = 0
  BY <1>1 DEF NoLines
<1>5. Ahead' <= written'["stdout"] + written'["stderr"]
  <2>1. /\ Len(hand'["stdout"]) = 0 /\ Len(hand'["stderr"]) = 0
        /\ Len(pipe'["stdout"]) = 0 /\ Len(pipe'["stderr"]) = 0
        /\ Len(channel') = 0
    BY <1>1, <1>4, StreamPair
  <2> HIDE DEF StopReturns, TransportInv
  <2> QED
    BY <1>1, <2>1, CountsTyped, BoundsTyped DEF Ahead
<1> QED
  BY <1>1, <1>3, <1>4, <1>5

LEMMA ChildWritesInvariant ==
  ASSUME TransportInv, NEW s \in Streams, NEW kind \in LineKinds, ChildWrites(s, kind)
  PROVE  /\ TransportInv'
         /\ Ahead < 2 * MaxLines
         /\ pipe[s] \in Seq(Line) /\ Len(pipe'[s]) = Len(pipe[s]) + 1
<1> USE DEF TransportInv
<1> DEFINE line == [session |-> session, stream |-> s, kind |-> kind,
                    n |-> written[s] + 1]
<1>1. \A x \in Streams : /\ Len(pipe[x]) \in Nat /\ Len(hand[x]) \in Nat
                         /\ pipe[x] \in Seq(Line)
                         /\ written[x] \in Nat /\ written[x] <= MaxLines
  BY BoundsTyped DEF TransportTypes
<1>2. line \in Line
  <2>1. session \in Nat /\ written[s] + 1 \in Nat
    BY <1>1 DEF TransportTypes
  <2> HIDE DEF TransportInv
  <2> QED
    BY <2>1 DEF Line
<1>3. pipe' = [pipe EXCEPT ![s] = Append(@, line)]
  BY DEF ChildWrites
<1> HIDE DEF line
<1>4. /\ pipe' \in [Streams -> Seq(Line)] /\ Len(pipe'[s]) = Len(pipe[s]) + 1
      /\ \A x \in Streams \ {s} : pipe'[x] = pipe[x]
  BY <1>1, <1>2, <1>3 DEF TransportTypes
<1>5. /\ written' = [written EXCEPT ![s] = @ + 1] /\ written[s] < MaxLines
      /\ child = "running" /\ reader[s] = "reading"
      /\ UNCHANGED <<state, session, child, stdin, stdinOpen, reader, hand, channel,
                     call, elapsed, timedOut>>
  BY DEF ChildWrites, waitVars
<1>6. /\ written' \in [Streams -> 0 .. MaxLines] /\ written'[s] = written[s] + 1
      /\ \A x \in Streams \ {s} : written'[x] = written[x]
  BY <1>1, <1>5, BoundsTyped DEF TransportTypes
<1>7. TransportTypes'
  BY <1>4, <1>5, <1>6 DEF TransportTypes
<1> HIDE DEF TransportInv
<1>8. /\ Ahead < 2 * MaxLines
      /\ Ahead' <= written'["stdout"] + written'["stderr"]
  <2>1. UNCHANGED <<hand, channel>>
    BY <1>5
  <2>2. PICK a \in Nat, b \in Nat, c \in Nat, d \in Nat, e \in Nat,
             v \in 0 .. MaxLines, w \in 0 .. MaxLines :
          /\ a = Len(pipe["stdout"]) /\ b = Len(pipe["stderr"])
          /\ c = Len(hand["stdout"]) /\ d = Len(hand["stderr"]) /\ e = Len(channel)
          /\ v = written["stdout"] /\ w = written["stderr"]
          /\ a + b + c + d + e <= v + w
    BY CountsTyped, Zenon
  <2>3. CASE s = "stdout"
    <3>1. pipe'["stderr"] = pipe["stderr"] /\ written'["stderr"] = written["stderr"]
      BY <1>4, <1>6, <2>3, StreamPair
    <3>2. /\ Len(pipe'["stdout"]) = Len(pipe["stdout"]) + 1
          /\ written'["stdout"] = written["stdout"] + 1
          /\ written["stdout"] < MaxLines
      BY <1>4, <1>5, <1>6, <2>3
    <3>3. /\ Ahead = a + b + c + d + e
          /\ Ahead' = (a + 1) + b + c + d + e
      BY <2>1, <2>2, <3>1, <3>2 DEF Ahead
    <3>4. /\ a + b + c + d + e < 2 * MaxLines
          /\ (a + 1) + b + c + d + e <= (v + 1) + w
      <4>1. v < MaxLines
        BY <2>2, <3>2
      <4>2. /\ v \in Nat /\ w \in Nat /\ MaxLines \in Nat
            /\ v <= MaxLines /\ w <= MaxLines
        BY BoundsTyped
      <4>3. a + b + c + d + e <= v + w
        BY <2>2
      <4> QED
        BY <4>1, <4>2, <4>3, OneMore
    <3>5. Ahead < 2 * MaxLines /\ Ahead' <= (v + 1) + w
      BY <3>3, <3>4, Zenon
    <3> QED
      BY <2>2, <3>1, <3>2, <3>5
  <2>4. CASE s = "stderr"
    <3>1. pipe'["stdout"] = pipe["stdout"] /\ written'["stdout"] = written["stdout"]
      BY <1>4, <1>6, <2>4, StreamPair
    <3>2. /\ Len(pipe'["stderr"]) = Len(pipe["stderr"]) + 1
          /\ written'["stderr"] = written["stderr"] + 1
          /\ written["stderr"] < MaxLines
      BY <1>4, <1>5, <1>6, <2>4
    <3>3. /\ Ahead = a + b + c + d + e
          /\ Ahead' = a + (b + 1) + c + d + e
      BY <2>1, <2>2, <3>1, <3>2 DEF Ahead
    <3>4. /\ a + b + c + d + e < 2 * MaxLines
          /\ a + (b + 1) + c + d + e <= v + (w + 1)
      <4>1. w < MaxLines
        BY <2>2, <3>2
      <4>2. /\ v \in Nat /\ w \in Nat /\ MaxLines \in Nat
            /\ v <= MaxLines /\ w <= MaxLines
        BY BoundsTyped
      <4>3. a + b + c + d + e <= v + w
        BY <2>2
      <4> QED
        BY <4>1, <4>2, <4>3, OneMore
    <3>5. Ahead < 2 * MaxLines /\ Ahead' <= v + (w + 1)
      BY <3>3, <3>4, Zenon
    <3> QED
      BY <2>2, <3>1, <3>2, <3>5
  <2> QED
    BY <2>3, <2>4, StreamPair
<1>9. state # "Stopped"
  <2>1. reader[s] = "reading"
    BY <1>5
  <2> QED
    BY <2>1 DEF TransportInv
<1> QED
  BY <1>1, <1>4, <1>5, <1>7, <1>8, <1>9 DEF TransportInv
LEMMA NotMore ==
  ASSUME NEW a \in Nat, NEW b \in Nat, NEW c \in Nat, NEW d \in Nat, NEW e \in Nat,
         NEW p \in Nat, NEW h \in Nat, NEW q \in Nat, NEW t \in Nat,
         a + b + c + d + e <= t
  PROVE  /\ p + h + q <= a + c + e => p + b + h + d + q <= t
         /\ p + h + q <= b + d + e => a + p + c + h + q <= t
OBVIOUS

\* A step of one stream's reader: the other stream is left alone, and the lines
\* of this one and of the channel do not become more.
LEMMA OneStreamMoves ==
  ASSUME TransportInv, NEW s \in Streams,
         Len(pipe'[s]) \in Nat, Len(hand'[s]) \in Nat, Len(channel') \in Nat,
         written' = written,
         \A x \in Streams \ {s} : pipe'[x] = pipe[x] /\ hand'[x] = hand[x],
         Len(pipe'[s]) + Len(hand'[s]) + Len(channel')
           <= Len(pipe[s]) + Len(hand[s]) + Len(channel)
  PROVE  Ahead' <= written'["stdout"] + written'["stderr"]
<1>1. PICK a \in Nat, b \in Nat, c \in Nat, d \in Nat, e \in Nat,
           v \in 0 .. MaxLines, w \in 0 .. MaxLines :
        /\ a = Len(pipe["stdout"]) /\ b = Len(pipe["stderr"])
        /\ c = Len(hand["stdout"]) /\ d = Len(hand["stderr"]) /\ e = Len(channel)
        /\ v = written["stdout"] /\ w = written["stderr"]
        /\ a + b + c + d + e <= v + w
  BY CountsTyped, Zenon
<1>2. v + w \in Nat
  BY BoundsTyped
<1> DEFINE p == Len(pipe'[s])
<1> DEFINE h == Len(hand'[s])
<1> DEFINE q == Len(channel')
<1>3. p \in Nat /\ h \in Nat /\ q \in Nat
  OBVIOUS
<1>4. a + b + c + d + e <= v + w
  BY <1>1
<1>5. CASE s = "stdout"
  <2>1. pipe'["stderr"] = pipe["stderr"] /\ hand'["stderr"] = hand["stderr"]
    BY <1>5, StreamPair
  <2>2. p + h + q <= a + c + e
    BY <1>1, <1>5
  <2>3. Ahead' = p + b + h + d + q
    BY <1>1, <1>5, <2>1 DEF Ahead
  <2> HIDE DEF p, h, q
  <2>4. p + b + h + d + q <= v + w
    BY <1>3, <1>2, <1>4, <2>2, NotMore
  <2> QED
    BY <1>1, <2>3, <2>4, Zenon
<1>6. CASE s = "stderr"
  <2>1. pipe'["stdout"] = pipe["stdout"] /\ hand'["stdout"] = hand["stdout"]
    BY <1>6, StreamPair
  <2>2. p + h + q <= b + d + e
    BY <1>1, <1>6
  <2>3. Ahead' = a + p + c + h + q
    BY <1>1, <1>6, <2>1 DEF Ahead
  <2> HIDE DEF p, h, q
  <2>4. a + p + c + h + q <= v + w
    BY <1>3, <1>2, <1>4, <2>2, NotMore
  <2> QED
    BY <1>1, <2>3, <2>4, Zenon
<1> QED
  BY <1>5, <1>6, StreamPair

\* What the lengths of one stream become, when its reader steps.
LEMMA ReaderInvariant ==
  ASSUME TransportInv, NEW s \in Streams, Reader(s)
  PROVE  TransportInv'
<1>1. /\ pipe[s] \in Seq(Line) /\ hand[s] \in Seq(Line) /\ channel \in Seq(Line)
      /\ Len(pipe[s]) \in Nat /\ Len(hand[s]) \in Nat /\ Len(channel) \in Nat
  BY DEF TransportInv, TransportTypes
<1>2. /\ TransportTypes
      /\ state = "Stopped" => reader[s] = "none" /\ hand[s] = <<>>
  BY DEF TransportInv, NoLines
<1>3. \A x \in Streams : Len(hand[x]) <= 1
  BY DEF TransportInv
<1>4. PICK a \in Nat, c \in Nat, e \in Nat :
        a = Len(pipe[s]) /\ c = Len(hand[s]) /\ e = Len(channel)
  BY <1>1, Zenon
<1>5. /\ pipe \in [Streams -> Seq(Line)] /\ hand \in [Streams -> Seq(Line)]
      /\ reader \in [Streams -> ReaderStates]
  BY <1>2 DEF TransportTypes
<1>6. CASE ReaderReads(s)
  <2>1. /\ reader[s] = "reading" /\ hand[s] = <<>> /\ pipe[s] # <<>>
        /\ hand' = [hand EXCEPT ![s] = <<Head(pipe[s])>>]
        /\ pipe' = [pipe EXCEPT ![s] = Tail(pipe[s])]
        /\ UNCHANGED <<state, session, child, stdin, stdinOpen, written, reader,
                       channel, call, elapsed, timedOut>>
    BY <1>6 DEF ReaderReads, waitVars
  <2>2. /\ Tail(pipe[s]) \in Seq(Line) /\ <<Head(pipe[s])>> \in Seq(Line)
        /\ Len(Tail(pipe[s])) = Len(pipe[s]) - 1 /\ Len(<<Head(pipe[s])>>) = 1
        /\ Len(pipe[s]) - 1 \in Nat /\ Len(hand[s]) = 0
    BY <1>1, <2>1
  <2>3. /\ pipe' \in [Streams -> Seq(Line)] /\ hand' \in [Streams -> Seq(Line)]
        /\ pipe'[s] = Tail(pipe[s]) /\ hand'[s] = <<Head(pipe[s])>>
        /\ \A x \in Streams \ {s} : pipe'[x] = pipe[x] /\ hand'[x] = hand[x]
    BY <1>5, <2>1, <2>2
  <2>4. TransportTypes'
    BY <1>2, <2>1, <2>3 DEF TransportTypes
  <2>5. /\ Len(pipe'[s]) = a - 1 /\ Len(hand'[s]) = 1
        /\ Len(channel') = e /\ c = 0 /\ a - 1 \in Nat
        /\ written' = written
    BY <1>4, <2>1, <2>2, <2>3
  <2>6. \A x \in Streams : Len(hand'[x]) <= 1
    <3>1. \A x \in Streams \ {s} : Len(hand'[x]) <= 1
      BY <1>3, <2>3
    <3>2. Len(hand'[s]) <= 1
      BY <2>5
    <3> QED
      BY <3>1, <3>2
  <2>7. /\ Len(pipe'[s]) \in Nat /\ Len(hand'[s]) \in Nat /\ Len(channel') \in Nat
         /\ Len(pipe'[s]) + Len(hand'[s]) + Len(channel')
              <= Len(pipe[s]) + Len(hand[s]) + Len(channel)
    BY <1>4, <2>5
  <2>8. Ahead' <= written'["stdout"] + written'["stderr"]
    BY <2>3, <2>5, <2>7, OneStreamMoves
  <2>9. state' # "Stopped"
    BY <1>2, <2>1
  <2> QED
    BY <2>4, <2>6, <2>8, <2>9 DEF TransportInv
<1>7. CASE ReaderBreaks(s)
  <2>1. /\ reader[s] = "reading"
        /\ reader' = [reader EXCEPT ![s] = "broken"]
        /\ pipe' = [pipe EXCEPT ![s] = <<>>]
        /\ UNCHANGED <<state, session, child, stdin, stdinOpen, written, hand,
                       channel, call, elapsed, timedOut>>
    BY <1>7 DEF ReaderBreaks, waitVars
  <2>2. /\ pipe' \in [Streams -> Seq(Line)] /\ reader' \in [Streams -> ReaderStates]
        /\ pipe'[s] = <<>> /\ hand' = hand
        /\ \A x \in Streams \ {s} : pipe'[x] = pipe[x] /\ hand'[x] = hand[x]
    BY <1>5, <2>1 DEF ReaderStates
  <2>3. TransportTypes'
    BY <1>2, <2>1, <2>2 DEF TransportTypes
  <2>4. \A x \in Streams : Len(hand'[x]) <= 1
    BY <1>3, <2>2
  <2>5. /\ Len(pipe'[s]) = 0 /\ Len(hand'[s]) = c
        /\ Len(channel') = e /\ written' = written
    BY <1>4, <2>1, <2>2
  <2>6. 0 + c + e <= a + c + e /\ 0 \in Nat /\ e + c \in Nat
    OBVIOUS
  <2>7. /\ Len(pipe'[s]) \in Nat /\ Len(hand'[s]) \in Nat /\ Len(channel') \in Nat
         /\ Len(pipe'[s]) + Len(hand'[s]) + Len(channel')
              <= Len(pipe[s]) + Len(hand[s]) + Len(channel)
    BY <1>4, <2>5, <2>6, Zenon
  <2>8. Ahead' <= written'["stdout"] + written'["stderr"]
    BY <2>2, <2>5, <2>7, OneStreamMoves
  <2>9. state' # "Stopped"
    BY <1>2, <2>1
  <2> QED
    BY <2>3, <2>4, <2>8, <2>9 DEF TransportInv
<1>8. CASE ReaderSends(s)
  <2>1. /\ hand[s] # <<>> /\ channel' = channel \o hand[s]
        /\ hand' = [hand EXCEPT ![s] = <<>>]
        /\ UNCHANGED <<state, session, child, stdin, stdinOpen, written, pipe, reader,
                       call, elapsed, timedOut>>
    BY <1>8 DEF ReaderSends, waitVars
  <2>2. /\ channel \o hand[s] \in Seq(Line)
        /\ Len(channel \o hand[s]) = Len(channel) + Len(hand[s])
        /\ Len(channel) + Len(hand[s]) \in Nat
    BY <1>1
  <2>3. /\ hand' \in [Streams -> Seq(Line)] /\ hand'[s] = <<>> /\ pipe' = pipe
        /\ \A x \in Streams \ {s} : pipe'[x] = pipe[x] /\ hand'[x] = hand[x]
    BY <1>5, <2>1
  <2>4. TransportTypes'
    BY <1>2, <2>1, <2>2, <2>3 DEF TransportTypes
  <2>5. /\ Len(pipe'[s]) = a /\ Len(hand'[s]) = 0
        /\ Len(channel') = e + c /\ written' = written
    BY <1>4, <2>1, <2>2, <2>3
  <2>6. \A x \in Streams : Len(hand'[x]) <= 1
    <3>1. \A x \in Streams \ {s} : Len(hand'[x]) <= 1
      BY <1>3, <2>3
    <3>2. Len(hand'[s]) <= 1
      BY <2>5
    <3> QED
      BY <3>1, <3>2
  <2>7. a + 0 + (e + c) <= a + c + e /\ 0 \in Nat /\ e + c \in Nat
    OBVIOUS
  <2>8. /\ Len(pipe'[s]) \in Nat /\ Len(hand'[s]) \in Nat /\ Len(channel') \in Nat
         /\ Len(pipe'[s]) + Len(hand'[s]) + Len(channel')
              <= Len(pipe[s]) + Len(hand[s]) + Len(channel)
    BY <1>4, <2>5, <2>7, Zenon
  <2>9. Ahead' <= written'["stdout"] + written'["stderr"]
    BY <2>3, <2>5, <2>8, OneStreamMoves
  <2>10. state' # "Stopped"
    BY <1>2, <2>1
  <2> QED
    BY <2>4, <2>6, <2>9, <2>10 DEF TransportInv
<1>9. CASE ReaderEnds(s)
  <2>1. /\ reader[s] = "reading"
        /\ reader' = [reader EXCEPT ![s] = "ended"]
        /\ UNCHANGED <<state, session, child, stdin, stdinOpen, written, pipe, hand,
                       channel, call, elapsed, timedOut>>
    BY <1>9 DEF ReaderEnds, waitVars
  <2>2. reader' \in [Streams -> ReaderStates]
    BY <1>5, <2>1 DEF ReaderStates
  <2>3. state' # "Stopped"
    BY <1>2, <2>1
  <2> QED
    BY <2>1, <2>2, <2>3 DEF TransportInv, TransportTypes, Ahead
<1> QED
  BY <1>6, <1>7, <1>8, <1>9 DEF Reader

LEMMA StepInvariant ==
  ASSUME TransportInv, [Next]_vars
  PROVE  TransportInv'
<1>1. CASE UNCHANGED vars
  BY <1>1 DEF TransportInv, TransportTypes, Ahead, vars, streamVars, waitVars
<1>2. ASSUME NEW s \in Streams, NEW kind \in LineKinds, ChildWrites(s, kind)
      PROVE  TransportInv'
  BY <1>2, ChildWritesInvariant
<1>3. ASSUME NEW s \in Streams, Reader(s) PROVE TransportInv'
  BY <1>3, ReaderInvariant
<1>4. CASE Child
  BY <1>2, <1>4, QuietStepInvariant DEF Child
<1>5. CASE Stop
  BY <1>5, QuietStepInvariant, StopReturnsInvariant DEF Stop
<1> QED
  BY <1>1, <1>3, <1>4, <1>5, StartInvariant, PumpInvariant, QuietStepInvariant
  DEF Next

-----------------------------------------------------------------------------
(* Every step is a step of TransportProgress, or one it does not see.      *)

LEMMA StartRefines ==
  ASSUME TransportInv, Start
  PROVE  Progress!Start
BY DEF Start, waitVars, Exited, Streams, Progress!Start, Progress!Streams

LEMMA BeginRefines ==
  ASSUME TransportInv,
         \/ SendBegins \/ StopBegins \/ \E drain \in Pumping : DrainBegins(drain)
  PROVE  \E next \in {"write"} \cup Progress!Pumping : Progress!Begins(next)
<1> USE DEF streamVars, waitVars, Progress!Pumping, Progress!Begins,
            Progress!childVars, Progress!stdinVars, Progress!readerVars
<1>1. CASE SendBegins
  BY <1>1 DEF SendBegins
<1>2. CASE StopBegins
  BY <1>2 DEF StopBegins
<1>3. CASE \E drain \in Pumping : DrainBegins(drain)
  BY <1>3 DEF DrainBegins
<1> QED
  BY <1>1, <1>2, <1>3

LEMMA KernelStepRefines ==
  ASSUME TransportInv,
         \/ SendWrites \/ SendFails \/ SendReturns \/ Pump
         \/ DrainCandidatesReturns \/ DrainEvidenceReturns
         \/ StopClosesStdin \/ StopTriesWait \/ StopChecksDeadline
         \/ StopKills \/ StopCannotKill \/ StopReaps \/ StopReturns
  PROVE  Progress!KernelStep
<1> USE DEF streamVars, waitVars, Alive, Exited, Progress!KernelStep,
            Progress!childVars, Progress!stdinVars, Progress!readerVars
<1>1. CASE SendWrites
  BY <1>1 DEF SendWrites, Progress!SendWrites
<1>2. CASE SendFails
  BY <1>2 DEF SendFails, Progress!SendFails, TransportInv, TransportTypes, ChildStates
<1>3. CASE SendReturns \/ DrainCandidatesReturns \/ DrainEvidenceReturns
  BY <1>3 DEF SendReturns, DrainCandidatesReturns, DrainEvidenceReturns,
              Progress!PumpEnds
<1>4. CASE Pump
  BY <1>4, PumpInvariant DEF Pump, Pumping, Progress!Pump, Progress!Pumping
<1>5. CASE StopClosesStdin
  BY <1>5 DEF StopClosesStdin, Progress!StopClosesStdin
<1>6. CASE StopTriesWait
  BY <1>6 DEF StopTriesWait, Progress!StopTriesWait, TransportInv, TransportTypes,
              ChildStates
<1>7. CASE StopChecksDeadline
  BY <1>7 DEF StopChecksDeadline, Progress!StopChecksDeadline
<1>8. CASE StopKills
  BY <1>8 DEF StopKills, Progress!StopKills
<1>9. CASE StopCannotKill
  BY <1>9 DEF StopCannotKill, Progress!StopCannotKill
<1>10. CASE StopReaps
  BY <1>10 DEF StopReaps, Progress!StopReaps
<1>11. CASE StopReturns
  <2>1. [s \in Streams |-> Len(NoLines[s])] = [s \in Streams |-> 0]
    BY DEF NoLines
  <2> QED
    BY <1>11, <2>1 DEF StopReturns, Streams, Progress!StopReturns, Progress!Streams
<1> QED
  BY <1>1, <1>2, <1>3, <1>4, <1>5, <1>6, <1>7, <1>8, <1>9, <1>10, <1>11

LEMMA TickRefines ==
  ASSUME Tick
  PROVE  Progress!Tick
BY DEF Tick, streamVars, Progress!Tick, Progress!childVars, Progress!stdinVars,
       Progress!readerVars

LEMMA ChildRefines ==
  ASSUME TransportInv
  PROVE  /\ ChildReads => Progress!ChildReads
         /\ (\E status \in Exited : ChildExits(status)) => Progress!ChildExits
<1> USE DEF streamVars, waitVars, Alive, Exited, Progress!childVars,
            Progress!stdinVars, Progress!readerVars
<1>1. ASSUME ChildReads PROVE Progress!ChildReads
  BY <1>1 DEF ChildReads, Progress!ChildReads
<1>2. ASSUME NEW status \in Exited, ChildExits(status) PROVE Progress!ChildExits
  BY <1>2 DEF ChildExits, Progress!ChildExits
<1> QED
  BY <1>1, <1>2

LEMMA ChildWritesRefines ==
  ASSUME TransportInv, NEW s \in Streams, NEW kind \in LineKinds, ChildWrites(s, kind)
  PROVE  Progress!ChildWrites(s)
<1>1. /\ Ahead < 2 * MaxLines
      /\ pipe[s] \in Seq(Line) /\ Len(pipe'[s]) = Len(pipe[s]) + 1
  BY ChildWritesInvariant
<1>2. Progress!Held < 2 * MaxLines
  BY <1>1, StreamPair DEF Ahead, Progress!Held
<1>3. [x \in Streams |-> Len(pipe'[x])]
        = [[x \in Streams |-> Len(pipe[x])] EXCEPT ![s] = @ + 1]
  <2>1. pipe \in [Streams -> Seq(Line)]
    BY DEF TransportInv, TransportTypes
  <2>2. \A x \in Streams \ {s} : pipe'[x] = pipe[x]
    BY <2>1 DEF ChildWrites
  <2> QED
    BY <1>1, <2>2
<1> QED
  BY <1>2, <1>3 DEF ChildWrites, waitVars, Exited, Progress!ChildWrites,
     Progress!stdinVars

LEMMA ReaderRefines ==
  ASSUME TransportInv, NEW s \in Streams, Reader(s)
  PROVE  Progress!Reader(s)
<1>1. /\ pipe \in [Streams -> Seq(Line)] /\ hand \in [Streams -> Seq(Line)]
      /\ channel \in Seq(Line) /\ Len(hand[s]) <= 1
  BY DEF TransportInv, TransportTypes
<1>2. /\ hand[s] = <<>> => Len(hand[s]) = 0
      /\ pipe[s] = <<>> => Len(pipe[s]) = 0
      /\ pipe[s] # <<>> => Len(pipe[s]) > 0
      /\ hand[s] # <<>> => Len(hand[s]) = 1
  <2>1. pipe[s] \in Seq(Line) /\ hand[s] \in Seq(Line)
    BY <1>1
  <2>2. \A q \in Seq(Line) : Len(q) \in Nat
    OBVIOUS
  <2>3. \A q \in Seq(Line) : q # <<>> => Len(q) # 0
    OBVIOUS
  <2>4. Len(pipe[s]) \in Nat /\ Len(hand[s]) \in Nat
    BY <2>1, <2>2
  <2>5. /\ pipe[s] # <<>> => Len(pipe[s]) # 0
        /\ hand[s] # <<>> => Len(hand[s]) # 0
    BY <2>1, <2>3
  <2>6. Len(<<>>) = 0
    OBVIOUS
  <2>7. Len(hand[s]) <= 1
    BY <1>1
  <2>8. /\ pipe[s] # <<>> => Len(pipe[s]) > 0
        /\ hand[s] # <<>> => Len(hand[s]) = 1
    <3>1. \A n \in Nat : n # 0 => n > 0 /\ (n <= 1 => n = 1)
      OBVIOUS
    <3> QED
      BY <2>4, <2>5, <2>7, <3>1, Zenon
  <2> QED
    BY <2>6, <2>8, Zenon
<1> USE DEF waitVars, Exited, Progress!Reader, Progress!childVars,
            Progress!stdinVars
<1>3. CASE ReaderReads(s)
  <2>1. /\ hand' = [hand EXCEPT ![s] = <<Head(pipe[s])>>]
        /\ pipe' = [pipe EXCEPT ![s] = Tail(pipe[s])] /\ pipe[s] # <<>>
    BY <1>3 DEF ReaderReads
  <2>2. [x \in Streams |-> Len(hand'[x])]
          = [[x \in Streams |-> Len(hand[x])] EXCEPT ![s] = 1]
    <3>1. hand'[s] = <<Head(pipe[s])>> /\ \A x \in Streams \ {s} : hand'[x] = hand[x]
      BY <1>1, <2>1
    <3>2. Len(hand'[s]) = 1
      BY <3>1
    <3> QED
      BY <3>1, <3>2
  <2>3. [x \in Streams |-> Len(pipe'[x])]
          = [[x \in Streams |-> Len(pipe[x])] EXCEPT ![s] = @ - 1]
    <3>1. pipe'[s] = Tail(pipe[s]) /\ \A x \in Streams \ {s} : pipe'[x] = pipe[x]
      BY <1>1, <2>1
    <3>2. Len(Tail(pipe[s])) = Len(pipe[s]) - 1
      BY <1>1, <2>1
    <3> QED
      BY <3>1, <3>2
  <2> QED
    BY <1>2, <1>3, <2>2, <2>3 DEF ReaderReads, Progress!ReaderReads
<1>4. CASE ReaderBreaks(s)
  <2>1. pipe' = [pipe EXCEPT ![s] = <<>>]
    BY <1>4 DEF ReaderBreaks
  <2>2. [x \in Streams |-> Len(pipe'[x])]
          = [[x \in Streams |-> Len(pipe[x])] EXCEPT ![s] = 0]
    BY <1>1, <2>1
  <2> QED
    BY <1>2, <1>4, <2>2 DEF ReaderBreaks, Progress!ReaderBreaks
<1>5. CASE ReaderSends(s)
  <2>1. /\ hand' = [hand EXCEPT ![s] = <<>>]
        /\ channel' = channel \o hand[s] /\ hand[s] # <<>>
    BY <1>5 DEF ReaderSends
  <2>2. [x \in Streams |-> Len(hand'[x])]
          = [[x \in Streams |-> Len(hand[x])] EXCEPT ![s] = 0]
    BY <1>1, <2>1
  <2>3. Len(channel') = Len(channel) + 1
    <3>1. hand[s] \in Seq(Line) /\ channel \in Seq(Line)
      BY <1>1
    <3>2. Len(channel \o hand[s]) = Len(channel) + Len(hand[s])
      BY <3>1
    <3>3. Len(channel') = Len(channel) + Len(hand[s])
      BY <2>1, <3>2, Zenon
    <3>4. Len(hand[s]) = 1
      BY <1>2, <2>1
    <3> QED
      BY <3>3, <3>4, Zenon
  <2> QED
    BY <1>2, <1>5, <2>2, <2>3 DEF ReaderSends, Progress!ReaderSends
<1>6. CASE ReaderEnds(s)
  BY <1>2, <1>6 DEF ReaderEnds, Progress!ReaderEnds
<1> QED
  BY <1>3, <1>4, <1>5, <1>6 DEF Reader

LEMMA DenialUnseen ==
  ASSUME NEW denied, AdmitCandidates(denied)
  PROVE  UNCHANGED Progress!vars
BY DEF AdmitCandidates, streamVars, waitVars, Progress!vars, Progress!childVars,
       Progress!stdinVars, Progress!readerVars

LEMMA StepRefines ==
  ASSUME TransportInv, [Next]_vars
  PROVE  [Progress!Next]_(Progress!vars)
<1>1. CASE UNCHANGED vars
  BY <1>1 DEF vars, streamVars, waitVars, Progress!vars, Progress!childVars,
     Progress!stdinVars, Progress!readerVars
<1>2. CASE Start
  BY <1>2, StartRefines DEF Progress!Next
<1>3. CASE Drain
  <2>1. CASE \E denied \in SUBSET {candidates[i] : i \in DOMAIN candidates} :
               AdmitCandidates(denied)
    BY <2>1, DenialUnseen
  <2>2. CASE \E drain \in Pumping : DrainBegins(drain)
    BY <2>2, BeginRefines DEF Progress!Next
  <2>3. CASE DrainCandidatesReturns \/ DrainEvidenceReturns
    BY <2>3, KernelStepRefines DEF Progress!Next
  <2> QED
    BY <1>3, <2>1, <2>2, <2>3 DEF Drain
<1>4. CASE SendBegins \/ StopBegins
  BY <1>4, BeginRefines DEF Progress!Next
<1>5. CASE SendWrites \/ SendFails \/ SendReturns \/ Pump
  BY <1>5, KernelStepRefines DEF Progress!Next
<1>6. CASE Stop
  <2>1. CASE StopBegins
    BY <1>4, <2>1
  <2>2. CASE \/ StopClosesStdin \/ StopTriesWait \/ StopChecksDeadline
             \/ StopKills \/ StopCannotKill \/ StopReaps \/ StopReturns
    BY <2>2, KernelStepRefines DEF Progress!Next
  <2> QED
    BY <1>6, <2>1, <2>2 DEF Stop
<1>7. CASE Tick
  BY <1>7, TickRefines DEF Progress!Next
<1>8. CASE Child
  <2>1. CASE ChildReads \/ \E status \in Exited : ChildExits(status)
    BY <2>1, ChildRefines DEF Progress!Next
  <2>2. ASSUME NEW s \in Streams, NEW kind \in LineKinds, ChildWrites(s, kind)
        PROVE  Progress!Next
    BY <2>2, ChildWritesRefines DEF Progress!Next, Streams, Progress!Streams
  <2> QED
    BY <1>8, <2>1, <2>2 DEF Child
<1>9. ASSUME NEW s \in Streams, Reader(s) PROVE Progress!Next
  BY <1>9, ReaderRefines DEF Progress!Next, Streams, Progress!Streams
<1> QED
  BY <1>1, <1>2, <1>3, <1>4, <1>5, <1>6, <1>7, <1>8, <1>9 DEF Next

LEMMA InitRefines == Init => Progress!Init
<1> SUFFICES ASSUME Init PROVE Progress!Init
  OBVIOUS
<1>1. /\ [s \in Streams |-> Len(pipe[s])] = [s \in Streams |-> 0]
      /\ [s \in Streams |-> Len(hand[s])] = [s \in Streams |-> 0]
  BY DEF Init, NoLines
<1> QED
  BY <1>1 DEF Init, Streams, Exited, Progress!Init, Progress!Streams

\* What waits for what: the transport, with its lines, its buffers and the reports
\* of a stop, does nothing that TransportProgress does not do, so every call
\* returns under the conditions shown there.
THEOREM ProgressImplemented == Spec => ImplementsProgress
<1>1. Init => TransportInv
  BY InitTransport
<1>2. TransportInv /\ [Next]_vars => TransportInv'
  BY StepInvariant
<1>3. TransportInv /\ [Next]_vars => [Progress!Next]_(Progress!vars)
  BY StepRefines
<1>4. Init => Progress!Init
  BY InitRefines
<1> QED
  BY <1>1, <1>2, <1>3, <1>4, PTL DEF Spec, ImplementsProgress, Progress!Spec

-----------------------------------------------------------------------------
(* Transports as feeds.                                                    *)

(***************************************************************************)
(* What the channel and the buffers hold.                                  *)
(***************************************************************************)
LineEvent == [topic : LineTopics, line : Line]
ReportEvent == [topic : ReportTopics, session : Nat]
Event == LineEvent \cup ReportEvent

BufferTypes ==
  /\ candidates \in Seq(CandidateLines) /\ evidence \in Seq(Event)
  /\ taken \in [candidates : Seq(CandidateLines), evidence : Seq(Event)]

\* The evidence that lines become, read and denied.
Noted(lines) == [i \in 1 .. Len(lines) |-> LineEvidence(lines[i])]
Denials(lines) == [i \in 1 .. Len(lines) |-> [topic |-> "denied", line |-> lines[i]]]

LEMMA LineEvents ==
  ASSUME NEW line \in Line
  PROVE  /\ LineEvidence(line) \in LineEvent /\ LineEvidence(line) \in Event
         /\ LineEvidence(line).line = line /\ LineEvidence(line).topic # "denied"
         /\ [topic |-> "denied", line |-> line] \in LineEvent
         /\ [topic |-> "denied", line |-> line] \in Event
BY DEF LineEvidence, LineEvent, Event, LineTopics

LEMMA NotedType ==
  ASSUME NEW lines \in Seq(Line)
  PROVE  /\ Noted(lines) \in Seq(Event) /\ Len(Noted(lines)) = Len(lines)
         /\ \A i \in 1 .. Len(lines) : Noted(lines)[i] = LineEvidence(lines[i])
<1>1. ASSUME NEW i \in 1 .. Len(lines) PROVE LineEvidence(lines[i]) \in Event
  <2>1. lines[i] \in Line
    OBVIOUS
  <2> QED BY <2>1, LineEvents
<1>2. Len(lines) \in Nat
  OBVIOUS
<1> QED BY <1>1, <1>2 DEF Noted

LEMMA DenialsType ==
  ASSUME NEW lines \in Seq(Line)
  PROVE  /\ Denials(lines) \in Seq(Event) /\ Len(Denials(lines)) = Len(lines)
         /\ \A i \in 1 .. Len(lines) :
              Denials(lines)[i] = [topic |-> "denied", line |-> lines[i]]
<1>1. ASSUME NEW i \in 1 .. Len(lines)
      PROVE  [topic |-> "denied", line |-> lines[i]] \in Event
  <2>1. lines[i] \in Line
    OBVIOUS
  <2> QED BY <2>1, LineEvents
<1>2. Len(lines) \in Nat
  OBVIOUS
<1> QED BY <1>1, <1>2 DEF Denials

LEMMA NotedConcat ==
  ASSUME NEW p \in Seq(Line), NEW q \in Seq(Line)
  PROVE  Noted(p \o q) = Noted(p) \o Noted(q)
<1>1. /\ p \o q \in Seq(Line) /\ Len(p \o q) = Len(p) + Len(q)
      /\ \A i \in 1 .. (Len(p) + Len(q)) :
           (p \o q)[i] = IF i <= Len(p) THEN p[i] ELSE q[i - Len(p)]
  BY ConcatProperties
<1> DEFINE a == Noted(p)  b == Noted(q)  c == Noted(p \o q)
<1>2. /\ a \in Seq(Event) /\ Len(a) = Len(p)
      /\ \A i \in 1 .. Len(p) : a[i] = LineEvidence(p[i])
  BY NotedType
<1>3. /\ b \in Seq(Event) /\ Len(b) = Len(q)
      /\ \A i \in 1 .. Len(q) : b[i] = LineEvidence(q[i])
  BY NotedType
<1>4. /\ c \in Seq(Event) /\ Len(c) = Len(p) + Len(q)
      /\ \A i \in 1 .. (Len(p) + Len(q)) : c[i] = LineEvidence((p \o q)[i])
  BY <1>1, NotedType
<1> HIDE DEF a, b, c
<1>5. /\ a \o b \in Seq(Event) /\ Len(a \o b) = Len(a) + Len(b)
      /\ \A i \in 1 .. (Len(a) + Len(b)) :
           (a \o b)[i] = IF i <= Len(a) THEN a[i] ELSE b[i - Len(a)]
  <2>1. a \in Seq(Event) /\ b \in Seq(Event)
    BY <1>2, <1>3
  <2> QED BY <2>1, ConcatProperties
<1>6. Len(p) \in Nat /\ Len(q) \in Nat
  OBVIOUS
<1>7. ASSUME NEW i \in 1 .. (Len(p) + Len(q)) PROVE c[i] = (a \o b)[i]
  <2>1. CASE i <= Len(p)
    BY <1>1, <1>2, <1>3, <1>4, <1>5, <1>6, <2>1
  <2>2. CASE ~(i <= Len(p))
    <3>1. i - Len(p) \in 1 .. Len(q)
      BY <1>6, <2>2
    <3>2. (p \o q)[i] = q[i - Len(p)] /\ (a \o b)[i] = b[i - Len(p)]
      BY <1>1, <1>2, <1>3, <1>5, <2>2
    <3> QED BY <1>3, <1>4, <3>1, <3>2
  <2> QED BY <2>1, <2>2
<1>8. c = a \o b
  BY <1>2, <1>3, <1>4, <1>5, <1>7, SeqEqual
<1> QED BY <1>8 DEF a, b, c

LEMMA NotedSingle ==
  ASSUME NEW line \in Line
  PROVE  Noted(<<line>>) = <<LineEvidence(line)>>
BY DEF Noted

LEMMA ReportsType ==
  ASSUME session \in Nat
  PROVE  /\ FailureReport \in Seq(ReportEvent) /\ Len(FailureReport) \in 0 .. 1
         /\ StopReports \in Seq(ReportEvent) /\ Len(StopReports) \in 0 .. 3
<1>1. /\ Report("failed") \in ReportEvent /\ Report("timeout") \in ReportEvent
      /\ Report("killed") \in ReportEvent
  BY DEF Report, ReportEvent, ReportTopics
<1>2. FailureReport \in Seq(ReportEvent) /\ Len(FailureReport) \in 0 .. 1
  <2> DEFINE r == Report("failed")
  <2>1. <<>> \in Seq(ReportEvent) /\ <<r>> \in Seq(ReportEvent) /\ Len(<<>>) = 0 /\ Len(<<r>>) = 1
    BY <1>1
  <2> HIDE DEF r
  <2> QED BY <2>1 DEF FailureReport, r
<1> DEFINE late == IF timedOut THEN <<Report("timeout"), Report("killed")>> ELSE <<>>
<1>3. late \in Seq(ReportEvent) /\ (Len(late) = 0 \/ Len(late) = 2)
  <2> DEFINE r == Report("timeout")  k == Report("killed")
  <2>1. /\ <<>> \in Seq(ReportEvent) /\ <<r, k>> \in Seq(ReportEvent)
        /\ Len(<<>>) = 0 /\ Len(<<r, k>>) = 2
    BY <1>1
  <2> HIDE DEF r, k
  <2> QED BY <2>1 DEF r, k
<1> HIDE DEF late
<1>4. FailureReport \o late \in Seq(ReportEvent)
      /\ Len(FailureReport \o late) = Len(FailureReport) + Len(late)
  BY <1>2, <1>3, ConcatProperties
<1>5. StopReports = FailureReport \o late
  BY DEF StopReports, late
<1>6. Len(FailureReport) \in 0 .. 1 /\ Len(late) \in 0 .. 2
  BY <1>2, <1>3
<1>7. Len(StopReports) \in 0 .. 3
  <2>1. Len(StopReports) = Len(FailureReport) + Len(late)
    BY <1>4, <1>5, Zenon
  <2>2. \A m \in 0 .. 1, n \in 0 .. 2 : m + n \in 0 .. 3
    OBVIOUS
  <2> QED BY <1>6, <2>1, <2>2, Zenon
<1>8. StopReports \in Seq(ReportEvent)
  BY <1>4, <1>5, Zenon
<1> QED BY <1>2, <1>7, <1>8

-----------------------------------------------------------------------------
(* The types of the buffers.                                               *)

LEMMA InitBuffers == Init => BufferTypes
<1>1. <<>> \in Seq(CandidateLines) /\ <<>> \in Seq(Event)
  OBVIOUS
<1> QED BY <1>1 DEF Init, BufferTypes

LEMMA TransportFacts ==
  ASSUME TransportInv
  PROVE  /\ session \in Nat /\ channel \in Seq(Line)
         /\ \A s \in Streams : /\ pipe[s] \in Seq(Line) /\ hand[s] \in Seq(Line)
                               /\ written[s] \in Nat
BY BoundsTyped DEF TransportInv, TransportTypes

\* What a step does to the buffers, for the steps that change them.
LEMMA PumpBuffers ==
  ASSUME TransportInv, BufferTypes, Pump
  PROVE  LET line == Head(channel)
         IN /\ line \in Line /\ channel = <<line>> \o channel' /\ channel' \in Seq(Line)
            /\ \/ /\ line \in CandidateLines
                  /\ candidates' = candidates \o <<line>> /\ evidence' = evidence
                  /\ candidates' \in Seq(CandidateLines)
               \/ /\ line \notin CandidateLines
                  /\ evidence' = evidence \o <<LineEvidence(line)>>
                  /\ candidates' = candidates
                  /\ evidence' \in Seq(Event)
            /\ taken' = taken
<1> DEFINE line == Head(channel)
<1>1. channel \in Seq(Line) /\ channel # <<>> /\ channel' = Tail(channel) /\ Sorted(line)
      /\ taken' = taken
  BY TransportFacts DEF Pump
<1>2. line \in Line /\ channel = <<line>> \o channel' /\ channel' \in Seq(Line)
  BY <1>1
<1> HIDE DEF line
<1>3. candidates \in Seq(CandidateLines) /\ evidence \in Seq(Event)
  BY DEF BufferTypes
<1>4. CASE IsCandidate(line)
  <2>1. line \in CandidateLines
    BY <1>2, <1>4 DEF CandidateLines
  <2>2. candidates' = Append(candidates, line) /\ evidence' = evidence
    BY <1>1, <1>4 DEF Sorted
  <2>3. Append(candidates, line) = candidates \o <<line>>
        /\ Append(candidates, line) \in Seq(CandidateLines)
    BY <1>3, <2>1, AppendProperties, AppendIsConcat
  <2> QED BY <1>1, <1>2, <2>1, <2>2, <2>3 DEF line
<1>5. CASE ~IsCandidate(line)
  <2>1. line \notin CandidateLines
    BY <1>5 DEF CandidateLines
  <2> DEFINE e == LineEvidence(line)
  <2>2. evidence' = Append(evidence, e) /\ candidates' = candidates
    BY <1>1, <1>5 DEF Sorted
  <2>3. e \in Event
    BY <1>2, LineEvents
  <2> HIDE DEF e
  <2>4. Append(evidence, e) = evidence \o <<e>> /\ Append(evidence, e) \in Seq(Event)
    BY <1>3, <2>3, AppendProperties, AppendIsConcat
  <2> QED BY <1>1, <1>2, <2>1, <2>2, <2>4 DEF line, e
<1> QED BY <1>4, <1>5

LEMMA AdmitBuffers ==
  ASSUME TransportInv, BufferTypes, NEW denied, AdmitCandidates(denied)
  PROVE  LET kept == Only(candidates, Line \ denied)
             gone == Only(candidates, denied)
         IN /\ kept \in Seq(CandidateLines) /\ gone \in Seq(CandidateLines)
            /\ gone \in Seq(Line)
            /\ candidates' = kept /\ evidence' = evidence \o Denials(gone)
            /\ evidence' \in Seq(Event)
            /\ UNCHANGED <<taken, channel, state>>
<1> DEFINE kept == Only(candidates, Line \ denied)  gone == Only(candidates, denied)
<1>1. candidates \in Seq(CandidateLines) /\ evidence \in Seq(Event)
  BY DEF BufferTypes
<1>2. /\ candidates' = kept /\ evidence' = evidence \o Denials(gone)
      /\ UNCHANGED <<taken, channel, state>>
  BY DEF AdmitCandidates, Denials
<1>3. /\ kept \in Seq(CandidateLines \cap (Line \ denied))
      /\ gone \in Seq(CandidateLines \cap denied)
  BY <1>1, OnlyType
<1> HIDE DEF kept, gone
<1>4. kept \in Seq(CandidateLines) /\ gone \in Seq(CandidateLines) /\ gone \in Seq(Line)
  <2>1. CandidateLines \subseteq Line
    BY DEF CandidateLines
  <2>2. /\ CandidateLines \cap (Line \ denied) \subseteq CandidateLines
        /\ CandidateLines \cap denied \subseteq CandidateLines
        /\ CandidateLines \cap denied \subseteq Line
    BY <2>1
  <2> QED BY <1>3, <2>2, SeqMonotonic
<1>5. evidence \o Denials(gone) \in Seq(Event)
  <2>1. Denials(gone) \in Seq(Event)
    BY <1>4, DenialsType
  <2> QED BY <1>1, <2>1, ConcatProperties
<1> QED BY <1>2, <1>4, <1>5 DEF kept, gone

LEMMA ReportBuffers ==
  ASSUME TransportInv, BufferTypes
  PROVE  /\ SendReturns => /\ evidence' = evidence \o FailureReport
                           /\ evidence' \in Seq(Event)
                           /\ UNCHANGED <<candidates, taken>>
         /\ StopReturns => /\ evidence' = evidence \o StopReports
                           /\ evidence' \in Seq(Event)
                           /\ UNCHANGED <<candidates, taken>>
<1>1. session \in Nat /\ evidence \in Seq(Event)
  BY TransportFacts DEF BufferTypes
<1>2. FailureReport \in Seq(ReportEvent) /\ StopReports \in Seq(ReportEvent)
  BY <1>1, ReportsType
<1>3. FailureReport \in Seq(Event) /\ StopReports \in Seq(Event)
  <2>1. ReportEvent \subseteq Event
    BY DEF Event
  <2> QED BY <1>2, <2>1, SeqMonotonic
<1>4. evidence \o FailureReport \in Seq(Event) /\ evidence \o StopReports \in Seq(Event)
  BY <1>1, <1>3, ConcatProperties
<1> QED BY <1>4 DEF SendReturns, StopReturns

LEMMA DrainBuffers ==
  ASSUME BufferTypes
  PROVE  /\ DrainCandidatesReturns =>
              /\ candidates' = <<>> /\ evidence' = evidence
              /\ taken' = [taken EXCEPT !.candidates = taken.candidates \o candidates]
              /\ taken' \in [candidates : Seq(CandidateLines), evidence : Seq(Event)]
         /\ DrainEvidenceReturns =>
              /\ evidence' = <<>> /\ candidates' = candidates
              /\ taken' = [taken EXCEPT !.evidence = taken.evidence \o evidence]
              /\ taken' \in [candidates : Seq(CandidateLines), evidence : Seq(Event)]
<1>1. /\ candidates \in Seq(CandidateLines) /\ evidence \in Seq(Event)
      /\ taken \in [candidates : Seq(CandidateLines), evidence : Seq(Event)]
      /\ taken.candidates \in Seq(CandidateLines) /\ taken.evidence \in Seq(Event)
  BY DEF BufferTypes
<1>2. /\ taken.candidates \o candidates \in Seq(CandidateLines)
      /\ taken.evidence \o evidence \in Seq(Event)
  BY <1>1, ConcatProperties
<1>3. ASSUME DrainCandidatesReturns
      PROVE  /\ candidates' = <<>> /\ evidence' = evidence
             /\ taken' = [taken EXCEPT !.candidates = taken.candidates \o candidates]
  BY <1>3 DEF DrainCandidatesReturns
<1>4. ASSUME DrainEvidenceReturns
      PROVE  /\ evidence' = <<>> /\ candidates' = candidates
             /\ taken' = [taken EXCEPT !.evidence = taken.evidence \o evidence]
  BY <1>4 DEF DrainEvidenceReturns
<1> QED BY <1>1, <1>2, <1>3, <1>4

\* The steps that leave the buffers alone.
Elsewhere ==
  \/ Start \/ SendBegins \/ SendWrites \/ SendFails
  \/ \E drain \in Pumping : DrainBegins(drain)
  \/ StopBegins \/ StopClosesStdin \/ StopTriesWait \/ StopChecksDeadline
  \/ StopKills \/ StopCannotKill \/ StopReaps \/ Tick \/ Child
  \/ \E s \in Streams : Reader(s)

LEMMA ElsewhereBuffers == Elsewhere => UNCHANGED <<candidates, evidence, taken>>
<1> USE DEF bufferVars
<1>1. ASSUME NEW s \in Streams, Reader(s) PROVE UNCHANGED <<candidates, evidence, taken>>
  BY <1>1 DEF Reader, ReaderReads, ReaderBreaks, ReaderSends, ReaderEnds
<1>2. ASSUME Child PROVE UNCHANGED <<candidates, evidence, taken>>
  BY <1>2 DEF Child, ChildReads, ChildWrites, ChildExits
<1> QED
  BY <1>1, <1>2 DEF Elsewhere, Start, SendBegins, SendWrites, SendFails, DrainBegins,
     StopBegins, StopClosesStdin, StopTriesWait, StopChecksDeadline, StopKills,
     StopCannotKill, StopReaps, Tick

LEMMA StepKinds ==
  Next => \/ Elsewhere \/ Pump \/ SendReturns \/ StopReturns
          \/ DrainCandidatesReturns \/ DrainEvidenceReturns
          \/ \E denied : AdmitCandidates(denied)
BY DEF Next, Drain, Stop, Elsewhere

LEMMA BufferStep == TransportInv /\ BufferTypes /\ [Next]_vars => BufferTypes'
<1> SUFFICES ASSUME TransportInv, BufferTypes, [Next]_vars PROVE BufferTypes'
  OBVIOUS
<1>1. CASE Elsewhere \/ UNCHANGED vars
  <2>1. UNCHANGED <<candidates, evidence, taken>>
    BY <1>1, ElsewhereBuffers DEF vars, bufferVars
  <2> QED BY <2>1 DEF BufferTypes
<1>2. CASE Pump
  BY <1>2, PumpBuffers DEF BufferTypes
<1>3. CASE SendReturns \/ StopReturns
  BY <1>3, ReportBuffers DEF BufferTypes
<1>4. CASE DrainCandidatesReturns \/ DrainEvidenceReturns
  <2>1. <<>> \in Seq(CandidateLines) /\ <<>> \in Seq(Event)
    OBVIOUS
  <2> QED BY <1>4, <2>1, DrainBuffers DEF BufferTypes
<1>5. ASSUME NEW denied, AdmitCandidates(denied) PROVE BufferTypes'
  BY <1>5, AdmitBuffers DEF BufferTypes
<1> QED BY <1>1, <1>2, <1>3, <1>4, <1>5, StepKinds

-----------------------------------------------------------------------------
(* The feed that the kernel sees.                                          *)

Offers == Only(channel, CandidateLines)
Garbage == Only(channel, Line \ CandidateLines)

LEMMA FeedMapped ==
  /\ Feed!Init <=> /\ (state = "Started") = FALSE
                   /\ candidates \o Offers = <<>> /\ evidence \o Noted(Garbage) = <<>>
BY DEF Feed!Init, Offers, Garbage, Noted

LEMMA GarbageTypes ==
  ASSUME NEW q \in Seq(Line)
  PROVE  /\ Only(q, CandidateLines) \in Seq(CandidateLines)
         /\ Only(q, Line \ CandidateLines) \in Seq(Line)
         /\ Only(q, CandidateLines) \in Seq(Line)
         /\ Noted(Only(q, Line \ CandidateLines)) \in Seq(Event)
<1>1. /\ Only(q, CandidateLines) \in Seq(Line \cap CandidateLines)
      /\ Only(q, Line \ CandidateLines) \in Seq(Line \cap (Line \ CandidateLines))
  BY OnlyType
<1>2. /\ Line \cap CandidateLines \subseteq CandidateLines
      /\ Line \cap CandidateLines \subseteq Line
      /\ Line \cap (Line \ CandidateLines) \subseteq Line
  OBVIOUS
<1>3. /\ Only(q, CandidateLines) \in Seq(CandidateLines)
      /\ Only(q, Line \ CandidateLines) \in Seq(Line)
      /\ Only(q, CandidateLines) \in Seq(Line)
  BY <1>1, <1>2, SeqMonotonic
<1> QED BY <1>3, NotedType

\* A line that is the first, or the last, in the channel.
LEMMA GarbageConcat ==
  ASSUME NEW p \in Seq(Line), NEW q \in Seq(Line)
  PROVE  /\ Only(p \o q, CandidateLines)
              = Only(p, CandidateLines) \o Only(q, CandidateLines)
         /\ Noted(Only(p \o q, Line \ CandidateLines))
              = Noted(Only(p, Line \ CandidateLines)) \o Noted(Only(q, Line \ CandidateLines))
<1> DEFINE T == Line  C == CandidateLines  D == Line \ CandidateLines
<1>1. p \in Seq(T) /\ q \in Seq(T)
  OBVIOUS
<1> HIDE DEF T, C, D
<1>2. /\ Only(p \o q, C) = Only(p, C) \o Only(q, C)
      /\ Only(p \o q, D) = Only(p, D) \o Only(q, D)
  BY <1>1, OnlyConcat
<1>3. Only(p, D) \in Seq(Line) /\ Only(q, D) \in Seq(Line)
  BY GarbageTypes DEF D
<1>4. Noted(Only(p, D) \o Only(q, D)) = Noted(Only(p, D)) \o Noted(Only(q, D))
  BY <1>3, NotedConcat
<1>5. Noted(Only(p \o q, D)) = Noted(Only(p, D)) \o Noted(Only(q, D))
  BY <1>2, <1>4
<1> QED BY <1>2, <1>5 DEF C, D

LEMMA GarbageSingle ==
  ASSUME NEW line \in Line
  PROVE  /\ <<line>> \in Seq(Line)
         /\ line \in CandidateLines =>
              /\ Only(<<line>>, CandidateLines) = <<line>>
              /\ Noted(Only(<<line>>, Line \ CandidateLines)) = <<>>
         /\ line \notin CandidateLines =>
              /\ Only(<<line>>, CandidateLines) = <<>>
              /\ Noted(Only(<<line>>, Line \ CandidateLines)) = <<LineEvidence(line)>>
<1> DEFINE C == CandidateLines  D == Line \ CandidateLines
<1>1. /\ Only(<<line>>, C) = IF line \in C THEN <<line>> ELSE <<>>
      /\ Only(<<line>>, D) = IF line \in D THEN <<line>> ELSE <<>>
  <2> HIDE DEF C, D
  <2> QED BY OnlySingle
<1>2. Noted(<<>>) = <<>> /\ Noted(<<line>>) = <<LineEvidence(line)>>
  BY NotedSingle DEF Noted
<1>3. ASSUME line \in C
      PROVE  Only(<<line>>, C) = <<line>> /\ Noted(Only(<<line>>, D)) = <<>>
  <2>1. line \notin D
    BY <1>3
  <2> HIDE DEF C, D
  <2> QED BY <1>1, <1>2, <1>3, <2>1, Zenon
<1>4. ASSUME line \notin C
      PROVE  Only(<<line>>, C) = <<>> /\ Noted(Only(<<line>>, D)) = <<LineEvidence(line)>>
  <2>1. line \in D
    BY <1>4
  <2> HIDE DEF C, D
  <2> QED BY <1>1, <1>2, <1>4, <2>1, Zenon
<1>5. <<line>> \in Seq(Line)
  OBVIOUS
<1> QED BY <1>3, <1>4, <1>5, Zenon

\* Nothing but a reader's send, and no call but a pump, moves a line of the channel.
LEMMA PumpUnseen ==
  ASSUME TransportInv, BufferTypes, Pump
  PROVE  UNCHANGED Feed!feed
<1> DEFINE line == Head(channel)  rest == channel'
           C == CandidateLines  D == Line \ CandidateLines
<1>1. /\ line \in Line /\ channel = <<line>> \o rest /\ rest \in Seq(Line)
      /\ \/ /\ line \in CandidateLines
            /\ candidates' = candidates \o <<line>> /\ evidence' = evidence
         \/ /\ line \notin CandidateLines
            /\ evidence' = evidence \o <<LineEvidence(line)>>
            /\ candidates' = candidates
  BY PumpBuffers
<1>2. candidates \in Seq(Line) /\ evidence \in Seq(Event)
  <2>1. CandidateLines \subseteq Line
    BY DEF CandidateLines
  <2> QED BY <2>1, SeqMonotonic DEF BufferTypes
<1> HIDE DEF line, rest
<1>3. /\ Only(<<line>> \o rest, C) = Only(<<line>>, C) \o Only(rest, C)
      /\ Noted(Only(<<line>> \o rest, D)) = Noted(Only(<<line>>, D)) \o Noted(Only(rest, D))
  BY <1>1, GarbageSingle, GarbageConcat
<1>4. Only(rest, C) \in Seq(Line) /\ Noted(Only(rest, D)) \in Seq(Event)
  BY <1>1, GarbageTypes
<1> DEFINE offered == candidates \o Only(channel, C)
           complaints == evidence \o Noted(Only(channel, D))
           offeredNext == candidates' \o Only(rest, C)
           complaintsNext == evidence' \o Noted(Only(rest, D))
<1>5. offeredNext = offered /\ complaintsNext = complaints
  <2> HIDE DEF C, D
  <2>1. CASE /\ line \in CandidateLines
             /\ candidates' = candidates \o <<line>> /\ evidence' = evidence
    <3>1. Only(<<line>>, C) = <<line>> /\ Noted(Only(<<line>>, D)) = <<>>
          /\ <<line>> \in Seq(Line)
      BY <1>1, <2>1, GarbageSingle DEF C, D
    <3> DEFINE o == Only(rest, C)  m == <<line>>  n == Noted(Only(rest, D))
    <3>2. Only(channel, C) = m \o o /\ Noted(Only(channel, D)) = <<>> \o n
      BY <1>1, <1>3, <3>1
    <3>3. m \in Seq(Line) /\ o \in Seq(Line) /\ n \in Seq(Event)
          /\ candidates' = candidates \o m
      BY <1>4, <2>1, <3>1
    <3> HIDE DEF o, m, n
    <3>4. (candidates \o m) \o o = candidates \o (m \o o)
      BY <1>2, <3>3, ConcatAssociative
    <3>5. <<>> \o n = n
      BY <3>3, ConcatEmptySeq
    <3>6. candidates' \o o = candidates \o Only(channel, C)
      BY <3>2, <3>3, <3>4, Zenon
    <3>7. evidence' \o n = evidence \o Noted(Only(channel, D))
      BY <2>1, <3>2, <3>5, Zenon
    <3> QED BY <3>6, <3>7 DEF o, n
  <2>2. CASE /\ line \notin CandidateLines
             /\ evidence' = evidence \o <<LineEvidence(line)>>
             /\ candidates' = candidates
    <3> DEFINE o == Only(rest, C)  m == <<LineEvidence(line)>>  n == Noted(Only(rest, D))
    <3>1. Only(<<line>>, C) = <<>> /\ Noted(Only(<<line>>, D)) = m
      BY <1>1, <2>2, GarbageSingle DEF C, D
    <3>2. Only(channel, C) = <<>> \o o /\ Noted(Only(channel, D)) = m \o n
      BY <1>1, <1>3, <3>1
    <3>3. m \in Seq(Event) /\ o \in Seq(Line) /\ n \in Seq(Event)
          /\ evidence' = evidence \o m
      <4>1. LineEvidence(line) \in Event
        BY <1>1, LineEvents
      <4> QED BY <1>4, <2>2, <4>1
    <3> HIDE DEF o, m, n
    <3>4. (evidence \o m) \o n = evidence \o (m \o n)
      BY <1>2, <3>3, ConcatAssociative
    <3>5. <<>> \o o = o
      BY <3>3, ConcatEmptySeq
    <3>6. evidence' \o n = evidence \o Noted(Only(channel, D))
      BY <3>2, <3>3, <3>4, Zenon
    <3>7. candidates' \o o = candidates \o Only(channel, C)
      BY <2>2, <3>2, <3>5, Zenon
    <3> QED BY <3>6, <3>7 DEF o, n
  <2> QED BY <1>1, <2>1, <2>2
<1>6. state' = state
  BY DEF Pump
<1> QED BY <1>5, <1>6 DEF Feed!feed, Noted, rest

LEMMA ExtendsConcat ==
  ASSUME NEW T, NEW p \in Seq(T), NEW q \in Seq(T)
  PROVE  Feed!Extends(p \o q, p) /\ Len(p \o q) = Len(p) + Len(q)
<1> DEFINE r == p \o q  n == Len(p)
<1>1. /\ r \in Seq(T) /\ Len(r) = n + Len(q) /\ n \in Nat /\ Len(q) \in Nat
      /\ \A i \in 1 .. (n + Len(q)) : r[i] = IF i <= n THEN p[i] ELSE q[i - n]
  BY ConcatProperties
<1> HIDE DEF r, n
<1>2. \A i \in 1 .. n : r[i] = p[i] /\ r[i] \in T
  BY <1>1
<1>3. /\ SubSeq(r, 1, n) \in Seq(T) /\ Len(SubSeq(r, 1, n)) = n
      /\ \A i \in 1 .. n : SubSeq(r, 1, n)[i] = r[i]
  BY <1>1
<1>4. SubSeq(r, 1, n) = p
  BY <1>2, <1>3, SeqEqual DEF n
<1>5. Len(r) >= n
  BY <1>1
<1> QED BY <1>1, <1>4, <1>5 DEF Feed!Extends, r, n

\* A reader offers the line it sends, or complains about it.
LEMMA SendSeen ==
  ASSUME TransportInv, BufferTypes, NEW s \in Streams, ReaderSends(s)
  PROVE  Feed!Offers \/ Feed!Complains
<1> DEFINE C == CandidateLines  D == Line \ CandidateLines
<1>1. /\ hand[s] # <<>> /\ channel' = channel \o hand[s]
      /\ UNCHANGED <<candidates, evidence, state>>
  BY DEF ReaderSends, bufferVars
<1>2. state = "Started"
  BY <1>1 DEF TransportInv, NoLines, TransportTypes
<1>3. hand[s] \in Seq(Line) /\ channel \in Seq(Line) /\ Len(hand[s]) <= 1
  BY DEF TransportInv, TransportTypes
<1>4. PICK line \in Line : hand[s] = <<line>>
  BY <1>1, <1>3, OneElement
<1>5. candidates \in Seq(Line) /\ evidence \in Seq(Event)
  <2>1. CandidateLines \subseteq Line
    BY DEF CandidateLines
  <2> QED BY <2>1, SeqMonotonic DEF BufferTypes
<1>6. /\ Only(channel \o <<line>>, C) = Only(channel, C) \o Only(<<line>>, C)
      /\ Noted(Only(channel \o <<line>>, D)) = Noted(Only(channel, D)) \o Noted(Only(<<line>>, D))
  BY <1>3, <1>4, GarbageSingle, GarbageConcat
<1>7. Only(channel, C) \in Seq(Line) /\ Noted(Only(channel, D)) \in Seq(Event)
  BY <1>3, GarbageTypes
<1> DEFINE o == Only(channel, C)  g == Noted(Only(channel, D))
           offered == candidates \o Only(channel, C)
           complaints == evidence \o Noted(Only(channel, D))
           offeredNext == candidates' \o Only(channel', C)
           complaintsNext == evidence' \o Noted(Only(channel', D))
<1>8. CASE line \in CandidateLines
  <2> DEFINE m == <<line>>
  <2>1. Only(<<line>>, C) = m /\ Noted(Only(<<line>>, D)) = <<>> /\ m \in Seq(Line)
        /\ Len(m) = 1
    BY <1>4, <1>8, GarbageSingle
  <2>2. o \in Seq(Line) /\ g \in Seq(Event) /\ m \in Seq(Line)
    BY <1>7, <2>1
  <2>3. offeredNext = candidates \o (o \o m) /\ complaintsNext = evidence \o (g \o <<>>)
    BY <1>1, <1>4, <1>6, <2>1, Zenon
  <2> HIDE DEF m, o, g, C, D
  <2>4. candidates \o (o \o m) = (candidates \o o) \o m /\ g \o <<>> = g
        /\ candidates \o o \in Seq(Line)
    BY <1>5, <2>2, ConcatAssociative, ConcatEmptySeq, ConcatProperties
  <2>5. Feed!Extends((candidates \o o) \o m, candidates \o o)
        /\ Len((candidates \o o) \o m) = Len(candidates \o o) + Len(m)
    BY <2>2, <2>4, ExtendsConcat
  <2>6. Feed!Extends(offeredNext, offered) /\ Len(offeredNext) = Len(offered) + 1
        /\ complaintsNext = complaints
    <3>1. offered = candidates \o o /\ complaints = evidence \o g
      BY DEF o, g
    <3>2. offeredNext = (candidates \o o) \o m /\ complaintsNext = evidence \o g
      BY <2>3, <2>4, Zenon
    <3> HIDE DEF offered, complaints, offeredNext, complaintsNext
    <3> QED BY <2>1, <2>5, <3>1, <3>2, Zenon
  <2>7. Feed!Offers
    BY <1>1, <1>2, <2>6 DEF Feed!Offers, C, D, Noted
  <2> QED BY <2>7
<1>9. CASE line \notin CandidateLines
  <2> DEFINE m == <<LineEvidence(line)>>
  <2>1. Only(<<line>>, C) = <<>> /\ Noted(Only(<<line>>, D)) = m /\ m \in Seq(Event)
        /\ Len(m) = 1
    <3> DEFINE e == LineEvidence(line)
    <3>1. e \in Event
      BY <1>4, LineEvents
    <3>2. Only(<<line>>, C) = <<>> /\ Noted(Only(<<line>>, D)) = m
      BY <1>4, <1>9, GarbageSingle, Zenon
    <3> HIDE DEF e, C, D
    <3>3. <<e>> \in Seq(Event) /\ Len(<<e>>) = 1
      BY <3>1
    <3> QED BY <3>2, <3>3 DEF e
  <2>2. o \in Seq(Line) /\ g \in Seq(Event) /\ m \in Seq(Event)
    BY <1>7, <2>1
  <2>3. offeredNext = candidates \o (o \o <<>>) /\ complaintsNext = evidence \o (g \o m)
    BY <1>1, <1>4, <1>6, <2>1, Zenon
  <2> HIDE DEF m, o, g, C, D
  <2>4. evidence \o (g \o m) = (evidence \o g) \o m /\ o \o <<>> = o
        /\ evidence \o g \in Seq(Event)
    BY <1>5, <2>2, ConcatAssociative, ConcatEmptySeq, ConcatProperties
  <2>5. Feed!Extends((evidence \o g) \o m, evidence \o g)
        /\ Len((evidence \o g) \o m) = Len(evidence \o g) + Len(m)
    BY <2>2, <2>4, ExtendsConcat
  <2>6. Feed!Extends(complaintsNext, complaints) /\ Len(complaintsNext) = Len(complaints) + 1
        /\ offeredNext = offered
    <3>1. offered = candidates \o o /\ complaints = evidence \o g
      BY DEF o, g
    <3>2. complaintsNext = (evidence \o g) \o m /\ offeredNext = candidates \o o
      BY <2>3, <2>4, Zenon
    <3> HIDE DEF offered, complaints, offeredNext, complaintsNext
    <3> QED BY <2>1, <2>5, <3>1, <3>2, Zenon
  <2>7. Feed!Complains
    BY <1>1, <1>2, <2>6 DEF Feed!Complains, C, D, Noted
  <2> QED BY <2>7
<1> QED BY <1>8, <1>9

LEMMA OpensSeen ==
  ASSUME TransportInv, Start
  PROVE  Feed!Opens
<1>1. state = "Stopped" /\ state' = "Started" /\ UNCHANGED <<candidates, evidence, channel>>
  BY DEF Start, bufferVars
<1> QED BY <1>1 DEF Feed!Opens

LEMMA FeedUnseen ==
  ASSUME UNCHANGED <<candidates, evidence, channel, state>>
  PROVE  UNCHANGED Feed!feed
BY DEF Feed!feed

\* The steps that leave the channel alone as well.
LEMMA QuietSeen ==
  ASSUME TransportInv, BufferTypes, Elsewhere
  PROVE  Feed!Next \/ UNCHANGED Feed!feed
<1> USE DEF bufferVars
<1>1. CASE Start
  BY <1>1, OpensSeen DEF Feed!Next
<1>2. ASSUME NEW s \in Streams, Reader(s) PROVE Feed!Next \/ UNCHANGED Feed!feed
  <2>1. CASE ReaderSends(s)
    BY <2>1, SendSeen DEF Feed!Next
  <2>2. CASE ReaderReads(s) \/ ReaderBreaks(s) \/ ReaderEnds(s)
    <3>1. UNCHANGED <<candidates, evidence, channel, state>>
      BY <2>2 DEF ReaderReads, ReaderBreaks, ReaderEnds
    <3> QED BY <3>1, FeedUnseen
  <2> QED BY <1>2, <2>1, <2>2 DEF Reader
<1>3. CASE Child
  <2>1. UNCHANGED <<candidates, evidence, channel, state>>
    BY <1>3 DEF Child, ChildReads, ChildWrites, ChildExits
  <2> QED BY <2>1, FeedUnseen
<1>4. CASE \/ SendBegins \/ SendWrites \/ SendFails
           \/ \E drain \in Pumping : DrainBegins(drain)
           \/ StopBegins \/ StopClosesStdin \/ StopTriesWait \/ StopChecksDeadline
           \/ StopKills \/ StopCannotKill \/ StopReaps \/ Tick
  <2>1. UNCHANGED <<candidates, evidence, channel, state>>
    BY <1>4 DEF SendBegins, SendWrites, SendFails, DrainBegins, StopBegins,
       StopClosesStdin, StopTriesWait, StopChecksDeadline, StopKills, StopCannotKill,
       StopReaps, Tick
  <2> QED BY <2>1, FeedUnseen
<1> QED BY <1>1, <1>2, <1>3, <1>4 DEF Elsewhere

\* What the kernel sees when the pump has emptied the channel.
LEMMA EmptyChannel ==
  ASSUME NEW c \in Seq(CandidateLines), NEW e \in Seq(Event), NEW q, q = <<>>
  PROVE  /\ c \o Only(q, CandidateLines) = c
         /\ e \o Noted(Only(q, Line \ CandidateLines)) = e
<1>1. Only(q, CandidateLines) = <<>> /\ Only(q, Line \ CandidateLines) = <<>>
  BY OnlyEmpty, Zenon
<1>2. Noted(<<>>) = <<>>
  BY DEF Noted
<1>3. c \o <<>> = c /\ e \o <<>> = e
  BY ConcatEmptySeq
<1> QED BY <1>1, <1>2, <1>3, Zenon

LEMMA ReportsSeen ==
  ASSUME TransportInv, BufferTypes, BufferTypes', SendReturns \/ StopReturns
  PROVE  Feed!Next \/ UNCHANGED Feed!feed
<1>1. /\ channel = <<>> /\ channel' = <<>> /\ state = "Started"
      /\ evidence \in Seq(Event) /\ session \in Nat
  BY TransportFacts DEF SendReturns, StopReturns, TransportInv, TransportTypes, BufferTypes
<1>2. /\ candidates \o Offers = candidates /\ evidence \o Noted(Garbage) = evidence
      /\ candidates' \o Offers' = candidates' /\ evidence' \o Noted(Garbage') = evidence'
  <2>1. candidates \o Offers = candidates /\ evidence \o Noted(Garbage) = evidence
    BY <1>1, EmptyChannel DEF BufferTypes, Offers, Garbage
  <2>2. candidates' \o Offers' = candidates' /\ evidence' \o Noted(Garbage') = evidence'
    BY <1>1, EmptyChannel DEF BufferTypes, Offers, Garbage
  <2> QED BY <2>1, <2>2
<1>3. ReportEvent \subseteq Event
  BY DEF Event
<1>4. CASE SendReturns
  <2>1. /\ evidence' = evidence \o FailureReport /\ UNCHANGED <<candidates, state>>
    BY <1>4 DEF SendReturns
  <2>2. FailureReport \in Seq(Event) /\ Len(FailureReport) \in 0 .. 1
    BY <1>1, <1>3, ReportsType, SeqMonotonic
  <2> DEFINE r == FailureReport
  <2>3. Feed!Extends(evidence \o r, evidence) /\ Len(evidence \o r) = Len(evidence) + Len(r)
    BY <1>1, <2>2, ExtendsConcat
  <2>4. CASE Len(r) = 1
    <3>1. /\ Feed!Extends(evidence', evidence) /\ Len(evidence') = Len(evidence) + 1
      BY <2>1, <2>3, <2>4, Zenon
    <3>2. Feed!Complains
      BY <1>1, <1>2, <2>1, <3>1 DEF Feed!Complains, Offers, Garbage, Noted
    <3> QED BY <3>2 DEF Feed!Next
  <2>5. CASE Len(r) = 0
    <3>1. r = <<>>
      BY <2>2, <2>5, EmptySeq
    <3>2. evidence \o <<>> = evidence
      BY <1>1, ConcatEmptySeq
    <3>3. UNCHANGED <<candidates, evidence, channel, state>>
      BY <1>1, <2>1, <3>1, <3>2
    <3> QED BY <3>3, FeedUnseen
  <2> QED BY <2>2, <2>4, <2>5
<1>5. CASE StopReturns
  <2>1. /\ evidence' = evidence \o StopReports /\ candidates' = candidates
        /\ state' = "Stopped"
    BY <1>5 DEF StopReturns
  <2>2. StopReports \in Seq(Event) /\ Len(StopReports) \in 0 .. 3
    BY <1>1, <1>3, ReportsType, SeqMonotonic
  <2> DEFINE r == StopReports
  <2>3. Feed!Extends(evidence \o r, evidence) /\ Len(evidence \o r) = Len(evidence) + Len(r)
    BY <1>1, <2>2, ExtendsConcat
  <2>4. Feed!Extends(evidence', evidence) /\ Len(evidence') <= Len(evidence) + 3
    <3>1. Len(evidence) \in Nat
      BY <1>1
    <3>2. \A n \in Nat, k \in 0 .. 3 : n + k <= n + 3
      OBVIOUS
    <3> QED BY <2>1, <2>2, <2>3, <3>1, <3>2, Zenon
  <2>5. Feed!Closes
    BY <1>1, <1>2, <2>1, <2>4 DEF Feed!Closes, Feed!MaxReports, Offers, Garbage, Noted
  <2> QED BY <2>5 DEF Feed!Next
<1> QED BY <1>4, <1>5

LEMMA DrainsSeen ==
  ASSUME TransportInv, BufferTypes, BufferTypes',
         DrainCandidatesReturns \/ DrainEvidenceReturns
  PROVE  Feed!Drained
<1>1. channel = <<>> /\ channel' = <<>> /\ state' = state
  BY DEF DrainCandidatesReturns, DrainEvidenceReturns
<1>2. /\ candidates \o Offers = candidates /\ evidence \o Noted(Garbage) = evidence
      /\ candidates' \o Offers' = candidates' /\ evidence' \o Noted(Garbage') = evidence'
  <2>1. candidates \o Offers = candidates /\ evidence \o Noted(Garbage) = evidence
    BY <1>1, EmptyChannel DEF BufferTypes, Offers, Garbage
  <2>2. candidates' \o Offers' = candidates' /\ evidence' \o Noted(Garbage') = evidence'
    BY <1>1, EmptyChannel DEF BufferTypes, Offers, Garbage
  <2> QED BY <2>1, <2>2
<1>3. evidence \in Seq(Event) /\ Len(evidence) \in Nat
  BY DEF BufferTypes
<1>4. candidates' \in {candidates, <<>>}
  BY DrainBuffers
<1>5. \E n \in 0 .. Len(evidence) : evidence' = SubSeq(evidence, n + 1, Len(evidence))
  <2>1. CASE DrainCandidatesReturns
    <3>1. evidence' = evidence
      BY <2>1, DrainBuffers
    <3>2. SubSeq(evidence, 0 + 1, Len(evidence)) = evidence
      BY <1>3, SubSeqFull
    <3>3. 0 \in 0 .. Len(evidence)
      BY <1>3
    <3> QED BY <3>1, <3>2, <3>3
  <2>2. CASE DrainEvidenceReturns
    <3>1. evidence' = <<>>
      BY <2>2, DrainBuffers
    <3>2. SubSeq(evidence, Len(evidence) + 1, Len(evidence)) = <<>>
      BY <1>3, SubSeqEmpty
    <3>3. Len(evidence) \in 0 .. Len(evidence)
      BY <1>3
    <3> QED BY <3>1, <3>2, <3>3
  <2> QED BY <2>1, <2>2
<1> QED BY <1>1, <1>2, <1>4, <1>5 DEF Feed!Drained, Offers, Garbage, Noted

\* new is old with n elements more, all of them behind the first k.
Inserts(new, old, n, k) ==
  /\ k \in 0 .. Len(old) /\ Len(new) = Len(old) + n
  /\ \A i \in 1 .. k : new[i] = old[i]
  /\ \A i \in (k + 1) .. Len(old) : new[i + n] = old[i]

LEMMA Inserted ==
  ASSUME NEW T, NEW e \in Seq(T), NEW d \in Seq(T), NEW m \in Seq(T)
  PROVE  Inserts((e \o d) \o m, e \o m, Len(d), Len(e))
<1> DEFINE a == Len(e)  b == Len(d)  c == Len(m)
           ed == e \o d  old == e \o m  new == (e \o d) \o m
<1>1. a \in Nat /\ b \in Nat /\ c \in Nat
  OBVIOUS
<1>2. /\ ed \in Seq(T) /\ Len(ed) = a + b
      /\ \A i \in 1 .. (a + b) : ed[i] = IF i <= a THEN e[i] ELSE d[i - a]
  BY ConcatProperties
<1>3. /\ Len(old) = a + c
      /\ \A i \in 1 .. (a + c) : old[i] = IF i <= a THEN e[i] ELSE m[i - a]
  BY ConcatProperties
<1>4. /\ Len(ed \o m) = Len(ed) + c
      /\ \A i \in 1 .. (Len(ed) + c) :
           (ed \o m)[i] = IF i <= Len(ed) THEN ed[i] ELSE m[i - Len(ed)]
  <2>1. ed \in Seq(T)
    BY <1>2
  <2> HIDE DEF ed
  <2> QED BY <2>1, ConcatProperties
<1>5. new = ed \o m
  OBVIOUS
<1> HIDE DEF a, b, c, ed, old, new
<1>6. /\ Len(new) = a + b + c
      /\ \A i \in 1 .. (a + b + c) :
           new[i] = IF i <= a + b THEN ed[i] ELSE m[i - (a + b)]
  <2>1. Len(ed) + c = a + b + c /\ Len(ed) = a + b
    BY <1>1, <1>2
  <2> QED BY <1>4, <1>5, <2>1, Zenon
<1>7. ASSUME NEW i \in 1 .. a PROVE new[i] = old[i]
  <2>1. i \in 1 .. (a + b + c) /\ i <= a + b /\ i <= a /\ i \in 1 .. (a + c)
        /\ i \in 1 .. (a + b)
    BY <1>1
  <2>2. new[i] = ed[i] /\ ed[i] = e[i] /\ old[i] = e[i]
    BY <1>2, <1>3, <1>6, <2>1, Zenon
  <2> QED BY <2>2
<1>8. ASSUME NEW i \in (a + 1) .. (a + c) PROVE new[i + b] = old[i]
  <2>1. /\ i + b \in 1 .. (a + b + c) /\ ~(i + b <= a + b) /\ ~(i <= a)
        /\ i \in 1 .. (a + c) /\ (i + b) - (a + b) = i - a
    BY <1>1
  <2>2. new[i + b] = m[(i + b) - (a + b)]
    BY <1>6, <2>1, Zenon
  <2>3. old[i] = m[i - a]
    BY <1>3, <2>1, Zenon
  <2> QED BY <2>1, <2>2, <2>3, Zenon
<1>9. a \in 0 .. Len(old) /\ Len(new) = Len(old) + b
  BY <1>1, <1>3, <1>6
<1>10. \A i \in (a + 1) .. Len(old) : new[i + b] = old[i]
  BY <1>3, <1>8, Zenon
<1> QED BY <1>7, <1>9, <1>10, Zenon DEF a, b, old, new, Inserts

LEMMA AdmitSeen ==
  ASSUME TransportInv, BufferTypes, NEW denied, AdmitCandidates(denied)
  PROVE  Feed!Next \/ UNCHANGED Feed!feed
<1> DEFINE kept == Only(candidates, Line \ denied)  gone == Only(candidates, denied)
           o == Only(channel, CandidateLines)  g == Noted(Only(channel, Line \ CandidateLines))
           d == Denials(gone)
<1>1. /\ kept \in Seq(CandidateLines) /\ gone \in Seq(CandidateLines) /\ gone \in Seq(Line)
      /\ candidates' = kept /\ evidence' = evidence \o d
      /\ UNCHANGED <<taken, channel, state>>
  BY AdmitBuffers
<1>2. /\ candidates \in Seq(CandidateLines) /\ evidence \in Seq(Event)
      /\ o \in Seq(CandidateLines) /\ g \in Seq(Event)
  BY TransportFacts, GarbageTypes DEF BufferTypes
<1>3. d \in Seq(Event) /\ Len(d) = Len(gone)
  BY <1>1, DenialsType
<1>4. CandidateLines \subseteq Line /\ candidates \in Seq(Line)
  <2>1. CandidateLines \subseteq Line
    BY DEF CandidateLines
  <2> QED BY <1>2, <2>1, SeqMonotonic
<1>5. Len(gone) + Len(kept) = Len(candidates)
  BY <1>4, OnlySplit
<1>6. Len(gone) \in Nat /\ Len(kept) \in Nat /\ Len(candidates) \in Nat /\ Len(o) \in Nat
  <2> HIDE DEF kept, gone, o
  <2> QED BY <1>1, <1>2
<1>7. CASE gone = <<>>
  <2>1. Range(candidates) \cap denied = {}
    <3>1. Range(gone) = Range(candidates) \cap denied
      BY <1>4, OnlyRange
    <3>2. Range(<<>>) = {}
      BY DEF Range
    <3> QED BY <1>7, <3>1, <3>2, Zenon
  <2>2. candidates \in Seq(Range(candidates)) /\ Range(candidates) \subseteq Line
    BY <1>4, SeqOfRange, RangeOfSeq
  <2> DEFINE R == Range(candidates)  K == Line \ denied
  <2>3. R \subseteq K
    BY <2>1, <2>2
  <2> HIDE DEF R, K
  <2>4. Only(candidates, K) = candidates
    BY <2>2, <2>3, OnlyAll DEF R
  <2>5. kept = candidates
    BY <2>4 DEF K
  <2>6. d = <<>>
    BY <1>7 DEF Denials
  <2>7. evidence \o <<>> = evidence
    BY <1>2, ConcatEmptySeq
  <2>8. UNCHANGED <<candidates, evidence, channel, state>>
    BY <1>1, <2>5, <2>6, <2>7, Zenon
  <2> QED BY <2>8, FeedUnseen
<1>8. CASE gone # <<>>
  <2> DEFINE old == evidence \o g  new == (evidence \o d) \o g
  <2>1. Len(gone) > 0
    <3>1. Len(gone) \in Nat \ {0}
      BY <1>1, <1>8, EmptySeq
    <3> HIDE DEF gone
    <3> QED BY <3>1
  <2>2. /\ Len(candidates \o o) = Len(candidates) + Len(o)
        /\ Len(kept \o o) = Len(kept) + Len(o)
    <3> HIDE DEF kept, o
    <3> QED BY <1>1, <1>2, ConcatProperties
  <2>3. /\ Len(kept \o o) < Len(candidates \o o)
        /\ Len(candidates \o o) - Len(kept \o o) = Len(gone)
    <3> DEFINE lk == Len(kept)  lg == Len(gone)  lc == Len(candidates)  lo == Len(o)
               later == Len(kept \o o)  now == Len(candidates \o o)
    <3>1. /\ lg + lk = lc /\ lg > 0 /\ now = lc + lo /\ later = lk + lo
          /\ lk \in Nat /\ lg \in Nat /\ lc \in Nat /\ lo \in Nat
      BY <1>5, <1>6, <2>1, <2>2, Zenon
    <3> HIDE DEF lk, lg, lc, lo, later, now
    <3>2. later < now /\ now - later = lg
      BY <3>1
    <3> QED BY <3>2 DEF lg, later, now
  <2>4. Inserts(new, old, Len(gone), Len(evidence))
    <3> HIDE DEF d, g, gone
    <3>0. evidence \in Seq(Event) /\ d \in Seq(Event) /\ g \in Seq(Event)
      BY <1>2, <1>3
    <3>1. Inserts(new, old, Len(d), Len(evidence))
      BY <3>0, Inserted, Zenon
    <3> HIDE DEF old, new
    <3> QED BY <1>3, <3>1, Zenon
  <2>5. /\ (candidates' \o Only(channel', CandidateLines)) = kept \o o
        /\ (evidence' \o Noted(Only(channel', Line \ CandidateLines))) = new
    BY <1>1, Zenon
  <2>6. Feed!Denied
    <3> DEFINE offered == candidates \o o
               offeredNext == candidates' \o Only(channel', CandidateLines)
               complaintsNext == evidence' \o Noted(Only(channel', Line \ CandidateLines))
    <3> HIDE DEF kept, gone, o, d, old, new, offered, offeredNext, complaintsNext
    <3>1. /\ Len(offeredNext) < Len(offered)
          /\ LET n == Len(offered) - Len(offeredNext)
             IN \E k \in 0 .. Len(old) :
                  /\ Len(complaintsNext) = Len(old) + n
                  /\ \A i \in 1 .. k : complaintsNext[i] = old[i]
                  /\ \A i \in (k + 1) .. Len(old) : complaintsNext[i + n] = old[i]
      <4>1. offeredNext = kept \o o /\ offered = candidates \o o /\ complaintsNext = new
        BY <2>5, Zenon DEF offeredNext, offered, complaintsNext
      <4>2. Len(offered) - Len(offeredNext) = Len(gone) /\ Len(offeredNext) < Len(offered)
        BY <2>3, <4>1, Zenon
      <4> QED BY <2>4, <4>1, <4>2, Zenon DEF Inserts
    <3> QED BY <1>1, <3>1 DEF Feed!Denied, o, old, g, offered, offeredNext, complaintsNext, Noted
  <2> QED BY <2>6 DEF Feed!Next
<1> QED BY <1>7, <1>8

LEMMA FeedStepSeen ==
  ASSUME TransportInv, BufferTypes, BufferTypes', [Next]_vars
  PROVE  [Feed!Next]_(Feed!feed)
<1>1. CASE UNCHANGED vars
  <2>1. UNCHANGED <<candidates, evidence, channel, state>>
    BY <1>1 DEF vars, bufferVars
  <2> QED BY <2>1, FeedUnseen
<1>2. CASE DrainCandidatesReturns \/ DrainEvidenceReturns
  BY <1>2, DrainsSeen DEF Feed!Next
<1> QED BY <1>1, <1>2, QuietSeen, PumpUnseen, ReportsSeen, AdmitSeen, StepKinds

\* The readers, the channel and the two buffers are to the kernel one feed of
\* candidates and one of evidence.
THEOREM FeedImplemented == Spec => ImplementsFeed
<1>1. Init => Feed!Init
  <2> SUFFICES ASSUME Init PROVE Feed!Init
    OBVIOUS
  <2>1. channel = <<>> /\ candidates = <<>> /\ evidence = <<>> /\ state = "Stopped"
    BY DEF Init
  <2>2. BufferTypes
    BY InitBuffers
  <2>3. candidates \o Offers = <<>> /\ evidence \o Noted(Garbage) = <<>>
    <3>1. candidates \o Offers = candidates /\ evidence \o Noted(Garbage) = evidence
      BY <2>1, <2>2, EmptyChannel DEF BufferTypes, Offers, Garbage
    <3> QED BY <2>1, <3>1, Zenon
  <2> QED BY <2>1, <2>3, FeedMapped
<1>2. TransportInv /\ BufferTypes /\ BufferTypes' /\ [Next]_vars => [Feed!Next]_(Feed!feed)
  BY FeedStepSeen
<1> QED
  BY <1>1, <1>2, InitTransport, StepInvariant, InitBuffers, BufferStep, PTL
  DEF Spec, ImplementsFeed, Feed!Spec

-----------------------------------------------------------------------------
(* What has been heard: every line, once pumped, stays.                    *)

\* The lines of a sequence of evidence.
LinesOf(q) == {q[i].line : i \in {j \in DOMAIN q : IsLine(q[j])}}

LEMMA HeardSplit == Heard = Range(AllCandidates) \cup LinesOf(AllEvidence)
BY DEF Heard, LinesOf, Range

LEMMA AllTypes ==
  ASSUME BufferTypes
  PROVE  /\ AllCandidates \in Seq(CandidateLines) /\ AllCandidates \in Seq(Line)
         /\ AllEvidence \in Seq(Event)
         /\ candidates \in Seq(CandidateLines) /\ candidates \in Seq(Line)
         /\ taken.candidates \in Seq(CandidateLines) /\ taken.candidates \in Seq(Line)
<1>1. /\ candidates \in Seq(CandidateLines) /\ evidence \in Seq(Event)
      /\ taken.candidates \in Seq(CandidateLines) /\ taken.evidence \in Seq(Event)
  BY DEF BufferTypes
<1>2. AllCandidates \in Seq(CandidateLines) /\ AllEvidence \in Seq(Event)
  BY <1>1, ConcatProperties DEF AllCandidates, AllEvidence
<1>3. CandidateLines \subseteq Line
  BY DEF CandidateLines
<1> QED BY <1>1, <1>2, <1>3, SeqMonotonic

\* A piece of evidence is of a line or a report, as its topic says.
LEMMA EventKinds ==
  ASSUME NEW e \in Event
  PROVE  /\ IsLine(e) <=> e \in LineEvent
         /\ IsLine(e) => e.line \in Line /\ e.topic \in LineTopics
         /\ ~IsLine(e) => e \in ReportEvent
BY DEF Event, LineEvent, ReportEvent, IsLine, LineTopics, ReportTopics

LEMMA LinesOfConcat ==
  ASSUME NEW p \in Seq(Event), NEW q \in Seq(Event)
  PROVE  LinesOf(p \o q) = LinesOf(p) \cup LinesOf(q)
<1> DEFINE r == p \o q  m == Len(p)  n == Len(q)
<1>1. /\ m \in Nat /\ n \in Nat /\ DOMAIN r = 1 .. (m + n)
      /\ \A i \in 1 .. m : i \in 1 .. (m + n) /\ r[i] = p[i]
      /\ \A i \in 1 .. n : m + i \in 1 .. (m + n) /\ r[m + i] = q[i]
      /\ \A i \in 1 .. (m + n) : i \in 1 .. m \/ i - m \in 1 .. n
  BY ConcatAt
<1>2. DOMAIN p = 1 .. m /\ DOMAIN q = 1 .. n
  BY LenProperties
<1> HIDE DEF r, m, n
<1>3. ASSUME NEW l \in LinesOf(r) PROVE l \in LinesOf(p) \cup LinesOf(q)
  <2>1. PICK i \in 1 .. (m + n) : IsLine(r[i]) /\ l = r[i].line
    BY <1>1 DEF LinesOf
  <2>2. CASE i \in 1 .. m
    BY <1>1, <1>2, <2>1, <2>2 DEF LinesOf
  <2>3. CASE i - m \in 1 .. n
    <3>1. m + (i - m) = i
      BY <1>1
    <3>2. r[i] = q[i - m]
      BY <1>1, <2>3, <3>1
    <3> QED BY <1>2, <2>1, <2>3, <3>2 DEF LinesOf
  <2> QED BY <1>1, <2>2, <2>3
<1>4. ASSUME NEW l \in LinesOf(p) PROVE l \in LinesOf(r)
  BY <1>1, <1>2 DEF LinesOf
<1>5. ASSUME NEW l \in LinesOf(q) PROVE l \in LinesOf(r)
  <2>1. PICK i \in 1 .. n : IsLine(q[i]) /\ l = q[i].line
    BY <1>2 DEF LinesOf
  <2>2. m + i \in DOMAIN r /\ r[m + i] = q[i]
    BY <1>1
  <2> QED BY <2>1, <2>2 DEF LinesOf
<1> QED BY <1>3, <1>4, <1>5 DEF r

LEMMA LinesOfReports ==
  ASSUME NEW q \in Seq(ReportEvent)
  PROVE  q \in Seq(Event) /\ LinesOf(q) = {} /\ \A i \in DOMAIN q : ~IsLine(q[i])
<1>1. \A i \in DOMAIN q : q[i] \in ReportEvent
  OBVIOUS
<1>2. \A e \in ReportEvent : ~IsLine(e)
  BY DEF ReportEvent, ReportTopics, IsLine, LineTopics
<1>3. q \in Seq(Event)
  <2>1. ReportEvent \subseteq Event
    BY DEF Event
  <2> QED BY <2>1, SeqMonotonic
<1> QED BY <1>1, <1>2, <1>3 DEF LinesOf

LEMMA LinesOfLine ==
  ASSUME NEW line \in Line
  PROVE  /\ <<LineEvidence(line)>> \in Seq(Event)
         /\ LinesOf(<<LineEvidence(line)>>) = {line}
<1> DEFINE e == LineEvidence(line)  q == <<e>>
<1>1. e \in Event /\ e.line = line /\ IsLine(e)
  BY LineEvents DEF LineEvent, IsLine
<1> HIDE DEF e
<1>2. q \in Seq(Event) /\ DOMAIN q = {1} /\ q[1] = e
  BY <1>1
<1> HIDE DEF q
<1>3. LinesOf(q) = {line}
  BY <1>1, <1>2 DEF LinesOf
<1> QED BY <1>2, <1>3 DEF q, e

LEMMA LinesOfDenials ==
  ASSUME NEW q \in Seq(Line)
  PROVE  Denials(q) \in Seq(Event) /\ LinesOf(Denials(q)) = Range(q)
<1> DEFINE d == Denials(q)
<1>1. /\ d \in Seq(Event) /\ DOMAIN d = 1 .. Len(q) /\ DOMAIN q = 1 .. Len(q)
      /\ \A i \in 1 .. Len(q) : d[i] = [topic |-> "denied", line |-> q[i]]
  <2>1. DOMAIN q = 1 .. Len(q)
    BY LenProperties
  <2> QED BY <2>1, DenialsType DEF Denials
<1>2. \A i \in 1 .. Len(q) : d[i].line = q[i] /\ IsLine(d[i])
  BY <1>1 DEF IsLine, LineTopics
<1> HIDE DEF d
<1>3. LinesOf(d) = Range(q)
  BY <1>1, <1>2 DEF LinesOf, Range
<1> QED BY <1>1, <1>3 DEF d

\* How a step adds to what was ever produced: candidates is what it adds to the
\* candidates, events to the evidence.
Adds(cand, events) ==
  /\ cand \in Seq(CandidateLines) /\ events \in Seq(Event)
  /\ AllCandidates' = AllCandidates \o cand
  /\ AllEvidence' = AllEvidence \o events

LEMMA NothingAdded ==
  ASSUME BufferTypes, AllCandidates' = AllCandidates, AllEvidence' = AllEvidence
  PROVE  Adds(<<>>, <<>>)
<1>1. AllCandidates \o <<>> = AllCandidates /\ AllEvidence \o <<>> = AllEvidence
  BY AllTypes, ConcatEmptySeq
<1>2. <<>> \in Seq(CandidateLines) /\ <<>> \in Seq(Event)
  OBVIOUS
<1> QED BY <1>1, <1>2 DEF Adds

\* A drain only moves what was produced.
LEMMA DrainsAdd ==
  ASSUME BufferTypes, DrainCandidatesReturns \/ DrainEvidenceReturns
  PROVE  AllCandidates' = AllCandidates /\ AllEvidence' = AllEvidence
<1>1. /\ candidates \in Seq(CandidateLines) /\ evidence \in Seq(Event)
      /\ taken \in [candidates : Seq(CandidateLines), evidence : Seq(Event)]
      /\ taken.candidates \in Seq(CandidateLines) /\ taken.evidence \in Seq(Event)
  BY DEF BufferTypes
<1>2. CASE DrainCandidatesReturns
  <2>1. /\ candidates' = <<>> /\ evidence' = evidence
        /\ taken' = [taken EXCEPT !.candidates = taken.candidates \o candidates]
    BY <1>2, DrainBuffers
  <2> DEFINE all == taken.candidates \o candidates
  <2>2. taken'.candidates = all /\ taken'.evidence = taken.evidence
    BY <1>1, <2>1
  <2>3. all \o <<>> = all
    <3>1. all \in Seq(CandidateLines)
      BY <1>1, ConcatProperties
    <3> QED BY <3>1, ConcatEmptySeq
  <2> QED BY <2>1, <2>2, <2>3 DEF AllCandidates, AllEvidence
<1>3. CASE DrainEvidenceReturns
  <2>1. /\ evidence' = <<>> /\ candidates' = candidates
        /\ taken' = [taken EXCEPT !.evidence = taken.evidence \o evidence]
    BY <1>3, DrainBuffers
  <2> DEFINE all == taken.evidence \o evidence
  <2>2. taken'.evidence = all /\ taken'.candidates = taken.candidates
    BY <1>1, <2>1
  <2>3. all \o <<>> = all
    <3>1. all \in Seq(Event)
      BY <1>1, ConcatProperties
    <3> QED BY <3>1, ConcatEmptySeq
  <2> QED BY <2>1, <2>2, <2>3 DEF AllCandidates, AllEvidence
<1> QED BY <1>2, <1>3

\* Evidence put at the end of its buffer.
LEMMA EvidenceAdds ==
  ASSUME BufferTypes, NEW events \in Seq(Event),
         evidence' = evidence \o events, taken' = taken
  PROVE  AllEvidence' = AllEvidence \o events
<1> DEFINE first == taken.evidence
<1>1. evidence \in Seq(Event) /\ first \in Seq(Event)
  BY DEF BufferTypes
<1>2. AllEvidence = first \o evidence /\ AllEvidence' = first \o (evidence \o events)
  BY DEF AllEvidence
<1> HIDE DEF first
<1>3. (first \o evidence) \o events = first \o (evidence \o events)
  BY <1>1, ConcatAssociative
<1> QED BY <1>2, <1>3

LEMMA PumpAdds ==
  ASSUME TransportInv, BufferTypes, Pump
  PROVE  LET line == Head(channel)
         IN \/ line \in CandidateLines /\ Adds(<<line>>, <<>>)
            \/ line \in Line \ CandidateLines /\ Adds(<<>>, <<LineEvidence(line)>>)
<1> DEFINE line == Head(channel)
<1>1. /\ line \in Line /\ taken' = taken
      /\ \/ /\ line \in CandidateLines
            /\ candidates' = candidates \o <<line>> /\ evidence' = evidence
         \/ /\ line \notin CandidateLines
            /\ evidence' = evidence \o <<LineEvidence(line)>>
            /\ candidates' = candidates
  BY PumpBuffers
<1>2. AllCandidates \o <<>> = AllCandidates /\ AllEvidence \o <<>> = AllEvidence
      /\ <<>> \in Seq(CandidateLines) /\ <<>> \in Seq(Event)
  BY AllTypes, ConcatEmptySeq
<1> HIDE DEF line
<1>3. CASE /\ line \in CandidateLines
           /\ candidates' = candidates \o <<line>> /\ evidence' = evidence
  <2> DEFINE m == <<line>>
  <2>1. m \in Seq(CandidateLines) /\ candidates' = candidates \o m
    BY <1>3
  <2> HIDE DEF m
  <2> DEFINE first == taken.candidates
  <2>a. /\ first \in Seq(CandidateLines) /\ candidates \in Seq(CandidateLines)
        /\ AllCandidates = first \o candidates
        /\ AllCandidates' = first \o (candidates \o m)
    BY <1>1, <2>1, AllTypes DEF AllCandidates
  <2> HIDE DEF first
  <2>2. (first \o candidates) \o m = first \o (candidates \o m)
    BY <2>1, <2>a, ConcatAssociative
  <2>3. AllCandidates' = AllCandidates \o m /\ AllEvidence' = AllEvidence \o <<>>
    BY <1>1, <1>2, <1>3, <2>a, <2>2, Zenon DEF AllEvidence
  <2>4. Adds(m, <<>>)
    BY <1>2, <2>1, <2>3, Zenon DEF Adds
  <2> QED BY <1>3, <2>4 DEF m, line
<1>4. CASE /\ line \notin CandidateLines
           /\ evidence' = evidence \o <<LineEvidence(line)>>
           /\ candidates' = candidates
  <2> DEFINE m == <<LineEvidence(line)>>
  <2>1. m \in Seq(Event) /\ evidence' = evidence \o m
    BY <1>1, <1>4, LinesOfLine
  <2> HIDE DEF m
  <2>2. AllEvidence' = AllEvidence \o m
    BY <1>1, <2>1, EvidenceAdds
  <2>3. AllCandidates' = AllCandidates \o <<>>
    BY <1>1, <1>2, <1>4, Zenon DEF AllCandidates
  <2>4. Adds(<<>>, m)
    BY <1>2, <2>1, <2>2, <2>3, Zenon DEF Adds
  <2> QED BY <1>1, <1>4, <2>4 DEF m, line
<1> QED BY <1>1, <1>3, <1>4

LEMMA ReportsAdd ==
  ASSUME TransportInv, BufferTypes
  PROVE  /\ FailureReport \in Seq(ReportEvent) /\ StopReports \in Seq(ReportEvent)
         /\ SendReturns => Adds(<<>>, FailureReport)
         /\ StopReturns => Adds(<<>>, StopReports)
<1>1. FailureReport \in Seq(ReportEvent) /\ StopReports \in Seq(ReportEvent)
  BY TransportFacts, ReportsType
<1>2. FailureReport \in Seq(Event) /\ StopReports \in Seq(Event)
  BY <1>1, LinesOfReports
<1>3. AllCandidates \o <<>> = AllCandidates /\ <<>> \in Seq(CandidateLines)
  BY AllTypes, ConcatEmptySeq
<1>4. ASSUME SendReturns PROVE Adds(<<>>, FailureReport)
  <2>1. evidence' = evidence \o FailureReport /\ UNCHANGED <<candidates, taken>>
    BY <1>4, ReportBuffers
  <2>2. AllEvidence' = AllEvidence \o FailureReport
    BY <1>2, <2>1, EvidenceAdds
  <2>3. AllCandidates' = AllCandidates
    BY <2>1 DEF AllCandidates
  <2> QED BY <1>2, <1>3, <2>2, <2>3, Zenon DEF Adds
<1>5. ASSUME StopReturns PROVE Adds(<<>>, StopReports)
  <2>1. evidence' = evidence \o StopReports /\ UNCHANGED <<candidates, taken>>
    BY <1>5, ReportBuffers
  <2>2. AllEvidence' = AllEvidence \o StopReports
    BY <1>2, <2>1, EvidenceAdds
  <2>3. AllCandidates' = AllCandidates
    BY <2>1 DEF AllCandidates
  <2> QED BY <1>2, <1>3, <2>2, <2>3, Zenon DEF Adds
<1> QED BY <1>1, <1>4, <1>5

LEMMA AdmitAdds ==
  ASSUME TransportInv, BufferTypes, NEW denied, AdmitCandidates(denied)
  PROVE  LET gone == Only(candidates, denied)
         IN /\ AllCandidates' = taken.candidates \o Only(candidates, Line \ denied)
            /\ gone \in Seq(Line) /\ Denials(gone) \in Seq(Event)
            /\ AllEvidence' = AllEvidence \o Denials(gone)
<1> DEFINE gone == Only(candidates, denied)
<1>1. /\ gone \in Seq(Line) /\ evidence' = evidence \o Denials(gone)
      /\ candidates' = Only(candidates, Line \ denied) /\ taken' = taken
  BY AdmitBuffers
<1>2. Denials(gone) \in Seq(Event)
  BY <1>1, DenialsType
<1>3. AllEvidence' = AllEvidence \o Denials(gone)
  BY <1>1, <1>2, EvidenceAdds
<1> QED BY <1>1, <1>2, <1>3 DEF AllCandidates

LEMMA HeardAfterAdds ==
  ASSUME BufferTypes, NEW cand, NEW events, Adds(cand, events)
  PROVE  Heard' = Heard \cup Range(cand) \cup LinesOf(events)
<1>1. /\ cand \in Seq(CandidateLines) /\ events \in Seq(Event)
      /\ AllCandidates' = AllCandidates \o cand
      /\ AllEvidence' = AllEvidence \o events
  BY DEF Adds
<1>2. Range(AllCandidates \o cand) = Range(AllCandidates) \cup Range(cand)
  BY <1>1, AllTypes, RangeConcatenation
<1>3. LinesOf(AllEvidence \o events) = LinesOf(AllEvidence) \cup LinesOf(events)
  BY <1>1, AllTypes, LinesOfConcat
<1>4. Heard' = Range(AllCandidates') \cup LinesOf(AllEvidence')
  BY DEF Heard, Range, LinesOf
<1>5. Heard' = Range(AllCandidates \o cand) \cup LinesOf(AllEvidence \o events)
  BY <1>1, <1>4, Zenon
<1> QED BY <1>2, <1>3, <1>5, HeardSplit

\* A pump hears the line at the head of the channel; no other step hears any, or
\* forgets one.
Unheard ==
  \/ Elsewhere \/ SendReturns \/ StopReturns
  \/ DrainCandidatesReturns \/ DrainEvidenceReturns
  \/ \E denied : AdmitCandidates(denied)

LEMMA HeardAfter ==
  ASSUME TransportInv, BufferTypes
  PROVE  /\ Pump => Heard' = Heard \cup {Head(channel)}
         /\ Unheard \/ UNCHANGED vars => Heard' = Heard
<1>1. Range(<<>>) = {} /\ LinesOf(<<>>) = {}
  BY DEF Range, LinesOf
<1>2. ASSUME Pump PROVE Heard' = Heard \cup {Head(channel)}
  <2> DEFINE line == Head(channel)
  <2>1. \/ line \in CandidateLines /\ Adds(<<line>>, <<>>)
        \/ line \in Line \ CandidateLines /\ Adds(<<>>, <<LineEvidence(line)>>)
    BY <1>2, PumpAdds
  <2> HIDE DEF line
  <2>2. CASE Adds(<<line>>, <<>>)
    <3>1. Range(<<line>>) = {line}
      BY DEF Range
    <3>2. Heard' = Heard \cup Range(<<line>>) \cup LinesOf(<<>>)
      BY <2>2, HeardAfterAdds
    <3> QED BY <1>1, <3>1, <3>2 DEF line
  <2>3. CASE line \in Line /\ Adds(<<>>, <<LineEvidence(line)>>)
    <3>1. LinesOf(<<LineEvidence(line)>>) = {line}
      BY <2>3, LinesOfLine
    <3>2. Heard' = Heard \cup Range(<<>>) \cup LinesOf(<<LineEvidence(line)>>)
      BY <2>3, HeardAfterAdds
    <3> QED BY <1>1, <3>1, <3>2 DEF line
  <2> QED BY <2>1, <2>2, <2>3
<1>3. ASSUME UNCHANGED <<candidates, evidence, taken>> PROVE Heard' = Heard
  BY <1>3 DEF Heard, AllCandidates, AllEvidence
<1>4. ASSUME Elsewhere \/ UNCHANGED vars PROVE Heard' = Heard
  BY <1>3, <1>4, ElsewhereBuffers DEF vars, bufferVars
<1>5. ASSUME SendReturns \/ StopReturns PROVE Heard' = Heard
  <2>1. PICK r \in Seq(ReportEvent) : Adds(<<>>, r)
    BY <1>5, ReportsAdd
  <2>2. LinesOf(r) = {}
    BY LinesOfReports
  <2>3. Heard' = Heard \cup Range(<<>>) \cup LinesOf(r)
    BY <2>1, HeardAfterAdds
  <2> QED BY <1>1, <2>2, <2>3
<1>6. ASSUME DrainCandidatesReturns \/ DrainEvidenceReturns PROVE Heard' = Heard
  <2>1. Adds(<<>>, <<>>)
    BY <1>6, DrainsAdd, NothingAdded
  <2>2. Heard' = Heard \cup Range(<<>>) \cup LinesOf(<<>>)
    BY <2>1, HeardAfterAdds
  <2> QED BY <1>1, <2>2
<1>7. ASSUME NEW denied, AdmitCandidates(denied) PROVE Heard' = Heard
  <2> DEFINE kept == Only(candidates, Line \ denied)  gone == Only(candidates, denied)
             first == taken.candidates
  <2>1. /\ AllCandidates' = first \o kept
        /\ gone \in Seq(Line) /\ Denials(gone) \in Seq(Event)
        /\ AllEvidence' = AllEvidence \o Denials(gone)
    BY <1>7, AdmitAdds
  <2>2. Range(kept) = Range(candidates) \cap (Line \ denied)
        /\ Range(gone) = Range(candidates) \cap denied
        /\ Range(candidates) \subseteq Line
    BY AllTypes, OnlyRange, RangeOfSeq
  <2>3. kept \in Seq(CandidateLines)
    BY <1>7, AdmitBuffers
  <2> HIDE DEF kept, gone, first
  <2>4. Range(first \o kept) = Range(first) \cup Range(kept)
        /\ Range(AllCandidates) = Range(first) \cup Range(candidates)
    BY <2>3, AllTypes, RangeConcatenation DEF AllCandidates, first
  <2>5. LinesOf(AllEvidence \o Denials(gone)) = LinesOf(AllEvidence) \cup Range(gone)
    BY <2>1, AllTypes, LinesOfConcat, LinesOfDenials
  <2>6. Heard' = Range(AllCandidates') \cup LinesOf(AllEvidence')
    BY DEF Heard, Range, LinesOf
  <2>7. Heard' = Range(first) \cup Range(kept) \cup LinesOf(AllEvidence) \cup Range(gone)
    BY <2>1, <2>4, <2>5, <2>6
  <2>8. Heard = Range(first) \cup Range(candidates) \cup LinesOf(AllEvidence)
    BY <2>4, HeardSplit
  <2>9. Range(kept) \cup Range(gone) = Range(candidates)
    BY <2>2
  <2> QED BY <2>7, <2>8, <2>9
<1> QED BY <1>2, <1>4, <1>5, <1>6, <1>7 DEF Unheard

-----------------------------------------------------------------------------
(* What becomes of the lines of a session.                                 *)

-----------------------------------------------------------------------------
(* The lines on their way, and those heard: none is lost between the two.  *)

StreamLines(s) == {line \in Line : line.stream = s}

\* The lines numbered from h + 1 on of stream s in session k, all of them.
Follows(way, h, k, s) ==
  \A i \in DOMAIN way : way[i].n = h + i /\ way[i].session = k /\ way[i].stream = s

\* The numbers of the lines of lines that are of session k and stream s.
Numbers(lines, k, s) ==
  {line.n : line \in {l \in lines : l.session = k /\ l.stream = s}}

\* h lines of stream s were heard in this session, the ones on their way are the
\* next, and unless the reader broke they are all there is.
Way(s, h) ==
  /\ Numbers(Heard, session, s) = 1 .. h
  /\ Follows(OnTheWay(s), h, session, s)
  /\ h + Len(OnTheWay(s)) <= written[s]
  /\ reader[s] # "broken" => h + Len(OnTheWay(s)) = written[s]

LineInv ==
  /\ \A line \in Heard : line \in Line /\ line.session <= session
  /\ \A k \in Nat, s \in Streams : \E h \in Nat : Numbers(Heard, k, s) = 1 .. h
  /\ state = "Started" => \A s \in Streams : \E h \in Nat : Way(s, h)

LEMMA FollowsConcat ==
  ASSUME NEW p \in Seq(Line), NEW q \in Seq(Line), NEW h \in Nat, NEW k, NEW s
  PROVE  Follows(p \o q, h, k, s) <=>
           Follows(p, h, k, s) /\ Follows(q, h + Len(p), k, s)
<1> DEFINE r == p \o q  m == Len(p)  n == Len(q)
<1>1. /\ m \in Nat /\ n \in Nat /\ DOMAIN r = 1 .. (m + n)
      /\ \A i \in 1 .. m : i \in 1 .. (m + n) /\ r[i] = p[i]
      /\ \A i \in 1 .. n : m + i \in 1 .. (m + n) /\ r[m + i] = q[i]
      /\ \A i \in 1 .. (m + n) : i \in 1 .. m \/ i - m \in 1 .. n
  BY ConcatAt
<1>2. DOMAIN p = 1 .. m /\ DOMAIN q = 1 .. n
  BY LenProperties
<1> HIDE DEF r, m, n
<1>3. ASSUME Follows(r, h, k, s) PROVE Follows(p, h, k, s) /\ Follows(q, h + m, k, s)
  <2>1. Follows(p, h, k, s)
    BY <1>1, <1>2, <1>3 DEF Follows
  <2>2. ASSUME NEW i \in 1 .. n
        PROVE  q[i].n = (h + m) + i /\ q[i].session = k /\ q[i].stream = s
    <3>1. m + i \in 1 .. (m + n) /\ r[m + i] = q[i] /\ h + (m + i) = (h + m) + i
      BY <1>1
    <3> QED BY <1>1, <1>3, <3>1 DEF Follows
  <2> QED BY <1>2, <2>1, <2>2 DEF Follows
<1>4. ASSUME Follows(p, h, k, s), Follows(q, h + m, k, s) PROVE Follows(r, h, k, s)
  <2>1. ASSUME NEW i \in 1 .. (m + n)
        PROVE  r[i].n = h + i /\ r[i].session = k /\ r[i].stream = s
    <3>1. CASE i \in 1 .. m
      BY <1>1, <1>2, <1>4, <3>1 DEF Follows
    <3>2. CASE i - m \in 1 .. n
      <4>1. m + (i - m) = i /\ (h + m) + (i - m) = h + i
        BY <1>1
      <4>2. r[i] = q[i - m]
        BY <1>1, <3>2, <4>1
      <4>3. q[i - m].n = (h + m) + (i - m) /\ q[i - m].session = k /\ q[i - m].stream = s
        BY <1>2, <1>4, <3>2 DEF Follows
      <4> QED BY <4>1, <4>2, <4>3
    <3> QED BY <1>1, <3>1, <3>2
  <2> QED BY <1>1, <2>1 DEF Follows
<1> QED BY <1>3, <1>4 DEF r, m

LEMMA FollowsSingle ==
  ASSUME NEW x \in Line, NEW h \in Nat, NEW k, NEW s
  PROVE  /\ <<x>> \in Seq(Line) /\ Len(<<x>>) = 1
         /\ Follows(<<x>>, h, k, s) <=> x.n = h + 1 /\ x.session = k /\ x.stream = s
         /\ Follows(<<>>, h, k, s)
<1> DEFINE q == <<x>>
<1>1. q \in Seq(Line) /\ Len(q) = 1 /\ DOMAIN q = {1} /\ q[1] = x
  OBVIOUS
<1> HIDE DEF q
<1>2. Follows(q, h, k, s) <=> x.n = h + 1 /\ x.session = k /\ x.stream = s
  BY <1>1 DEF Follows
<1>3. Follows(<<>>, h, k, s)
  BY DEF Follows
<1> QED BY <1>1, <1>2, <1>3 DEF q

\* The three parts of the way of a stream.
LEMMA WayParts ==
  ASSUME TransportInv, NEW s \in Streams
  PROVE  LET front == Only(channel, StreamLines(s))
         IN /\ OnTheWay(s) = (front \o hand[s]) \o pipe[s]
            /\ front \in Seq(Line) /\ hand[s] \in Seq(Line) /\ pipe[s] \in Seq(Line)
            /\ front \o hand[s] \in Seq(Line)
            /\ OnTheWay(s) \in Seq(Line) /\ Len(OnTheWay(s)) \in Nat
            /\ written[s] \in Nat
            /\ StreamLines(s) \subseteq Line
<1> DEFINE front == Only(channel, StreamLines(s))
<1>1. /\ channel \in Seq(Line) /\ pipe[s] \in Seq(Line) /\ hand[s] \in Seq(Line)
      /\ written[s] \in Nat
  BY TransportFacts
<1>2. front \in Seq(Line)
  <2>1. front \in Seq(Line \cap StreamLines(s))
    BY <1>1, OnlyType
  <2> HIDE DEF front
  <2> QED BY <2>1, SeqMonotonic
<1>3. OnTheWay(s) = (front \o hand[s]) \o pipe[s]
  BY DEF OnTheWay, StreamLines
<1> HIDE DEF front
<1>4. front \o hand[s] \in Seq(Line)
  BY <1>1, <1>2, ConcatProperties
<1>5. (front \o hand[s]) \o pipe[s] \in Seq(Line)
  BY <1>1, <1>4, ConcatProperties
<1>6. Len(OnTheWay(s)) \in Nat
  BY <1>3, <1>5, LenProperties
<1> QED BY <1>1, <1>2, <1>3, <1>4, <1>5, <1>6 DEF front, StreamLines

\* What a step moves, for a step that moves neither line nor thread.
Still == UNCHANGED <<state, session, written, pipe, reader, hand, channel>>

LEMMA StepMoves ==
  ASSUME Next
  PROVE  \/ Still /\ Unheard
         \/ Start \/ Pump \/ StopReturns
         \/ \E s \in Streams, kind \in LineKinds : ChildWrites(s, kind)
         \/ \E s \in Streams : Reader(s)
<1> USE DEF streamVars, Still, Unheard, Elsewhere
<1>1. ASSUME Drain PROVE Still /\ Unheard
  <2>1. ASSUME NEW drain \in Pumping, DrainBegins(drain) PROVE Still
    BY <2>1 DEF DrainBegins
  <2>2. ASSUME DrainCandidatesReturns \/ DrainEvidenceReturns PROVE Still
    BY <2>2 DEF DrainCandidatesReturns, DrainEvidenceReturns
  <2>3. ASSUME NEW denied, AdmitCandidates(denied) PROVE Still
    BY <2>3 DEF AdmitCandidates
  <2> QED BY <1>1, <2>1, <2>2, <2>3 DEF Drain
<1>2. ASSUME SendBegins \/ SendWrites \/ SendFails \/ SendReturns \/ Tick
      PROVE  Still /\ Unheard
  BY <1>2 DEF SendBegins, SendWrites, SendFails, SendReturns, Tick
<1>3. ASSUME Stop, ~StopReturns PROVE Still /\ Unheard
  BY <1>3 DEF Stop, StopBegins, StopClosesStdin, StopTriesWait, StopChecksDeadline,
     StopKills, StopCannotKill, StopReaps
<1>4. ASSUME ChildReads \/ \E status \in Exited : ChildExits(status)
      PROVE  Still /\ Unheard
  BY <1>4 DEF ChildReads, ChildExits, Child
<1> QED BY <1>1, <1>2, <1>3, <1>4 DEF Next, Child

LEMMA WayKept ==
  ASSUME NEW s \in Streams, Heard' = Heard, session' = session,
         OnTheWay(s)' = OnTheWay(s), written'[s] = written[s],
         reader'[s] = "broken" <=> reader[s] = "broken",
         NEW h, Way(s, h)
  PROVE  Way(s, h)'
BY DEF Way

\* Enough for a step that hears no line and opens no session.
LEMMA LinesKept ==
  ASSUME LineInv, Heard' = Heard, session' = session,
         state' = "Started" => state = "Started",
         state' = "Started" =>
           \A s \in Streams, h \in Nat : Way(s, h) => \E k \in Nat : Way(s, k)'
  PROVE  LineInv'
<1>1. /\ \A line \in Heard' : line \in Line /\ line.session <= session'
      /\ \A k \in Nat, s \in Streams : \E h \in Nat : Numbers(Heard', k, s) = 1 .. h
  BY DEF LineInv
<1>2. ASSUME state' = "Started", NEW s \in Streams PROVE \E h \in Nat : Way(s, h)'
  <2>1. PICK h \in Nat : Way(s, h)
    BY <1>2 DEF LineInv
  <2> QED BY <1>2, <2>1
<1> QED BY <1>1, <1>2 DEF LineInv

LEMMA StillLines ==
  ASSUME TransportInv, BufferTypes, LineInv, (Still /\ Unheard) \/ UNCHANGED vars
  PROVE  LineInv'
<1>1. Heard' = Heard
  BY HeardAfter
<1>2. UNCHANGED <<state, session, written, pipe, reader, hand, channel>>
  BY DEF Still, vars, streamVars
<1>3. ASSUME NEW s \in Streams, NEW h \in Nat, Way(s, h) PROVE Way(s, h)'
  <2>1. OnTheWay(s)' = OnTheWay(s)
    BY <1>2 DEF OnTheWay
  <2> QED BY <1>1, <1>2, <1>3, <2>1, WayKept
<1> QED BY <1>1, <1>2, <1>3, LinesKept

LEMMA InitLines == Init => LineInv
<1> SUFFICES ASSUME Init PROVE LineInv
  OBVIOUS
<1>1. Heard = {}
  <2>1. AllCandidates = <<>> /\ AllEvidence = <<>>
    <3>1. <<>> \o <<>> = <<>>
      BY ConcatEmptySeq
    <3> QED BY <3>1 DEF Init, AllCandidates, AllEvidence
  <2> QED BY <2>1 DEF Heard
<1>2. 1 .. 0 = {} /\ 0 \in Nat
  OBVIOUS
<1>3. \A k \in Nat, s \in Streams : Numbers(Heard, k, s) = 1 .. 0
  BY <1>1, <1>2 DEF Numbers
<1>4. state # "Started"
  BY DEF Init
<1> QED BY <1>1, <1>2, <1>3, <1>4, Zenon DEF LineInv

LEMMA StartLines == TransportInv /\ BufferTypes /\ LineInv /\ Start => LineInv'
<1> SUFFICES ASSUME TransportInv, BufferTypes, LineInv, Start PROVE LineInv'
  OBVIOUS
<1>1. /\ session \in Nat /\ session' = session + 1
      /\ channel' = <<>> /\ pipe' = NoLines /\ hand' = NoLines
      /\ written' = [s \in Streams |-> 0] /\ reader' = [s \in Streams |-> "reading"]
  BY TransportFacts DEF Start, TransportInv
<1>2. Heard' = Heard
  BY HeardAfter DEF Unheard, Elsewhere
<1>3. ASSUME NEW s \in Streams PROVE Way(s, 0)'
  <2>1. OnTheWay(s)' = <<>>
    <3>1. OnTheWay(s)' = Only(<<>>, StreamLines(s)) \o <<>> \o <<>>
      BY <1>1 DEF OnTheWay, StreamLines, NoLines
    <3>2. Only(<<>>, StreamLines(s)) = <<>>
      BY OnlyEmpty, Zenon
    <3>3. <<>> \o <<>> = <<>>
      BY ConcatEmptySeq
    <3> QED BY <3>1, <3>2, <3>3
  <2>2. Numbers(Heard, session + 1, s) = {}
    <3>1. \A line \in Heard : line.session # session + 1
      BY <1>1 DEF LineInv, Line
    <3> QED BY <3>1 DEF Numbers
  <2>3. Follows(<<>>, 0, session + 1, s) /\ Len(<<>>) = 0
    BY DEF Follows
  <2>4. written'[s] = 0
    BY <1>1
  <2> QED BY <1>1, <1>2, <2>1, <2>2, <2>3, <2>4 DEF Way
<1>4. /\ \A line \in Heard' : line \in Line /\ line.session <= session'
      /\ \A k \in Nat, s \in Streams : \E h \in Nat : Numbers(Heard', k, s) = 1 .. h
  BY <1>1, <1>2 DEF LineInv, Line
<1> QED BY <1>3, <1>4 DEF LineInv

LEMMA NumbersAdd ==
  ASSUME NEW lines, NEW line, NEW k, NEW s
  PROVE  /\ line.session = k /\ line.stream = s =>
              Numbers(lines \cup {line}, k, s) = Numbers(lines, k, s) \cup {line.n}
         /\ ~(line.session = k /\ line.stream = s) =>
              Numbers(lines \cup {line}, k, s) = Numbers(lines, k, s)
BY DEF Numbers

\* The line a pump hears is the next of its stream.
LEMMA PumpNext ==
  ASSUME TransportInv, BufferTypes, LineInv, Pump,
         NEW line, line = Head(channel), NEW s, s = line.stream
  PROVE  /\ line \in Line /\ s \in Streams /\ line.session = session /\ state = "Started"
         /\ \E h \in Nat : Way(s, h) /\ line.n = h + 1 /\ Way(s, h + 1)'
         /\ \A t \in Streams \ {s}, h \in Nat : Way(t, h) => Way(t, h)'
<1>1. /\ line \in Line /\ channel = <<line>> \o channel' /\ channel' \in Seq(Line)
      /\ channel # <<>>
  BY PumpBuffers DEF Pump
<1>2. UNCHANGED <<state, session, written, pipe, hand, reader>>
  BY DEF Pump, streamVars
<1>3. Heard' = Heard \cup {line} /\ state = "Started" /\ session \in Nat
  BY <1>1, HeardAfter, TransportFacts DEF TransportInv, TransportTypes
<1>4. s \in Streams
  BY <1>1 DEF Line
<1> DEFINE m == <<line>>
<1>5. m \in Seq(Line) /\ Len(m) = 1
  BY <1>1
<1>6. ASSUME NEW t \in Streams
      PROVE  /\ Only(channel, StreamLines(t)) =
                  Only(m, StreamLines(t)) \o Only(channel', StreamLines(t))
             /\ Only(m, StreamLines(t)) = IF t = s THEN m ELSE <<>>
             /\ Only(channel', StreamLines(t)) \in Seq(Line)
             /\ OnTheWay(t)' = (Only(channel', StreamLines(t)) \o hand[t]) \o pipe[t]
  <2>1. Only(m, StreamLines(t)) = IF line \in StreamLines(t) THEN m ELSE <<>>
    BY OnlySingle
  <2>2. line \in StreamLines(t) <=> t = s
    BY <1>1 DEF StreamLines
  <2>3. Only(channel', StreamLines(t)) \in Seq(Line)
    <3>1. Only(channel', StreamLines(t)) \in Seq(Line \cap StreamLines(t))
      BY <1>1, OnlyType
    <3>2. Line \cap StreamLines(t) \subseteq Line
      OBVIOUS
    <3> QED BY <3>1, <3>2, SeqMonotonic
  <2>4. channel = m \o channel'
    BY <1>1
  <2> HIDE DEF m
  <2>5. Only(m \o channel', StreamLines(t)) =
          Only(m, StreamLines(t)) \o Only(channel', StreamLines(t))
    BY <1>1, <1>5, OnlyConcat
  <2>6. OnTheWay(t)' = (Only(channel', StreamLines(t)) \o hand[t]) \o pipe[t]
    BY <1>2 DEF OnTheWay, StreamLines
  <2> QED BY <2>1, <2>2, <2>3, <2>4, <2>5, <2>6
<1> DEFINE front == Only(channel', StreamLines(s))
           rest == (front \o hand[s]) \o pipe[s]
<1>7. OnTheWay(s) = m \o rest /\ rest \in Seq(Line) /\ OnTheWay(s)' = rest
  <2>1. OnTheWay(s) = ((m \o front) \o hand[s]) \o pipe[s]
    BY <1>4, <1>6, WayParts
  <2>2. /\ front \in Seq(Line) /\ hand[s] \in Seq(Line) /\ pipe[s] \in Seq(Line)
        /\ OnTheWay(s)' = rest
    BY <1>4, <1>6, WayParts
  <2> DEFINE a == hand[s]  b == pipe[s]
  <2>3. a \in Seq(Line) /\ b \in Seq(Line)
    BY <2>2
  <2> HIDE DEF m, front, a, b
  <2>4. m \in Seq(Line) /\ front \in Seq(Line) /\ a \in Seq(Line) /\ b \in Seq(Line)
    BY <1>5, <2>2, <2>3
  <2> DEFINE u == front \o a
  <2>5. u \in Seq(Line) /\ (m \o front) \o a = m \o u
    BY ONLY <2>4
  <2> HIDE DEF u
  <2>6. (m \o u) \o b = m \o (u \o b) /\ u \o b \in Seq(Line)
    BY ONLY <2>4, <2>5
  <2> QED BY <2>1, <2>2, <2>5, <2>6, Zenon DEF a, b, u
<1>8. PICK h \in Nat : Way(s, h)
  BY <1>3, <1>4 DEF LineInv
<1>9. /\ line.n = h + 1 /\ line.session = session
      /\ Follows(rest, h + 1, session, s)
  <2>1. Follows(m, h, session, s) /\ Follows(rest, h + 1, session, s)
    <3>1. Follows(OnTheWay(s), h, session, s)
      BY <1>8 DEF Way
    <3> HIDE DEF m, rest
    <3>2. Follows(m \o rest, h, session, s)
      BY <1>7, <3>1
    <3> QED BY <1>5, <1>7, <3>2, FollowsConcat
  <2> QED BY <1>1, <2>1, FollowsSingle
<1>10. Way(s, h + 1)'
  <2> DEFINE way == OnTheWay(s)  n == Len(rest)  len == Len(way)
  <2>1. len = 1 + n /\ n \in Nat
    <3> HIDE DEF m, rest
    <3>1. Len(m \o rest) = Len(m) + Len(rest)
      BY <1>5, <1>7, ConcatProperties
    <3>2. Len(rest) \in Nat
      BY <1>7, LenProperties
    <3> QED BY <1>5, <1>7, <3>1, <3>2
  <2>2. h + len <= written[s] /\ (reader[s] # "broken" => h + len = written[s])
    BY <1>8 DEF Way
  <2>3. Len(OnTheWay(s)') = n
    BY <1>7
  <2>4. Numbers(Heard', session, s) = 1 .. (h + 1)
    <3>1. Numbers(Heard \cup {line}, session, s) = Numbers(Heard, session, s) \cup {line.n}
      BY <1>9, NumbersAdd
    <3>2. Numbers(Heard, session, s) = 1 .. h
      BY <1>8 DEF Way
    <3>3. (1 .. h) \cup {h + 1} = 1 .. (h + 1)
      OBVIOUS
    <3> QED BY <1>3, <1>9, <3>1, <3>2, <3>3
  <2> HIDE DEF way, n, len
  <2>5. /\ (h + 1) + n <= written[s]
        /\ reader[s] # "broken" => (h + 1) + n = written[s]
    <3>1. (h + 1) + n = h + len
      BY <2>1
    <3> QED BY <2>2, <3>1
  <2>6. OnTheWay(s)' = rest
    BY <1>7
  <2> HIDE DEF rest
  <2>7. Follows(OnTheWay(s)', h + 1, session, s)
    BY <1>9, <2>6
  <2>8. /\ (h + 1) + Len(OnTheWay(s)') <= written[s]
        /\ reader[s] # "broken" => (h + 1) + Len(OnTheWay(s)') = written[s]
    BY <2>3, <2>5, Zenon
  <2>9. session' = session /\ written'[s] = written[s] /\ reader'[s] = reader[s]
    BY <1>2
  <2>10. /\ Numbers(Heard', session', s) = 1 .. (h + 1)
         /\ Follows(OnTheWay(s)', h + 1, session', s)
         /\ (h + 1) + Len(OnTheWay(s)') <= written'[s]
         /\ reader'[s] # "broken" => (h + 1) + Len(OnTheWay(s)') = written'[s]
    BY <2>4, <2>7, <2>8, <2>9, Zenon
  <2> QED BY <2>10, Zenon DEF Way
<1>11. ASSUME NEW t \in Streams \ {s}, NEW j \in Nat, Way(t, j) PROVE Way(t, j)'
  <2>1. OnTheWay(t)' = OnTheWay(t)
    <3> DEFINE f == Only(channel', StreamLines(t))
    <3>1. Only(channel, StreamLines(t)) = <<>> \o f /\ f \in Seq(Line)
          /\ OnTheWay(t)' = (f \o hand[t]) \o pipe[t]
      BY <1>6
    <3> HIDE DEF f
    <3>2. <<>> \o f = f
      BY <3>1, ConcatEmptySeq
    <3>3. OnTheWay(t) = (Only(channel, StreamLines(t)) \o hand[t]) \o pipe[t]
      BY WayParts
    <3> QED BY <3>1, <3>2, <3>3, Zenon
  <2>2. Numbers(Heard', session, t) = Numbers(Heard, session, t)
    <3>0. ~(line.session = session /\ line.stream = t)
      OBVIOUS
    <3>1. Numbers(Heard \cup {line}, session, t) = Numbers(Heard, session, t)
      BY <3>0, Zenon DEF Numbers
    <3> QED BY <1>3, <3>1
  <2> QED BY <1>2, <1>11, <2>1, <2>2 DEF Way
<1> QED BY <1>1, <1>3, <1>4, <1>8, <1>9, <1>10, <1>11

LEMMA PumpLines == TransportInv /\ BufferTypes /\ LineInv /\ Pump => LineInv'
<1> SUFFICES ASSUME TransportInv, BufferTypes, LineInv, Pump PROVE LineInv'
  OBVIOUS
<1>1. PICK line : line = Head(channel)
  OBVIOUS
<1>2. PICK s : s = line.stream
  OBVIOUS
<1>3. /\ line \in Line /\ s \in Streams /\ line.session = session /\ state = "Started"
      /\ \A t \in Streams \ {s}, h \in Nat : Way(t, h) => Way(t, h)'
  BY <1>1, <1>2, PumpNext
<1>4. PICK h \in Nat : Way(s, h) /\ line.n = h + 1 /\ Way(s, h + 1)'
  BY <1>1, <1>2, PumpNext
<1>5. Heard' = Heard \cup {line} /\ session' = session /\ session \in Nat
  BY <1>1, HeardAfter, TransportFacts DEF Pump
<1>6. \A l \in Heard' : l \in Line /\ l.session <= session'
  BY <1>3, <1>5 DEF LineInv
<1>7. ASSUME NEW k \in Nat, NEW t \in Streams
      PROVE  \E j \in Nat : Numbers(Heard', k, t) = 1 .. j
  <2>1. CASE line.session = k /\ line.stream = t
    <3>1. Numbers(Heard', session', s) = 1 .. (h + 1)
      BY <1>4 DEF Way
    <3>2. session' = k /\ s = t
      BY <1>2, <1>3, <1>5, <2>1
    <3> QED BY <3>1, <3>2
  <2>2. CASE ~(line.session = k /\ line.stream = t)
    <3>1. Numbers(Heard \cup {line}, k, t) = Numbers(Heard, k, t)
      BY <2>2, Zenon DEF Numbers
    <3> QED BY <1>5, <3>1 DEF LineInv
  <2> QED BY <2>1, <2>2
<1>8. ASSUME NEW t \in Streams PROVE \E j \in Nat : Way(t, j)'
  <2>1. CASE t = s
    BY <1>4, <2>1
  <2>2. CASE t # s
    <3>1. PICK j \in Nat : Way(t, j)
      BY <1>3 DEF LineInv
    <3> QED BY <1>3, <2>2, <3>1
  <2> QED BY <2>1, <2>2
<1> QED BY <1>6, <1>7, <1>8 DEF LineInv

LEMMA ChildWritesLines ==
  ASSUME TransportInv, BufferTypes, LineInv,
         NEW s \in Streams, NEW kind \in LineKinds, ChildWrites(s, kind)
  PROVE  LineInv'
<1> DEFINE line == [session |-> session, stream |-> s, kind |-> kind, n |-> written[s] + 1]
           m == <<line>>
<1>1. /\ UNCHANGED <<state, session, reader, hand, channel>>
      /\ reader[s] = "reading" /\ written' = [written EXCEPT ![s] = written[s] + 1]
      /\ pipe' = [pipe EXCEPT ![s] = Append(pipe[s], line)]
  BY DEF ChildWrites
<1>2. /\ written \in [Streams -> Nat] /\ pipe \in [Streams -> Seq(Line)] /\ session \in Nat
      /\ \A t \in Streams : pipe[t] \in Seq(Line) /\ written[t] \in Nat
  BY BoundsTyped DEF TransportInv, TransportTypes
<1>3. Heard' = Heard
  BY HeardAfter DEF Unheard, Elsewhere, Child
<1>4. line \in Line /\ line.n = written[s] + 1 /\ line.session = session /\ line.stream = s
  BY <1>2 DEF Line
<1>5. /\ written'[s] = written[s] + 1 /\ pipe'[s] = Append(pipe[s], line)
      /\ \A t \in Streams \ {s} : written'[t] = written[t] /\ pipe'[t] = pipe[t]
  BY <1>1, <1>2
<1> HIDE DEF line
<1>6. m \in Seq(Line) /\ Len(m) = 1 /\ Append(pipe[s], line) = pipe[s] \o m
  BY <1>2, <1>4, AppendIsConcat
<1> HIDE DEF m
<1>7. OnTheWay(s)' = OnTheWay(s) \o m
  <2> DEFINE front == Only(channel, StreamLines(s)) \o hand[s]  b == pipe[s]
  <2>1. OnTheWay(s) = front \o b /\ front \in Seq(Line) /\ b \in Seq(Line)
    BY WayParts
  <2>2. OnTheWay(s)' = (Only(channel', StreamLines(s)) \o hand'[s]) \o pipe'[s]
    BY DEF OnTheWay, StreamLines
  <2>3. OnTheWay(s)' = front \o (b \o m)
    BY <1>1, <1>5, <1>6, <2>2
  <2> HIDE DEF front, b
  <2>4. front \in Seq(Line) /\ b \in Seq(Line) /\ m \in Seq(Line)
    BY <1>6, <2>1
  <2>5. (front \o b) \o m = front \o (b \o m)
    BY ONLY <2>4
  <2> QED BY <2>1, <2>3, <2>5
<1>8. ASSUME NEW h \in Nat, Way(s, h) PROVE Way(s, h)'
  <2> DEFINE way == OnTheWay(s)  n == Len(way)
  <2>1. way \in Seq(Line) /\ n \in Nat
    BY WayParts
  <2>2. /\ Numbers(Heard, session, s) = 1 .. h /\ Follows(way, h, session, s)
        /\ h + n = written[s]
    BY <1>1, <1>8 DEF Way
  <2>3. OnTheWay(s)' = way \o m
    BY <1>7
  <2> HIDE DEF way, n
  <2>4. Follows(m, h + n, session, s)
    BY <1>4, <2>1, <2>2, FollowsSingle DEF m
  <2>5. Follows(way \o m, h, session, s)
    BY <1>6, <2>1, <2>2, <2>4, FollowsConcat DEF n
  <2>6. Len(way \o m) = n + 1
    BY <1>6, <2>1, ConcatProperties DEF n
  <2>7. h + (n + 1) = written[s] + 1 /\ h + (n + 1) <= written[s] + 1
    BY <1>2, <2>1, <2>2
  <2>8. h + Len(OnTheWay(s)') = written'[s] /\ h + Len(OnTheWay(s)') <= written'[s]
    BY <1>5, <2>3, <2>6, <2>7
  <2>9. Follows(OnTheWay(s)', h, session', s) /\ Numbers(Heard', session', s) = 1 .. h
    BY <1>1, <1>3, <2>2, <2>3, <2>5
  <2> QED BY <2>8, <2>9, Zenon DEF Way
<1>9. ASSUME NEW t \in Streams \ {s}, NEW h \in Nat, Way(t, h) PROVE Way(t, h)'
  <2>1. OnTheWay(t)' = OnTheWay(t)
    BY <1>1, <1>5 DEF OnTheWay
  <2> QED BY <1>1, <1>3, <1>5, <1>9, <2>1, WayKept
<1>10. \A t \in Streams, h \in Nat : Way(t, h) => Way(t, h)'
  BY <1>8, <1>9
<1> QED BY <1>1, <1>3, <1>10, LinesKept

LEMMA StopReturnsLines == TransportInv /\ BufferTypes /\ LineInv /\ StopReturns => LineInv'
<1> SUFFICES ASSUME TransportInv, BufferTypes, LineInv, StopReturns PROVE LineInv'
  OBVIOUS
<1>1. Heard' = Heard /\ session' = session /\ state' = "Stopped"
  BY HeardAfter DEF Unheard, StopReturns
<1> QED BY <1>1, LinesKept

\* A reader moves the lines of its own stream along their way.
LEMMA ReaderWay ==
  ASSUME TransportInv, LineInv, NEW s \in Streams, ReaderReads(s) \/ ReaderSends(s)
  PROVE  \A t \in Streams : OnTheWay(t)' = OnTheWay(t)
<1> DEFINE front == Only(channel, StreamLines(s))
<1>1. /\ OnTheWay(s) = (front \o hand[s]) \o pipe[s]
      /\ front \in Seq(Line) /\ hand[s] \in Seq(Line) /\ pipe[s] \in Seq(Line)
  BY WayParts
<1>2. \A t \in Streams :
        OnTheWay(t)' = (Only(channel', StreamLines(t)) \o hand'[t]) \o pipe'[t]
  BY DEF OnTheWay, StreamLines
<1>3. channel \in Seq(Line) /\ hand \in [Streams -> Seq(Line)] /\ pipe \in [Streams -> Seq(Line)]
  BY DEF TransportInv, TransportTypes
<1>4. CASE ReaderReads(s)
  <2> DEFINE m == <<Head(pipe[s])>>  rest == Tail(pipe[s])
  <2>1. /\ hand[s] = <<>> /\ pipe[s] # <<>> /\ channel' = channel
        /\ hand'[s] = m /\ pipe'[s] = rest
        /\ \A t \in Streams \ {s} : hand'[t] = hand[t] /\ pipe'[t] = pipe[t]
    BY <1>3, <1>4 DEF ReaderReads
  <2>2. m \in Seq(Line) /\ rest \in Seq(Line) /\ pipe[s] = m \o rest
    BY <1>1, <2>1
  <2>3. OnTheWay(s)' = (front \o m) \o rest
    BY <1>2, <2>1
  <2>4. front \o hand[s] = front
    BY <1>1, <2>1, ConcatEmptySeq
  <2> HIDE DEF m, rest, front
  <2>5. (front \o m) \o rest = front \o (m \o rest)
    <3>1. front \in Seq(Line) /\ m \in Seq(Line) /\ rest \in Seq(Line)
      BY <1>1, <2>2
    <3> QED BY ONLY <3>1
  <2>6. OnTheWay(s)' = OnTheWay(s)
    BY <1>1, <2>2, <2>3, <2>4, <2>5, Zenon
  <2>7. \A t \in Streams \ {s} : OnTheWay(t)' = OnTheWay(t)
    BY <2>1 DEF OnTheWay
  <2> QED BY <2>6, <2>7
<1>5. CASE ReaderSends(s)
  <2> DEFINE m == hand[s]
  <2>1. /\ m # <<>> /\ channel' = channel \o m /\ hand'[s] = <<>> /\ pipe' = pipe
        /\ \A t \in Streams \ {s} : hand'[t] = hand[t]
    BY <1>3, <1>5 DEF ReaderSends
  <2>2. state = "Started"
    BY <2>1 DEF TransportInv, TransportTypes, NoLines
  <2>3. PICK h \in Nat : Way(s, h)
    BY <2>2 DEF LineInv
  <2>4. m \in Seq(Line) /\ front \o m \in Seq(Line)
    BY <1>1, ConcatProperties
  <2>5. m \in Seq(StreamLines(s))
    <3>1. Follows((front \o m) \o pipe[s], h, session, s)
      BY <1>1, <2>3 DEF Way
    <3>2. Follows(front \o m, h, session, s)
      BY <1>1, <2>4, <3>1, FollowsConcat
    <3> DEFINE k == h + Len(front)
    <3>3. Follows(m, k, session, s)
      BY <1>1, <2>4, <3>2, FollowsConcat
    <3> HIDE DEF k, m
    <3>4. \A i \in 1 .. Len(m) : m[i] \in StreamLines(s)
      BY <2>4, <3>3 DEF Follows, StreamLines
    <3> QED BY <2>4, <3>4
  <2>6. ASSUME NEW t \in Streams
        PROVE  /\ Only(channel \o m, StreamLines(t)) =
                    Only(channel, StreamLines(t)) \o Only(m, StreamLines(t))
               /\ Only(m, StreamLines(t)) = IF t = s THEN m ELSE <<>>
    <3> HIDE DEF m
    <3>1. Only(channel \o m, StreamLines(t)) =
            Only(channel, StreamLines(t)) \o Only(m, StreamLines(t))
      <4>1. channel \in Seq(Line) /\ m \in Seq(Line)
        BY <1>3, <2>4
      <4> QED BY ONLY <4>1, OnlyConcat
    <3>2. CASE t = s
      <4>1. StreamLines(s) \subseteq StreamLines(t)
        BY <3>2
      <4> QED BY <2>5, <3>1, <3>2, <4>1, OnlyAll
    <3>3. CASE t # s
      <4>1. StreamLines(s) \cap StreamLines(t) = {}
        BY <3>3 DEF StreamLines
      <4> QED BY <2>5, <3>1, <3>3, <4>1, OnlyNone
    <3> QED BY <3>2, <3>3
  <2>7. OnTheWay(s)' = OnTheWay(s)
    <3> DEFINE b == pipe[s]
    <3>1. OnTheWay(s)' = ((front \o m) \o <<>>) \o b
      BY <1>2, <2>1, <2>6
    <3>2. (front \o m) \o <<>> = front \o m
      BY <2>4, ConcatEmptySeq
    <3> HIDE DEF front, m
    <3>3. OnTheWay(s) = (front \o m) \o b
      BY <1>1 DEF m
    <3> QED BY <3>1, <3>2, <3>3, Zenon
  <2>8. ASSUME NEW t \in Streams \ {s} PROVE OnTheWay(t)' = OnTheWay(t)
    <3> DEFINE f == Only(channel, StreamLines(t))
    <3>1. f \in Seq(Line) /\ OnTheWay(t) = (f \o hand[t]) \o pipe[t]
      BY WayParts
    <3>2. Only(channel', StreamLines(t)) = f \o <<>>
      BY <2>1, <2>6
    <3> HIDE DEF f
    <3>3. f \o <<>> = f
      BY <3>1, ConcatEmptySeq
    <3> QED BY <1>2, <2>1, <3>1, <3>2, <3>3
  <2> QED BY <2>7, <2>8
<1> QED BY <1>4, <1>5

LEMMA ReaderLines ==
  ASSUME TransportInv, BufferTypes, LineInv, NEW s \in Streams, Reader(s)
  PROVE  LineInv'
<1>1. Heard' = Heard
  BY HeardAfter DEF Unheard, Elsewhere
<1>2. UNCHANGED <<state, session, written>>
  BY DEF Reader, ReaderReads, ReaderBreaks, ReaderSends, ReaderEnds
<1>3. /\ reader \in [Streams -> ReaderStates] /\ pipe \in [Streams -> Seq(Line)]
  BY DEF TransportInv, TransportTypes
<1>4. CASE ReaderReads(s) \/ ReaderSends(s)
  <2>1. reader' = reader
    BY <1>4 DEF ReaderReads, ReaderSends
  <2>2. ASSUME NEW t \in Streams, NEW h \in Nat, Way(t, h) PROVE Way(t, h)'
    BY <1>1, <1>2, <1>4, <2>1, <2>2, ReaderWay, WayKept
  <2> QED BY <1>1, <1>2, <2>2, LinesKept
<1>5. CASE ReaderEnds(s)
  <2>1. /\ UNCHANGED <<pipe, hand, channel>> /\ reader[s] = "reading" /\ reader'[s] = "ended"
        /\ \A t \in Streams \ {s} : reader'[t] = reader[t]
    BY <1>3, <1>5 DEF ReaderEnds
  <2>2. ASSUME NEW t \in Streams, NEW h \in Nat, Way(t, h) PROVE Way(t, h)'
    <3>1. OnTheWay(t)' = OnTheWay(t)
      BY <2>1 DEF OnTheWay
    <3>2. reader'[t] = "broken" <=> reader[t] = "broken"
      BY <2>1
    <3> QED BY <1>1, <1>2, <2>2, <3>1, <3>2, WayKept
  <2> QED BY <1>1, <1>2, <2>2, LinesKept
<1>6. CASE ReaderBreaks(s)
  <2>1. /\ UNCHANGED <<hand, channel>> /\ reader'[s] = "broken" /\ pipe'[s] = <<>>
        /\ \A t \in Streams \ {s} : reader'[t] = reader[t] /\ pipe'[t] = pipe[t]
    BY <1>3, <1>6 DEF ReaderBreaks
  <2>2. ASSUME NEW t \in Streams \ {s}, NEW h \in Nat, Way(t, h) PROVE Way(t, h)'
    <3>1. OnTheWay(t)' = OnTheWay(t)
      BY <2>1 DEF OnTheWay
    <3> QED BY <1>1, <1>2, <2>1, <2>2, <3>1, WayKept
  <2>3. ASSUME NEW h \in Nat, Way(s, h) PROVE Way(s, h)'
    <3> DEFINE front == Only(channel, StreamLines(s)) \o hand[s]  b == pipe[s]
               way == OnTheWay(s)  n == Len(way)  k == Len(front)
    <3>1. /\ way = front \o b /\ front \in Seq(Line) /\ b \in Seq(Line)
          /\ n \in Nat /\ written[s] \in Nat
      BY WayParts
    <3>2. /\ Numbers(Heard, session, s) = 1 .. h /\ Follows(way, h, session, s)
          /\ h + n <= written[s]
      BY <2>3 DEF Way
    <3>3. OnTheWay(s)' = front
      <4>1. OnTheWay(s)' = (Only(channel', StreamLines(s)) \o hand'[s]) \o pipe'[s]
        BY DEF OnTheWay, StreamLines
      <4>2. OnTheWay(s)' = front \o <<>>
        BY <2>1, <4>1
      <4> HIDE DEF front
      <4> QED BY <3>1, <4>2, ConcatEmptySeq
    <3> HIDE DEF front, b, way
    <3>4. Follows(front, h, session, s)
      BY <3>1, <3>2, FollowsConcat
    <3>5. n = k + Len(b) /\ k \in Nat /\ Len(b) \in Nat
      BY <3>1, ConcatProperties, LenProperties
    <3> HIDE DEF n, k
    <3>6. h + k <= written[s]
      BY <3>1, <3>2, <3>5
    <3>7. /\ Numbers(Heard', session', s) = 1 .. h /\ Follows(OnTheWay(s)', h, session', s)
          /\ h + Len(OnTheWay(s)') <= written'[s] /\ reader'[s] = "broken"
      BY <1>1, <1>2, <2>1, <3>2, <3>3, <3>4, <3>6 DEF k
    <3> QED BY <3>7, Zenon DEF Way
  <2>4. \A t \in Streams, h \in Nat : Way(t, h) => Way(t, h)'
    BY <2>2, <2>3
  <2> QED BY <1>1, <1>2, <2>4, LinesKept
<1> QED BY <1>4, <1>5, <1>6 DEF Reader

LEMMA LinesStep == TransportInv /\ BufferTypes /\ LineInv /\ [Next]_vars => LineInv'
<1> SUFFICES ASSUME TransportInv, BufferTypes, LineInv, [Next]_vars PROVE LineInv'
  OBVIOUS
<1>1. ASSUME NEW s \in Streams, NEW kind \in LineKinds, ChildWrites(s, kind) PROVE LineInv'
  BY <1>1, ChildWritesLines
<1>2. ASSUME NEW s \in Streams, Reader(s) PROVE LineInv'
  BY <1>2, ReaderLines
<1>3. CASE Next
  BY <1>1, <1>2, <1>3, StepMoves, StillLines, StartLines, PumpLines, StopReturnsLines
<1>4. CASE UNCHANGED vars
  BY <1>4, StillLines
<1> QED BY <1>3, <1>4

LEMMA LinesHold == Spec => [](TransportInv /\ BufferTypes /\ LineInv)
<1>1. Init => TransportInv /\ BufferTypes /\ LineInv
  BY InitTransport, InitBuffers, InitLines
<1>2. TransportInv /\ BufferTypes /\ LineInv /\ [Next]_vars
        => (TransportInv /\ BufferTypes /\ LineInv)'
  BY StepInvariant, BufferStep, LinesStep
<1> QED BY <1>1, <1>2, PTL DEF Spec

\* No line of a session is lost, repeated or overtaken while its reader works.
THEOREM LinesConservedHolds == Spec => []LinesConserved
<1>1. TransportInv /\ LineInv => LinesConserved
  <2> SUFFICES ASSUME TransportInv, LineInv, state = "Started",
                      NEW s \in Streams, reader[s] # "broken"
               PROVE  LET way == OnTheWay(s)  heard == written[s] - Len(way)
                      IN /\ \A i \in DOMAIN way : /\ way[i].n = heard + i
                                                   /\ way[i].session = session
                         /\ {line.n : line \in {l \in Heard : /\ l.session = session
                                                              /\ l.stream = s}} = 1 .. heard
    BY DEF LinesConserved
  <2> DEFINE way == OnTheWay(s)  n == Len(way)
  <2>1. n \in Nat /\ written[s] \in Nat
    BY WayParts
  <2>2. PICK h \in Nat : Way(s, h)
    BY DEF LineInv
  <2>3. /\ Numbers(Heard, session, s) = 1 .. h /\ Follows(way, h, session, s)
        /\ h + n = written[s]
    BY <2>2 DEF Way
  <2> HIDE DEF way, n
  <2>4. written[s] - n = h
    BY <2>1, <2>3
  <2>5. {line.n : line \in {l \in Heard : l.session = session /\ l.stream = s}} = 1 .. h
    BY <2>3 DEF Numbers
  <2>6. \A i \in DOMAIN way : way[i].n = h + i /\ way[i].session = session
    BY <2>3 DEF Follows
  <2> QED BY <2>4, <2>5, <2>6 DEF n, way
<1> QED BY <1>1, LinesHold, PTL

\* Whatever was heard of a stream is all that was written up to there.
THEOREM LossIsATailHolds == Spec => []LossIsATail
<1>1. TransportInv /\ LineInv => LossIsATail
  <2> SUFFICES ASSUME TransportInv, LineInv, NEW line \in Heard, NEW n \in 1 .. MaxLines,
                      n < line.n
               PROVE  \E l \in Heard : /\ l.session = line.session
                                       /\ l.stream = line.stream /\ l.n = n
    BY DEF LossIsATail
  <2> DEFINE k == line.session  s == line.stream
  <2>1. line \in Line /\ k \in Nat /\ s \in Streams /\ n \in Nat /\ 1 <= n
    BY BoundsTyped DEF LineInv, Line
  <2>2. PICK h \in Nat : Numbers(Heard, k, s) = 1 .. h
    BY <2>1 DEF LineInv
  <2>3. line.n \in 1 .. h
    <3>1. line.n \in Numbers(Heard, k, s)
      BY DEF Numbers
    <3> QED BY <2>2, <3>1
  <2>4. n \in Numbers(Heard, k, s)
    <3>1. n \in 1 .. h
      BY <2>1, <2>3
    <3> QED BY <2>2, <3>1
  <2> QED BY <2>4 DEF Numbers
<1> QED BY <1>1, LinesHold, PTL

-----------------------------------------------------------------------------
(* Order, and how sessions end.                                            *)

-----------------------------------------------------------------------------
(* How sessions end, and what the evidence says of it.                     *)

\* Where the kernel's thread, the child and the exits noted so far stand.
ExitTypes ==
  /\ exits \in Seq(Exited)
  /\ state = "Started" => Len(exits) + 1 = session /\ child # "none"
  /\ state = "Stopped" => Len(exits) = session /\ child = "none"
  /\ call \in {"kill", "reap"} => timedOut = TRUE
  /\ child \in {"dying", "killed"} => timedOut = TRUE /\ call \in {"reap", "last_pump"}
  /\ call = "last_pump" => child \in Exited

ReportedIn(q, k, topics) ==
  \E f \in [DOMAIN topics -> DOMAIN q] :
    /\ \A i \in DOMAIN topics : q[f[i]] = [topic |-> topics[i], session |-> k]
    /\ \A i, j \in DOMAIN topics : i < j => f[i] < f[j]

Ends == <<"failed", "timeout", "killed">>

\* What a report of a session says of how it ended, or is about to.
ReportTrueOf(e) ==
  /\ e.session \in 1 .. session
  /\ e.topic # "failed" => e.session \in DOMAIN exits
  /\ e.topic = "failed" /\ e.session \in DOMAIN exits => exits[e.session] # "success"
  /\ e.topic = "failed" /\ e.session \notin DOMAIN exits => child \in {"failure", "killed"}

ExitInv ==
  /\ ExitTypes
  /\ \A e \in Range(AllEvidence) : ~IsLine(e) => ReportTrueOf(e)
  /\ \A k \in DOMAIN exits :
       /\ exits[k] = "failure" => ReportedIn(AllEvidence, k, <<"failed">>)
       /\ exits[k] = "killed" => ReportedIn(AllEvidence, k, Ends)

LEMMA ExitTypesStep == TransportInv /\ ExitTypes /\ [Next]_vars => ExitTypes'
<1> SUFFICES ASSUME TransportInv, ExitTypes, [Next]_vars PROVE ExitTypes'
  OBVIOUS
<1>1. /\ session \in Nat /\ exits \in Seq(Exited) /\ Len(exits) \in Nat
      /\ state \in {"Stopped", "Started"} /\ call \in Calls
      /\ state = "Stopped" => call \in {"idle", "drain_candidates", "drain_evidence"}
      /\ child \in ChildStates
  BY DEF TransportInv, TransportTypes, ExitTypes
<1>2. CASE Start
  <2>1. /\ exits' = exits /\ state' = "Started" /\ session' = session + 1 /\ child' = "running"
        /\ call' = call /\ timedOut' = timedOut /\ call = "idle" /\ Len(exits) = session
    BY <1>2 DEF Start, ExitTypes, waitVars
  <2> QED BY <1>1, <2>1 DEF ExitTypes
<1>3. CASE StopReturns
  <2>1. child \in Exited /\ state = "Started" /\ Len(exits) + 1 = session
    BY <1>1, <1>3 DEF StopReturns, ExitTypes
  <2>2. /\ exits' = Append(exits, child) /\ state' = "Stopped" /\ session' = session
        /\ child' = "none" /\ call' = "idle"
    BY <1>3 DEF StopReturns
  <2>3. exits' \in Seq(Exited) /\ Len(exits') = Len(exits) + 1
    BY <1>1, <2>1, <2>2, AppendProperties
  <2> QED BY <2>1, <2>2, <2>3 DEF ExitTypes
<1>4. CASE \E status \in Exited : ChildExits(status)
  <2>1. PICK status \in Exited : ChildExits(status)
    BY <1>4
  <2>2. /\ child \in Alive /\ child' = status /\ UNCHANGED <<state, session, call, timedOut, exits>>
        /\ status = "killed" => child = "dying"
    BY <2>1 DEF ChildExits, waitVars, Alive
  <2> QED BY <1>1, <2>2 DEF ExitTypes, Alive, Exited
<1>5. CASE StopKills
  <2>1. /\ call = "kill" /\ call' = "reap" /\ UNCHANGED <<state, session, timedOut, exits>>
        /\ child' = IF child = "running" THEN "dying" ELSE child
    BY <1>5 DEF StopKills, waitVars
  <2> QED BY <1>1, <2>1 DEF ExitTypes
<1>6. CASE StopChecksDeadline
  <2>1. /\ call = "check" /\ UNCHANGED <<state, session, child, exits>>
        /\ (elapsed = TRUE /\ call' = "kill" /\ timedOut' = TRUE) \/ call' = "wait"
    BY <1>6, Zenon DEF StopChecksDeadline, TransportInv, TransportTypes
  <2> QED BY <1>1, <2>1 DEF ExitTypes
<1>7. CASE StopClosesStdin
  <2>1. call = "stop_pump" /\ call' = "wait" /\ UNCHANGED <<state, session, child, exits>>
    BY <1>7 DEF StopClosesStdin
  <2> QED BY <1>1, <2>1 DEF ExitTypes
<1>8. CASE StopTriesWait \/ StopReaps
  <2>1. /\ UNCHANGED <<state, session, child, exits, timedOut>>
        /\ call \in {"wait", "reap"}
        /\ (call' = "last_pump" /\ child \in Exited) \/ (call = "wait" /\ call' = "check")
    BY <1>8 DEF StopTriesWait, StopReaps, waitVars
  <2> QED BY <1>1, <2>1 DEF ExitTypes
<1>9. CASE UNCHANGED <<state, session, child, exits, timedOut, call>>
  BY <1>9 DEF ExitTypes
<1>10. ASSUME UNCHANGED <<state, session, child, exits, timedOut>>,
              call \notin {"kill", "reap", "last_pump"}, call' \notin {"kill", "reap", "last_pump"}
       PROVE  ExitTypes'
  BY <1>10 DEF ExitTypes
<1>11. CASE StopCannotKill
  <2>1. /\ UNCHANGED <<state, session, child, exits, timedOut>>
        /\ child = "running" /\ call' = "idle"
    BY <1>11 DEF StopCannotKill, waitVars
  <2> QED BY <2>1 DEF ExitTypes
<1>12. CASE \/ SendBegins \/ SendWrites \/ SendFails \/ SendReturns
            \/ StopBegins \/ DrainCandidatesReturns \/ DrainEvidenceReturns
  BY <1>10, <1>12 DEF SendBegins, SendWrites, SendFails, SendReturns, StopBegins,
     DrainCandidatesReturns, DrainEvidenceReturns, waitVars
<1>13. ASSUME NEW drain \in Pumping, DrainBegins(drain) PROVE ExitTypes'
  BY <1>10, <1>13 DEF DrainBegins, waitVars
<1>14. CASE Pump \/ Tick \/ ChildReads \/ UNCHANGED vars
  BY <1>9, <1>14 DEF Pump, Tick, ChildReads, waitVars, vars
<1>15. ASSUME NEW denied, AdmitCandidates(denied) PROVE ExitTypes'
  BY <1>9, <1>15 DEF AdmitCandidates, waitVars
<1>16. ASSUME NEW s \in Streams, NEW kind \in LineKinds, ChildWrites(s, kind) PROVE ExitTypes'
  BY <1>9, <1>16 DEF ChildWrites, waitVars
<1>17. ASSUME NEW s \in Streams, Reader(s) PROVE ExitTypes'
  BY <1>9, <1>17 DEF Reader, ReaderReads, ReaderBreaks, ReaderSends, ReaderEnds, waitVars
<1>18. CASE Drain
  BY <1>12, <1>13, <1>15, <1>18 DEF Drain
<1>19. CASE Stop
  BY <1>3, <1>5, <1>6, <1>7, <1>8, <1>11, <1>12, <1>19 DEF Stop
<1>20. CASE Child
  BY <1>4, <1>14, <1>16, <1>20 DEF Child
<1> QED BY <1>2, <1>12, <1>14, <1>17, <1>18, <1>19, <1>20 DEF Next

LEMMA ReportedConcat ==
  ASSUME NEW T, NEW p \in Seq(T), NEW q \in Seq(T), NEW k, NEW topics
  PROVE  ReportedIn(p, k, topics) \/ ReportedIn(q, k, topics) => ReportedIn(p \o q, k, topics)
<1> DEFINE r == p \o q  m == Len(p)  n == Len(q)
<1>1. /\ m \in Nat /\ n \in Nat /\ DOMAIN r = 1 .. (m + n)
      /\ \A i \in 1 .. m : i \in 1 .. (m + n) /\ r[i] = p[i]
      /\ \A i \in 1 .. n : m + i \in 1 .. (m + n) /\ r[m + i] = q[i]
  BY ConcatAt
<1>2. DOMAIN p = 1 .. m /\ DOMAIN q = 1 .. n
  BY LenProperties
<1> HIDE DEF r, m, n
<1>3. ASSUME ReportedIn(p, k, topics) PROVE ReportedIn(r, k, topics)
  <2>1. PICK f \in [DOMAIN topics -> 1 .. m] :
          /\ \A i \in DOMAIN topics : p[f[i]] = [topic |-> topics[i], session |-> k]
          /\ \A i, j \in DOMAIN topics : i < j => f[i] < f[j]
    BY <1>2, <1>3 DEF ReportedIn
  <2>2. f \in [DOMAIN topics -> 1 .. (m + n)]
    BY <1>1
  <2>3. \A i \in DOMAIN topics : r[f[i]] = [topic |-> topics[i], session |-> k]
    BY <1>1, <2>1
  <2> QED BY <1>1, <2>1, <2>2, <2>3, Zenon DEF ReportedIn
<1>4. ASSUME ReportedIn(q, k, topics) PROVE ReportedIn(r, k, topics)
  <2>1. PICK f \in [DOMAIN topics -> 1 .. n] :
          /\ \A i \in DOMAIN topics : q[f[i]] = [topic |-> topics[i], session |-> k]
          /\ \A i, j \in DOMAIN topics : i < j => f[i] < f[j]
    BY <1>2, <1>4 DEF ReportedIn
  <2> DEFINE g == [i \in DOMAIN topics |-> m + f[i]]
  <2>2. g \in [DOMAIN topics -> 1 .. (m + n)] /\ \A i \in DOMAIN topics : g[i] = m + f[i]
    BY <1>1
  <2> HIDE DEF g
  <2>3. \A i \in DOMAIN topics : r[g[i]] = [topic |-> topics[i], session |-> k]
    BY <1>1, <2>1, <2>2
  <2>4. \A i, j \in DOMAIN topics : i < j => g[i] < g[j]
    BY <1>1, <2>1, <2>2
  <2> QED BY <1>1, <2>2, <2>3, <2>4, Zenon DEF ReportedIn
<1> QED BY <1>3, <1>4 DEF r

LEMMA RangeConcat ==
  ASSUME NEW T, NEW p \in Seq(T), NEW q \in Seq(T)
  PROVE  Range(p \o q) = Range(p) \cup Range(q)
BY RangeConcatenation

\* The evidence that the steps other than a return of send and of stop add.
LEMMA NoReports ==
  ASSUME TransportInv, BufferTypes,
         \/ Elsewhere \/ Pump \/ UNCHANGED vars
         \/ DrainCandidatesReturns \/ DrainEvidenceReturns
         \/ \E denied : AdmitCandidates(denied)
  PROVE  \E x \in Seq(Event) : /\ AllEvidence' = AllEvidence \o x
                              /\ \A e \in Range(x) : IsLine(e)
<1>1. /\ <<>> \in Seq(Event) /\ AllEvidence \o <<>> = AllEvidence
      /\ \A e \in Range(<<>>) : IsLine(e)
  BY AllTypes, ConcatEmptySeq DEF Range
<1>2. CASE Elsewhere \/ UNCHANGED vars
  <2>1. UNCHANGED <<candidates, evidence, taken>>
    BY <1>2, ElsewhereBuffers DEF vars, bufferVars
  <2>2. AllEvidence' = AllEvidence
    BY <2>1 DEF AllEvidence
  <2> QED BY <1>1, <2>2, Zenon
<1>3. CASE DrainCandidatesReturns \/ DrainEvidenceReturns
  BY <1>1, <1>3, DrainsAdd, Zenon
<1>4. CASE Pump
  <2>1. PICK line : line = Head(channel)
    OBVIOUS
  <2>2. \/ line \in CandidateLines /\ Adds(<<line>>, <<>>)
        \/ line \in Line \ CandidateLines /\ Adds(<<>>, <<LineEvidence(line)>>)
    BY <1>4, <2>1, PumpAdds
  <2>3. CASE Adds(<<line>>, <<>>)
    BY <1>1, <2>3, Zenon DEF Adds
  <2>4. CASE line \in Line /\ Adds(<<>>, <<LineEvidence(line)>>)
    <3> DEFINE e == LineEvidence(line)  m == <<e>>
    <3>1. IsLine(e) /\ m \in Seq(Event) /\ AllEvidence' = AllEvidence \o m
      BY <2>4, LineEvents DEF Adds, LineEvent, IsLine
    <3> HIDE DEF e
    <3>2. Range(m) = {e}
      BY DEF Range
    <3> HIDE DEF m
    <3> QED BY <3>1, <3>2
  <2> QED BY <2>2, <2>3, <2>4
<1>5. ASSUME NEW denied, AdmitCandidates(denied)
      PROVE  \E x \in Seq(Event) : /\ AllEvidence' = AllEvidence \o x
                                  /\ \A e \in Range(x) : IsLine(e)
  <2> DEFINE gone == Only(candidates, denied)  x == Denials(gone)
  <2>1. gone \in Seq(Line) /\ x \in Seq(Event) /\ AllEvidence' = AllEvidence \o x
    BY <1>5, AdmitAdds
  <2> HIDE DEF gone
  <2>2. \A e \in Range(x) : IsLine(e)
    BY <2>1, DenialsType DEF Denials, Range, IsLine, LineTopics
  <2> HIDE DEF x
  <2> QED BY <2>1, <2>2
<1> QED BY <1>2, <1>3, <1>4, <1>5

\* What the reports of a step must say to keep the invariant.
LEMMA ReportsKept ==
  ASSUME BufferTypes, ExitInv, ExitTypes', NEW x \in Seq(Event),
         AllEvidence' = AllEvidence \o x,
         \A e \in Range(x) : ~IsLine(e) => ReportTrueOf(e)',
         \A e \in Range(AllEvidence) : ~IsLine(e) /\ ReportTrueOf(e) => ReportTrueOf(e)',
         \A k \in DOMAIN exits' \ DOMAIN exits :
           /\ exits'[k] = "failure" => ReportedIn(AllEvidence', k, <<"failed">>)
           /\ exits'[k] = "killed" => ReportedIn(AllEvidence', k, Ends),
         \A k \in DOMAIN exits : exits'[k] = exits[k]
  PROVE  ExitInv'
<1>1. Range(AllEvidence') = Range(AllEvidence) \cup Range(x)
  BY AllTypes, RangeConcat
<1>2. \A e \in Range(AllEvidence') : ~IsLine(e) => ReportTrueOf(e)'
  BY <1>1 DEF ExitInv
<1>3. ASSUME NEW k \in DOMAIN exits'
      PROVE  /\ exits'[k] = "failure" => ReportedIn(AllEvidence', k, <<"failed">>)
             /\ exits'[k] = "killed" => ReportedIn(AllEvidence', k, Ends)
  <2>1. CASE k \in DOMAIN exits
    <3>1. /\ exits'[k] = exits[k]
          /\ exits[k] = "failure" => ReportedIn(AllEvidence, k, <<"failed">>)
          /\ exits[k] = "killed" => ReportedIn(AllEvidence, k, Ends)
      BY <2>1 DEF ExitInv
    <3> DEFINE failed == <<"failed">>
    <3> HIDE DEF failed
    <3>2. /\ ReportedIn(AllEvidence, k, failed) => ReportedIn(AllEvidence', k, failed)
          /\ ReportedIn(AllEvidence, k, Ends) => ReportedIn(AllEvidence', k, Ends)
      <4>1. AllEvidence \in Seq(Event)
        BY AllTypes
      <4> QED BY <4>1, ReportedConcat
    <3> QED BY <3>1, <3>2 DEF failed
  <2> QED BY <1>3, <2>1
<1> QED BY <1>2, <1>3 DEF ExitInv

\* A step that ends no session and leaves a child that failed as it is.
LEMMA QuietExits ==
  ASSUME TransportInv, BufferTypes, ExitInv, ExitTypes',
         UNCHANGED <<session, exits>>,
         child \in {"failure", "killed"} => child' = child,
         NEW x \in Seq(Event), AllEvidence' = AllEvidence \o x,
         \A e \in Range(x) : ~IsLine(e) => ReportTrueOf(e)'
  PROVE  ExitInv'
<1>1. \A e : ReportTrueOf(e) => ReportTrueOf(e)'
  BY DEF ReportTrueOf
<1> QED BY <1>1, ReportsKept

\* What send and stop report, of which session.
LEMMA ReportsTold ==
  ASSUME TransportInv
  PROVE  /\ \A e \in Range(FailureReport) :
              e.topic = "failed" /\ e.session = session /\ child \in {"failure", "killed"}
         /\ \A e \in Range(StopReports) :
              /\ e.session = session
              /\ e.topic = "failed" => child \in {"failure", "killed"}
         /\ child = "failure" => ReportedIn(StopReports, session, <<"failed">>)
         /\ child = "killed" /\ timedOut => ReportedIn(StopReports, session, Ends)
<1> DEFINE two == <<Report("timeout"), Report("killed")>>
           late == IF timedOut THEN two ELSE <<>>
           one == <<Report("failed")>>
<1>1. /\ Report("failed") = [topic |-> "failed", session |-> session]
      /\ Report("timeout") = [topic |-> "timeout", session |-> session]
      /\ Report("killed") = [topic |-> "killed", session |-> session]
  BY DEF Report
<1>2. Range(one) = {Report("failed")} /\ Range(<<>>) = {}
  BY DEF Range
<1>3. Range(two) = {Report("timeout"), Report("killed")}
  BY DEF Range
<1>4. \A e \in Range(FailureReport) :
        e.topic = "failed" /\ e.session = session /\ child \in {"failure", "killed"}
  BY <1>1, <1>2 DEF FailureReport
<1>5. /\ session \in Nat /\ FailureReport \in Seq(ReportEvent)
      /\ late \in Seq(ReportEvent) /\ one \in Seq(ReportEvent)
      /\ two \in Seq(ReportEvent)
  <2>1. session \in Nat
    BY TransportFacts
  <2>2. /\ Report("failed") \in ReportEvent /\ Report("timeout") \in ReportEvent
        /\ Report("killed") \in ReportEvent
    BY <1>1, <2>1 DEF ReportEvent, ReportTopics
  <2>3. /\ one \in Seq(ReportEvent) /\ two \in Seq(ReportEvent)
        /\ <<>> \in Seq(ReportEvent)
    BY <2>2
  <2> QED BY <2>1, <2>3, ReportsType
<1>6. StopReports = FailureReport \o late
  BY DEF StopReports
<1>7. \A e \in Range(StopReports) :
        /\ e.session = session
        /\ e.topic = "failed" => child \in {"failure", "killed"}
  <2>1. Range(StopReports) = Range(FailureReport) \cup Range(late)
    <3>1. FailureReport \in Seq(ReportEvent) /\ late \in Seq(ReportEvent)
      BY <1>5
    <3> HIDE DEF late
    <3> QED BY <1>6, <3>1, RangeConcat
  <2>2. \A e \in Range(late) : e.session = session /\ e.topic # "failed"
    BY <1>1, <1>2, <1>3
  <2> QED BY <1>4, <2>1, <2>2
<1>8. ASSUME child = "failure" PROVE ReportedIn(StopReports, session, <<"failed">>)
  <2> DEFINE topics == <<"failed">>  f == [i \in {1} |-> 1]
  <2>1. FailureReport = one
    BY <1>8 DEF FailureReport
  <2>2. ReportedIn(one, session, topics)
    <3>1. DOMAIN topics = {1} /\ topics[1] = "failed" /\ DOMAIN one = {1}
          /\ one[1] = Report("failed") /\ f \in [{1} -> {1}] /\ f[1] = 1
      OBVIOUS
    <3> HIDE DEF topics, one, f
    <3>2. /\ \A i \in DOMAIN topics : one[f[i]] = [topic |-> topics[i], session |-> session]
          /\ \A i, j \in DOMAIN topics : i < j => f[i] < f[j]
          /\ f \in [DOMAIN topics -> DOMAIN one]
      BY <1>1, <3>1
    <3> QED BY <3>2, Zenon DEF ReportedIn
  <2> HIDE DEF topics, one, late
  <2>3. ReportedIn(one \o late, session, topics)
    BY <1>5, <2>2, ReportedConcat
  <2> QED BY <1>6, <2>1, <2>3 DEF topics
<1>9. ASSUME child = "killed", timedOut PROVE ReportedIn(StopReports, session, Ends)
  <2> DEFINE f == [i \in 1 .. 3 |-> i]
             three == one \o two
  <2>1. StopReports = three
    <3>1. FailureReport = one /\ late = two
      BY <1>9 DEF FailureReport
    <3> QED BY <1>6, <3>1
  <2>2. /\ DOMAIN Ends = 1 .. 3 /\ DOMAIN three = 1 .. 3
        /\ Ends[1] = "failed" /\ Ends[2] = "timeout" /\ Ends[3] = "killed"
        /\ three[1] = Report("failed") /\ three[2] = Report("timeout")
        /\ three[3] = Report("killed")
    <3>1. /\ Len(one) = 1 /\ Len(two) = 2 /\ one[1] = Report("failed")
          /\ two[1] = Report("timeout") /\ two[2] = Report("killed")
      OBVIOUS
    <3> HIDE DEF one, two, three
    <3>2. /\ DOMAIN three = 1 .. (Len(one) + Len(two))
          /\ \A i \in 1 .. Len(one) : three[i] = one[i]
          /\ \A i \in 1 .. Len(two) : three[Len(one) + i] = two[i]
      BY <1>5, ConcatAt DEF three
    <3>3. DOMAIN three = 1 .. 3 /\ three[1] = one[1] /\ three[2] = two[1] /\ three[3] = two[2]
      BY <3>1, <3>2
    <3> QED BY <3>1, <3>3 DEF Ends
  <2>3. f \in [1 .. 3 -> 1 .. 3] /\ \A i \in 1 .. 3 : f[i] = i
    OBVIOUS
  <2> HIDE DEF three, f
  <2>4. \A i \in 1 .. 3 : i = 1 \/ i = 2 \/ i = 3
    OBVIOUS
  <2>5. \A i \in DOMAIN Ends : three[f[i]] = [topic |-> Ends[i], session |-> session]
    <3> SUFFICES ASSUME NEW i \in 1 .. 3
                 PROVE  three[f[i]] = [topic |-> Ends[i], session |-> session]
      BY <2>2
    <3>1. f[i] = i
      BY <2>3
    <3>2. three[i] = [topic |-> Ends[i], session |-> session]
      BY <1>1, <2>2, <2>4
    <3> QED BY <3>1, <3>2
  <2>6. /\ \A i, j \in DOMAIN Ends : i < j => f[i] < f[j]
        /\ f \in [DOMAIN Ends -> DOMAIN three]
    BY <2>2, <2>3
  <2>7. ReportedIn(three, session, Ends)
    BY <2>5, <2>6, Zenon DEF ReportedIn
  <2> QED BY <2>1, <2>7
<1> QED BY <1>4, <1>7, <1>8, <1>9

LEMMA InitExits == Init => ExitInv
<1> SUFFICES ASSUME Init PROVE ExitInv
  OBVIOUS
<1>1. ExitTypes
  BY DEF Init, ExitTypes, Exited
<1>2. AllEvidence = <<>>
  <2>1. <<>> \o <<>> = <<>>
    BY ConcatEmptySeq
  <2> QED BY <2>1 DEF Init, AllEvidence
<1>3. Range(<<>>) = {} /\ DOMAIN <<>> = {} /\ exits = <<>>
  BY DEF Range, Init
<1> QED BY <1>1, <1>2, <1>3, Zenon DEF ExitInv

LEMMA StartExits == TransportInv /\ BufferTypes /\ ExitInv /\ Start => ExitInv'
<1> SUFFICES ASSUME TransportInv, BufferTypes, ExitInv, Start PROVE ExitInv'
  OBVIOUS
<1>1. ExitTypes'
  BY ExitTypesStep DEF ExitInv, Next
<1>2. PICK x \in Seq(Event) : AllEvidence' = AllEvidence \o x /\ \A e \in Range(x) : IsLine(e)
  BY NoReports DEF Elsewhere
<1>3. /\ session \in Nat /\ session' = session + 1 /\ exits' = exits
      /\ exits \in Seq(Exited) /\ Len(exits) = session
  BY TransportFacts DEF Start, ExitInv, ExitTypes
<1>4. \A e : ReportTrueOf(e) => ReportTrueOf(e)'
  <2>1. DOMAIN exits = 1 .. session
    BY <1>3
  <2>2. \A k \in 1 .. session : k \in 1 .. (session + 1)
    BY <1>3
  <2> QED BY <1>3, <2>1, <2>2 DEF ReportTrueOf
<1> QED BY <1>1, <1>2, <1>3, <1>4, ReportsKept

LEMMA StopReturnsExits == TransportInv /\ BufferTypes /\ ExitInv /\ StopReturns => ExitInv'
<1> SUFFICES ASSUME TransportInv, BufferTypes, ExitInv, StopReturns PROVE ExitInv'
  OBVIOUS
<1>1. ExitTypes'
  BY ExitTypesStep DEF ExitInv, Next, Stop
<1>2. StopReports \in Seq(Event) /\ AllEvidence' = AllEvidence \o StopReports
      /\ \A e \in Range(StopReports) : ~IsLine(e)
  <2>1. StopReports \in Seq(ReportEvent)
    BY ReportsAdd
  <2> QED BY <2>1, ReportsAdd, LinesOfReports DEF Adds, Range
<1>3. /\ session \in Nat /\ session' = session /\ exits' = Append(exits, child)
      /\ exits \in Seq(Exited) /\ Len(exits) + 1 = session /\ child \in Exited
      /\ child = "killed" => timedOut = TRUE
  <2>1. state = "Started"
    BY DEF StopReturns, TransportInv, TransportTypes
  <2> QED BY <2>1, TransportFacts DEF StopReturns, ExitInv, ExitTypes
<1>4. /\ DOMAIN exits = 1 .. Len(exits) /\ DOMAIN exits' = 1 .. session
      /\ exits'[session] = child /\ \A k \in DOMAIN exits : exits'[k] = exits[k]
      /\ session \in DOMAIN exits' /\ session \notin DOMAIN exits
      /\ \A k \in DOMAIN exits' : k \in DOMAIN exits \/ k = session
      /\ \A k \in DOMAIN exits : k \in DOMAIN exits'
  BY <1>3
<1>5. ASSUME NEW e \in Range(StopReports) PROVE ReportTrueOf(e)'
  <2>1. e.session = session /\ (e.topic = "failed" => child \in {"failure", "killed"})
    BY <1>5, ReportsTold
  <2> QED BY <1>3, <1>4, <2>1 DEF ReportTrueOf
<1>6. ASSUME NEW e, ReportTrueOf(e) PROVE ReportTrueOf(e)'
  <2>1. /\ e.session \in 1 .. session
        /\ e.topic # "failed" => e.session \in DOMAIN exits
        /\ e.topic = "failed" /\ e.session \in DOMAIN exits => exits[e.session] # "success"
        /\ e.topic = "failed" /\ e.session \notin DOMAIN exits =>
             child \in {"failure", "killed"}
    BY <1>6 DEF ReportTrueOf
  <2>2. /\ e.topic # "failed" => e.session \in DOMAIN exits'
        /\ e.topic = "failed" /\ e.session \in DOMAIN exits' =>
             exits'[e.session] # "success"
        /\ e.session \in DOMAIN exits'
    BY <1>4, <2>1
  <2> QED BY <1>3, <2>1, <2>2 DEF ReportTrueOf
<1>7. ASSUME NEW k \in DOMAIN exits' \ DOMAIN exits
      PROVE  /\ exits'[k] = "failure" => ReportedIn(AllEvidence', k, <<"failed">>)
             /\ exits'[k] = "killed" => ReportedIn(AllEvidence', k, Ends)
  <2> DEFINE failed == <<"failed">>
  <2>1. k = session /\ exits'[k] = child
    BY <1>4, <1>7
  <2>2. /\ child = "failure" => ReportedIn(StopReports, session, failed)
        /\ child = "killed" => ReportedIn(StopReports, session, Ends)
    BY <1>3, ReportsTold
  <2>3. AllEvidence \in Seq(Event)
    BY AllTypes
  <2> HIDE DEF failed
  <2>4. /\ ReportedIn(StopReports, session, failed) => ReportedIn(AllEvidence', session, failed)
        /\ ReportedIn(StopReports, session, Ends) => ReportedIn(AllEvidence', session, Ends)
    BY <1>2, <2>3, ReportedConcat
  <2> QED BY <2>1, <2>2, <2>4 DEF failed
<1> QED BY <1>1, <1>2, <1>4, <1>5, <1>6, <1>7, ReportsKept

LEMMA ExitStep == TransportInv /\ BufferTypes /\ ExitInv /\ [Next]_vars => ExitInv'
<1> SUFFICES ASSUME TransportInv, BufferTypes, ExitInv, [Next]_vars PROVE ExitInv'
  OBVIOUS
<1>1. ExitTypes'
  BY ExitTypesStep DEF ExitInv
<1>2. CASE SendReturns
  <2>1. /\ UNCHANGED <<session, exits, child>> /\ state = "Started"
    BY <1>2 DEF SendReturns, TransportInv, TransportTypes
  <2>2. FailureReport \in Seq(Event) /\ AllEvidence' = AllEvidence \o FailureReport
    BY <1>2, ReportsAdd DEF Adds
  <2>3. ASSUME NEW e \in Range(FailureReport) PROVE ReportTrueOf(e)'
    <3>1. e.topic = "failed" /\ e.session = session /\ child \in {"failure", "killed"}
      BY <2>3, ReportsTold
    <3>2. /\ session \in Nat /\ exits \in Seq(Exited) /\ Len(exits) + 1 = session
      BY <2>1, TransportFacts DEF ExitInv, ExitTypes
    <3>3. session \notin DOMAIN exits /\ session \in 1 .. session
      BY <3>2
    <3> QED BY <2>1, <3>1, <3>3 DEF ReportTrueOf
  <2> QED BY <1>1, <2>1, <2>2, <2>3, QuietExits
<1>3. ASSUME \/ Elsewhere \/ Pump \/ UNCHANGED vars
             \/ DrainCandidatesReturns \/ DrainEvidenceReturns
             \/ \E denied : AdmitCandidates(denied),
             ~Start
      PROVE  ExitInv'
  <2>1. PICK x \in Seq(Event) : AllEvidence' = AllEvidence \o x /\ \A e \in Range(x) : IsLine(e)
    BY <1>3, NoReports
  <2>2. /\ UNCHANGED <<session, exits>>
        /\ child \in {"failure", "killed"} => child' = child
    <3>1. ASSUME Child PROVE /\ UNCHANGED <<session, exits>>
                             /\ child \in {"failure", "killed"} => child' = child
      BY <3>1 DEF Child, ChildReads, ChildWrites, ChildExits, Alive
    <3>2. ASSUME NEW s \in Streams, Reader(s) PROVE UNCHANGED <<session, exits, child>>
      BY <3>2 DEF Reader, ReaderReads, ReaderBreaks, ReaderSends, ReaderEnds
    <3>3. ASSUME Elsewhere PROVE /\ UNCHANGED <<session, exits>>
                                 /\ child \in {"failure", "killed"} => child' = child
      BY <1>3, <3>1, <3>2, <3>3 DEF Elsewhere, SendBegins, SendWrites, SendFails, DrainBegins,
         StopBegins, StopClosesStdin, StopTriesWait, StopChecksDeadline, StopKills,
         StopCannotKill, StopReaps, Tick
    <3> QED BY <1>3, <3>3 DEF Pump, DrainCandidatesReturns, DrainEvidenceReturns,
         AdmitCandidates, vars
  <2> QED BY <1>1, <2>1, <2>2, QuietExits
<1> QED BY <1>2, <1>3, StepKinds, StartExits, StopReturnsExits

-----------------------------------------------------------------------------
(* The order in which lines and reports are heard.                         *)

CandidatePairs == {p \in Line \X Line : Earlier(p[1], p[2])}

\* What holds of a piece of evidence x and a later one, y.
InOrder(x, y) ==
  /\ IsLine(x) /\ IsLine(y) =>
       /\ x.line # y.line
       /\ x.topic = y.topic /\ x.topic # "denied" => Earlier(x.line, y.line)
  /\ x.topic \in {"timeout", "killed"} /\ IsLine(y) /\ y.topic # "denied" =>
       y.line.session > x.session

EvidencePairs == {p \in Event \X Event : InOrder(p[1], p[2])}

\* The stream that the topic of a piece of evidence names.
OfItsStream(e) ==
  /\ e.topic = "stderr" => e.line.stream = "stderr"
  /\ e.topic = "stdout_parse_failed" => e.line.stream = "stdout"

OrderInv ==
  /\ Linked(AllCandidates, CandidatePairs)
  /\ Linked(AllEvidence, EvidencePairs)
  /\ Range(AllCandidates) \cap LinesOf(AllEvidence) = {}
  /\ \A e \in Range(AllEvidence) : OfItsStream(e)

LEMMA OrderTypes ==
  ASSUME BufferTypes
  PROVE  /\ Range(AllCandidates) \subseteq CandidateLines
         /\ Range(AllEvidence) \subseteq Event
         /\ Range(AllCandidates) \subseteq Heard
         /\ \A e \in Range(AllEvidence) : IsLine(e) => e.line \in LinesOf(AllEvidence)
         /\ LinesOf(AllEvidence) \subseteq Heard
<1>1. /\ Range(AllCandidates) \subseteq CandidateLines /\ Range(AllEvidence) \subseteq Event
  BY AllTypes, RangeOfSeq
<1>2. \A e \in Range(AllEvidence) : IsLine(e) => e.line \in LinesOf(AllEvidence)
  BY DEF Range, LinesOf
<1> QED BY <1>1, <1>2, HeardSplit

\* An earlier line is another line, and comes before none that it comes after.
LEMMA EarlierFacts ==
  ASSUME NEW a \in Line, NEW b \in Line, Earlier(a, b)
  PROVE  a # b
BY DEF Earlier, Line

\* The line a pump hears comes after all that was heard of its stream.
LEMMA PumpLater ==
  ASSUME TransportInv, BufferTypes, LineInv, Pump, NEW line, line = Head(channel)
  PROVE  /\ line \in Line /\ line.session = session /\ state = "Started"
         /\ line \notin Heard
         /\ \A l \in Heard : l \in Line /\ (l.stream = line.stream => Earlier(l, line))
<1>1. PICK s : s = line.stream
  OBVIOUS
<1>2. /\ line \in Line /\ s \in Streams /\ line.session = session /\ state = "Started"
      /\ session \in Nat
  BY <1>1, PumpNext, TransportFacts
<1>3. PICK h \in Nat : Way(s, h) /\ line.n = h + 1
  BY <1>1, PumpNext
<1>4. Numbers(Heard, session, s) = 1 .. h
  BY <1>3 DEF Way
<1>5. ASSUME NEW l \in Heard, l.stream = s PROVE Earlier(l, line)
  <2>1. l \in Line /\ l.session \in Nat /\ l.session <= session
    BY DEF LineInv, Line
  <2>2. CASE l.session = session
    <3>1. l.n \in 1 .. h
      <4>1. l.n \in Numbers(Heard, session, s)
        BY <1>5, <2>2 DEF Numbers
      <4> QED BY <1>4, <4>1
    <3>2. l.n < line.n
      BY <1>3, <3>1
    <3> QED BY <1>2, <2>2, <3>2 DEF Earlier
  <2>3. CASE l.session # session
    BY <1>2, <2>1, <2>3 DEF Earlier
  <2> QED BY <2>2, <2>3
<1>6. line \notin Heard
  BY <1>1, <1>2, <1>5, EarlierFacts
<1>7. \A l \in Heard : l \in Line
  BY DEF LineInv
<1> QED BY <1>1, <1>2, <1>5, <1>6, <1>7

LEMMA PumpOrder ==
  ASSUME TransportInv, BufferTypes, LineInv, ExitInv, OrderInv, Pump
  PROVE  OrderInv'
<1>1. PICK line : line = Head(channel)
  OBVIOUS
<1>2. /\ line \in Line /\ line.session = session /\ state = "Started" /\ line \notin Heard
      /\ \A l \in Heard : l \in Line /\ (l.stream = line.stream => Earlier(l, line))
  BY <1>1, PumpLater
<1>3. \/ line \in CandidateLines /\ Adds(<<line>>, <<>>)
      \/ line \in Line \ CandidateLines /\ Adds(<<>>, <<LineEvidence(line)>>)
  BY <1>1, PumpAdds
<1>4. /\ AllCandidates \o <<>> = AllCandidates /\ AllEvidence \o <<>> = AllEvidence
      /\ AllCandidates \in Seq(Line) /\ AllEvidence \in Seq(Event)
  BY AllTypes, ConcatEmptySeq
<1>5. CASE line \in CandidateLines /\ Adds(<<line>>, <<>>)
  <2> DEFINE m == <<line>>
  <2>1. m \in Seq(Line) /\ Range(m) = {line} /\ Linked(m, CandidatePairs)
    <3>1. Linked(m, CandidatePairs)
      BY LinkedFew
    <3> QED BY <1>2, <3>1 DEF Range
  <2>2. AllCandidates' = AllCandidates \o m /\ AllEvidence' = AllEvidence
    BY <1>4, <1>5, Zenon DEF Adds
  <2> HIDE DEF m
  <2>3. ASSUME NEW c \in Range(AllCandidates) PROVE <<c, line>> \in CandidatePairs
    <3>1. c \in Heard /\ c \in Line /\ c.stream = line.stream
      BY <1>5, OrderTypes DEF CandidateLines, IsCandidate
    <3> QED BY <1>2, <3>1 DEF CandidatePairs
  <2>4. Linked(AllCandidates', CandidatePairs)
    <3>1. \A x \in Range(AllCandidates), y \in Range(m) : <<x, y>> \in CandidatePairs
      BY <2>1, <2>3
    <3>2. Linked(AllCandidates, CandidatePairs)
      BY DEF OrderInv
    <3> QED BY <1>4, <2>1, <2>2, <3>1, <3>2, LinkedConcat
  <2>5. Range(AllCandidates') = Range(AllCandidates) \cup {line}
    BY <1>4, <2>1, <2>2, RangeConcat
  <2>6. line \notin LinesOf(AllEvidence)
    BY <1>2, OrderTypes
  <2> QED BY <2>2, <2>4, <2>5, <2>6 DEF OrderInv
<1>6. CASE line \in Line \ CandidateLines /\ Adds(<<>>, <<LineEvidence(line)>>)
  <2> DEFINE e == LineEvidence(line)  m == <<e>>
  <2>1. /\ e \in Event /\ e.line = line /\ IsLine(e) /\ e.topic # "denied" /\ OfItsStream(e)
        /\ e.topic = IF line.stream = "stderr" THEN "stderr" ELSE "stdout_parse_failed"
    BY <1>2, LineEvents DEF LineEvidence, LineEvent, IsLine, OfItsStream, Line, Streams
  <2>2. LinesOf(m) = {line} /\ m \in Seq(Event)
    BY <1>2, LinesOfLine
  <2> HIDE DEF e
  <2>3. Range(m) = {e} /\ Linked(m, EvidencePairs)
    <3>1. Linked(m, EvidencePairs)
      BY LinkedFew
    <3> QED BY <3>1 DEF Range
  <2>4. AllCandidates' = AllCandidates /\ AllEvidence' = AllEvidence \o m
    BY <1>4, <1>6, Zenon DEF Adds, e
  <2> HIDE DEF m
  <2>5. ASSUME NEW x \in Range(AllEvidence) PROVE <<x, e>> \in EvidencePairs
    <3>1. x \in Event /\ OfItsStream(x)
      BY OrderTypes DEF OrderInv
    <3>2. ASSUME IsLine(x)
          PROVE  /\ x.line # line
                 /\ x.topic = e.topic => Earlier(x.line, line)
      <4>1. x.line \in Heard
        BY <3>2, OrderTypes
      <4>2. x.topic = e.topic => x.line.stream = line.stream
        BY <1>2, <2>1, <3>1 DEF OfItsStream, Line, Streams
      <4> QED BY <1>2, <4>1, <4>2
    <3>3. ASSUME x.topic \in {"timeout", "killed"} PROVE line.session > x.session
      <4>1. ~IsLine(x) /\ x.topic # "failed"
        BY <3>3 DEF IsLine, LineTopics
      <4>2. x.session \in DOMAIN exits
        BY <4>1 DEF ExitInv, ReportTrueOf
      <4>3. exits \in Seq(Exited) /\ Len(exits) + 1 = session /\ session \in Nat
        BY <1>2, TransportFacts DEF ExitInv, ExitTypes
      <4>4. x.session \in 1 .. Len(exits) /\ Len(exits) \in Nat
        BY <4>2, <4>3
      <4> QED BY <1>2, <4>3, <4>4
    <3>4. InOrder(x, e)
      BY <2>1, <3>2, <3>3 DEF InOrder
    <3> QED BY <2>1, <3>1, <3>4 DEF EvidencePairs
  <2>6. Linked(AllEvidence', EvidencePairs)
    <3>1. \A x \in Range(AllEvidence), y \in Range(m) : <<x, y>> \in EvidencePairs
      BY <2>3, <2>5
    <3>2. Linked(AllEvidence, EvidencePairs)
      BY DEF OrderInv
    <3> QED BY <1>4, <2>2, <2>3, <2>4, <3>1, <3>2, LinkedConcat
  <2>7. /\ LinesOf(AllEvidence') = LinesOf(AllEvidence) \cup {line}
        /\ Range(AllEvidence') = Range(AllEvidence) \cup {e}
    BY <1>4, <2>2, <2>3, <2>4, LinesOfConcat, RangeConcat
  <2>8. line \notin Range(AllCandidates)
    BY <1>2, OrderTypes
  <2> QED BY <2>1, <2>4, <2>6, <2>7, <2>8 DEF OrderInv
<1> QED BY <1>3, <1>5, <1>6

LEMMA ReportsInOrder ==
  ASSUME BufferTypes, OrderInv, NEW r \in Seq(ReportEvent), Adds(<<>>, r)
  PROVE  OrderInv'
<1>1. /\ AllCandidates \o <<>> = AllCandidates /\ AllEvidence \in Seq(Event)
  BY AllTypes, ConcatEmptySeq
<1>2. AllCandidates' = AllCandidates /\ AllEvidence' = AllEvidence \o r
  BY <1>1, Zenon DEF Adds
<1>3. r \in Seq(Event) /\ LinesOf(r) = {} /\ \A e \in Range(r) : e \in Event /\ ~IsLine(e)
  BY LinesOfReports, RangeOfSeq DEF Range
<1>4. ASSUME NEW x \in Event, NEW y \in Range(r) PROVE <<x, y>> \in EvidencePairs
  BY <1>3 DEF EvidencePairs, InOrder
<1>5. Linked(AllEvidence', EvidencePairs)
  <2>1. Linked(r, EvidencePairs)
    <3>1. \A i \in DOMAIN r : r[i] \in Range(r) /\ r[i] \in Event
      BY <1>3 DEF Range
    <3> QED BY <1>4, <3>1 DEF Linked
  <2>2. \A x \in Range(AllEvidence), y \in Range(r) : <<x, y>> \in EvidencePairs
    BY <1>4, OrderTypes
  <2>3. Linked(AllEvidence, EvidencePairs)
    BY DEF OrderInv
  <2> QED BY <1>1, <1>2, <1>3, <2>1, <2>2, <2>3, LinkedConcat
<1>6. /\ LinesOf(AllEvidence') = LinesOf(AllEvidence)
      /\ Range(AllEvidence') = Range(AllEvidence) \cup Range(r)
  <2>1. LinesOf(AllEvidence \o r) = LinesOf(AllEvidence) \cup LinesOf(r)
    BY <1>1, <1>3, LinesOfConcat
  <2>2. Range(AllEvidence \o r) = Range(AllEvidence) \cup Range(r)
    BY <1>1, <1>3, RangeConcat
  <2> QED BY <1>2, <1>3, <2>1, <2>2
<1>7. \A e \in Range(r) : OfItsStream(e)
  BY <1>3 DEF OfItsStream, IsLine, LineTopics
<1> QED BY <1>2, <1>5, <1>6, <1>7 DEF OrderInv

LEMMA AdmitOrder ==
  ASSUME TransportInv, BufferTypes, OrderInv, NEW denied, AdmitCandidates(denied)
  PROVE  OrderInv'
<1> DEFINE kept == Only(candidates, Line \ denied)  gone == Only(candidates, denied)
           first == taken.candidates  d == Denials(gone)
<1>1. /\ AllCandidates' = first \o kept
      /\ gone \in Seq(Line) /\ d \in Seq(Event) /\ AllEvidence' = AllEvidence \o d
  BY AdmitAdds
<1>2. /\ Range(kept) = Range(candidates) \cap (Line \ denied)
      /\ Range(gone) = Range(candidates) \cap denied
      /\ Range(candidates) \subseteq Line
  BY AllTypes, OnlyRange, RangeOfSeq
<1>3. /\ kept \in Seq(Line) /\ first \in Seq(Line) /\ candidates \in Seq(Line)
      /\ AllEvidence \in Seq(Event) /\ Range(first) \subseteq Line
      /\ AllCandidates = first \o candidates
  <2>1. kept \in Seq(CandidateLines)
    BY AdmitBuffers
  <2>2. CandidateLines \subseteq Line
    BY DEF CandidateLines
  <2> QED BY <2>1, <2>2, AllTypes, SeqMonotonic, RangeOfSeq DEF AllCandidates
<1>4. /\ Linked(candidates, CandidatePairs) => /\ Linked(kept, CandidatePairs)
                                              /\ Linked(gone, CandidatePairs)
  BY <1>3, LinkedOnly
<1> HIDE DEF kept, gone, first
<1>5. /\ Linked(first, CandidatePairs) /\ Linked(candidates, CandidatePairs)
      /\ \A x \in Range(first), y \in Range(candidates) : <<x, y>> \in CandidatePairs
  <2>1. Linked(first \o candidates, CandidatePairs)
    BY <1>3 DEF OrderInv
  <2> QED BY <1>3, <2>1, LinkedConcat
<1>6. Linked(AllCandidates', CandidatePairs)
  <2>1. \A x \in Range(first), y \in Range(kept) : <<x, y>> \in CandidatePairs
    BY <1>2, <1>5
  <2> QED BY <1>1, <1>3, <1>4, <1>5, <2>1, LinkedConcat
<1>7. Linked(d, EvidencePairs) /\ LinesOf(d) = Range(gone)
      /\ \A e \in Range(d) : e \in Event /\ e.topic = "denied" /\ e.line \in Range(gone)
  <2>1. /\ DOMAIN d = 1 .. Len(gone) /\ DOMAIN gone = 1 .. Len(gone)
        /\ \A i \in 1 .. Len(gone) : /\ d[i] = [topic |-> "denied", line |-> gone[i]]
                                     /\ d[i] \in Event /\ gone[i] \in Line
    <3>1. DOMAIN gone = 1 .. Len(gone)
      BY <1>1, LenProperties
    <3> QED BY <1>1, <3>1 DEF Denials
  <2>2. \A i \in 1 .. Len(gone) : d[i].topic = "denied" /\ d[i].line = gone[i] /\ d[i] \in Event
    BY <2>1
  <2>3. LinesOf(d) = Range(gone)
    BY <1>1, LinesOfDenials
  <2> HIDE DEF d
  <2>4. ASSUME NEW i \in 1 .. Len(gone), NEW j \in 1 .. Len(gone), i < j
        PROVE  <<d[i], d[j]>> \in EvidencePairs
    <3>1. <<gone[i], gone[j]>> \in CandidatePairs
      BY <1>4, <1>5, <2>1, <2>4 DEF Linked
    <3>2. gone[i] # gone[j]
      BY <2>1, <3>1, EarlierFacts DEF CandidatePairs
    <3>3. InOrder(d[i], d[j])
      BY <2>2, <3>2 DEF InOrder
    <3> QED BY <2>2, <3>3 DEF EvidencePairs
  <2>5. Linked(d, EvidencePairs)
    BY <2>1, <2>4 DEF Linked
  <2>6. \A e \in Range(d) : e \in Event /\ e.topic = "denied" /\ e.line \in Range(gone)
    BY <2>1, <2>2 DEF Range
  <2> QED BY <2>3, <2>5, <2>6
<1> HIDE DEF d
<1>8. Linked(AllEvidence', EvidencePairs)
  <2>1. ASSUME NEW x \in Range(AllEvidence), NEW y \in Range(d)
        PROVE  <<x, y>> \in EvidencePairs
    <3>1. x \in Event /\ y \in Event /\ y.topic = "denied" /\ y.line \in Range(gone)
      BY <1>7, OrderTypes
    <3>2. ASSUME IsLine(x) PROVE x.line # y.line
      <4>1. x.line \in LinesOf(AllEvidence)
        BY <3>2, OrderTypes
      <4>2. Range(gone) \subseteq Range(AllCandidates)
        <5>1. Range(first \o candidates) = Range(first) \cup Range(candidates)
          BY <1>3, RangeConcat
        <5> QED BY <1>2, <1>3, <5>1
      <4>3. Range(AllCandidates) \cap LinesOf(AllEvidence) = {}
        BY DEF OrderInv
      <4> QED BY <3>1, <4>1, <4>2, <4>3
    <3>3. InOrder(x, y)
      BY <3>1, <3>2 DEF InOrder
    <3> QED BY <3>1, <3>3 DEF EvidencePairs
  <2>2. Linked(AllEvidence, EvidencePairs)
    BY DEF OrderInv
  <2> QED BY <1>1, <1>3, <1>7, <2>1, <2>2, LinkedConcat
<1>9. Range(AllCandidates') \cap LinesOf(AllEvidence') = {}
  <2>1. LinesOf(AllEvidence') = LinesOf(AllEvidence) \cup Range(gone)
    BY <1>1, <1>3, <1>7, LinesOfConcat
  <2>2. /\ Range(AllCandidates') = Range(first) \cup Range(kept)
        /\ Range(AllCandidates) = Range(first) \cup Range(candidates)
    BY <1>1, <1>3, RangeConcat
  <2>3. Range(first) \cap Range(candidates) = {}
    <3> SUFFICES ASSUME NEW x \in Range(first), x \in Range(candidates) PROVE FALSE
      OBVIOUS
    <3>1. <<x, x>> \in CandidatePairs
      BY <1>5
    <3> QED BY <3>1, EarlierFacts DEF CandidatePairs
  <2>4. Range(AllCandidates) \cap LinesOf(AllEvidence) = {}
    BY DEF OrderInv
  <2> QED BY <1>2, <2>1, <2>2, <2>3, <2>4
<1>10. \A e \in Range(AllEvidence') : OfItsStream(e)
  <2>1. Range(AllEvidence') = Range(AllEvidence) \cup Range(d)
    BY <1>1, <1>3, RangeConcat
  <2>2. \A e \in Range(d) : OfItsStream(e)
    BY <1>7 DEF OfItsStream
  <2> QED BY <2>1, <2>2 DEF OrderInv
<1> QED BY <1>6, <1>8, <1>9, <1>10 DEF OrderInv

LEMMA OrderStep ==
  TransportInv /\ BufferTypes /\ LineInv /\ ExitInv /\ OrderInv /\ [Next]_vars => OrderInv'
<1> SUFFICES ASSUME TransportInv, BufferTypes, LineInv, ExitInv, OrderInv, [Next]_vars
             PROVE  OrderInv'
  OBVIOUS
<1>1. ASSUME AllCandidates' = AllCandidates, AllEvidence' = AllEvidence PROVE OrderInv'
  BY <1>1 DEF OrderInv
<1>2. CASE Elsewhere \/ UNCHANGED vars
  <2>1. UNCHANGED <<candidates, evidence, taken>>
    BY <1>2, ElsewhereBuffers DEF vars, bufferVars
  <2> QED BY <1>1, <2>1 DEF AllCandidates, AllEvidence
<1>3. CASE DrainCandidatesReturns \/ DrainEvidenceReturns
  BY <1>1, <1>3, DrainsAdd
<1>4. CASE SendReturns \/ StopReturns
  BY <1>4, ReportsAdd, ReportsInOrder
<1>5. CASE Pump
  BY <1>5, PumpOrder
<1>6. ASSUME NEW denied, AdmitCandidates(denied) PROVE OrderInv'
  BY <1>6, AdmitOrder
<1> QED BY <1>2, <1>3, <1>4, <1>5, <1>6, StepKinds

LEMMA InitOrder == Init => OrderInv
<1> SUFFICES ASSUME Init PROVE OrderInv
  OBVIOUS
<1>1. AllEvidence = <<>> /\ AllCandidates = <<>>
  <2>1. <<>> \o <<>> = <<>>
    BY ConcatEmptySeq
  <2> QED BY <2>1 DEF Init, AllEvidence, AllCandidates
<1>2. Range(<<>>) = {}
  BY DEF Range
<1>3. Linked(<<>>, CandidatePairs) /\ Linked(<<>>, EvidencePairs)
  BY LinkedFew
<1> QED BY <1>1, <1>2, <1>3, Zenon DEF OrderInv

LEMMA OrderHolds == Spec => [](BufferTypes /\ ExitInv /\ OrderInv)
<1> DEFINE Inv == TransportInv /\ BufferTypes /\ LineInv /\ ExitInv /\ OrderInv
<1>1. Init => Inv
  BY InitTransport, InitBuffers, InitLines, InitExits, InitOrder
<1>2. Inv /\ [Next]_vars => Inv'
  BY StepInvariant, BufferStep, LinesStep, ExitStep, OrderStep
<1> QED BY <1>1, <1>2, PTL DEF Spec

\* Callers get candidates and evidence in the order written, each line once.
THEOREM HeardInOrderHolds == Spec => []HeardInOrder
<1>1. BufferTypes /\ OrderInv => HeardInOrder
  <2> SUFFICES ASSUME BufferTypes, OrderInv PROVE HeardInOrder
    OBVIOUS
  <2>1. ASSUME NEW i \in DOMAIN AllCandidates, NEW j \in DOMAIN AllCandidates, i < j
        PROVE  Earlier(AllCandidates[i], AllCandidates[j])
    <3>1. <<AllCandidates[i], AllCandidates[j]>> \in CandidatePairs
      BY <2>1 DEF OrderInv, Linked
    <3> QED BY <3>1 DEF CandidatePairs
  <2>2. ASSUME NEW i \in DOMAIN AllEvidence, NEW j \in DOMAIN AllEvidence, i < j,
               IsLine(AllEvidence[i]), IsLine(AllEvidence[j])
        PROVE  /\ AllEvidence[i].line # AllEvidence[j].line
               /\ AllEvidence[i].topic = AllEvidence[j].topic
                  /\ AllEvidence[i].topic # "denied"
                  => Earlier(AllEvidence[i].line, AllEvidence[j].line)
    <3>1. <<AllEvidence[i], AllEvidence[j]>> \in EvidencePairs
      BY <2>2 DEF OrderInv, Linked
    <3> QED BY <2>2, <3>1 DEF EvidencePairs, InOrder
  <2>3. ASSUME NEW i \in DOMAIN AllCandidates, NEW j \in DOMAIN AllEvidence,
               IsLine(AllEvidence[j])
        PROVE  AllEvidence[j].line # AllCandidates[i]
    BY <2>3 DEF OrderInv, LinesOf, Range
  <2> QED BY <2>1, <2>2, <2>3 DEF HeardInOrder
<1> QED BY <1>1, OrderHolds, PTL

\* How every session ended can be read from its evidence.
THEOREM ExitsReportedHolds == Spec => []ExitsReported
<1>1. BufferTypes /\ ExitInv /\ OrderInv => ExitsReported
  <2> SUFFICES ASSUME BufferTypes, ExitInv, OrderInv PROVE ExitsReported
    OBVIOUS
  <2>1. \A k, topics : Reported(k, topics) <=> ReportedIn(AllEvidence, k, topics)
    BY DEF Reported, ReportedIn
  <2>2. ASSUME NEW k \in DOMAIN exits, exits[k] = "success",
               ReportedIn(AllEvidence, k, <<"failed">>)
        PROVE  FALSE
    <3> DEFINE topics == <<"failed">>
    <3>1. DOMAIN topics = {1} /\ topics[1] = "failed"
      OBVIOUS
    <3> HIDE DEF topics
    <3>2. PICK f \in [DOMAIN topics -> DOMAIN AllEvidence] :
            \A i \in DOMAIN topics : AllEvidence[f[i]] = [topic |-> topics[i], session |-> k]
      BY <2>2, Zenon DEF ReportedIn, topics
    <3> DEFINE e == AllEvidence[f[1]]
    <3>3. e \in Range(AllEvidence) /\ e = [topic |-> "failed", session |-> k]
      BY <3>1, <3>2 DEF Range
    <3>4. e.topic = "failed" /\ e.session = k /\ ~IsLine(e)
      BY <3>3 DEF IsLine, LineTopics
    <3>5. ReportTrueOf(e)
      BY <3>3, <3>4 DEF ExitInv
    <3> QED BY <2>2, <3>4, <3>5 DEF ReportTrueOf
  <2>3. ASSUME NEW i \in DOMAIN AllEvidence, NEW j \in DOMAIN AllEvidence,
               AllEvidence[i].topic \in {"timeout", "killed"}, i < j,
               IsLine(AllEvidence[j]), AllEvidence[j].topic # "denied"
        PROVE  AllEvidence[j].line.session > AllEvidence[i].session
    <3>1. <<AllEvidence[i], AllEvidence[j]>> \in EvidencePairs
      BY <2>3 DEF OrderInv, Linked
    <3>2. InOrder(AllEvidence[i], AllEvidence[j])
      BY <3>1 DEF EvidencePairs
    <3> QED BY <2>3, <3>2 DEF InOrder
  <2>4. \A k \in DOMAIN exits :
          /\ exits[k] = "failure" => Reported(k, <<"failed">>)
          /\ exits[k] = "killed" => Reported(k, <<"failed", "timeout", "killed">>)
          /\ exits[k] = "success" => ~Reported(k, <<"failed">>)
    BY <2>1, <2>2, Zenon DEF ExitInv, Ends
  <2> QED BY <2>3, <2>4 DEF ExitsReported
<1> QED BY <1>1, OrderHolds, PTL
=============================================================================
