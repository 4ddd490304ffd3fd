---------------------------- MODULE EventBusProofs ----------------------------
(***************************************************************************)
(* The bus, for any number of subscriptions and publications: types; a      *)
(* subscriber that went away is found out once; one that is listed was sent *)
(* every event it matches, once and in order; and the report counts that.   *)
(***************************************************************************)
EXTENDS EventBus, SequenceLemmas

Failure == [id : SubIds, filter : Filter, event : 1 .. MaxEvents]

\* Which subscriptions there can be: none is listed twice, none that failed is
\* listed, and each was made before the publication that walks over it.
BusInv ==
  /\ TypeOK
  /\ receivers \subseteq 1 .. Len(since)
  /\ \A i \in 1 .. Len(subscriptions) : subscriptions[i].id \in 1 .. Len(since)
  /\ \A i, j \in 1 .. Len(subscriptions) :
       i # j => subscriptions[i].id # subscriptions[j].id
  /\ \A f \in 1 .. Len(failures) :
       /\ failures[f].id \in 1 .. Len(since)
       /\ failures[f].id \notin receivers
       /\ since[failures[f].id] < failures[f].event
       /\ \A i \in 1 .. Len(subscriptions) : subscriptions[i].id # failures[f].id
  /\ \A f, g \in 1 .. Len(failures) : f # g => failures[f].id # failures[g].id
  /\ \A id \in 1 .. Len(since) : since[id] <= Len(published)
  /\ walk # 0 => /\ Len(published) > 0
                 /\ \A id \in 1 .. Len(since) : since[id] < Len(published)

-----------------------------------------------------------------------------
(* Sequences.                                                              *)

LEMMA RemoveAtFacts ==
  ASSUME NEW S, NEW q \in Seq(S), NEW n \in 1 .. Len(q)
  PROVE  /\ RemoveAt(q, n) \in Seq(S)
         /\ Len(RemoveAt(q, n)) = Len(q) - 1
         /\ \A i \in 1 .. (Len(q) - 1) :
              RemoveAt(q, n)[i] = IF i < n THEN q[i] ELSE q[i + 1]
<1>1. /\ SubSeq(q, 1, n - 1) \in Seq(S) /\ Len(SubSeq(q, 1, n - 1)) = n - 1
      /\ \A i \in 1 .. (n - 1) : SubSeq(q, 1, n - 1)[i] = q[i]
  OBVIOUS
<1>2. /\ SubSeq(q, n + 1, Len(q)) \in Seq(S)
      /\ Len(SubSeq(q, n + 1, Len(q))) = Len(q) - n
      /\ \A i \in 1 .. (Len(q) - n) : SubSeq(q, n + 1, Len(q))[i] = q[i + n]
  OBVIOUS
<1> DEFINE p == SubSeq(q, 1, n - 1)
           r == SubSeq(q, n + 1, Len(q))
<1>3. /\ p \in Seq(S) /\ Len(p) = n - 1 /\ r \in Seq(S) /\ Len(r) = Len(q) - n
      /\ \A i \in 1 .. (n - 1) : p[i] = q[i]
      /\ \A i \in 1 .. (Len(q) - n) : r[i] = q[i + n]
      /\ RemoveAt(q, n) = p \o r
  BY <1>1, <1>2 DEF RemoveAt
<1> HIDE DEF p, r
<1>4. Len(q) \in Nat /\ Len(p) + Len(r) = Len(q) - 1
  BY <1>3
<1>5. /\ p \o r \in Seq(S) /\ Len(p \o r) = Len(q) - 1
      /\ \A i \in 1 .. (Len(q) - 1) :
           (p \o r)[i] = IF i <= Len(p) THEN p[i] ELSE r[i - Len(p)]
  <2>1. p \in Seq(S) /\ r \in Seq(S)
    BY <1>3
  <2>2. /\ p \o r \in Seq(S) /\ Len(p \o r) = Len(p) + Len(r)
        /\ \A i \in 1 .. (Len(p) + Len(r)) :
             (p \o r)[i] = IF i <= Len(p) THEN p[i] ELSE r[i - Len(p)]
    BY <2>1, ConcatProperties
  <2> QED
    BY <1>4, <2>2, Zenon
<1>6. ASSUME NEW i \in 1 .. (Len(q) - 1)
      PROVE  (p \o r)[i] = IF i < n THEN q[i] ELSE q[i + 1]
  <2>1. CASE i < n
    <3>1. i \in 1 .. (n - 1) /\ i <= Len(p)
      BY <1>3, <1>4, <2>1
    <3> QED
      BY <1>3, <1>5, <2>1, <3>1
  <2>2. CASE ~(i < n)
    <3>1. /\ i - Len(p) \in 1 .. (Len(q) - n) /\ ~(i <= Len(p))
          /\ (i - Len(p)) + n = i + 1
      BY <1>3, <1>4, <2>2
    <3>2. (p \o r)[i] = r[i - Len(p)]
      BY <1>5, <3>1
    <3>3. r[i - Len(p)] = q[i + 1]
      BY <1>3, <3>1
    <3> QED
      BY <2>2, <3>2, <3>3
  <2> QED
    BY <2>1, <2>2
<1> QED
  BY <1>3, <1>5, <1>6

-----------------------------------------------------------------------------
LEMMA InitBus == Init => BusInv
<1> SUFFICES ASSUME Init PROVE BusInv
  OBVIOUS
<1>1. TypeOK
  <2>1. /\ subscriptions \in Seq(Subscription) /\ since \in Seq(Nat)
        /\ channel \in [SubIds -> Seq(1 .. MaxEvents)]
        /\ published \in Seq(Topics) /\ failures \in Seq(Failure)
    BY DEF Init
  <2>2. report \in [DOMAIN NoReport -> Nat]
    BY DEF Init, NoReport
  <2> QED
    BY <2>1, <2>2, BusAssumption DEF Init, TypeOK, BusAssumption, Failure
<1> QED
  BY <1>1 DEF Init, BusInv

LEMMA SubscribeInvariant ==
  ASSUME BusInv, NEW filter \in Filter, Subscribe(filter)
  PROVE  BusInv'
<1> DEFINE id == Len(since) + 1
           new == [id |-> id, filter |-> filter]
<1>1. /\ walk = 0 /\ Len(since) < MaxSubs
      /\ subscriptions' = Append(subscriptions, new)
      /\ receivers' = receivers \cup {id}
      /\ since' = Append(since, Len(published))
      /\ UNCHANGED <<channel, published, walk, report, failures>>
  BY DEF Subscribe
<1>2. /\ subscriptions \in Seq(Subscription) /\ since \in Seq(Nat)
      /\ published \in Seq(Topics) /\ failures \in Seq(Failure)
  BY DEF BusInv, TypeOK, Failure
<1>3. id \in SubIds /\ id \in Nat /\ Len(published) \in Nat
  BY <1>1, <1>2, BusAssumption DEF BusAssumption, SubIds
<1>4. new \in Subscription /\ new.id = id
  BY <1>3 DEF Subscription
<1> HIDE DEF new
<1>5. /\ since' \in Seq(Nat) /\ Len(since') = id /\ since'[id] = Len(published)
      /\ \A k \in 1 .. Len(since) : since'[k] = since[k]
  BY <1>1, <1>2, <1>3, AppendProperties
<1>6. /\ subscriptions' \in Seq(Subscription)
      /\ Len(subscriptions') = Len(subscriptions) + 1
      /\ subscriptions'[Len(subscriptions) + 1] = new
      /\ \A i \in 1 .. Len(subscriptions) : subscriptions'[i] = subscriptions[i]
  BY <1>1, <1>2, <1>4, AppendProperties
<1>7. TypeOK'
  <2>1. walk' \in 0 .. (Len(subscriptions') + 1)
    BY <1>1, <1>2, <1>6
  <2>2. Len(since') <= MaxSubs
    BY <1>1, <1>2, <1>5, BusAssumption DEF BusAssumption
  <2> QED
    BY <1>1, <1>3, <1>5, <1>6, <2>1, <2>2 DEF BusInv, TypeOK
<1>8. \A i \in 1 .. Len(subscriptions') :
        \/ i \in 1 .. Len(subscriptions) /\ subscriptions'[i].id = subscriptions[i].id
           /\ subscriptions[i].id \in 1 .. Len(since)
        \/ i = Len(subscriptions) + 1 /\ subscriptions'[i].id = id
  BY <1>2, <1>4, <1>6 DEF BusInv
<1>9. \A k \in 1 .. Len(since) : k # id /\ k \in 1 .. Len(since')
  BY <1>2, <1>5
<1>10. id \in 1 .. Len(since')
  BY <1>2, <1>5
<1>11. receivers' \subseteq 1 .. Len(since')
  BY <1>1, <1>9, <1>10 DEF BusInv
<1>12. \A i \in 1 .. Len(subscriptions') : subscriptions'[i].id \in 1 .. Len(since')
  BY <1>8, <1>9, <1>10
<1>13. \A i, j \in 1 .. Len(subscriptions') :
         i # j => subscriptions'[i].id # subscriptions'[j].id
  BY <1>8, <1>9 DEF BusInv
<1>14. \A f \in 1 .. Len(failures') :
         /\ failures'[f].id \in 1 .. Len(since')
         /\ failures'[f].id \notin receivers'
         /\ since'[failures'[f].id] < failures'[f].event
         /\ \A i \in 1 .. Len(subscriptions') : subscriptions'[i].id # failures'[f].id
  BY <1>1, <1>5, <1>8, <1>9 DEF BusInv
<1>15. \A k \in 1 .. Len(since') : since'[k] <= Len(published')
  <2>1. \A k \in 1 .. Len(since') : k \in 1 .. Len(since) \/ k = id
    BY <1>2, <1>5
  <2> QED
    BY <1>1, <1>3, <1>5, <2>1 DEF BusInv
<1>16. /\ walk' = 0
       /\ \A f, g \in 1 .. Len(failures') : f # g => failures'[f].id # failures'[g].id
  BY <1>1 DEF BusInv
<1> QED
  BY <1>7, <1>11, <1>12, <1>13, <1>14, <1>15, <1>16 DEF BusInv

LEMMA DropInvariant ==
  ASSUME BusInv, NEW id \in SubIds, DropReceiver(id)
  PROVE  BusInv'
BY DEF BusInv, TypeOK, DropReceiver

LEMMA BeginInvariant ==
  ASSUME BusInv, NEW topic \in Topics, PublishBegins(topic)
  PROVE  BusInv'
<1>1. /\ Len(published) < MaxEvents /\ published' = Append(published, topic)
      /\ walk' = 1 /\ report' = NoReport
      /\ UNCHANGED <<subscriptions, since, receivers, channel, failures>>
  BY DEF PublishBegins
<1>2. /\ published \in Seq(Topics) /\ since \in Seq(Nat)
      /\ subscriptions \in Seq(Subscription)
  BY DEF BusInv, TypeOK
<1>3. published' \in Seq(Topics) /\ Len(published') = Len(published) + 1
  BY <1>1, <1>2, AppendProperties
<1>4. \A id \in 1 .. Len(since) : since[id] \in Nat
  BY <1>2
<1>5. TypeOK'
  <2>1. walk' \in 0 .. (Len(subscriptions') + 1)
    BY <1>1, <1>2
  <2>2. report' \in [DOMAIN NoReport -> Nat]
    BY <1>1 DEF NoReport
  <2>3. Len(published') <= MaxEvents
    BY <1>1, <1>2, <1>3, BusAssumption DEF BusAssumption
  <2> QED
    BY <1>1, <1>3, <2>1, <2>2, <2>3 DEF BusInv, TypeOK
<1>6. /\ Len(published') > 0
      /\ \A id \in 1 .. Len(since) : since[id] < Len(published')
                                     /\ since[id] <= Len(published')
  <2>1. \A id \in 1 .. Len(since) : since[id] <= Len(published)
    BY DEF BusInv
  <2>2. Len(published) \in Nat
    BY <1>2
  <2> QED
    BY <1>3, <1>4, <2>1, <2>2
<1> QED
  BY <1>1, <1>5, <1>6 DEF BusInv

\* Where publish is, when it has a subscription before it.
LEMMA HereTyped ==
  ASSUME BusInv, Walking
  PROVE  /\ walk \in 1 .. Len(subscriptions) /\ walk # 0
         /\ Here \in Subscription /\ Here.id \in SubIds /\ Here.id \in 1 .. Len(since)
         /\ Len(published) \in 1 .. MaxEvents
<1>1. subscriptions \in Seq(Subscription) /\ published \in Seq(Topics)
  BY DEF BusInv, TypeOK
<1>2. walk \in 1 .. Len(subscriptions) /\ walk # 0
  BY <1>1 DEF Walking
<1>3. Here \in Subscription /\ Here.id \in 1 .. Len(since)
  BY <1>1, <1>2 DEF Here, BusInv
<1>4. Here.id \in SubIds
  BY <1>3 DEF Subscription
<1>5. Len(published) \in 1 .. MaxEvents
  BY <1>1, <1>2, BusAssumption DEF BusInv, TypeOK, BusAssumption
<1> QED
  BY <1>2, <1>3, <1>4, <1>5

LEMMA ReportTyped ==
  ASSUME BusInv
  PROVE  /\ [report EXCEPT !.attempted = @ + 1, !.delivered = @ + 1]
              \in [DOMAIN NoReport -> Nat]
         /\ [report EXCEPT !.attempted = @ + 1, !.failed = @ + 1]
              \in [DOMAIN NoReport -> Nat]
         /\ [report EXCEPT !.skipped = @ + 1] \in [DOMAIN NoReport -> Nat]
<1>1. /\ report \in [DOMAIN NoReport -> Nat]
      /\ DOMAIN NoReport = {"attempted", "delivered", "failed", "skipped"}
  BY DEF BusInv, TypeOK, NoReport
<1>2. /\ report \in [{"attempted", "delivered", "failed", "skipped"} -> Nat]
      /\ report.attempted + 1 \in Nat /\ report.delivered + 1 \in Nat
      /\ report.failed + 1 \in Nat /\ report.skipped + 1 \in Nat
  BY <1>1
<1> QED
  BY <1>1, <1>2

LEMMA DeliverInvariant ==
  ASSUME BusInv, Deliver
  PROVE  BusInv'
<1>1. /\ Walking /\ walk' = walk + 1
      /\ channel' = [channel EXCEPT ![Here.id] = Append(@, Len(published))]
      /\ report' = [report EXCEPT !.attempted = @ + 1, !.delivered = @ + 1]
      /\ UNCHANGED <<subscriptions, since, receivers, published, failures>>
  BY DEF Deliver
<1>2. walk \in 1 .. Len(subscriptions) /\ Here.id \in SubIds
      /\ Len(published) \in 1 .. MaxEvents /\ walk # 0
  BY <1>1, HereTyped
<1>3. channel' \in [SubIds -> Seq(1 .. MaxEvents)]
  <2>1. channel[Here.id] \in Seq(1 .. MaxEvents)
    BY <1>2 DEF BusInv, TypeOK
  <2>2. Append(channel[Here.id], Len(published)) \in Seq(1 .. MaxEvents)
    BY <1>2, <2>1, AppendProperties
  <2> QED
    BY <1>1, <1>2, <2>2 DEF BusInv, TypeOK
<1>4. walk' \in 0 .. (Len(subscriptions') + 1)
  <2>1. Len(subscriptions) \in Nat
    BY DEF BusInv, TypeOK
  <2> QED
    BY <1>1, <1>2, <2>1
<1>5. TypeOK'
  BY <1>1, <1>3, <1>4, ReportTyped DEF BusInv, TypeOK
<1> QED
  BY <1>1, <1>2, <1>5 DEF BusInv

LEMMA SkipInvariant ==
  ASSUME BusInv, Skip
  PROVE  BusInv'
<1>1. /\ Walking /\ walk' = walk + 1
      /\ report' = [report EXCEPT !.skipped = @ + 1]
      /\ UNCHANGED <<subscriptions, since, receivers, channel, published, failures>>
  BY DEF Skip
<1>2. walk \in 1 .. Len(subscriptions) /\ walk # 0
  BY <1>1, HereTyped
<1>3. walk' \in 0 .. (Len(subscriptions') + 1)
  <2>1. Len(subscriptions) \in Nat
    BY DEF BusInv, TypeOK
  <2> QED
    BY <1>1, <1>2, <2>1
<1>4. TypeOK'
  BY <1>1, <1>3, ReportTyped DEF BusInv, TypeOK
<1> QED
  BY <1>1, <1>2, <1>4 DEF BusInv

\* What a prune notes down.
LEMMA FailureTyped ==
  ASSUME BusInv, Walking
  PROVE  [id |-> Here.id, filter |-> Here.filter, event |-> Len(published)] \in Failure
<1>1. Here \in Subscription /\ Len(published) \in 1 .. MaxEvents
  BY HereTyped
<1>2. Here.id \in SubIds /\ Here.filter \in Filter
  BY <1>1 DEF Subscription
<1> DEFINE F == Filter
<1>3. Here.filter \in F
  BY <1>2
<1> HIDE DEF F
<1>4. [id |-> Here.id, filter |-> Here.filter, event |-> Len(published)]
        \in [id : SubIds, filter : F, event : 1 .. MaxEvents]
  BY <1>1, <1>2, <1>3
<1> QED BY <1>4 DEF Failure, F

LEMMA PruneInvariant ==
  ASSUME BusInv, Prune
  PROVE  BusInv'
<1> DEFINE fail == [id |-> Here.id, filter |-> Here.filter, event |-> Len(published)]
<1>1. /\ Walking /\ Here.id \notin receivers
      /\ subscriptions' = RemoveAt(subscriptions, walk)
      /\ report' = [report EXCEPT !.attempted = @ + 1, !.failed = @ + 1]
      /\ failures' = Append(failures, fail)
      /\ UNCHANGED <<since, receivers, channel, published, walk>>
  BY DEF Prune, Failed
<1>2. /\ walk \in 1 .. Len(subscriptions) /\ walk # 0
      /\ Here.id \in SubIds /\ Here.id \in 1 .. Len(since)
      /\ Len(published) \in 1 .. MaxEvents /\ Here = subscriptions[walk]
  BY <1>1, HereTyped DEF Here
<1>3. /\ subscriptions \in Seq(Subscription) /\ failures \in Seq(Failure)
      /\ Len(subscriptions) \in Nat /\ Len(failures) \in Nat
  BY DEF BusInv, TypeOK, Failure
<1>4. fail \in Failure /\ fail.id = Here.id /\ fail.event = Len(published)
  BY <1>1, FailureTyped
<1> HIDE DEF fail
<1>5. /\ subscriptions' \in Seq(Subscription)
      /\ Len(subscriptions') = Len(subscriptions) - 1
      /\ \A i \in 1 .. (Len(subscriptions) - 1) :
           subscriptions'[i] = IF i < walk THEN subscriptions[i] ELSE subscriptions[i + 1]
  BY <1>1, <1>2, <1>3, RemoveAtFacts
<1>6. /\ failures' \in Seq(Failure) /\ Len(failures') = Len(failures) + 1
      /\ failures'[Len(failures) + 1] = fail
      /\ \A f \in 1 .. Len(failures) : failures'[f] = failures[f]
  BY <1>1, <1>3, <1>4, AppendProperties
\* Where each subscription that is left was before.
<1>7. \A i \in 1 .. Len(subscriptions') :
        \E k \in (1 .. Len(subscriptions)) \ {walk} :
          subscriptions'[i] = subscriptions[k] /\ (k = i \/ k = i + 1)
          /\ (k = i <=> i < walk)
  <2> SUFFICES ASSUME NEW i \in 1 .. Len(subscriptions')
               PROVE  \E k \in (1 .. Len(subscriptions)) \ {walk} :
                        subscriptions'[i] = subscriptions[k] /\ (k = i \/ k = i + 1)
                        /\ (k = i <=> i < walk)
    OBVIOUS
  <2>1. i \in 1 .. (Len(subscriptions) - 1)
    BY <1>5
  <2>2. CASE i < walk
    BY <1>2, <1>3, <1>5, <2>1, <2>2
  <2>3. CASE ~(i < walk)
    <3>1. i + 1 \in (1 .. Len(subscriptions)) \ {walk}
      BY <1>2, <1>3, <2>1, <2>3
    <3>2. subscriptions'[i] = subscriptions[i + 1] /\ i + 1 # i
      BY <1>5, <2>1, <2>3
    <3> QED
      BY <2>3, <3>1, <3>2
  <2> QED
    BY <2>2, <2>3
<1>8. TypeOK'
  <2>1. walk' \in 0 .. (Len(subscriptions') + 1)
    BY <1>1, <1>2, <1>3, <1>5
  <2> QED
    BY <1>1, <1>5, <1>6, <2>1, ReportTyped DEF BusInv, TypeOK, Failure
<1>9. \A i \in 1 .. Len(subscriptions') : subscriptions'[i].id \in 1 .. Len(since')
  BY <1>1, <1>7 DEF BusInv
<1>10. \A i, j \in 1 .. Len(subscriptions') :
         i # j => subscriptions'[i].id # subscriptions'[j].id
  <2> SUFFICES ASSUME NEW i \in 1 .. Len(subscriptions'),
                      NEW j \in 1 .. Len(subscriptions'), i # j
               PROVE  subscriptions'[i].id # subscriptions'[j].id
    OBVIOUS
  <2>1. PICK k \in (1 .. Len(subscriptions)) \ {walk} :
          subscriptions'[i] = subscriptions[k] /\ (k = i \/ k = i + 1)
          /\ (k = i <=> i < walk)
    BY <1>7
  <2>2. PICK l \in (1 .. Len(subscriptions)) \ {walk} :
          subscriptions'[j] = subscriptions[l] /\ (l = j \/ l = j + 1)
          /\ (l = j <=> j < walk)
    BY <1>7
  <2>3. k # l
    BY <1>2, <1>3, <2>1, <2>2
  <2> QED
    BY <2>1, <2>2, <2>3 DEF BusInv
\* The one that is gone is not among those left.
<1>11. \A i \in 1 .. Len(subscriptions') : subscriptions'[i].id # Here.id
  BY <1>2, <1>7 DEF BusInv
<1>12. since[Here.id] < Len(published)
  BY <1>2 DEF BusInv
<1>13. \A f \in 1 .. Len(failures') :
         \/ f \in 1 .. Len(failures) /\ failures'[f] = failures[f]
         \/ f = Len(failures) + 1 /\ failures'[f] = fail
  BY <1>3, <1>6
<1>14. \A f \in 1 .. Len(failures') :
         /\ failures'[f].id \in 1 .. Len(since')
         /\ failures'[f].id \notin receivers'
         /\ since'[failures'[f].id] < failures'[f].event
         /\ \A i \in 1 .. Len(subscriptions') : subscriptions'[i].id # failures'[f].id
  <2> SUFFICES ASSUME NEW f \in 1 .. Len(failures')
               PROVE  /\ failures'[f].id \in 1 .. Len(since')
                      /\ failures'[f].id \notin receivers'
                      /\ since'[failures'[f].id] < failures'[f].event
                      /\ \A i \in 1 .. Len(subscriptions') :
                           subscriptions'[i].id # failures'[f].id
    OBVIOUS
  <2>1. CASE f \in 1 .. Len(failures) /\ failures'[f] = failures[f]
    BY <1>1, <1>7, <2>1 DEF BusInv
  <2>2. CASE failures'[f] = fail
    BY <1>1, <1>2, <1>4, <1>11, <1>12, <2>2
  <2> QED
    BY <1>13, <2>1, <2>2
<1>15. \A f \in 1 .. Len(failures) : failures[f].id # Here.id
  BY <1>2 DEF BusInv
<1>16. \A f, g \in 1 .. Len(failures') : f # g => failures'[f].id # failures'[g].id
  BY <1>4, <1>13, <1>15 DEF BusInv
<1> QED
  BY <1>1, <1>8, <1>9, <1>10, <1>14, <1>16 DEF BusInv

LEMMA ReturnInvariant ==
  ASSUME BusInv, PublishReturns
  PROVE  BusInv'
<1>1. walk' = 0 /\ UNCHANGED <<subscriptions, since, receivers, channel, published,
                               report, failures>>
  BY DEF PublishReturns
<1>2. walk' \in 0 .. (Len(subscriptions') + 1)
  <2>1. Len(subscriptions) \in Nat
    BY DEF BusInv, TypeOK
  <2> QED
    BY <1>1, <2>1
<1>3. TypeOK'
  BY <1>1, <1>2 DEF BusInv, TypeOK
<1> QED
  BY <1>1, <1>3 DEF BusInv

LEMMA BusStep == BusInv /\ [Next]_vars => BusInv'
<1> SUFFICES ASSUME BusInv, [Next]_vars PROVE BusInv'
  OBVIOUS
<1>1. CASE UNCHANGED vars
  BY <1>1 DEF vars, BusInv, TypeOK
<1> QED
  BY <1>1, SubscribeInvariant, DropInvariant, BeginInvariant, DeliverInvariant,
     PruneInvariant, SkipInvariant, ReturnInvariant DEF Next

LEMMA BusInvCorrect == Spec => []BusInv
BY InitBus, BusStep, PTL DEF Spec

\* Every variable of the bus keeps its type: in particular publish never walks
\* past the end of the subscriptions, also when it prunes on the way.
THEOREM BusTypeCorrect == Spec => []TypeOK
<1>1. BusInv => TypeOK
  BY DEF BusInv
<1> QED
  BY <1>1, BusInvCorrect, PTL

-----------------------------------------------------------------------------
(* What a subscription is due.                                             *)

\* Due, of a subscription made after the first `after` of the events in pub.
DueOf(filter, after, pub, n) ==
  Only([i \in 1 .. n |-> i],
       {i \in DOMAIN pub : i > after /\ Matches(filter, pub[i])})

LEMMA CountSequence ==
  ASSUME NEW n \in Nat
  PROVE  /\ [i \in 1 .. n |-> i] \in Seq(1 .. n)
         /\ [i \in 1 .. (n + 1) |-> i] = Append([i \in 1 .. n |-> i], n + 1)
<1> DEFINE p == [i \in 1 .. n |-> i]  q == [i \in 1 .. (n + 1) |-> i]
<1>1. p \in Seq(1 .. n) /\ Len(p) = n /\ \A i \in 1 .. n : p[i] = i
  OBVIOUS
<1>2. q \in Seq(1 .. (n + 1)) /\ Len(q) = n + 1 /\ \A i \in 1 .. (n + 1) : q[i] = i
  OBVIOUS
<1> DEFINE r == Append(p, n + 1)
<1> HIDE DEF p, q
<1>3. r \in Seq(1 .. (n + 1)) /\ Len(r) = n + 1 /\ \A i \in 1 .. (n + 1) : r[i] = i
  <2>1. p \in Seq(1 .. (n + 1))
    <3>1. 1 .. n \subseteq 1 .. (n + 1)
      OBVIOUS
    <3> QED BY <1>1, <3>1, SeqMonotonic
  <2> QED BY <1>1, <2>1, AppendProperties
<1> HIDE DEF r
<1>4. q = r
  BY <1>2, <1>3, SeqEqual
<1> QED BY <1>1, <1>4 DEF p, q, r

LEMMA DueType ==
  ASSUME NEW filter, NEW after, NEW pub, NEW n \in Nat
  PROVE  DueOf(filter, after, pub, n) \in Seq(1 .. n)
<1> DEFINE c == [i \in 1 .. n |-> i]
           M == {i \in DOMAIN pub : i > after /\ Matches(filter, pub[i])}
<1>1. c \in Seq(1 .. n)
  BY CountSequence
<1>2. DueOf(filter, after, pub, n) = Only(c, M)
  BY DEF DueOf
<1> HIDE DEF c, M
<1>3. Only(c, M) \in Seq((1 .. n) \cap M)
  BY <1>1, OnlyType
<1>4. Only(c, M) \in Seq(1 .. n)
  BY <1>3, SeqMonotonic
<1> QED BY <1>2, <1>4

LEMMA DueNext ==
  ASSUME NEW filter, NEW after \in Nat, NEW T, NEW pub \in Seq(T),
         NEW n \in Nat, n + 1 <= Len(pub)
  PROVE  DueOf(filter, after, pub, n + 1)
           = IF n + 1 > after /\ Matches(filter, pub[n + 1])
             THEN Append(DueOf(filter, after, pub, n), n + 1)
             ELSE DueOf(filter, after, pub, n)
<1> DEFINE c == [i \in 1 .. n |-> i]
           M == {i \in DOMAIN pub : i > after /\ Matches(filter, pub[i])}
<1>1. c \in Seq(1 .. (n + 1)) /\ [i \in 1 .. (n + 1) |-> i] = Append(c, n + 1)
  <2>1. c \in Seq(1 .. n) /\ [i \in 1 .. (n + 1) |-> i] = Append(c, n + 1)
    BY CountSequence
  <2>2. 1 .. n \subseteq 1 .. (n + 1)
    OBVIOUS
  <2> HIDE DEF c
  <2> QED BY <2>1, <2>2, SeqMonotonic
<1>2. n + 1 \in M <=> n + 1 > after /\ Matches(filter, pub[n + 1])
  OBVIOUS
<1>3. DueOf(filter, after, pub, n) = Only(c, M)
      /\ DueOf(filter, after, pub, n + 1) = Only(Append(c, n + 1), M)
  BY <1>1 DEF DueOf
<1> HIDE DEF c, M
<1>4. c \in Seq(1 .. (n + 1)) /\ n + 1 \in 1 .. (n + 1)
  BY <1>1
<1>5. Only(Append(c, n + 1), M) = IF n + 1 \in M THEN Append(Only(c, M), n + 1)
                                                 ELSE Only(c, M)
  <2> DEFINE T2 == 1 .. (n + 1)  x == n + 1
  <2>1. c \in Seq(T2) /\ x \in T2
    BY <1>4
  <2> HIDE DEF T2, x
  <2>2. Only(Append(c, x), M) = IF x \in M THEN Append(Only(c, M), x) ELSE Only(c, M)
    BY <2>1, OnlyAppend
  <2> QED BY <2>2 DEF x
<1> QED BY <1>2, <1>3, <1>5

\* What is published later makes no difference to what was due before.
LEMMA DueBefore ==
  ASSUME NEW filter, NEW after \in Nat, NEW T, NEW pub \in Seq(T), NEW topic \in T,
         NEW n \in Nat, n <= Len(pub)
  PROVE  DueOf(filter, after, Append(pub, topic), n) = DueOf(filter, after, pub, n)
<1> DEFINE c == [i \in 1 .. n |-> i]  pub2 == Append(pub, topic)
           M == {i \in DOMAIN pub : i > after /\ Matches(filter, pub[i])}
           M2 == {i \in DOMAIN pub2 : i > after /\ Matches(filter, pub2[i])}
<1>1. c \in Seq(1 .. n)
  BY CountSequence
<1>2. DOMAIN pub = 1 .. Len(pub) /\ DOMAIN pub2 = 1 .. (Len(pub) + 1)
      /\ \A i \in 1 .. Len(pub) : pub2[i] = pub[i]
  BY AppendProperties
<1> HIDE DEF pub2
<1>3. (1 .. n) \cap M = (1 .. n) \cap M2
  BY <1>2
<1>4. DueOf(filter, after, pub, n) = Only(c, M) /\ DueOf(filter, after, pub2, n) = Only(c, M2)
  BY DEF DueOf
<1> HIDE DEF c, M, M2
<1>5. DueOf(filter, after, pub2, n) = DueOf(filter, after, pub, n)
  BY <1>1, <1>3, <1>4, OnlyAgree
<1> QED BY <1>5 DEF pub2

LEMMA DueNone ==
  ASSUME NEW filter, NEW T, NEW pub \in Seq(T)
  PROVE  DueOf(filter, Len(pub), pub, Len(pub)) = <<>>
<1> DEFINE n == Len(pub)  c == [i \in 1 .. n |-> i]
           M == {i \in DOMAIN pub : i > n /\ Matches(filter, pub[i])}
<1>1. c \in Seq(1 .. n)
  BY CountSequence
<1>2. (1 .. n) \cap M = {}
  OBVIOUS
<1>3. DueOf(filter, n, pub, n) = Only(c, M)
  BY DEF DueOf
<1> HIDE DEF c, M, n
<1>4. DueOf(filter, n, pub, n) = <<>>
  BY <1>1, <1>2, <1>3, OnlyNone
<1> QED BY <1>4 DEF n

-----------------------------------------------------------------------------
(* What each subscription was sent.                                        *)

\* A channel has events that were published; one that no subscription has yet is
\* empty.  A delivery that failed was of an event that was published.
Sent ==
  /\ \A id \in SubIds : channel[id] \in Seq(1 .. Len(published))
  /\ \A id \in SubIds : id > Len(since) => channel[id] = <<>>
  /\ \A f \in 1 .. Len(failures) : failures[f].event <= Len(published)

\* Every subscription that is listed was sent what it was due.
Served ==
  \A i \in 1 .. Len(subscriptions) :
    channel[subscriptions[i].id]
      = DueOf(subscriptions[i].filter, since[subscriptions[i].id], published, Upto(i))

\* Whoever has a receiver is listed.
Listed == \A id \in receivers : \E i \in 1 .. Len(subscriptions) : subscriptions[i].id = id

FeedInv == Sent /\ Served /\ Listed

LEMMA BusFacts ==
  ASSUME BusInv
  PROVE  /\ subscriptions \in Seq(Subscription) /\ since \in Seq(Nat)
         /\ published \in Seq(Topics) /\ failures \in Seq(Failure)
         /\ channel \in [SubIds -> Seq(1 .. MaxEvents)]
         /\ Len(since) <= MaxSubs /\ MaxSubs \in Nat /\ MaxEvents \in Nat
         /\ \A i \in 1 .. Len(subscriptions) :
              /\ subscriptions[i].id \in 1 .. Len(since) /\ subscriptions[i].id \in SubIds
              /\ since[subscriptions[i].id] \in Nat
<1>1. /\ subscriptions \in Seq(Subscription) /\ since \in Seq(Nat)
      /\ published \in Seq(Topics) /\ failures \in Seq(Failure)
      /\ channel \in [SubIds -> Seq(1 .. MaxEvents)]
      /\ Len(since) <= MaxSubs /\ MaxSubs \in Nat /\ MaxEvents \in Nat
  BY BusAssumption DEF BusInv, TypeOK, BusAssumption, Failure
<1>2. ASSUME NEW i \in 1 .. Len(subscriptions)
      PROVE  subscriptions[i].id \in 1 .. Len(since)
  BY DEF BusInv
<1>3. ASSUME NEW id \in 1 .. Len(since) PROVE id \in SubIds /\ since[id] \in Nat
  <2>1. since \in Seq(Nat) /\ Len(since) <= MaxSubs /\ MaxSubs \in Nat
    BY <1>1
  <2> QED BY <2>1 DEF SubIds
<1> QED BY <1>1, <1>2, <1>3

LEMMA FeedInit == Init => FeedInv
<1> SUFFICES ASSUME Init PROVE FeedInv
  OBVIOUS
<1>1. channel = [s \in SubIds |-> <<>>] /\ subscriptions = <<>> /\ receivers = {}
      /\ failures = <<>> /\ Len(subscriptions) = 0 /\ Len(failures) = 0
  BY DEF Init
<1>2. Sent
  <2>1. \A id \in SubIds : channel[id] = <<>>
    BY <1>1
  <2>2. <<>> \in Seq(1 .. Len(published)) /\ 1 .. 0 = {}
    OBVIOUS
  <2> QED BY <1>1, <2>1, <2>2 DEF Sent
<1>3. Served /\ Listed
  BY <1>1 DEF Served, Listed
<1> QED BY <1>2, <1>3 DEF FeedInv

LEMMA FeedSubscribe ==
  ASSUME BusInv, FeedInv, NEW filter \in Filter, Subscribe(filter)
  PROVE  FeedInv'
<1> DEFINE id == Len(since) + 1  sub == [id |-> id, filter |-> filter]
           n == Len(subscriptions)
<1>1. /\ walk = 0 /\ Len(since) < MaxSubs
      /\ subscriptions' = Append(subscriptions, sub)
      /\ receivers' = receivers \cup {id}
      /\ since' = Append(since, Len(published))
      /\ UNCHANGED <<channel, published, walk, report, failures>>
  BY DEF Subscribe
<1>2. subscriptions \in Seq(Subscription) /\ since \in Seq(Nat) /\ published \in Seq(Topics)
      /\ MaxSubs \in Nat
  BY BusFacts
<1>3. id \in SubIds /\ sub \in Subscription
  BY <1>1, <1>2 DEF SubIds, Subscription
<1>4. n \in Nat /\ Len(subscriptions') = n + 1 /\ subscriptions'[n + 1] = sub
      /\ \A i \in 1 .. n : subscriptions'[i] = subscriptions[i]
  BY <1>1, <1>2, <1>3, AppendProperties
<1>5. Len(since') = Len(since) + 1 /\ since'[id] = Len(published)
      /\ \A k \in 1 .. Len(since) : since'[k] = since[k]
  BY <1>1, <1>2, AppendProperties
<1>6. Sent'
  BY <1>1, <1>2, <1>5 DEF FeedInv, Sent, SubIds
<1>7. Listed'
  <2> SUFFICES ASSUME NEW k \in receivers'
               PROVE  \E i \in 1 .. Len(subscriptions') : subscriptions'[i].id = k
    BY DEF Listed
  <2>1. CASE k = id
    BY <1>4, <2>1
  <2>2. CASE k \in receivers
    <3>1. PICK i \in 1 .. n : subscriptions[i].id = k
      BY <2>2 DEF FeedInv, Listed
    <3>2. i \in 1 .. Len(subscriptions') /\ subscriptions'[i].id = k
      BY <1>4, <3>1
    <3> QED BY <3>2
  <2> QED BY <1>1, <2>1, <2>2
<1>8. ASSUME NEW i \in 1 .. (n + 1)
      PROVE  channel[subscriptions'[i].id]
               = DueOf(subscriptions'[i].filter, since'[subscriptions'[i].id], published,
                       Len(published))
  <2>1. CASE i \in 1 .. n
    <3>1. subscriptions[i].id \in 1 .. Len(since)
      BY <2>1 DEF BusInv
    <3>2. channel[subscriptions[i].id]
            = DueOf(subscriptions[i].filter, since[subscriptions[i].id], published, Upto(i))
      BY <2>1 DEF FeedInv, Served
    <3>3. Upto(i) = Len(published)
      BY <1>1 DEF Upto
    <3> QED BY <1>4, <1>5, <2>1, <3>1, <3>2, <3>3
  <2>2. CASE i = n + 1
    <3>1. subscriptions'[i].id = id /\ subscriptions'[i].filter = filter
      BY <1>4, <2>2
    <3>2. channel[id] = <<>>
      BY <1>2, <1>3 DEF FeedInv, Sent
    <3>3. DueOf(filter, Len(published), published, Len(published)) = <<>>
      BY <1>2, DueNone
    <3> HIDE DEF id
    <3> QED BY <1>5, <3>1, <3>2, <3>3
  <2> QED BY <1>4, <2>1, <2>2
<1>9. Served'
  <2>1. ASSUME NEW i PROVE Upto(i)' = Len(published)
    BY <1>1 DEF Upto
  <2> QED BY <1>1, <1>4, <1>8, <2>1 DEF Served
<1> QED BY <1>6, <1>7, <1>9 DEF FeedInv

LEMMA FeedDrop ==
  ASSUME BusInv, FeedInv, NEW id \in SubIds, DropReceiver(id)
  PROVE  FeedInv'
BY DEF DropReceiver, FeedInv, Sent, Served, Listed, Upto

LEMMA FeedBegins ==
  ASSUME BusInv, FeedInv, NEW topic \in Topics, PublishBegins(topic)
  PROVE  FeedInv'
<1>1. /\ walk = 0 /\ walk' = 1
      /\ published' = Append(published, topic)
      /\ UNCHANGED <<subscriptions, since, receivers, channel, failures>>
  BY DEF PublishBegins
<1>2. published \in Seq(Topics) /\ since \in Seq(Nat) /\ subscriptions \in Seq(Subscription)
      /\ failures \in Seq(Failure) /\ MaxEvents \in Nat
  BY BusFacts
<1>3. Len(published') = Len(published) + 1 /\ Len(published) \in Nat
  BY <1>1, <1>2, AppendProperties
<1>4. Sent'
  <2>1. ASSUME NEW id \in SubIds PROVE channel'[id] \in Seq(1 .. Len(published'))
    <3>1. 1 .. Len(published) \subseteq 1 .. Len(published')
      BY <1>3
    <3>2. channel[id] \in Seq(1 .. Len(published))
      BY DEF FeedInv, Sent
    <3> QED BY <1>1, <3>1, <3>2, SeqMonotonic
  <2>2. ASSUME NEW f \in 1 .. Len(failures) PROVE failures[f].event <= Len(published')
    <3>1. failures[f].event <= Len(published)
      BY DEF FeedInv, Sent
    <3>2. failures[f] \in Failure
      BY <1>2
    <3>3. failures[f].event \in 1 .. MaxEvents
      BY <3>2 DEF Failure
    <3> QED BY <1>2, <1>3, <3>1, <3>3
  <2>3. \A id \in SubIds : id > Len(since) => channel[id] = <<>>
    BY DEF FeedInv, Sent
  <2>4. /\ \A id \in SubIds : id > Len(since') => channel'[id] = <<>>
        /\ \A f \in 1 .. Len(failures') : failures'[f].event <= Len(published')
    BY <1>1, <2>2, <2>3
  <2> QED BY <2>1, <2>4 DEF Sent
<1>5. Listed'
  BY <1>1 DEF FeedInv, Listed
<1>6. ASSUME NEW i \in 1 .. Len(subscriptions)
      PROVE  channel[subscriptions[i].id]
               = DueOf(subscriptions[i].filter, since[subscriptions[i].id], published',
                       Len(published))
  <2>1. subscriptions[i].id \in 1 .. Len(since) /\ since[subscriptions[i].id] \in Nat
    BY BusFacts
  <2>2. channel[subscriptions[i].id]
          = DueOf(subscriptions[i].filter, since[subscriptions[i].id], published, Upto(i))
    BY DEF FeedInv, Served
  <2>3. Upto(i) = Len(published)
    BY <1>1 DEF Upto
  <2> QED BY <1>1, <1>2, <1>3, <2>1, <2>2, <2>3, DueBefore
<1>7. Served'
  <2>1. ASSUME NEW i \in 1 .. Len(subscriptions) PROVE Upto(i)' = Len(published)
    BY <1>1, <1>3 DEF Upto
  <2> QED BY <1>1, <1>6, <2>1 DEF Served
<1> QED BY <1>4, <1>5, <1>7 DEF FeedInv

\* publish is at a subscription: the one event it has yet to be served is the last.
LEMMA HereDue ==
  ASSUME BusInv, FeedInv, Walking
  PROVE  LET due == DueOf(Here.filter, since[Here.id], published, Len(published))
         IN /\ walk \in 1 .. Len(subscriptions)
            /\ Here = subscriptions[walk] /\ Here.id \in SubIds
            /\ Here.id \in 1 .. Len(since)
            /\ Len(published) \in Nat /\ Len(published) - 1 \in Nat
            /\ channel[Here.id] \in Seq(1 .. (Len(published) - 1))
            /\ channel[Here.id]
                 = DueOf(Here.filter, since[Here.id], published, Len(published) - 1)
            /\ due = IF Wanted THEN Append(channel[Here.id], Len(published))
                      ELSE channel[Here.id]
<1> DEFINE after == since[Here.id]  n == Len(published) - 1
           Due2(m) == DueOf(Here.filter, after, published, m)
<1>1. walk \in 1 .. Len(subscriptions) /\ walk # 0 /\ Here.id \in SubIds
      /\ Len(published) \in 1 .. MaxEvents /\ MaxEvents \in Nat
      /\ Here = subscriptions[walk] /\ Here.id \in 1 .. Len(since)
  BY HereTyped, BusFacts DEF Here
<1>2. n \in Nat /\ n + 1 = Len(published) /\ published \in Seq(Topics)
      /\ after \in Nat
  BY <1>1, BusFacts
<1>3. after < Len(published)
  BY <1>1 DEF BusInv
<1>4. channel[Here.id] = Due2(n)
  <2>1. Upto(walk) = n
    BY <1>1 DEF Upto
  <2> QED BY <1>1, <2>1 DEF FeedInv, Served
<1>5. Wanted <=> Matches(Here.filter, published[n + 1])
  BY <1>2 DEF Wanted, Last
<1> HIDE DEF n, after
<1>6. Due2(n + 1) = IF n + 1 > after /\ Matches(Here.filter, published[n + 1])
                    THEN Append(Due2(n), n + 1) ELSE Due2(n)
  BY <1>2, DueNext
<1>7. Due2(n) \in Seq(1 .. n)
  BY <1>2, DueType
<1> HIDE DEF Due2
<1>8. Due2(Len(published)) = IF Wanted THEN Append(channel[Here.id], Len(published))
                             ELSE channel[Here.id]
  BY <1>2, <1>3, <1>4, <1>5, <1>6
<1> QED BY <1>1, <1>2, <1>4, <1>7, <1>8 DEF Due2, n, after

LEMMA FeedDeliver ==
  ASSUME BusInv, FeedInv, Deliver
  PROVE  FeedInv'
<1> DEFINE n == Len(published)
<1>1. /\ Walking /\ Wanted /\ walk' = walk + 1
      /\ channel' = [channel EXCEPT ![Here.id] = Append(channel[Here.id], Len(published))]
      /\ UNCHANGED <<subscriptions, since, receivers, published, failures>>
  BY DEF Deliver
<1>2. /\ walk \in 1 .. Len(subscriptions) /\ Here = subscriptions[walk]
      /\ Here.id \in SubIds /\ Here.id \in 1 .. Len(since)
      /\ n \in Nat /\ n - 1 \in Nat
      /\ channel[Here.id] \in Seq(1 .. (n - 1))
      /\ DueOf(Here.filter, since[Here.id], published, n) = Append(channel[Here.id], n)
  BY <1>1, HereDue
<1>3. channel'[Here.id] = Append(channel[Here.id], n)
      /\ \A id \in SubIds : id # Here.id => channel'[id] = channel[id]
  BY <1>1, <1>2, BusFacts
<1>4. Sent'
  <2>1. ASSUME NEW id \in SubIds PROVE channel'[id] \in Seq(1 .. n)
    <3>1. CASE id = Here.id
      <4> DEFINE old == channel[Here.id]  T == 1 .. n  U == 1 .. (n - 1)
      <4>1. U \subseteq T /\ n \in T
        BY <1>2
      <4>2. old \in Seq(U) /\ channel'[Here.id] = Append(old, n)
        BY <1>2, <1>3
      <4> HIDE DEF old, T, U, n
      <4>3. old \in Seq(T)
        BY <4>1, <4>2, SeqMonotonic
      <4>4. Append(old, n) \in Seq(T)
        BY <4>1, <4>3, AppendProperties
      <4>5. channel'[id] \in Seq(T)
        BY <3>1, <4>2, <4>4
      <4> QED BY <4>5 DEF T
    <3>2. CASE id # Here.id
      BY <1>3, <3>2 DEF FeedInv, Sent
    <3> QED BY <3>1, <3>2
  <2>2. ASSUME NEW id \in SubIds, id > Len(since) PROVE channel'[id] = <<>>
    <3>1. Here.id \in 1 .. Len(since) /\ Len(since) \in Nat
      BY <1>2, BusFacts
    <3>2. id # Here.id
      BY <2>2, <3>1
    <3>3. channel[id] = <<>>
      BY <2>2 DEF FeedInv, Sent
    <3> QED BY <1>3, <3>2, <3>3
  <2>3. \A f \in 1 .. Len(failures) : failures[f].event <= n
    BY DEF FeedInv, Sent
  <2> HIDE DEF n
  <2>4. /\ \A id \in SubIds : channel'[id] \in Seq(1 .. Len(published'))
        /\ \A id \in SubIds : id > Len(since') => channel'[id] = <<>>
        /\ \A f \in 1 .. Len(failures') : failures'[f].event <= Len(published')
    BY <1>1, <2>1, <2>2, <2>3 DEF n
  <2> QED BY <2>4 DEF Sent
<1>5. Listed'
  BY <1>1 DEF FeedInv, Listed
<1>6. ASSUME NEW i \in 1 .. Len(subscriptions)
      PROVE  channel'[subscriptions[i].id]
               = DueOf(subscriptions[i].filter, since[subscriptions[i].id], published, Upto(i)')
  <2>1. CASE i = walk
    <3>1. Upto(i)' = n
      BY <1>1, <1>2, <2>1 DEF Upto
    <3> QED BY <1>2, <1>3, <2>1, <3>1
  <2>2. CASE i # walk
    <3>1. Upto(i)' = Upto(i)
      BY <1>1, <1>2, <2>2 DEF Upto
    <3>2. subscriptions[i].id # Here.id /\ subscriptions[i].id \in SubIds
      BY <1>2, <2>2, BusFacts DEF BusInv
    <3>3. channel[subscriptions[i].id]
            = DueOf(subscriptions[i].filter, since[subscriptions[i].id], published, Upto(i))
      BY DEF FeedInv, Served
    <3> QED BY <1>3, <3>1, <3>2, <3>3
  <2> QED BY <2>1, <2>2
<1>7. Served'
  BY <1>1, <1>6 DEF Served
<1> QED BY <1>4, <1>5, <1>7 DEF FeedInv

LEMMA FeedSkip ==
  ASSUME BusInv, FeedInv, Skip
  PROVE  FeedInv'
<1>1. /\ Walking /\ ~Wanted /\ walk' = walk + 1
      /\ UNCHANGED <<subscriptions, since, receivers, channel, published, failures>>
  BY DEF Skip
<1>2. /\ walk \in 1 .. Len(subscriptions) /\ Here = subscriptions[walk]
      /\ DueOf(Here.filter, since[Here.id], published, Len(published)) = channel[Here.id]
  BY <1>1, HereDue
<1>3. Sent' /\ Listed'
  BY <1>1 DEF FeedInv, Sent, Listed
<1>4. ASSUME NEW i \in 1 .. Len(subscriptions)
      PROVE  channel[subscriptions[i].id]
               = DueOf(subscriptions[i].filter, since[subscriptions[i].id], published, Upto(i)')
  <2>1. CASE i = walk
    <3>1. Upto(i)' = Len(published)
      BY <1>1, <1>2, <2>1 DEF Upto
    <3> QED BY <1>2, <2>1, <3>1
  <2>2. CASE i # walk
    <3>1. Upto(i)' = Upto(i)
      BY <1>1, <1>2, <2>2 DEF Upto
    <3> QED BY <3>1 DEF FeedInv, Served
  <2> QED BY <2>1, <2>2
<1>5. Served'
  BY <1>1, <1>4 DEF Served
<1> QED BY <1>3, <1>5 DEF FeedInv

\* The dead subscription goes, and those behind it come one position nearer.
LEMMA FeedPrune ==
  ASSUME BusInv, FeedInv, Prune
  PROVE  FeedInv'
<1> DEFINE m == Len(subscriptions) - 1
           Old(i) == IF i < walk THEN i ELSE i + 1
<1>1. /\ Walking /\ Here.id \notin receivers
      /\ subscriptions' = RemoveAt(subscriptions, walk)
      /\ failures' = Append(failures, [id |-> Here.id, filter |-> Here.filter, event |-> Len(published)])
      /\ UNCHANGED <<since, receivers, channel, published, walk>>
  BY DEF Prune, Failed
<1>2. /\ walk \in 1 .. Len(subscriptions) /\ Here = subscriptions[walk]
      /\ Here.id \in SubIds
  BY <1>1, HereDue
<1>3. /\ Len(subscriptions') = m /\ m \in Nat
      /\ \A i \in 1 .. m : Old(i) \in 1 .. Len(subscriptions)
                           /\ subscriptions'[i] = subscriptions[Old(i)]
  <2>1. subscriptions \in Seq(Subscription)
    BY BusFacts
  <2>2. /\ Len(subscriptions') = m
        /\ \A i \in 1 .. m :
             subscriptions'[i] = IF i < walk THEN subscriptions[i] ELSE subscriptions[i + 1]
    BY <1>1, <1>2, <2>1, RemoveAtFacts
  <2> QED BY <1>2, <2>1, <2>2
<1>4. Sent'
  <2>1. failures \in Seq(Failure) /\ Len(published) \in 1 .. MaxEvents
    BY <1>1, BusFacts, HereTyped
  <2>2. [id |-> Here.id, filter |-> Here.filter, event |-> Len(published)] \in Failure
    BY <1>1, FailureTyped
  <2>3. /\ Len(failures') = Len(failures) + 1 /\ Len(failures) \in Nat
        /\ \A f \in 1 .. Len(failures) : failures'[f] = failures[f]
        /\ failures'[Len(failures) + 1].event = Len(published)
    BY <1>1, <2>1, <2>2, AppendProperties
  <2>4. \A f \in 1 .. Len(failures) : failures[f].event <= Len(published)
    BY DEF FeedInv, Sent
  <2>5. ASSUME NEW f \in 1 .. Len(failures') PROVE failures'[f].event <= Len(published)
    <3>1. CASE f \in 1 .. Len(failures)
      BY <2>3, <2>4, <3>1
    <3>2. CASE f = Len(failures) + 1
      BY <2>1, <2>3, <3>2
    <3> QED BY <2>3, <3>1, <3>2
  <2> QED BY <1>1, <2>5 DEF FeedInv, Sent
<1>5. Listed'
  <2> SUFFICES ASSUME NEW id \in receivers
               PROVE  \E i \in 1 .. Len(subscriptions') : subscriptions'[i].id = id
    BY <1>1 DEF Listed
  <2>1. PICK j \in 1 .. Len(subscriptions) : subscriptions[j].id = id
    BY DEF FeedInv, Listed
  <2>2. j # walk
    BY <1>1, <1>2, <2>1
  <2>3. CASE j < walk
    <3>1. j \in 1 .. m /\ Old(j) = j
      BY <1>2, <1>3, <2>3
    <3> QED BY <1>3, <2>1, <3>1
  <2>4. CASE j > walk
    <3>1. j - 1 \in 1 .. m /\ Old(j - 1) = j
      BY <1>2, <1>3, <2>4
    <3> QED BY <1>3, <2>1, <3>1
  <2> QED BY <1>2, <2>2, <2>3, <2>4
<1>6. ASSUME NEW i \in 1 .. m PROVE Upto(i)' = Upto(Old(i))
  <2>1. walk <= i <=> walk <= Old(i)
    BY <1>2
  <2> HIDE DEF Old
  <2> QED BY <1>1, <2>1 DEF Upto
<1>7. ASSUME NEW i \in 1 .. m
      PROVE  channel[subscriptions'[i].id]
               = DueOf(subscriptions'[i].filter, since[subscriptions'[i].id], published,
                       Upto(i)')
  BY <1>3, <1>6 DEF FeedInv, Served
<1>8. Served'
  BY <1>1, <1>3, <1>7 DEF Served
<1> QED BY <1>4, <1>5, <1>8 DEF FeedInv

LEMMA FeedReturns ==
  ASSUME BusInv, FeedInv, PublishReturns
  PROVE  FeedInv'
<1>1. /\ walk > Len(subscriptions) /\ walk' = 0
      /\ UNCHANGED <<subscriptions, since, receivers, channel, published, failures>>
  BY DEF PublishReturns
<1>2. walk \in Nat /\ Len(subscriptions) \in Nat
  BY DEF BusInv, TypeOK
<1>3. ASSUME NEW i \in 1 .. Len(subscriptions) PROVE Upto(i)' = Upto(i)
  BY <1>1, <1>2 DEF Upto
<1>4. Served'
  BY <1>1, <1>3 DEF FeedInv, Served
<1> QED BY <1>1, <1>4 DEF FeedInv, Sent, Listed

LEMMA FeedStep == BusInv /\ FeedInv /\ [Next]_vars => FeedInv'
<1> SUFFICES ASSUME BusInv, FeedInv, [Next]_vars PROVE FeedInv'
  OBVIOUS
<1>1. CASE UNCHANGED vars
  BY <1>1 DEF vars, FeedInv, Sent, Served, Listed, Upto
<1> QED
  BY <1>1, FeedSubscribe, FeedDrop, FeedBegins, FeedDeliver, FeedPrune, FeedSkip,
     FeedReturns DEF Next

\* Whichever subscribers come, go, or are pruned while publish walks, a subscription
\* that is listed was sent every event it matches, each once and in order.
THEOREM EveryMatchOnceHolds == Spec => []EveryMatchOnce
<1>1. BusInv /\ FeedInv => EveryMatchOnce
  <2> SUFFICES ASSUME BusInv, FeedInv PROVE EveryMatchOnce
    OBVIOUS
  <2>1. DOMAIN subscriptions = 1 .. Len(subscriptions)
    BY BusFacts
  <2>2. receivers \subseteq {subscriptions[i].id : i \in DOMAIN subscriptions}
    BY <2>1 DEF FeedInv, Listed
  <2>3. ASSUME NEW i \in 1 .. Len(subscriptions)
        PROVE  channel[subscriptions[i].id] = Due(subscriptions[i], Upto(i))
    BY DEF FeedInv, Served, DueOf, Due, Matching
  <2> QED BY <2>1, <2>2, <2>3 DEF EveryMatchOnce
<1> QED BY <1>1, InitBus, BusStep, FeedInit, FeedStep, PTL DEF Spec

-----------------------------------------------------------------------------
(* Those that failed.                                                      *)

\* A subscription that failed was sent what it was due before the publication that
\* it failed, which it would have received.
Parted ==
  \A f \in 1 .. Len(failures) :
    /\ Matches(failures[f].filter, published[failures[f].event])
    /\ channel[failures[f].id]
         = DueOf(failures[f].filter, since[failures[f].id], published, failures[f].event - 1)

LEMMA FailureFacts ==
  ASSUME BusInv, FeedInv, NEW f \in 1 .. Len(failures)
  PROVE  /\ failures[f].id \in SubIds /\ failures[f].id \in 1 .. Len(since)
         /\ since[failures[f].id] \in Nat
         /\ failures[f].event \in 1 .. Len(published)
         /\ failures[f].event - 1 \in Nat /\ failures[f].event - 1 <= Len(published)
<1>1. failures \in Seq(Failure) /\ since \in Seq(Nat) /\ published \in Seq(Topics)
      /\ MaxEvents \in Nat
  BY BusFacts
<1>2. failures[f].id \in SubIds /\ failures[f].event \in 1 .. MaxEvents
  <2>1. failures[f] \in Failure
    BY <1>1
  <2> QED BY <2>1 DEF Failure
<1>3. failures[f].id \in 1 .. Len(since) /\ failures[f].event <= Len(published)
  BY DEF BusInv, FeedInv, Sent
<1> QED BY <1>1, <1>2, <1>3

LEMMA PartedSubscribe ==
  ASSUME BusInv, FeedInv, Parted, NEW filter \in Filter, Subscribe(filter)
  PROVE  Parted'
<1>1. /\ since' = Append(since, Len(published))
      /\ UNCHANGED <<channel, published, failures>>
  BY DEF Subscribe
<1>2. since \in Seq(Nat)
  BY BusFacts
<1>3. \A k \in 1 .. Len(since) : since'[k] = since[k]
  BY <1>1, <1>2, AppendProperties
<1> QED BY <1>1, <1>3, FailureFacts DEF Parted

LEMMA PartedBegins ==
  ASSUME BusInv, FeedInv, Parted, NEW topic \in Topics, PublishBegins(topic)
  PROVE  Parted'
<1>1. /\ published' = Append(published, topic)
      /\ UNCHANGED <<since, channel, failures>>
  BY DEF PublishBegins
<1>2. published \in Seq(Topics)
  BY BusFacts
<1> SUFFICES ASSUME NEW f \in 1 .. Len(failures)
             PROVE  /\ Matches(failures[f].filter, published'[failures[f].event])
                    /\ channel[failures[f].id]
                         = DueOf(failures[f].filter, since[failures[f].id], published',
                                 failures[f].event - 1)
  BY <1>1 DEF Parted
<1>3. /\ since[failures[f].id] \in Nat /\ failures[f].event \in 1 .. Len(published)
      /\ failures[f].event - 1 \in Nat /\ failures[f].event - 1 <= Len(published)
  BY FailureFacts
<1>4. published'[failures[f].event] = published[failures[f].event]
  BY <1>1, <1>2, <1>3, AppendProperties
<1>5. DueOf(failures[f].filter, since[failures[f].id], published', failures[f].event - 1)
        = DueOf(failures[f].filter, since[failures[f].id], published, failures[f].event - 1)
  BY <1>1, <1>2, <1>3, DueBefore
<1> QED BY <1>4, <1>5 DEF Parted

LEMMA PartedDeliver ==
  ASSUME BusInv, FeedInv, Parted, Deliver
  PROVE  Parted'
<1>1. /\ Walking
      /\ channel' = [channel EXCEPT ![Here.id] = Append(channel[Here.id], Len(published))]
      /\ UNCHANGED <<since, published, failures>>
  BY DEF Deliver
<1>2. walk \in 1 .. Len(subscriptions) /\ Here = subscriptions[walk]
  BY <1>1, HereDue
<1>3. ASSUME NEW f \in 1 .. Len(failures)
      PROVE  channel'[failures[f].id] = channel[failures[f].id]
  <2>1. failures[f].id # Here.id
    BY <1>2 DEF BusInv
  <2>2. failures[f].id \in SubIds
    BY FailureFacts
  <2> QED BY <1>1, <2>1, <2>2, BusFacts
<1> QED BY <1>1, <1>3 DEF Parted

LEMMA PartedPrune ==
  ASSUME BusInv, FeedInv, Parted, Prune
  PROVE  Parted'
<1> DEFINE gone == [id |-> Here.id, filter |-> Here.filter, event |-> Len(published)]
<1>1. /\ Walking /\ Wanted /\ failures' = Append(failures, gone)
      /\ UNCHANGED <<since, channel, published>>
  BY DEF Prune, Failed
<1>2. /\ Here = subscriptions[walk] /\ walk \in 1 .. Len(subscriptions)
      /\ channel[Here.id]
           = DueOf(Here.filter, since[Here.id], published, Len(published) - 1)
      /\ Here.id \in SubIds
  BY <1>1, HereDue
<1>3. gone \in Failure /\ failures \in Seq(Failure)
  BY <1>1, BusFacts, FailureTyped
<1>4. /\ Matches(gone.filter, published[gone.event])
      /\ channel[gone.id] = DueOf(gone.filter, since[gone.id], published, gone.event - 1)
  BY <1>1, <1>2 DEF Wanted, Last
<1> HIDE DEF gone
<1>5. \A f \in 1 .. Len(failures') :
        \/ f \in 1 .. Len(failures) /\ failures'[f] = failures[f]
        \/ failures'[f] = gone
  BY <1>1, <1>3, AppendProperties
<1> QED BY <1>1, <1>4, <1>5 DEF Parted

LEMMA PartedStep == BusInv /\ FeedInv /\ Parted /\ [Next]_vars => Parted'
<1> SUFFICES ASSUME BusInv, FeedInv, Parted, [Next]_vars PROVE Parted'
  OBVIOUS
<1>1. ASSUME UNCHANGED <<since, channel, published, failures>> PROVE Parted'
  BY <1>1 DEF Parted
<1>2. CASE UNCHANGED vars
  BY <1>1, <1>2 DEF vars
<1>3. ASSUME NEW id \in SubIds, DropReceiver(id) PROVE Parted'
  BY <1>1, <1>3 DEF DropReceiver
<1>4. CASE Skip
  BY <1>1, <1>4 DEF Skip
<1>5. CASE PublishReturns
  BY <1>1, <1>5 DEF PublishReturns
<1> QED
  BY <1>2, <1>3, <1>4, <1>5, PartedSubscribe, PartedBegins, PartedDeliver, PartedPrune
  DEF Next

\* However receivers come and go while publish walks, a subscriber that went away
\* fails one publication at most, one that it would have received, and was sent all
\* that it was due before and nothing since.
THEOREM FailedOnce == Spec => []FailsOnce
<1>1. Init => Parted
  BY DEF Init, Parted
<1>2. BusInv /\ FeedInv /\ Parted => FailsOnce
  <2> SUFFICES ASSUME BusInv, FeedInv, Parted, NEW f \in 1 .. Len(failures)
               PROVE  /\ failures[f].event \in Matching(failures[f])
                      /\ channel[failures[f].id] = Due(failures[f], failures[f].event - 1)
    <3>1. DOMAIN failures = 1 .. Len(failures)
      BY DEF BusInv, TypeOK
    <3> QED BY <3>1 DEF BusInv, FailsOnce
  <2>1. failures[f].event \in DOMAIN published
    BY FailureFacts, BusFacts
  <2>2. since[failures[f].id] < failures[f].event
    BY DEF BusInv
  <2>3. failures[f].event > since[failures[f].id]
    BY <2>2, FailureFacts
  <2> QED BY <2>1, <2>3 DEF Parted, Matching, Due, DueOf
<1> QED BY <1>1, <1>2, InitBus, BusStep, FeedInit, FeedStep, PartedStep, PTL DEF Spec

-----------------------------------------------------------------------------
(* The report.                                                             *)

\* The subscriptions the last event reached, and the deliveries of it that failed.
Got == {id \in SubIds : channel[id] # <<>> /\ Last(channel[id]) = Len(published)}
Missed == {i \in DOMAIN failures : failures[i].event = Len(published)}

LEMMA ReportFields ==
  ASSUME BusInv
  PROVE  /\ report \in [{"attempted", "delivered", "failed", "skipped"} -> Nat]
         /\ report.attempted \in Nat /\ report.delivered \in Nat
         /\ report.failed \in Nat /\ report.skipped \in Nat
         /\ walk \in Nat
         /\ IsFiniteSet(Got) /\ Cardinality(Got) \in Nat
         /\ IsFiniteSet(Missed) /\ Cardinality(Missed) \in Nat
<1>1. report \in [{"attempted", "delivered", "failed", "skipped"} -> Nat]
  BY DEF BusInv, TypeOK, NoReport
<1>2. walk \in Nat
  BY DEF BusInv, TypeOK
<1>3. IsFiniteSet(SubIds) /\ IsFiniteSet(DOMAIN failures)
  <2>1. 1 \in Int /\ MaxSubs \in Int /\ Len(failures) \in Int
        /\ DOMAIN failures = 1 .. Len(failures)
    BY BusFacts
  <2> QED BY <2>1, FS_Interval DEF SubIds
<1>4. Got \in SUBSET SubIds /\ Missed \in SUBSET DOMAIN failures
  BY DEF Got, Missed
<1>5. IsFiniteSet(Got) /\ IsFiniteSet(Missed)
  BY <1>3, <1>4, FS_Subset
<1> QED BY <1>1, <1>2, <1>5, FS_CardinalityType

\* A new event has reached nobody and failed nowhere.
LEMMA ReportBegins ==
  ASSUME BusInv, FeedInv, NEW topic \in Topics, PublishBegins(topic)
  PROVE  ReportTrue'
<1>1. /\ walk' = 1 /\ report' = NoReport
      /\ published' = Append(published, topic)
      /\ UNCHANGED <<channel, failures>>
  BY DEF PublishBegins
<1>2. Len(published') = Len(published) + 1 /\ Len(published) \in Nat
  BY <1>1, BusFacts, AppendProperties
<1>3. Got' = {}
  <2> SUFFICES ASSUME NEW id \in SubIds, channel[id] # <<>>,
                      Last(channel[id]) = Len(published')
               PROVE  FALSE
    BY <1>1 DEF Got
  <2> DEFINE n == Len(published)
  <2>1. channel[id] \in Seq(1 .. n)
    BY DEF FeedInv, Sent
  <2>2. Last(channel[id]) \in 1 .. n
    BY <2>1 DEF Last
  <2> QED BY <1>2, <2>2
<1>4. Missed' = {}
  <2> SUFFICES ASSUME NEW i \in 1 .. Len(failures), failures[i].event = Len(published')
               PROVE  FALSE
    <3>1. failures' = failures /\ DOMAIN failures = 1 .. Len(failures)
      BY <1>1, BusFacts
    <3> QED BY <3>1 DEF Missed
  <2>1. failures[i].event <= Len(published)
    BY DEF FeedInv, Sent
  <2> QED BY <1>2, <2>1
<1>5. Cardinality(Got') = 0 /\ Cardinality(Missed') = 0
  BY <1>3, <1>4, FS_EmptySet
<1>6. /\ report'.delivered = 0 /\ report'.failed = 0
      /\ report'.attempted = 0 /\ report'.skipped = 0
  BY <1>1 DEF NoReport
<1> QED BY <1>1, <1>5, <1>6 DEF ReportTrue, Got, Missed

LEMMA ReportDeliver ==
  ASSUME BusInv, FeedInv, ReportTrue, Deliver
  PROVE  ReportTrue'
<1> DEFINE n == Len(published)
<1>1. /\ Walking /\ Wanted /\ walk' = walk + 1
      /\ channel' = [channel EXCEPT ![Here.id] = Append(channel[Here.id], n)]
      /\ report' = [report EXCEPT !.attempted = report.attempted + 1,
                                  !.delivered = report.delivered + 1]
      /\ UNCHANGED <<published, failures>>
  BY DEF Deliver
<1>2. /\ Here.id \in SubIds /\ n \in Nat /\ n - 1 \in Nat /\ walk # 0
      /\ channel[Here.id] \in Seq(1 .. (n - 1))
  BY <1>1, HereDue, HereTyped
<1>3. /\ channel'[Here.id] = Append(channel[Here.id], n)
      /\ \A id \in SubIds : id # Here.id => channel'[id] = channel[id]
  BY <1>1, <1>2, BusFacts
<1>4. Here.id \notin Got
  <2> SUFFICES ASSUME channel[Here.id] # <<>>, Last(channel[Here.id]) = n PROVE FALSE
    BY DEF Got
  <2>1. Last(channel[Here.id]) \in 1 .. (n - 1)
    BY <1>2 DEF Last
  <2> QED BY <1>2, <2>1
<1>5. channel'[Here.id] # <<>> /\ Last(channel'[Here.id]) = n
  <2> DEFINE old == channel[Here.id]  U == 1 .. (n - 1)
  <2>1. old \in Seq(U) /\ channel'[Here.id] = Append(old, n)
    BY <1>2, <1>3
  <2> HIDE DEF old, U, n
  <2>2. Append(old, n) # <<>> /\ Len(Append(old, n)) = Len(old) + 1
        /\ Append(old, n)[Len(old) + 1] = n
    BY <2>1, AppendProperties
  <2> QED BY <2>1, <2>2 DEF Last
<1>6. Got' = Got \cup {Here.id}
  BY <1>1, <1>2, <1>3, <1>5 DEF Got
<1>7. Cardinality(Got') = Cardinality(Got) + 1
  <2>1. IsFiniteSet(Got)
    BY ReportFields
  <2> QED BY <1>4, <1>6, <2>1, FS_AddElement
<1>8. Missed' = Missed
  BY <1>1 DEF Missed
<1>9. /\ report'.delivered = report.delivered + 1 /\ report'.failed = report.failed
      /\ report'.attempted = report.attempted + 1 /\ report'.skipped = report.skipped
  BY <1>1, ReportFields
<1>10. published # <<>>
  BY <1>2, BusFacts, <1>1, HereTyped
<1>11. /\ report.delivered = Cardinality(Got) /\ report.failed = Cardinality(Missed)
       /\ report.attempted = report.delivered + report.failed
       /\ walk - 1 = report.delivered + report.skipped
  BY <1>2, <1>10 DEF ReportTrue, Got, Missed
<1>12. /\ report.attempted \in Nat /\ report.delivered \in Nat
       /\ report.failed \in Nat /\ report.skipped \in Nat /\ walk \in Nat
  BY ReportFields
<1>13. /\ report'.delivered = Cardinality(Got') /\ report'.failed = Cardinality(Missed')
       /\ report'.attempted = report'.delivered + report'.failed
       /\ walk' - 1 = report'.delivered + report'.skipped
  <2>1. walk' = walk + 1
    BY <1>1
  <2> QED BY <2>1, <1>7, <1>8, <1>9, <1>11, <1>12
<1> QED BY <1>13 DEF ReportTrue, Got, Missed

LEMMA ReportPrune ==
  ASSUME BusInv, FeedInv, ReportTrue, Prune
  PROVE  ReportTrue'
<1> DEFINE n == Len(published)  new == [id |-> Here.id, filter |-> Here.filter, event |-> n]  k == Len(failures)
<1>1. /\ Walking /\ failures' = Append(failures, new)
      /\ report' = [report EXCEPT !.attempted = report.attempted + 1,
                                  !.failed = report.failed + 1]
      /\ UNCHANGED <<published, channel, walk>>
  BY DEF Prune, Failed
<1>2. Here.id \in SubIds /\ n \in 1 .. MaxEvents /\ walk # 0
  BY <1>1, HereTyped
<1>3. new \in Failure /\ new.event = n
  BY <1>1, FailureTyped
<1>4. /\ failures \in Seq(Failure) /\ k \in Nat /\ Len(failures') = k + 1
      /\ failures' \in Seq(Failure)
      /\ \A f \in 1 .. k : failures'[f] = failures[f]
      /\ failures'[k + 1] = new
  <2>1. failures \in Seq(Failure)
    BY BusFacts
  <2> HIDE DEF new
  <2> QED BY <1>1, <1>3, <2>1, AppendProperties
<1>5. DOMAIN failures = 1 .. k /\ DOMAIN failures' = 1 .. (k + 1)
  BY <1>4
<1>6. Missed' = Missed \cup {k + 1} /\ k + 1 \notin Missed
  <2> HIDE DEF new, n
  <2> QED BY <1>1, <1>3, <1>4, <1>5 DEF Missed, n
<1>7. Cardinality(Missed') = Cardinality(Missed) + 1
  <2>1. IsFiniteSet(Missed)
    BY ReportFields
  <2> QED BY <1>6, <2>1, FS_AddElement
<1>8. Got' = Got
  BY <1>1 DEF Got
<1>9. /\ report'.delivered = report.delivered /\ report'.failed = report.failed + 1
      /\ report'.attempted = report.attempted + 1 /\ report'.skipped = report.skipped
  BY <1>1, ReportFields
<1>10. published # <<>>
  BY <1>2, BusFacts
<1>11. /\ report.delivered = Cardinality(Got) /\ report.failed = Cardinality(Missed)
       /\ report.attempted = report.delivered + report.failed
       /\ walk - 1 = report.delivered + report.skipped
  BY <1>2, <1>10 DEF ReportTrue, Got, Missed
<1>12. /\ report.attempted \in Nat /\ report.delivered \in Nat
       /\ report.failed \in Nat /\ report.skipped \in Nat /\ walk \in Nat
  BY ReportFields
<1>13. /\ report'.delivered = Cardinality(Got') /\ report'.failed = Cardinality(Missed')
       /\ report'.attempted = report'.delivered + report'.failed
       /\ walk' - 1 = report'.delivered + report'.skipped
  <2>1. walk' = walk
    BY <1>1
  <2> QED BY <2>1, <1>7, <1>8, <1>9, <1>11, <1>12
<1> QED BY <1>13 DEF ReportTrue, Got, Missed

LEMMA ReportSkip ==
  ASSUME BusInv, FeedInv, ReportTrue, Skip
  PROVE  ReportTrue'
<1>1. /\ Walking /\ walk' = walk + 1
      /\ report' = [report EXCEPT !.skipped = report.skipped + 1]
      /\ UNCHANGED <<published, channel, failures>>
  BY DEF Skip
<1>2. Len(published) \in 1 .. MaxEvents /\ walk # 0
  BY <1>1, HereTyped
<1>3. published # <<>>
  BY <1>2, BusFacts
<1>4. /\ report.delivered = Cardinality(Got) /\ report.failed = Cardinality(Missed)
      /\ report.attempted = report.delivered + report.failed
      /\ walk - 1 = report.delivered + report.skipped
  BY <1>2, <1>3 DEF ReportTrue, Got, Missed
<1>5. /\ report'.delivered = report.delivered /\ report'.failed = report.failed
      /\ report'.attempted = report.attempted /\ report'.skipped = report.skipped + 1
      /\ report.delivered \in Nat /\ report.skipped \in Nat /\ walk \in Nat
  BY <1>1, ReportFields
<1>6. Got' = Got /\ Missed' = Missed
  BY <1>1 DEF Got, Missed
<1>7. /\ report'.delivered = Cardinality(Got') /\ report'.failed = Cardinality(Missed')
      /\ report'.attempted = report'.delivered + report'.failed
      /\ walk' - 1 = report'.delivered + report'.skipped
  BY <1>1, <1>4, <1>5, <1>6
<1> QED BY <1>7 DEF ReportTrue, Got, Missed

LEMMA ReportStep == BusInv /\ FeedInv /\ ReportTrue /\ [Next]_vars => ReportTrue'
<1> SUFFICES ASSUME BusInv, FeedInv, ReportTrue, [Next]_vars PROVE ReportTrue'
  OBVIOUS
<1>1. CASE UNCHANGED vars
  BY <1>1 DEF vars, ReportTrue
<1>2. CASE \E filter \in Filter : Subscribe(filter)
  BY <1>2 DEF Subscribe, ReportTrue
<1>3. CASE \E id \in SubIds : DropReceiver(id)
  BY <1>3 DEF DropReceiver, ReportTrue
<1>4. CASE PublishReturns
  BY <1>4 DEF PublishReturns, ReportTrue
<1> QED
  BY <1>1, <1>2, <1>3, <1>4, ReportBegins, ReportDeliver, ReportPrune, ReportSkip DEF Next

\* At any moment of a publication its report says how many subscribers have been
\* sent the event, how many were found gone, and how far publish is.
THEOREM ReportTrueHolds == Spec => []ReportTrue
<1>1. Init => ReportTrue
  BY DEF Init, ReportTrue
<1> QED
  BY <1>1, InitBus, BusStep, FeedInit, FeedStep, ReportStep, PTL DEF Spec
=============================================================================
