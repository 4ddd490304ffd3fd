------------------------------- MODULE EventBus -------------------------------
(***************************************************************************)
(* EventBus (crates/runtime-core): subscriptions by topic or by prefix,     *)
(* each with a channel of its own.  subscribe and publish take the bus      *)
(* mutably and do not overlap, but receivers live elsewhere and are dropped *)
(* at any moment, also while publish walks over the subscriptions.  When a  *)
(* receiver takes an event out of its channel makes no difference to the    *)
(* bus, so a channel is the sequence of all that was sent into it.          *)
(***************************************************************************)
EXTENDS Naturals, Sequences, SequencesExt, FiniteSets, Subsequences

CONSTANTS
  Topics,         \* topics, as sequences of characters
  PrefixPatterns, \* patterns of subscribe_prefix
  MaxSubs,        \* bound: subscriptions made
  MaxEvents       \* bound: events published

ASSUME BusAssumption == MaxSubs \in Nat /\ MaxEvents \in Nat

VARIABLES
  subscriptions, \* the subscriptions in the order made, without the pruned ones
  since,         \* for each one made, how many events had been published before
  receivers,     \* those whose receiver still exists
  channel,       \* the events sent to each, by their position in published
  published,     \* the topics of the events published
  walk,          \* the position of publish in subscriptions, 0 when none runs
  report,        \* PublishReport of the publication in progress or the last one
  failures       \* the deliveries that failed, in order, of which subscription

vars == <<subscriptions, since, receivers, channel, published, walk, report, failures>>

Filter == [kind : {"exact"}, pattern : Topics] \cup
          [kind : {"prefix"}, pattern : PrefixPatterns]

SubIds == 1 .. MaxSubs
Subscription == [id : SubIds, filter : Filter]
NoReport == [attempted |-> 0, delivered |-> 0, failed |-> 0, skipped |-> 0]

TypeOK ==
  /\ subscriptions \in Seq(Subscription)
  /\ since \in Seq(Nat) /\ Len(since) <= MaxSubs
  /\ receivers \in SUBSET SubIds
  /\ channel \in [SubIds -> Seq(1 .. MaxEvents)]
  /\ published \in Seq(Topics) /\ Len(published) <= MaxEvents
  /\ walk \in 0 .. (Len(subscriptions) + 1)
  /\ report \in [DOMAIN NoReport -> Nat]
  /\ failures \in Seq([id : SubIds, filter : Filter, event : 1 .. MaxEvents])

Init ==
  /\ subscriptions = <<>> /\ since = <<>> /\ receivers = {}
  /\ channel = [s \in SubIds |-> <<>>]
  /\ published = <<>> /\ walk = 0 /\ report = NoReport /\ failures = <<>>

Matches(filter, topic) ==
  \/ filter.kind = "exact" /\ topic = filter.pattern
  \/ filter.kind = "prefix" /\ IsPrefix(filter.pattern, topic)

\* subscribe and subscribe_prefix.
Subscribe(filter) ==
  /\ walk = 0 /\ Len(since) < MaxSubs
  /\ LET id == Len(since) + 1
     IN /\ subscriptions' = Append(subscriptions, [id |-> id, filter |-> filter])
        /\ receivers' = receivers \cup {id}
  /\ since' = Append(since, Len(published))
  /\ UNCHANGED <<channel, published, walk, report, failures>>

DropReceiver(id) ==
  /\ id \in receivers
  /\ receivers' = receivers \ {id}
  /\ UNCHANGED <<subscriptions, since, channel, published, walk, report, failures>>

PublishBegins(topic) ==
  /\ walk = 0 /\ Len(published) < MaxEvents
  /\ published' = Append(published, topic)
  /\ walk' = 1
  /\ report' = NoReport
  /\ UNCHANGED <<subscriptions, since, receivers, channel, failures>>

\* The subscription publish is at, and whether it wants the event.
Walking == walk \in DOMAIN subscriptions
Here == subscriptions[walk]
Wanted == Matches(Here.filter, Last(published))

\* Faulty variant: the report calls a dead subscription delivered.
Deliver_Unchecked ==
  /\ Walking /\ Wanted
  /\ channel' = IF Here.id \in receivers
                THEN [channel EXCEPT ![Here.id] = Append(@, Len(published))]
                ELSE channel
  /\ report' = [report EXCEPT !.attempted = @ + 1, !.delivered = @ + 1]
  /\ walk' = walk + 1
  /\ UNCHANGED <<subscriptions, since, receivers, published, failures>>

Deliver ==
  /\ Walking /\ Wanted /\ Here.id \in receivers
  /\ channel' = [channel EXCEPT ![Here.id] = Append(@, Len(published))]
  /\ report' = [report EXCEPT !.attempted = @ + 1, !.delivered = @ + 1]
  /\ walk' = walk + 1
  /\ UNCHANGED <<subscriptions, since, receivers, published, failures>>

Failed ==
  /\ report' = [report EXCEPT !.attempted = @ + 1, !.failed = @ + 1]
  /\ failures' = Append(failures, [id |-> Here.id, filter |-> Here.filter,
                                   event |-> Len(published)])

\* Faulty variants: dead subscriptions are removed without looking at the topic;
\* after a removal the walk passes over the next one, as a loop over indices would.
Prune_AnyTopic ==
  /\ Walking /\ Here.id \notin receivers
  /\ subscriptions' = RemoveAt(subscriptions, walk)
  /\ Failed
  /\ UNCHANGED <<since, receivers, channel, published, walk>>

Prune_SkipsNext ==
  /\ Walking /\ Wanted /\ Here.id \notin receivers
  /\ subscriptions' = RemoveAt(subscriptions, walk)
  /\ Failed
  /\ walk' = walk + 1
  /\ UNCHANGED <<since, receivers, channel, published>>

Prune ==
  /\ Walking /\ Wanted /\ Here.id \notin receivers
  /\ subscriptions' = RemoveAt(subscriptions, walk)
  /\ Failed
  /\ UNCHANGED <<since, receivers, channel, published, walk>>

Skip ==
  /\ Walking /\ ~Wanted
  /\ report' = [report EXCEPT !.skipped = @ + 1]
  /\ walk' = walk + 1
  /\ UNCHANGED <<subscriptions, since, receivers, channel, published, failures>>

PublishReturns ==
  /\ walk > Len(subscriptions)
  /\ walk' = 0
  /\ UNCHANGED <<subscriptions, since, receivers, channel, published, report, failures>>

Next ==
  \/ \E filter \in Filter : Subscribe(filter)
  \/ \E id \in SubIds : DropReceiver(id)
  \/ \E topic \in Topics : PublishBegins(topic)
  \/ Deliver \/ Prune \/ Skip \/ PublishReturns

Spec == Init /\ [][Next]_vars

-----------------------------------------------------------------------------
\* The events a subscription (or one that failed) is there for: those that match it, published since it
\* was made.
Matching(sub) ==
  {i \in DOMAIN published : i > since[sub.id] /\ Matches(sub.filter, published[i])}

\* Those among the first n, in the order published.
Due(sub, n) == Only([i \in 1 .. n |-> i], Matching(sub))

\* How many publications have been at position i and passed it.
Upto(i) == IF walk # 0 /\ walk <= i THEN Len(published) - 1 ELSE Len(published)

\* A subscription that is listed has been sent every event that matches published
\* since it was made, each once and in order, whichever other subscribers come,
\* go, or are pruned around it in the middle of a publication; and whoever still
\* has a receiver is listed.
EveryMatchOnce ==
  /\ receivers \subseteq {subscriptions[i].id : i \in DOMAIN subscriptions}
  /\ \A i \in DOMAIN subscriptions :
       channel[subscriptions[i].id] = Due(subscriptions[i], Upto(i))

\* The report tells the truth about the publication it is of: what it counts as
\* delivered is in that many channels, what it counts as failed is gone, and it
\* has counted every subscription up to where publish is.
ReportTrue ==
  published # <<>> =>
    /\ report.delivered =
         Cardinality({id \in SubIds : channel[id] # <<>>
                                     /\ Last(channel[id]) = Len(published)})
    /\ report.failed =
         Cardinality({i \in DOMAIN failures : failures[i].event = Len(published)})
    /\ report.attempted = report.delivered + report.failed
    /\ walk # 0 => walk - 1 = report.delivered + report.skipped

\* A subscriber that went away makes at most one publication fail, and only one
\* that it would have received: made after it subscribed, on a topic its filter
\* matches.  Until then it was sent every event that matches, and nothing after.
FailsOnce ==
  \A i, j \in DOMAIN failures :
    LET gone == failures[i]
    IN /\ gone.id \notin receivers
       /\ i # j => gone.id # failures[j].id
       /\ gone.event \in Matching(gone)
       /\ channel[gone.id] = Due(gone, gone.event - 1)
=============================================================================
