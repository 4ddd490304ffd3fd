----------------------------- MODULE MCRunClosure -----------------------------
(***************************************************************************)
(* The instance of RunClosure: plugins whose ids are prefixes of each other, *)
(* one whose id was taken, ill-formed manifests of every kind, topics that   *)
(* differ in a dot and an underscore only, two schemas for one of them.      *)
(***************************************************************************)
EXTENDS RunClosure

A == 97
B == 98
GoodHash == [scheme |-> "sha256:", digits |-> <<48, 70>>]

Plain(id, publishes) ==
  [id |-> id, publishes |-> publishes, subscribes |-> <<>>, claims |-> <<<<A>>>>,
   artifact_hash |-> GoodHash]

DotTopic == <<A, Dot, B>>
LineTopic == <<A, Underscore, B>>
ShortTopic == <<A>>

SomeManifests ==
  LET first == Plain(<<A>>, <<DotTopic, LineTopic>>)
  IN {first, Plain(<<A, B>>, <<ShortTopic>>), Plain(<<A, Space>>, <<>>),
      Plain(<<A>>, <<ShortTopic>>), Plain(<<Space>>, <<DotTopic>>),
      Plain(<<B>>, <<ShortTopic, ShortTopic>>),
      [first EXCEPT !.subscribes = <<ShortTopic, ShortTopic>>],
      [first EXCEPT !.claims = <<<<A>>, <<A>>>>],
      [first EXCEPT !.claims = <<<<A>>, <<Space, Space>>>>],
      [first EXCEPT !.artifact_hash = [scheme |-> "sha256:", digits |-> <<48>>]],
      [first EXCEPT !.artifact_hash = [scheme |-> "sha256:", digits |-> <<48, 103>>]]}

SomeSchemas ==
  {[topic |-> DotTopic, version |-> 1], [topic |-> DotTopic, version |-> 2],
   [topic |-> LineTopic, version |-> 1], [topic |-> ShortTopic, version |-> 1]}
=============================================================================
