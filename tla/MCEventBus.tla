------------------------------ MODULE MCEventBus ------------------------------
(***************************************************************************)
(* The instance of EventBus: two topics below one prefix, and a prefix that *)
(* is the whole of a topic.                                                *)
(***************************************************************************)
EXTENDS EventBus

TwoTopics == {<<"a", "x">>, <<"a", "y">>}
TwoPrefixes == {<<"a">>, <<"a", "x">>}
=============================================================================
