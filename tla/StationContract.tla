---------------------------- MODULE StationContract ----------------------------
(***************************************************************************)
(* What the station promises to whoever reads a run afterwards: nothing     *)
(* that a plugin originates becomes authoritative - an artifact, a          *)
(* publication, a request to another plugin - unless policy admitted it     *)
(* before, of a plugin that was running then; no plugin runs that the       *)
(* profile does not permit; what a plugin says when its outputs are taken   *)
(* in is an answer to what it was asked; and the closure of the run is what *)
(* the run made.  How and when the methods of the kernel do this, and what  *)
(* fails in them, is left open.                                             *)
(***************************************************************************)
EXTENDS Naturals

CONSTANTS
  Plugins,
  Permitted, \* the plugins whose claims the profile permits
  Events     \* event envelopes: source, id, parent, trace

VARIABLES
  running,   \* the plugins that run
  heard,     \* the plugin whose outputs are being taken in, if any
  admitted,  \* the events policy admitted
  asked,     \* asked[p]: the events that were sent to p
  artifacts, \* the events whose payload is kept as an artifact
  published, \* the events that were published
  sealed,    \* the run is over
  closure    \* the events whose artifacts the closure of the run lists

vars == <<running, heard, admitted, asked, artifacts, published, sealed, closure>>

Init ==
  /\ running = {} /\ heard = {} /\ admitted = {} /\ asked = [p \in Plugins |-> {}]
  /\ artifacts = {} /\ published = {} /\ sealed = FALSE /\ closure = {}

\* The run goes on, and no plugin's outputs are being taken in.
Free == ~sealed /\ heard = {}

Starts(p) ==
  /\ Free /\ p \in Permitted \ running
  /\ running' = running \cup {p}
  /\ UNCHANGED <<heard, admitted, asked, artifacts, published, sealed, closure>>

Halts(p) ==
  /\ Free /\ p \in running
  /\ running' = running \ {p}
  /\ UNCHANGED <<heard, admitted, asked, artifacts, published, sealed, closure>>

Listens(p) ==
  /\ Free
  /\ heard' = {p}
  /\ UNCHANGED <<running, admitted, asked, artifacts, published, sealed, closure>>

TurnsAway ==
  /\ heard # {}
  /\ heard' = {}
  /\ UNCHANGED <<running, admitted, asked, artifacts, published, sealed, closure>>

Answers(e) == \E q \in asked[e.source] : q.id = e.parent /\ q.trace = e.trace

\* What a plugin that is heard says is its own, and an answer to what it was asked;
\* what the program around the station says in a plugin's name is up to it.
Admits(e) ==
  /\ ~sealed /\ e.source \in running
  /\ \A p \in heard : e.source = p /\ Answers(e)
  /\ admitted' = admitted \cup {e}
  /\ UNCHANGED <<running, heard, asked, artifacts, published, sealed, closure>>

Asks(p, e) ==
  /\ Free /\ e \in admitted
  /\ asked' = [asked EXCEPT ![p] = @ \cup {e}]
  /\ UNCHANGED <<running, heard, admitted, artifacts, published, sealed, closure>>

\* A publication may fail once its artifact is kept.
Publishes(e) ==
  /\ Free /\ e \in admitted
  /\ artifacts' = artifacts \cup {e}
  /\ published' \in {published, published \cup {e}}
  /\ UNCHANGED <<running, heard, admitted, asked, sealed, closure>>

Seals ==
  /\ Free /\ sealed' = TRUE
  /\ closure' = artifacts
  /\ UNCHANGED <<running, heard, admitted, asked, artifacts, published>>

Next ==
  \/ \E p \in Plugins :
       Starts(p) \/ Halts(p) \/ Listens(p) \/ \E e \in Events : Asks(p, e)
  \/ \E e \in Events : Admits(e) \/ Publishes(e)
  \/ TurnsAway \/ Seals

Spec == Init /\ [][Next]_vars
=============================================================================
