----------------------------- MODULE SidecarFeed -----------------------------
(***************************************************************************)
(* What the kernel relies on when it talks to one transport: a feed of      *)
(* candidate events and one of evidence.  Both are queues that only the     *)
(* transport adds to, at their ends, and only while it is started, except   *)
(* for the reports of a stop; what is in them leaves from the front, to the *)
(* caller of a drain, or is denied by policy, or goes when the transport is *)
(* dropped.  SubprocessTransport implements this, and KernelRuntime uses no *)
(* more of its plugins' transports than this.                               *)
(***************************************************************************)
EXTENDS Naturals, Sequences

VARIABLES
  open,       \* the transport is started
  offered,    \* candidate events nobody has drained
  complaints  \* evidence events nobody has drained

feed == <<open, offered, complaints>>

MaxReports == 3  \* a stop reports at most: failed, timeout, killed

Init == open = FALSE /\ offered = <<>> /\ complaints = <<>>

\* later is queue with some elements put at its end.
Extends(later, queue) ==
  Len(later) >= Len(queue) /\ SubSeq(later, 1, Len(queue)) = queue

Opens == ~open /\ open' = TRUE /\ UNCHANGED <<offered, complaints>>

Offers ==
  /\ open /\ open' = open
  /\ Extends(offered', offered) /\ Len(offered') = Len(offered) + 1
  /\ UNCHANGED complaints

Complains ==
  /\ open /\ open' = open
  /\ Extends(complaints', complaints) /\ Len(complaints') = Len(complaints) + 1
  /\ UNCHANGED offered

\* A drain takes all candidates, or evidence from the front, or both.
Drained ==
  /\ open' = open
  /\ offered' \in {offered, <<>>}
  /\ \E n \in 0 .. Len(complaints) :
       complaints' = SubSeq(complaints, n + 1, Len(complaints))

\* Policy turns candidates into denials, which may come before evidence that is
\* still in the channel; nothing else moves.
Denied ==
  /\ open' = open
  /\ Len(offered') < Len(offered)
  /\ LET gone == Len(offered) - Len(offered')
     IN \E n \in 0 .. Len(complaints) :
          /\ Len(complaints') = Len(complaints) + gone
          /\ \A i \in 1 .. n : complaints'[i] = complaints[i]
          /\ \A i \in (n + 1) .. Len(complaints) : complaints'[i + gone] = complaints[i]

Closes ==
  /\ open /\ open' = FALSE
  /\ UNCHANGED offered
  /\ Extends(complaints', complaints)
  /\ Len(complaints') <= Len(complaints) + MaxReports

\* The transport is dropped with what nobody drained.
Dropped == open /\ open' = FALSE /\ offered' = <<>> /\ complaints' = <<>>

Next == Opens \/ Offers \/ Complains \/ Drained \/ Denied \/ Closes \/ Dropped

Spec == Init /\ [][Next]_feed
=============================================================================
