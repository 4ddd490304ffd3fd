-------------------------- MODULE TransportProgress --------------------------
(***************************************************************************)
(* Who waits for whom in SubprocessTransport: the kernel's thread inside a  *)
(* call, the child, the two reader threads, the shutdown timeout.  Lines    *)
(* and events are counted and nothing is kept of them once they are pumped, *)
(* so that a child can go on writing for ever; SubprocessTransport, which   *)
(* says what becomes of every line, implements this module.                 *)
(***************************************************************************)
EXTENDS Naturals

CONSTANTS
  StdinCapacity, \* events the stdin pipe holds before a write blocks
  PipeCapacity,  \* lines a stdout or stderr pipe holds before a write blocks
  KillMayFail,   \* whether the host can refuse to kill the child
  MaxHeld        \* bound: how far the child may write ahead of the pump

ASSUME ProgressAssumption ==
  /\ StdinCapacity \in Nat /\ PipeCapacity \in Nat /\ MaxHeld \in Nat
  /\ KillMayFail \in BOOLEAN

VARIABLES
  started,   \* TransportState is Started
  child,     \* the process: "none" once it is reaped
  silent,    \* the child will not write any more
  wants,     \* the stream the child is blocked writing to
  stdin,     \* events in the stdin pipe
  stdinOpen, \* child_stdin is Some
  pipe,      \* lines in the pipe of each stream
  reader,    \* the reader thread of each stream
  hand,      \* lines a reader has read and not sent yet
  channel,   \* lines in the channel
  call,      \* what the kernel's thread is doing
  elapsed    \* the shutdown timeout has passed

childVars == <<child, silent, wants>>
stdinVars == <<stdin, stdinOpen>>
readerVars == <<pipe, reader, hand>>
vars == <<started, childVars, stdinVars, readerVars, channel, call, elapsed>>

Streams == {"stdout", "stderr"}

Init ==
  /\ started = FALSE /\ child = "none" /\ silent = FALSE /\ wants = "none"
  /\ stdin = 0 /\ stdinOpen = FALSE
  /\ pipe = [s \in Streams |-> 0] /\ hand = [s \in Streams |-> 0]
  /\ reader = [s \in Streams |-> "none"]
  /\ channel = 0 /\ call = "idle" /\ elapsed = FALSE

-----------------------------------------------------------------------------
(* The kernel's thread.                                                    *)

Start ==
  /\ call = "idle" /\ ~started
  /\ started' = TRUE /\ child' = "running" /\ silent' = FALSE /\ wants' = "none"
  /\ stdin' = 0 /\ stdinOpen' = TRUE
  /\ reader' = [s \in Streams |-> "reading"]
  /\ UNCHANGED <<pipe, hand, channel, call, elapsed>>

Begins(next) ==
  /\ call = "idle"
  /\ \/ next = "write" /\ started /\ stdinOpen
     \/ next \in {"drain_candidates", "drain_evidence"}
     \/ next = "stop_pump" /\ started
  /\ call' = next
  /\ UNCHANGED <<started, childVars, stdinVars, readerVars, channel, elapsed>>

SendWrites ==
  /\ call = "write" /\ child \in {"running", "dying"} /\ stdin < StdinCapacity
  /\ stdin' = stdin + 1 /\ call' = "send_pump"
  /\ UNCHANGED <<started, childVars, stdinOpen, readerVars, channel, elapsed>>

SendFails ==
  /\ call = "write" /\ child \notin {"running", "dying"}
  /\ call' = "idle"
  /\ UNCHANGED <<started, childVars, stdinVars, readerVars, channel, elapsed>>

Pumping == {"send_pump", "drain_candidates", "drain_evidence", "stop_pump",
            "last_pump"}

Pump ==
  /\ call \in Pumping /\ channel > 0
  /\ channel' = channel - 1
  /\ UNCHANGED <<started, childVars, stdinVars, readerVars, call, elapsed>>

\* Faulty variant: the pump waits for the channel to be disconnected.
PumpEnds_AtDisconnect ==
  /\ call \in {"send_pump", "drain_candidates", "drain_evidence"} /\ channel = 0
  /\ \A s \in Streams : reader[s] # "reading"
  /\ call' = "idle"
  /\ UNCHANGED <<started, childVars, stdinVars, readerVars, channel, elapsed>>

\* The pump finds the channel empty, and the send or the drain returns.
PumpEnds ==
  /\ call \in {"send_pump", "drain_candidates", "drain_evidence"} /\ channel = 0
  /\ call' = "idle"
  /\ UNCHANGED <<started, childVars, stdinVars, readerVars, channel, elapsed>>

StopClosesStdin ==
  /\ call = "stop_pump" /\ channel = 0
  /\ stdinOpen' = FALSE /\ elapsed' = FALSE /\ call' = "wait"
  /\ UNCHANGED <<started, childVars, stdin, readerVars, channel>>

StopTriesWait ==
  /\ call = "wait"
  /\ call' = IF child = "exited" THEN "last_pump" ELSE "check"
  /\ UNCHANGED <<started, childVars, stdinVars, readerVars, channel, elapsed>>

\* Faulty variant: the loop has no deadline.
StopChecksDeadline_Never ==
  /\ call = "check"
  /\ call' = "wait"
  /\ UNCHANGED <<started, childVars, stdinVars, readerVars, channel, elapsed>>

StopChecksDeadline ==
  /\ call = "check"
  /\ call' = IF elapsed THEN "kill" ELSE "wait"
  /\ UNCHANGED <<started, childVars, stdinVars, readerVars, channel, elapsed>>

StopKills ==
  /\ call = "kill"
  /\ child' = IF child = "running" THEN "dying" ELSE child
  /\ call' = "reap"
  /\ UNCHANGED <<started, silent, wants, stdinVars, readerVars, channel, elapsed>>

StopCannotKill ==
  /\ call = "kill" /\ KillMayFail /\ child = "running"
  /\ call' = "idle"
  /\ UNCHANGED <<started, childVars, stdinVars, readerVars, channel, elapsed>>

StopReaps ==
  /\ call = "reap" /\ child = "exited"
  /\ call' = "last_pump"
  /\ UNCHANGED <<started, childVars, stdinVars, readerVars, channel, elapsed>>

StopReturns ==
  /\ call = "last_pump" /\ channel = 0
  /\ started' = FALSE /\ child' = "none" /\ stdinOpen' = FALSE
  /\ reader' = [s \in Streams |-> "none"]
  /\ pipe' = [s \in Streams |-> 0] /\ hand' = [s \in Streams |-> 0]
  /\ call' = "idle"
  /\ UNCHANGED <<silent, wants, stdin, channel, elapsed>>

\* A call in progress goes on.
KernelStep ==
  \/ SendWrites \/ SendFails \/ Pump \/ PumpEnds
  \/ StopClosesStdin \/ StopTriesWait \/ StopChecksDeadline
  \/ StopKills \/ StopCannotKill \/ StopReaps \/ StopReturns

Tick ==
  /\ call \in {"wait", "check"} /\ ~elapsed
  /\ elapsed' = TRUE
  /\ UNCHANGED <<started, childVars, stdinVars, readerVars, channel, call>>

-----------------------------------------------------------------------------
(* The child, single-threaded: while a write blocks it does not read.      *)

ChildReads ==
  /\ child = "running" /\ wants = "none" /\ stdin > 0
  /\ stdin' = stdin - 1
  /\ UNCHANGED <<started, childVars, stdinOpen, readerVars, channel, call, elapsed>>

Held == pipe["stdout"] + pipe["stderr"] + hand["stdout"] + hand["stderr"] + channel

ChildWrites(s) ==
  /\ child = "running" /\ ~silent
  /\ wants = s \/ (wants = "none" /\ Held < MaxHeld)
  /\ reader[s] = "reading" /\ pipe[s] < PipeCapacity
  /\ pipe' = [pipe EXCEPT ![s] = @ + 1]
  /\ wants' = "none"
  /\ UNCHANGED <<started, child, silent, stdinVars, reader, hand, channel, call, elapsed>>

ChildBlocks(s) ==
  /\ child = "running" /\ wants = "none" /\ ~silent /\ Held < MaxHeld
  /\ reader[s] = "reading" /\ pipe[s] = PipeCapacity
  /\ wants' = s
  /\ UNCHANGED <<started, child, silent, stdinVars, readerVars, channel, call, elapsed>>

ChildFallsSilent ==
  /\ child = "running" /\ wants = "none" /\ ~silent
  /\ silent' = TRUE
  /\ UNCHANGED <<started, child, wants, stdinVars, readerVars, channel, call, elapsed>>

ChildExits ==
  /\ child \in {"running", "dying"}
  /\ child' = "exited"
  /\ UNCHANGED <<started, silent, wants, stdinVars, readerVars, channel, call, elapsed>>

\* The signal that cannot be refused takes effect.
ChildDies == child = "dying" /\ ChildExits

-----------------------------------------------------------------------------
(* The reader threads.                                                     *)

ReaderReads(s) ==
  /\ reader[s] = "reading" /\ hand[s] = 0 /\ pipe[s] > 0
  /\ hand' = [hand EXCEPT ![s] = 1]
  /\ pipe' = [pipe EXCEPT ![s] = @ - 1]
  /\ UNCHANGED <<started, childVars, stdinVars, reader, channel, call, elapsed>>

\* At a line that is not UTF-8 the pipe is closed, and a child blocked on it is
\* released by an error.
ReaderBreaks(s) ==
  /\ reader[s] = "reading" /\ hand[s] = 0 /\ pipe[s] > 0
  /\ reader' = [reader EXCEPT ![s] = "broken"]
  /\ pipe' = [pipe EXCEPT ![s] = 0]
  /\ wants' = IF wants = s THEN "none" ELSE wants
  /\ UNCHANGED <<started, child, silent, stdinVars, hand, channel, call, elapsed>>

\* Faulty variant: the channel is bounded and a full one blocks the reader.
ReaderSends_Bounded(s) ==
  /\ hand[s] = 1 /\ channel < 1
  /\ channel' = channel + 1
  /\ hand' = [hand EXCEPT ![s] = 0]
  /\ UNCHANGED <<started, childVars, stdinVars, pipe, reader, call, elapsed>>

\* The channel is unbounded: a reader never waits for the kernel.
ReaderSends(s) ==
  /\ hand[s] = 1
  /\ channel' = channel + 1
  /\ hand' = [hand EXCEPT ![s] = 0]
  /\ UNCHANGED <<started, childVars, stdinVars, pipe, reader, call, elapsed>>

ReaderEnds(s) ==
  /\ reader[s] = "reading" /\ hand[s] = 0 /\ pipe[s] = 0 /\ child = "exited"
  /\ reader' = [reader EXCEPT ![s] = "ended"]
  /\ UNCHANGED <<started, childVars, stdinVars, pipe, hand, channel, call, elapsed>>

Reader(s) == ReaderReads(s) \/ ReaderBreaks(s) \/ ReaderSends(s) \/ ReaderEnds(s)

-----------------------------------------------------------------------------
Next ==
  \/ Start \/ \E next \in {"write"} \cup Pumping : Begins(next)
  \/ KernelStep \/ Tick
  \/ ChildReads \/ ChildFallsSilent \/ ChildExits
  \/ \E s \in Streams : ChildWrites(s) \/ ChildBlocks(s) \/ Reader(s)

Spec == Init /\ [][Next]_vars

\* The scheduler runs a thread that can go on, time passes, and a killed process
\* dies.  Callers owe nothing, and neither does the child.
Fairness ==
  /\ WF_vars(KernelStep) /\ WF_vars(Tick) /\ WF_vars(ChildDies)
  /\ \A s \in Streams : WF_vars(Reader(s))

FairSpec == Spec /\ Fairness

\* A child that reads its stdin again and again, when it is not writing, and
\* goes on with a write when there is room.
AttentiveChild ==
  /\ SF_vars(ChildReads)
  /\ \A s \in Streams : SF_vars(wants = s /\ ChildWrites(s))

-----------------------------------------------------------------------------
(* What returns, and when.                                                 *)

\* stop: "waits cooperatively", "kills and reaps child on timeout".  Once stop
\* waits it returns, whatever the child does or does not do.
WaitReturns ==
  call \in {"wait", "check", "kill", "reap", "last_pump"} ~> call = "idle"

\* A child that has fallen silent, or is gone, keeps nobody pumping: every send,
\* drain and stop that has begun to pump returns.  (A child that writes as fast as
\* the kernel pumps keeps it pumping: not even the timeout of a stop ends that.)
PumpReturns ==
  call \in Pumping /\ (silent \/ child \in {"exited", "none"}) ~> call = "idle"

\* A child that keeps reading cannot make send wait for ever, even when it fills
\* its own stdout and stderr while the kernel is in the write: the readers
\* empty these pipes without the kernel.
SendReturnsToReader == AttentiveChild => (call = "write" ~> call # "write")
=============================================================================
