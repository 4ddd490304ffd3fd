------------------------- MODULE SubprocessTransport -------------------------
(***************************************************************************)
(* SubprocessTransport (crates/station-transport): one sidecar process, its *)
(* stdin, and two reader threads that move the lines of its stdout and      *)
(* stderr from their pipes into one channel.  The kernel's thread calls     *)
(* start, send, stop and the drains, one at a time; every call but start    *)
(* pumps the channel into two buffers before it goes on.  The child, the    *)
(* readers and the kernel's thread are the actors; each step below is one   *)
(* system call or one channel operation of one of them.                     *)
(*                                                                         *)
(* A pump's last try_recv, which finds the channel empty, is one step with  *)
(* what the call does next: a line or an exit that comes in between is not  *)
(* told apart from one that comes a moment later.                           *)
(***************************************************************************)
EXTENDS Naturals, Sequences, Subsequences

CONSTANTS
  StdoutKinds,   \* what the child writes to stdout: see LineKinds
  StderrKinds,   \* what it writes to stderr
  StdinCapacity, \* events the stdin pipe holds before a write blocks
  PipeCapacity,  \* lines the stdout and stderr pipes hold before a write blocks
  KillMayFail,   \* whether the host can refuse to kill the child
  MaxLines,      \* bound: lines of one stream in one session
  MaxSessions    \* bound: successful starts

Streams == {"stdout", "stderr"}

\* A candidate parses as an EventEnvelope, text does not, and a line that is
\* not UTF-8 is an error of BufRead::lines.
LineKinds == {"candidate", "text", "not_utf8"}

ASSUME TransportAssumption ==
  /\ StdoutKinds \subseteq LineKinds
  /\ StderrKinds \subseteq LineKinds \ {"candidate"}
  /\ StdinCapacity \in Nat /\ PipeCapacity \in Nat /\ StdinCapacity > 0
  /\ KillMayFail \in BOOLEAN
  /\ MaxLines \in Nat /\ MaxSessions \in Nat

VARIABLES
  state,       \* TransportState
  session,     \* how many times the transport was started
  child,       \* the process of this session, "none" once it is reaped
  stdin,       \* events in the stdin pipe
  stdinOpen,   \* child_stdin is Some
  written,     \* lines the child wrote in this session, per stream
  pipe,        \* lines in the pipe of each stream
  reader,      \* the reader thread of each stream
  hand,        \* the line a reader has read and not sent yet
  channel,     \* the lines of line_rx
  candidates,  \* candidate_events
  evidence,    \* evidence_events
  call,        \* what the kernel's thread is doing
  elapsed,     \* the shutdown timeout has passed since stop began to wait
  timedOut,    \* timed_out of stop
  taken,       \* what drains have returned, in order
  exits        \* how the child ended, for every session that was stopped

streamVars == <<written, pipe, reader, hand>>
bufferVars == <<candidates, evidence>>
waitVars == <<elapsed, timedOut>>
vars == <<state, session, child, stdin, stdinOpen, streamVars, channel,
          bufferVars, call, waitVars, taken, exits>>

Line == [session : Nat, stream : Streams, kind : LineKinds, n : Nat]

LineTopics == {"stderr", "stdout_parse_failed", "denied"}
ReportTopics == {"failed", "timeout", "killed"}
Report(topic) == [topic |-> topic, session |-> session]

\* "dying" has been sent a signal it cannot refuse; the last three have exited.
Alive == {"running", "dying"}
Exited == {"success", "failure", "killed"}

Calls == {"idle", "write", "send_pump", "drain_candidates", "drain_evidence",
          "stop_pump", "wait", "check", "kill", "reap", "last_pump"}
Pumping == {"send_pump", "drain_candidates", "drain_evidence", "stop_pump",
            "last_pump"}

NoLines == [s \in Streams |-> <<>>]

Init ==
  /\ state = "Stopped" /\ session = 0 /\ child = "none"
  /\ stdin = 0 /\ stdinOpen = FALSE
  /\ written = [s \in Streams |-> 0]
  /\ pipe = NoLines /\ hand = NoLines
  /\ reader = [s \in Streams |-> "none"]
  /\ channel = <<>> /\ candidates = <<>> /\ evidence = <<>>
  /\ call = "idle" /\ elapsed = FALSE /\ timedOut = FALSE
  /\ taken = [candidates |-> <<>>, evidence |-> <<>>]
  /\ exits = <<>>

-----------------------------------------------------------------------------
(* start and send.                                                         *)

\* A start that is refused (already started) or cannot spawn changes nothing.
\* The buffers survive a restart.
Start ==
  /\ call = "idle" /\ state = "Stopped" /\ session < MaxSessions
  /\ state' = "Started" /\ session' = session + 1
  /\ child' = "running" /\ stdin' = 0 /\ stdinOpen' = TRUE
  /\ written' = [s \in Streams |-> 0]
  /\ reader' = [s \in Streams |-> "reading"]
  /\ UNCHANGED <<pipe, hand, channel, bufferVars, call, waitVars, taken, exits>>

\* send fails at once when stdin is gone: after a stop that failed.
SendBegins ==
  /\ call = "idle" /\ state = "Started" /\ stdinOpen
  /\ call' = "write"
  /\ UNCHANGED <<state, session, child, stdin, stdinOpen, streamVars, channel,
                 bufferVars, waitVars, taken, exits>>

\* write_all blocks while the pipe is full and the child is there.
SendWrites ==
  /\ call = "write" /\ child \in Alive /\ stdin < StdinCapacity
  /\ stdin' = stdin + 1
  /\ call' = "send_pump"
  /\ UNCHANGED <<state, session, child, stdinOpen, streamVars, channel,
                 bufferVars, waitVars, taken, exits>>

\* The child is gone: a broken pipe, and send returns without pumping.
SendFails ==
  /\ call = "write" /\ child \notin Alive
  /\ call' = "idle"
  /\ UNCHANGED <<state, session, child, stdin, stdinOpen, streamVars, channel,
                 bufferVars, waitVars, taken, exits>>

FailureReport == IF child \in {"failure", "killed"} THEN <<Report("failed")>> ELSE <<>>

\* check_child_status, after the pump.
SendReturns ==
  /\ call = "send_pump" /\ channel = <<>>
  /\ evidence' = evidence \o FailureReport
  /\ call' = "idle"
  /\ UNCHANGED <<state, session, child, stdin, stdinOpen, streamVars, channel,
                 candidates, waitVars, taken, exits>>

-----------------------------------------------------------------------------
(* pump_sidecar_output and what drains the buffers.                        *)

\* Only a line of stdout that parses is a candidate; the others are evidence.
IsCandidate(line) == line.stream = "stdout" /\ line.kind = "candidate"

LineEvidence(line) ==
  [topic |-> IF line.stream = "stderr" THEN "stderr" ELSE "stdout_parse_failed",
   line |-> line]

\* Faulty variant: a line of stdout that does not parse is skipped.
Sorted_SkipsGarbage(line) ==
  /\ candidates' = IF IsCandidate(line) THEN Append(candidates, line) ELSE candidates
  /\ evidence' = IF line.stream = "stderr" THEN Append(evidence, LineEvidence(line))
                 ELSE evidence

Sorted(line) ==
  \/ /\ IsCandidate(line)
     /\ candidates' = Append(candidates, line)
     /\ UNCHANGED evidence
  \/ /\ ~IsCandidate(line)
     /\ evidence' = Append(evidence, LineEvidence(line))
     /\ UNCHANGED candidates

Pump ==
  /\ call \in Pumping /\ channel # <<>>
  /\ Sorted(Head(channel))
  /\ channel' = Tail(channel)
  /\ UNCHANGED <<state, session, child, stdin, stdinOpen, streamVars, call,
                 waitVars, taken, exits>>

DrainBegins(drain) ==
  /\ call = "idle" /\ drain \in {"drain_candidates", "drain_evidence"}
  /\ call' = drain
  /\ UNCHANGED <<state, session, child, stdin, stdinOpen, streamVars, channel,
                 bufferVars, waitVars, taken, exits>>

DrainCandidatesReturns ==
  /\ call = "drain_candidates" /\ channel = <<>>
  /\ taken' = [taken EXCEPT !.candidates = @ \o candidates]
  /\ candidates' = <<>> /\ call' = "idle"
  /\ UNCHANGED <<state, session, child, stdin, stdinOpen, streamVars, channel,
                 evidence, waitVars, exits>>

DrainEvidenceReturns ==
  /\ call = "drain_evidence" /\ channel = <<>>
  /\ taken' = [taken EXCEPT !.evidence = @ \o evidence]
  /\ evidence' = <<>> /\ call' = "idle"
  /\ UNCHANGED <<state, session, child, stdin, stdinOpen, streamVars, channel,
                 candidates, waitVars, exits>>

\* Faulty variant: a denied candidate leaves no evidence.
AdmitCandidates_Unrecorded(denied) ==
  /\ call = "idle"
  /\ denied \subseteq {candidates[i] : i \in DOMAIN candidates}
  /\ candidates' = Only(candidates, Line \ denied)
  /\ UNCHANGED <<state, session, child, stdin, stdinOpen, streamVars, channel,
                 evidence, call, waitVars, taken, exits>>

\* admit_candidate_events: the policy denies some of the candidates held.
AdmitCandidates(denied) ==
  /\ call = "idle"
  /\ denied \subseteq {candidates[i] : i \in DOMAIN candidates}
  /\ candidates' = Only(candidates, Line \ denied)
  /\ LET gone == Only(candidates, denied)
     IN evidence' = evidence \o
          [i \in 1 .. Len(gone) |-> [topic |-> "denied", line |-> gone[i]]]
  /\ UNCHANGED <<state, session, child, stdin, stdinOpen, streamVars, channel,
                 call, waitVars, taken, exits>>

-----------------------------------------------------------------------------
(* stop.                                                                   *)

StopBegins ==
  /\ call = "idle" /\ state = "Started"
  /\ call' = "stop_pump"
  /\ UNCHANGED <<state, session, child, stdin, stdinOpen, streamVars, channel,
                 bufferVars, waitVars, taken, exits>>

StopClosesStdin ==
  /\ call = "stop_pump" /\ channel = <<>>
  /\ stdinOpen' = FALSE /\ elapsed' = FALSE /\ timedOut' = FALSE
  /\ call' = "wait"
  /\ UNCHANGED <<state, session, child, stdin, streamVars, channel, bufferVars,
                 taken, exits>>

\* One round of the loop: try_wait, the deadline, the sleep.
StopTriesWait ==
  /\ call = "wait"
  /\ call' = IF child \in Exited THEN "last_pump" ELSE "check"
  /\ UNCHANGED <<state, session, child, stdin, stdinOpen, streamVars, channel,
                 bufferVars, waitVars, taken, exits>>

StopChecksDeadline ==
  /\ call = "check"
  /\ call' = IF elapsed THEN "kill" ELSE "wait"
  /\ timedOut' = elapsed
  /\ UNCHANGED <<state, session, child, stdin, stdinOpen, streamVars, channel,
                 bufferVars, elapsed, taken, exits>>

\* Faulty variant: timeout and kill are reported before the last pump.
StopKills_ReportsAtOnce ==
  /\ call = "kill"
  /\ child' = IF child = "running" THEN "dying" ELSE child
  /\ evidence' = evidence \o <<Report("timeout"), Report("killed")>>
  /\ call' = "reap"
  /\ UNCHANGED <<state, session, stdin, stdinOpen, streamVars, channel,
                 candidates, waitVars, taken, exits>>

\* A child that has exited since try_wait is still there to be signalled.
StopKills ==
  /\ call = "kill"
  /\ child' = IF child = "running" THEN "dying" ELSE child
  /\ call' = "reap"
  /\ UNCHANGED <<state, session, stdin, stdinOpen, streamVars, channel,
                 bufferVars, waitVars, taken, exits>>

\* Faulty variant: the transport counts as stopped although the child lives on.
StopCannotKill_Stopped ==
  /\ call = "kill" /\ KillMayFail /\ child = "running"
  /\ state' = "Stopped" /\ call' = "idle"
  /\ UNCHANGED <<session, child, stdin, stdinOpen, streamVars, channel,
                 bufferVars, waitVars, taken, exits>>

\* The transport stays Started, with its child and without its stdin.
StopCannotKill ==
  /\ call = "kill" /\ KillMayFail /\ child = "running"
  /\ call' = "idle"
  /\ UNCHANGED <<state, session, child, stdin, stdinOpen, streamVars, channel,
                 bufferVars, waitVars, taken, exits>>

StopReaps ==
  /\ call = "reap" /\ child \in Exited
  /\ call' = "last_pump"
  /\ UNCHANGED <<state, session, child, stdin, stdinOpen, streamVars, channel,
                 bufferVars, waitVars, taken, exits>>

StopReports ==
  FailureReport \o (IF timedOut THEN <<Report("timeout"), Report("killed")>> ELSE <<>>)

\* The receiver is dropped.  The readers are not waited for: what they hold and
\* what is still in the pipes never reaches a buffer, and the threads themselves
\* end at their next send or at the end of their pipe.
StopReturns ==
  /\ call = "last_pump" /\ channel = <<>>
  /\ evidence' = evidence \o StopReports
  /\ exits' = Append(exits, child)
  /\ state' = "Stopped" /\ child' = "none" /\ stdinOpen' = FALSE
  /\ reader' = [s \in Streams |-> "none"]
  /\ pipe' = NoLines /\ hand' = NoLines
  /\ call' = "idle"
  /\ UNCHANGED <<session, stdin, written, channel, candidates, waitVars, taken>>

Tick ==
  /\ call \in {"wait", "check"} /\ ~elapsed
  /\ elapsed' = TRUE
  /\ UNCHANGED <<state, session, child, stdin, stdinOpen, streamVars, channel,
                 bufferVars, call, timedOut, taken, exits>>

-----------------------------------------------------------------------------
(* The child and the reader threads.                                       *)

ChildReads ==
  /\ child = "running" /\ stdin > 0
  /\ stdin' = stdin - 1
  /\ UNCHANGED <<state, session, child, stdinOpen, streamVars, channel,
                 bufferVars, call, waitVars, taken, exits>>

\* A write to a pipe that nobody reads any more leaves nothing behind.
ChildWrites(s, kind) ==
  /\ child = "running" /\ written[s] < MaxLines
  /\ kind \in IF s = "stdout" THEN StdoutKinds ELSE StderrKinds
  /\ reader[s] = "reading" /\ Len(pipe[s]) < PipeCapacity
  /\ written' = [written EXCEPT ![s] = @ + 1]
  /\ pipe' = [pipe EXCEPT ![s] = Append(@,
       [session |-> session, stream |-> s, kind |-> kind, n |-> written[s] + 1])]
  /\ UNCHANGED <<state, session, child, stdin, stdinOpen, reader, hand, channel,
                 bufferVars, call, waitVars, taken, exits>>

ChildExits(status) ==
  /\ child \in Alive
  /\ status \in IF child = "dying" THEN {"killed"} ELSE {"success", "failure"}
  /\ child' = status
  /\ UNCHANGED <<state, session, stdin, stdinOpen, streamVars, channel,
                 bufferVars, call, waitVars, taken, exits>>

ReaderReads(s) ==
  /\ reader[s] = "reading" /\ hand[s] = <<>> /\ pipe[s] # <<>>
  /\ Head(pipe[s]).kind # "not_utf8"
  /\ hand' = [hand EXCEPT ![s] = <<Head(pipe[s])>>]
  /\ pipe' = [pipe EXCEPT ![s] = Tail(@)]
  /\ UNCHANGED <<state, session, child, stdin, stdinOpen, written, reader, channel,
                 bufferVars, call, waitVars, taken, exits>>

\* Faulty variant: the line is skipped and the thread goes on.
ReaderBreaks_Skips(s) ==
  /\ reader[s] = "reading" /\ hand[s] = <<>> /\ pipe[s] # <<>>
  /\ Head(pipe[s]).kind = "not_utf8"
  /\ pipe' = [pipe EXCEPT ![s] = Tail(@)]
  /\ UNCHANGED <<state, session, child, stdin, stdinOpen, written, reader, hand, channel,
                 bufferVars, call, waitVars, taken, exits>>

\* The thread ends at a line it cannot decode, and the pipe is closed with
\* whatever else it holds.
ReaderBreaks(s) ==
  /\ reader[s] = "reading" /\ hand[s] = <<>> /\ pipe[s] # <<>>
  /\ Head(pipe[s]).kind = "not_utf8"
  /\ reader' = [reader EXCEPT ![s] = "broken"]
  /\ pipe' = [pipe EXCEPT ![s] = <<>>]
  /\ UNCHANGED <<state, session, child, stdin, stdinOpen, written, hand, channel,
                 bufferVars, call, waitVars, taken, exits>>

\* Faulty variant: the channel is a stack.
ReaderSends_Overtakes(s) ==
  /\ hand[s] # <<>>
  /\ channel' = hand[s] \o channel
  /\ hand' = [hand EXCEPT ![s] = <<>>]
  /\ UNCHANGED <<state, session, child, stdin, stdinOpen, written, pipe, reader,
                 bufferVars, call, waitVars, taken, exits>>

ReaderSends(s) ==
  /\ hand[s] # <<>>
  /\ channel' = channel \o hand[s]
  /\ hand' = [hand EXCEPT ![s] = <<>>]
  /\ UNCHANGED <<state, session, child, stdin, stdinOpen, written, pipe, reader,
                 bufferVars, call, waitVars, taken, exits>>

\* End of file: the child has exited and the pipe is empty.
ReaderEnds(s) ==
  /\ reader[s] = "reading" /\ hand[s] = <<>> /\ pipe[s] = <<>>
  /\ child \in Exited
  /\ reader' = [reader EXCEPT ![s] = "ended"]
  /\ UNCHANGED <<state, session, child, stdin, stdinOpen, written, pipe, hand,
                 channel, bufferVars, call, waitVars, taken, exits>>

-----------------------------------------------------------------------------
Stop ==
  \/ StopBegins \/ StopClosesStdin \/ StopTriesWait \/ StopChecksDeadline
  \/ StopKills \/ StopCannotKill \/ StopReaps \/ StopReturns

Drain ==
  \/ \E drain \in Pumping : DrainBegins(drain)
  \/ DrainCandidatesReturns \/ DrainEvidenceReturns
  \/ \E denied \in SUBSET {candidates[i] : i \in DOMAIN candidates} :
       AdmitCandidates(denied)

Child ==
  \/ ChildReads
  \/ \E s \in Streams, kind \in LineKinds : ChildWrites(s, kind)
  \/ \E status \in Exited : ChildExits(status)

Reader(s) == ReaderReads(s) \/ ReaderBreaks(s) \/ ReaderSends(s) \/ ReaderEnds(s)

Next ==
  \/ Start \/ SendBegins \/ SendWrites \/ SendFails \/ SendReturns \/ Pump
  \/ Drain \/ Stop \/ Tick \/ Child
  \/ \E s \in Streams : Reader(s)

Spec == Init /\ [][Next]_vars

-----------------------------------------------------------------------------
(* The threads and who waits for whom.                                     *)

Progress == INSTANCE TransportProgress WITH
  MaxHeld <- 2 * MaxLines,
  started <- state = "Started",
  child <- IF child \in Exited THEN "exited" ELSE child,
  silent <- FALSE, wants <- "none",
  pipe <- [s \in Streams |-> Len(pipe[s])],
  hand <- [s \in Streams |-> Len(hand[s])],
  channel <- Len(channel)

\* Every step of the transport is a step of TransportProgress, so what is shown
\* there of who waits for whom is about this transport.
ImplementsProgress == Progress!Spec

-----------------------------------------------------------------------------
(* The feed that the kernel sees.                                          *)

CandidateLines == {line \in Line : IsCandidate(line)}

Feed == INSTANCE SidecarFeed WITH
  open <- state = "Started",
  offered <- candidates \o Only(channel, CandidateLines),
  complaints <-
    LET lines == Only(channel, Line \ CandidateLines)
    IN evidence \o [i \in 1 .. Len(lines) |-> LineEvidence(lines[i])]

\* The threads, the channel and the two buffers together are a feed: a line
\* counts as offered or complained about from the moment it is in the channel,
\* whoever pumps it, and none leaves but by a drain, a denial or a drop.
ImplementsFeed == Feed!Spec

-----------------------------------------------------------------------------
(* What callers may rely on.                                               *)

\* Every candidate and every piece of evidence the transport has produced.
AllCandidates == taken.candidates \o candidates
AllEvidence == taken.evidence \o evidence

IsLine(e) == e.topic \in LineTopics

\* The lines the kernel has heard: in a buffer, or returned by a drain.
Heard ==
  {AllCandidates[i] : i \in DOMAIN AllCandidates} \cup
  {AllEvidence[i].line : i \in {j \in DOMAIN AllEvidence : IsLine(AllEvidence[j])}}

\* The lines of a stream that are still on their way to the buffers, in order.
OnTheWay(s) ==
  Only(channel, {line \in Line : line.stream = s}) \o hand[s] \o pipe[s]

\* While a session lasts and the reader of a stream works, every line the child
\* wrote to that stream was heard or is on its way, and the lines on their way
\* are the last ones, in the order written: no thread drops, repeats or
\* overtakes a line, wherever the kernel's calls and the child's exit fall.
LinesConserved ==
  state = "Started" =>
    \A s \in Streams :
      reader[s] # "broken" =>
        LET way == OnTheWay(s)
            heard == written[s] - Len(way)
        IN /\ \A i \in DOMAIN way : way[i].n = heard + i /\ way[i].session = session
           /\ {line.n : line \in {l \in Heard : l.session = session /\ l.stream = s}}
                = 1 .. heard

\* What a stop or a broken reader loses is the end of a stream: of every session,
\* whatever was heard of a stream is all it wrote up to there.
LossIsATail ==
  \A line \in Heard, n \in 1 .. MaxLines :
    n < line.n =>
      \E l \in Heard : l.session = line.session /\ l.stream = line.stream /\ l.n = n

Earlier(a, b) == a.session < b.session \/ (a.session = b.session /\ a.n < b.n)

\* Callers get a stream's candidates, and its evidence, in the order written,
\* over drains (only a policy denial may come late), and no line
\* comes twice or as two things.
HeardInOrder ==
  /\ \A i, j \in DOMAIN AllCandidates :
       i < j => Earlier(AllCandidates[i], AllCandidates[j])
  /\ \A i, j \in DOMAIN AllEvidence :
       i < j /\ IsLine(AllEvidence[i]) /\ IsLine(AllEvidence[j]) =>
         /\ AllEvidence[i].line # AllEvidence[j].line
         /\ AllEvidence[i].topic = AllEvidence[j].topic
            /\ AllEvidence[i].topic # "denied"
            => Earlier(AllEvidence[i].line, AllEvidence[j].line)
  /\ \A i \in DOMAIN AllCandidates, j \in DOMAIN AllEvidence :
       IsLine(AllEvidence[j]) => AllEvidence[j].line # AllCandidates[i]

Reported(k, topics) ==
  \E f \in [DOMAIN topics -> DOMAIN AllEvidence] :
    /\ \A i \in DOMAIN topics :
         AllEvidence[f[i]] = [topic |-> topics[i], session |-> k]
    /\ \A i, j \in DOMAIN topics : i < j => f[i] < f[j]

\* How a session ended can be read from its evidence: a child that failed is
\* reported, one the stop had to kill with failure, timeout and kill in that
\* order, and one that exited well is never reported as failed.  With timeout and
\* kill the evidence of a session is complete: no line of it comes after them.
ExitsReported ==
  /\ \A k \in DOMAIN exits :
       /\ exits[k] = "failure" => Reported(k, <<"failed">>)
       /\ exits[k] = "killed" => Reported(k, <<"failed", "timeout", "killed">>)
       /\ exits[k] = "success" => ~Reported(k, <<"failed">>)
  /\ \A i, j \in DOMAIN AllEvidence :
       /\ AllEvidence[i].topic \in {"timeout", "killed"} /\ i < j
       /\ IsLine(AllEvidence[j]) /\ AllEvidence[j].topic # "denied"
       => AllEvidence[j].line.session > AllEvidence[i].session

=============================================================================
