------------------------------- MODULE ReplayLog -------------------------------
(***************************************************************************)
(* JsonlReplayLog (crates/station-replay): the append-only file of records, *)
(* written through a buffer, that a run is reconstructed and verified from. *)
(*                                                                         *)
(* A record is one line, and a line reaches the file in pieces: a write can *)
(* fail, and the process can die, after any prefix of it.  What a failed    *)
(* append leaves in the buffer is written by the next append, or when the   *)
(* log is dropped.  The system under the file is assumed to keep what a     *)
(* write call has returned for (the code flushes, it does not sync).        *)
(***************************************************************************)
EXTENDS Integers, Sequences, SequencesExt, Subsequences

CONSTANTS
  MaxAppends,   \* bound: calls of append_record
  MaxFailures,  \* bound: write calls that fail
  MaxCrashes,   \* bound: processes that die
  MaxReopens    \* bound: times a log is opened again

ASSUME ReplayAssumption ==
  {MaxAppends, MaxFailures, MaxCrashes, MaxReopens} \subseteq Nat

VARIABLES
  file,       \* events.jsonl, as the pieces of lines written to it
  buffer,     \* the BufWriter's pieces that are not in the file
  isOpen,     \* a JsonlReplayLog exists
  nextIndex,  \* its next_index ...
  lastHash,   \* ... and its last_record_hash
  acked,      \* the records append_record returned Ok for
  appends,    \* calls of append_record so far
  failures, crashes, reopens,
  sealed      \* what seal_run read back, once it has

vars == <<file, buffer, isOpen, nextIndex, lastHash, acked, appends, failures,
          crashes, reopens, sealed>>

-----------------------------------------------------------------------------
(* Records and lines.                                                      *)

\* A digest covers the index, the event and the previous digest; one stands for
\* what it was computed from, so that different records have different digests.
RecordHash(r) == Append(r.previous, <<r.index, r.event>>)

NewRecord == [index |-> nextIndex, event |-> appends + 1, previous |-> lastHash]

Start(r) == [part |-> "start", record |-> r]
Rest(r) == [part |-> "rest", record |-> r]
Newline == [part |-> "newline"]
LineOf(r) == <<Start(r), Rest(r), Newline>>

\* Reading one more piece: a line that is complete and whole is a record, an
\* empty one is skipped, any other is a parse error.
ReadPiece(acc, piece) ==
  IF piece # Newline THEN [acc EXCEPT !.line = Append(@, piece)]
  ELSE IF acc.line = <<>> THEN acc
  ELSE LET r == acc.line[1].record
       IN [records |-> Append(acc.records, r), line |-> <<>>,
           ok |-> acc.ok /\ acc.line = <<Start(r), Rest(r)>>]

\* Reading from the start of the file: the records so far, the line not yet ended,
\* and whether every line so far was whole.
Scan(pieces) ==
  LET read[n \in 0 .. Len(pieces)] ==
        IF n = 0 THEN [records |-> <<>>, line |-> <<>>, ok |-> TRUE]
        ELSE ReadPiece(read[n - 1], pieces[n])
  IN read[Len(pieces)]

\* read_all_records: a last line without a newline counts as a line.
ReadBack(pieces) == Scan(Append(pieces, Newline))

\* verify_chain on records that parse: indices count up from 0 and each record
\* names the digest of the one before it.
ChainHolds(records) ==
  \A i \in DOMAIN records :
    /\ records[i].index = i - 1
    /\ records[i].previous = IF i = 1 THEN <<>> ELSE RecordHash(records[i - 1])

\* Faulty variant: a file is valid when its lines parse.
Verified_ParseOnly(pieces) == ReadBack(pieces).ok

Verified(pieces) == ReadBack(pieces).ok /\ ChainHolds(ReadBack(pieces).records)

-----------------------------------------------------------------------------
Unsealed == [status |-> "open"]

\* The kernel opens the log of a fresh run directory.
Init ==
  /\ file = <<>> /\ buffer = <<>>
  /\ isOpen = TRUE
  /\ nextIndex = 0 /\ lastHash = <<>>
  /\ acked = <<>>
  /\ appends = 0 /\ failures = 0 /\ crashes = 0 /\ reopens = 0
  /\ sealed = Unsealed

\* n pieces of pending get to the file; the buffer keeps the others.
WriteOut(pending, n) ==
  /\ n \in 0 .. Len(pending)
  /\ file' = file \o SubSeq(pending, 1, n)
  /\ buffer' = SubSeq(pending, n + 1, Len(pending))

\* The log can be appended to: the run it belongs to is not sealed.
Appending ==
  /\ isOpen /\ sealed = Unsealed
  /\ appends < MaxAppends
  /\ appends' = appends + 1

\* Faulty variant: the line is left to the buffer.
AppendRecord_Unflushed ==
  /\ Appending
  /\ WriteOut(buffer \o LineOf(NewRecord), 0)
  /\ nextIndex' = nextIndex + 1
  /\ lastHash' = RecordHash(NewRecord)
  /\ acked' = Append(acked, NewRecord)
  /\ UNCHANGED <<isOpen, failures, crashes, reopens, sealed>>

\* append_record: what the buffer still holds goes first.
AppendRecord ==
  /\ Appending
  /\ LET pending == buffer \o LineOf(NewRecord) IN WriteOut(pending, Len(pending))
  /\ nextIndex' = nextIndex + 1
  /\ lastHash' = RecordHash(NewRecord)
  /\ acked' = Append(acked, NewRecord)
  /\ UNCHANGED <<isOpen, failures, crashes, reopens, sealed>>

\* Faulty variant: the error of the write is swallowed.
AppendFails_Acknowledged(j, n) ==
  /\ Appending
  /\ failures < MaxFailures /\ failures' = failures + 1
  /\ LET pending == buffer \o SubSeq(LineOf(NewRecord), 1, j)
     IN WriteOut(pending, n) /\ (n < Len(pending) \/ j = 1)
  /\ nextIndex' = nextIndex + 1
  /\ lastHash' = RecordHash(NewRecord)
  /\ acked' = Append(acked, NewRecord)
  /\ UNCHANGED <<isOpen, crashes, reopens, sealed>>

\* append_record fails once j pieces of its line are in the buffer and n pieces
\* of that are in the file.  Nothing is taken out of the buffer, and index and
\* digest stay.  (j = 1 and all written: a long piece that bypasses the buffer
\* is cut short.)
AppendFails(j, n) ==
  /\ Appending
  /\ failures < MaxFailures /\ failures' = failures + 1
  /\ LET pending == buffer \o SubSeq(LineOf(NewRecord), 1, j)
     IN WriteOut(pending, n) /\ (n < Len(pending) \/ j = 1)
  /\ UNCHANGED <<isOpen, nextIndex, lastHash, acked, crashes, reopens, sealed>>

\* The log is dropped, which flushes the buffer and ignores an error.
Close(n) ==
  /\ isOpen /\ isOpen' = FALSE
  /\ n \in 0 .. Len(buffer)
  /\ file' = file \o SubSeq(buffer, 1, n)
  /\ IF n = Len(buffer) THEN UNCHANGED failures
     ELSE failures < MaxFailures /\ failures' = failures + 1
  /\ buffer' = <<>>
  /\ UNCHANGED <<nextIndex, lastHash, acked, appends, crashes, reopens, sealed>>

\* The process dies inside append_record, n pieces of what was to be written
\* being in the file; n = 0 is also a death outside of it.
Crash(n) ==
  /\ crashes < MaxCrashes /\ crashes' = crashes + 1
  /\ Appending
  /\ LET pending == buffer \o LineOf(NewRecord)
     IN n \in 0 .. Len(pending) /\ file' = file \o SubSeq(pending, 1, n)
  /\ isOpen' = FALSE /\ buffer' = <<>>
  /\ UNCHANGED <<nextIndex, lastHash, acked, failures, reopens, sealed>>

\* Faulty variant: the index of the last record is used again.
Open_LastIndex ==
  /\ ~isOpen /\ sealed = Unsealed
  /\ reopens < MaxReopens /\ reopens' = reopens + 1
  /\ ReadBack(file).ok
  /\ isOpen' = TRUE /\ buffer' = <<>>
  /\ LET records == ReadBack(file).records
     IN /\ nextIndex' = IF records = <<>> THEN 0 ELSE Last(records).index
        /\ lastHash' = IF records = <<>> THEN <<>> ELSE RecordHash(Last(records))
  /\ UNCHANGED <<file, acked, appends, failures, crashes, sealed>>

\* open: continues after the last record of a file whose lines all parse, and
\* gives an error for another file.  The chain is not verified.
Open ==
  /\ ~isOpen /\ sealed = Unsealed
  /\ reopens < MaxReopens /\ reopens' = reopens + 1
  /\ ReadBack(file).ok
  /\ isOpen' = TRUE /\ buffer' = <<>>
  /\ LET records == ReadBack(file).records
     IN /\ nextIndex' = IF records = <<>> THEN 0 ELSE Last(records).index + 1
        /\ lastHash' = IF records = <<>> THEN <<>> ELSE RecordHash(Last(records))
  /\ UNCHANGED <<file, acked, appends, failures, crashes, sealed>>

\* build_run_manifest reads the file back while the log still exists; the log is
\* dropped (Close) after that.
Seal ==
  /\ isOpen /\ sealed = Unsealed
  /\ sealed' = [status |-> "sealed", valid |-> Verified(file),
                records |-> IF Verified(file) THEN Len(ReadBack(file).records) ELSE 0]
  /\ UNCHANGED <<file, buffer, isOpen, nextIndex, lastHash, acked, appends, failures,
                 crashes, reopens>>

Next ==
  \/ AppendRecord
  \/ \E j \in 0 .. 3, n \in 0 .. (Len(buffer) + 3) : AppendFails(j, n)
  \/ \E n \in 0 .. Len(buffer) : Close(n)
  \/ \E n \in 0 .. (Len(buffer) + 3) : Crash(n)
  \/ Open
  \/ Seal

Spec == Init /\ [][Next]_vars

-----------------------------------------------------------------------------
(* Properties.                                                             *)

\* As long as no write fails and no process dies in one, the file holds exactly
\* the records that were acknowledged, and verifies, over any number of
\* sessions.
ReadBackIsAcked ==
  failures = 0 /\ crashes = 0 =>
    Verified(file) /\ ReadBack(file).records = acked

\* Whatever failed or died, a file that verifies has lost no record that was
\* acknowledged, and holds them in their order.
VerifiedHoldsAcked ==
  Verified(file) =>
    Only(ReadBack(file).records, Range(acked)) = acked

\* In the session of one kernel a manifest that calls the replay valid counts
\* the acknowledged records, and at most one more: the record of an append that
\* was reported as failed.
SealedCount ==
  reopens = 0 /\ sealed # Unsealed /\ sealed.valid =>
    sealed.records \in {Len(acked), Len(acked) + 1}

\* What the manifest says of the log stays true of the file, also when the log is
\* dropped after it, over any number of sessions in which no write failed: nothing
\* that was acknowledged is still in a buffer.
SealStaysTrue ==
  sealed # Unsealed /\ failures = 0 =>
    /\ sealed.valid = Verified(file)
    /\ sealed.valid => sealed.records = Len(ReadBack(file).records)

=============================================================================
