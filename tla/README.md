# A TLA+ model of the TNSR research station

The station runs plugins (some in the kernel's process, some as sidecar
processes) under a kernel that admits their events by policy, records every
decision in a hash-chained replay log, and seals a run with a manifest. Its
central claim is that *no plugin-originating event becomes authoritative until it
is admitted by policy, recorded into replay, and included in run closure*
(`README.md:9`). This directory states that claim, and what it rests on, as TLA+:
modules that follow the Rust code, instances that TLC checks, and theorems that
TLAPS checks for every instance.

Paths below are relative to the repository; `kernel` stands for
`crates/station-kernel/src`.

## 1. Inventory

| Component | State it keeps | Operations | Correct when |
|---|---|---|---|
| kernel runtime (`kernel/runtime.rs`) | the context below | `register_plugins`, `register_schemas`, `start_plugin`, `stop_plugin`, `admit`, `publish_admitted`, `send_to_plugin`, `drain_plugin_outputs`, `seal_run` | every way out of a method leaves supervisor, transports, ledger, log and tokens consistent |
| admission (`kernel/admission.rs`) | none; makes `AdmittedEvent` tokens | `admit_and_record` | a token exists only for a recorded admission |
| run closure (`kernel/closure.rs`, `station-run`) | the `RunManifest` | `seal_run`, `build_run_manifest` | the manifest counts the log and lists every plugin, schema and artifact, in one order |
| supervisor (`station-supervisor`) | state per plugin, manifests, permissions | `register_plugin`, `transition`, `state_of` | histories follow the table; permissions are respected |
| policy engine (`station-policy`) | none | `admit_event` | admits only events of running plugins, on declared topics, that pass the schema |
| plugin registry | manifests by id | `register`, `can_publish`, `can_subscribe` | ids are unique |
| schema registry | schemas by topic | `register`, `attach_schema_hash`, `validate` | topics are unique; payloads are validated |
| event bus (`runtime-core`) | subscriptions | `subscribe`, `subscribe_prefix`, `publish` | every live matching subscriber receives the event once; dead ones are pruned |
| artifact ledger | records in order | `record`, `record_bytes` | append-only |
| replay log (`station-replay`) | file, write buffer, next index, last digest | `open`, `append_record`, `read_all_records`, `verify_chain`, drop | an acknowledged record can be read back; tampering and loss are detected |
| subprocess transport (`station-transport`) | child, its stdin, a channel fed by two reader threads, two buffers | `start`, `send`, `drain_*`, `stop` | lines become candidates or evidence once and in order; `stop` returns |
| files of a sidecar (`resolve_profile_path`, `resolve_bounded_working_dir`, `sidecar_args_hash` in `kernel/runtime.rs`, `kernel/context.rs`) | none of its own; the file system | resolve, hash, compare, spawn | what runs is what the manifest's author signed, in the workspace |
| local and null transports | started or not | the same | - |
| stub transports (WebSocket, gRPC, ConnectRPC, Pyro5, WASM, FFI) | unreachable: the factory refuses them | - | - |
| adapters, bridges, telemetry | none | - | - |

How they interact: everything but the sidecars is called synchronously through
one `&mut KernelRuntime`, so methods do not overlap. What makes them hard is that
each appends several records to the replay log between its changes of state and
returns at the first append that fails (`?`), or at the first other error,
leaving in place what it did before. Real concurrency is that of the sidecar
processes and of the two reader threads each of them has.

The hard behaviours, with their lines, are the `hazards` of `PROJECT.json`:
methods that fail half-way; tokens, subscriptions and in-flight requests that
outlive what they were made for; evidence that arrives while it is being
drained; a log file under failing writes, deaths and reopening; the order of
sealing and dropping; and, in the subprocess transport, reader threads that are
not joined, a timeout that races with an exit, unbounded pumping and blocking
writes.

## 2. The modules

| Module | What it is |
|---|---|
| `SupervisorRules` | transition table and permission checks; no state of its own |
| `KernelRuntime` | the kernel's state and one action (or chain of actions) per method, and the sidecars as the kernel sees them |
| `KernelProperties` | what `KernelRuntime` promises, its two refinement mappings, and what the README says beyond that |
| `StationContract` | abstract: what a reader of a finished run may rely on; `KernelRuntime` implements it |
| `SidecarFeed` | abstract: the queue of candidates and the queue of evidence a transport is to the kernel; `SubprocessTransport` implements it, and `KernelRuntime` uses no more than it |
| `SubprocessTransport` | the child, its pipes, two reader threads, the channel and the buffers, step by step |
| `TransportProgress` | abstract: the same processes with lines counted instead of kept, for liveness; `SubprocessTransport` implements it |
| `ReplayLog` | the log as a file: pieces of lines, a buffer, failing writes, deaths, reopening, sealing |
| `EventBus` | subscriptions and a publication that walks over them while receivers are dropped |
| `SchemaRegistry` | schemas, schema files, hashes, and the validation of payloads |
| `RunClosure` | registration checks of manifests, ledger records, and the lists of the run manifest |
| `SidecarFiles` | resolution of paths, the two hashes of a sidecar, and what the child then opens |
| `MCKernel`, `MCEventBus`, `MCSchemaRegistry`, `MCRunClosure`, `MCSidecarFiles` | the instances |
| `Subsequences` | the elements of a sequence that are in a set, as the code's `retain`-like loops and the properties need them |
| `KernelProofs` | theorems about `KernelRuntime`: types, lifecycle and feeds; authority and contract; what the log tells |
| `TransportProofs`, `ReplayProofs`, `EventBusProofs`, `SchemaProofs`, `ClosureProofs`, `FilesProofs` | theorems about `SubprocessTransport`, `ReplayLog`, `EventBus`, `SchemaRegistry`, `RunClosure`, `SidecarFiles` |
| `SequenceLemmas` | induction, and what the theorems need of sequences |

How they are composed:

```
StationContract  <=proved=  KernelRuntime  =proved uses only=>  SidecarFeed
                                                                    ^ proved
TransportProgress  <=proved=  SubprocessTransport  -----------------+
```

`KernelRuntime` takes the answers of the smaller modules as follows: an append
works or fails (`ReplayLog` says what the file then holds), a payload passes or
not (`SchemaRegistry` says when), a manifest is well-formed or not
(`RunClosure`), its hashes match or not (`SidecarFiles`), a transport is a feed
(`SubprocessTransport`), a topic has a subscription without a receiver or not
(`EventBus`).

### KernelRuntime

| Variable | Code |
|---|---|
| `pstate` | `StationSupervisor::plugins` (and membership of the registry: both change together) |
| `schemas` | topics of `SchemaRegistry` |
| `transports` | keys of `KernelContext::transports` |
| `outbox`, `stderr` | the candidate and evidence buffers of a transport together with the lines its channel holds |
| `lines` | counts the evidence a plugin's sidecars gave rise to, so that loss and reordering can be stated |
| `inflight` | `inflight_by_plugin` |
| `dead` | subscriptions in the bus whose receiver is gone |
| `ledger` | the artifact ledger |
| `log` | the records for which `append_record` returned `Ok`, in order |
| `tokens` | the `AdmittedEvent`s handed to callers, who may clone and keep them |
| `nextId` | the next fresh event id |
| `call` | the iteration of `register_plugins` or `drain_plugin_outputs` in progress |
| `manifest` | the sealed manifest |
| `faults` | how many appends have failed |

A method is one action. It lists the records it is going to append and chooses
how many of the appends succeed (`Append_k`); the state it leaves is the one the
code leaves at that point, for instance `Traverse` for a move of the supervisor
before, and a record after. The two methods with loops are a chain of actions,
one per iteration, during which `call` keeps other methods out but not the
sidecars. A method that fails before it changes or appends anything is a
stuttering step.

What the code decides from the host (does the command resolve, does the hash
match, can the child be spawned, written to, killed) is a choice from the constant
`HostFailures`. Manifests, claims, permissions, profile and schema files are
constants. A payload is reduced to whether it passes the schema of its topic; ids
and positions in the log stand for ULIDs (`policy_event_id` is the position of
the admission record). `published` records carry the token's decision as the
envelope in the log carries `policy_event_id`.

A caller may call any method at any moment, use a token any number of times, and
`admit` any envelope: in any plugin's name, root or derived (`child_of`, or fields
set by hand), with a known or a fresh id, offered before or not. `Envelopes` is
the set of those a run lets callers offer; it is a bound, and the theorems hold for
every set of events:

| Run | `Envelopes` |
|---|---|
| `kernel_lifecycle` | none; the run is about starts and stops |
| `kernel_publication`, `kernel_double_publish` | any first root event; a second, valid one of the adapter, root or derived from the first |
| `kernel_sidecar` | a root event of the local plugin, and events derived from it in either plugin's name |
| `kernel_batch` | a root event, and events derived from it |

An in-flight request is kept under its event id, and a request with the same id
replaces it (`Noted`). The runs send one event, so that replacement
happens only in the theorems.

### StationContract

`running`, `admitted`, `asked`, `artifacts`, `published`, `sealed` and `closure`
are sets that a reader of a run can take from the replay log, the supervisor, the
ledger and the manifest; `heard` is the plugin whose outputs a drain is taking in,
from `Listens` to `TurnsAway`. The mapping (`Contract` in `KernelProperties`) gives each
its value. The contract says: only permitted plugins start; only events of a plugin
that runs are admitted; what is admitted while a plugin is heard is that plugin's
own and answers something it was asked; only what was admitted before is asked or
published; the closure is what the run made; and nothing happens after the seal.

It says nothing of the parent of an event that a caller offers: `admit` takes any
envelope and does not look for a request, so a log alone does not tell an answer
from a derived event of the program around the station. Nor does it say that a token
must be used while its plugin still runs, or that an artifact is always published:
the code does not promise it.

### SubprocessTransport

| Variable | Code |
|---|---|
| `state` | `TransportState` |
| `session` | how often `start` succeeded |
| `child` | the process: running, told to die, exited well, badly or by the kill, or reaped |
| `stdin`, `stdinOpen` | events in the stdin pipe; `child_stdin` is `Some` |
| `written`, `pipe` | lines the child wrote, per stream, and those still in the pipe |
| `reader`, `hand` | the reader thread of each stream and the line it holds between `read_line` and `send` |
| `channel` | the channel behind `line_rx`, unbounded |
| `candidates`, `evidence` | `candidate_events`, `evidence_events` |
| `call` | where the kernel's thread is inside `send`, a drain or `stop` |
| `elapsed`, `timedOut` | the shutdown timeout has passed; `timed_out` of `stop` |
| `taken`, `exits` | what drains returned, and how each stopped session ended (history, for the properties) |

A step is one system call, one channel operation or one change of the struct, of
the child, of a reader thread or of the kernel's thread, and they interleave
freely. The child writes to either stream while its pipe has room, reads its stdin,
and exits well, badly or by a signal at any moment.
A line that is not UTF-8 ends its reader. A restart of the same
transport object is an action of the module, but at the bound `MaxSessions = 1`
of its run it does not happen: the kernel removes a transport from its map when it
stops the plugin and builds a new one for each start.

### TransportProgress

The same processes with lines counted, and with what has been pumped forgotten, so
that a child may write for ever and no answer about liveness is an effect of a
bound on lines. It adds to the child that it has one thread: `wants` is the stream
it is blocked on, and while it is blocked it does not read its stdin. `MaxHeld` bounds how far the child is ahead of the pump. Its
fairness:

| Assumption | Why the code justifies it |
|---|---|
| `WF_vars(KernelStep)` | the kernel's thread in a call goes on when it can: the loops of `stop` and of the pump have no condition outside the transport |
| `WF_vars(Reader(s))` | reader threads are threads of their own and the operating system schedules them |
| `WF_vars(Tick)` | time passes (`Instant::now` against the deadline) |
| `WF_vars(ChildDies)` | a process that was sent `SIGKILL` dies |

Nothing is assumed of callers or of the child: not that it reads, writes, exits or
notices that its stdin was closed. `SendReturnsToReader` names what it asks of
the child, `AttentiveChild`, as its premise.

### ReplayLog

`KernelRuntime` treats an append as one step that works or not. `ReplayLog` looks
inside: a line reaches the file as `start`, `rest` and `newline` pieces through a
`BufWriter`; a write may fail, or the process die, after any of them. What stays
in the buffer after a failure is written by the next append or by the drop of the
log. Digests are modelled as the value they are computed from, so that different
records have different digests (no collisions). `SealRun` of `KernelRuntime` takes
from it what a manifest may say after a failed append: not valid, or one record
more than was acknowledged (`SealedCount`).

The file system is assumed to keep what a write call returned for: the code
flushes and does not sync.

### EventBus, SchemaRegistry, RunClosure, SidecarFiles

`EventBus`: `subscriptions` is the vector of the struct, `walk` the index of the
loop in `publish`, one step per subscription; `receivers` are dropped by other
threads at any step of the walk; `channel`, `since`, `failures` and `published`
are histories for the properties; `report` is the `PublishReport`. The dead
subscription is removed at the index where it was found, which is why the
index is a variable.

`SchemaRegistry`: `by_topic` is the map, `admitted` the events that passed steps 4
to 6 of `admit_event`. A number in a payload is a literal: whether `is_i64`,
`is_u64` or `is_f64` is true of it is what the JSON parser makes of it, with
integers of `Width` bits. A schema goes through a file (`WriteSchema`,
`LoadSchema`) or is built in code.

`RunClosure`: `plugins`, `schemas` and `ledger` as in the code, `replayed` the
publications that reached the log, `deaf` the topics of dead subscriptions,
`unrecorded` those delivered whose append then failed (`kernel/runtime.rs:103`), which
leaves the artifact and the dead subscription behind, `manifest` what `seal_run` makes of them. The hash maps are walked in any order
(`Walks`); `SealRun` sorts as the code does: `Place` is where a stable sort puts an
element. Names are sequences of character codes since the code trims, compares
and rewrites them.

`SidecarFiles`: `root` and `spelling` say where the checkout is and how the path
of the profile is given; `files` and `bins` are contents of files and of the
directories on `PATH`; `manifest` is what the author signed, together with what
a child opened then; `child` what the spawned process opened; `edits` counts
changes. `Normalize`, `CanonicalizeOrNormalize`, `ResolveProfilePath`,
`ResolveBoundedWorkingDir` and `SidecarArgsHash` are the functions of those names
on sequences of path parts, and `Found` is what the operating system makes of the
same path; the properties compare the two. Both are recursions over the parts, with
the same `Step`: `Walk` needs each directory on the way to exist, `Collapse` (the
loop of `normalize_path`) only that `..` has something to remove.

## 3. What is checked

| Run | Instance and bounds | Question |
|---|---|---|
| `kernel_lifecycle` | three plugins (a sidecar, one whose third claim needs the network, one in no profile), a profile that names the sidecar twice, one failing append, two stderr lines, stops that report 0 or 3 pieces of evidence | do log, supervisor and transports agree, is every history legal, are permissions respected, is anything left half-way, does evidence get to the log once and in order |
| `kernel_publication` | a local adapter and a reader, a topic the adapter does not publish, two events, the second a root or derived from the first, one failing append | does every publication rest on an admission recorded while its plugin ran, does the manifest close over it |
| `kernel_sidecar` | a sidecar and a local plugin, callers' derived events in either's name, answers to either's requests, two events, one pending answer, two stderr lines, failing writes, a bad exit at a stop, arguments that cannot be read | is what a drain admits caused by a request to the same sidecar, is a transport used as a feed |
| `kernel_batch` | one sidecar, two answers per drain, callers' derived events, one refusal, one publication, one failing append | do all tokens of a batch reach the caller; do types hold in mid-drain; is the contract kept, whichever append fails |
| `replay_faulty` | 4 appends, 2 failed writes, 1 death, 2 reopenings | has a file that verifies lost an acknowledged record, does what the manifest says stay true |
| `transport_lines` | two lines per stream, of kinds that parse, do not parse and are not UTF-8; pipes of 2, stdin of 1; a kill that may be refused; one session | do lines come once and in order, what is lost, are exits reported; are the two refinements kept |
| `transport_progress` | pipes of 1, stdin of 1, at most 4 lines ahead, for ever | which calls return, and under what |
| `event_bus` | three subscriptions, exact and prefix, two events, two topics | does every live match get each event once, is the report true |
| `schema_registry` | integers of 3 bits, literals on both sides of every limit, three schemas for each of two topics, two fields | is validation the type rules, does a hash name the same rules for good and in every station |
| `run_closure` | 11 manifests with each kind of defect, 4 schemas, three publications whose append may fail, hashes of 2 digits | does the sealed manifest list everything, in one order |
| `sidecar_files` | two places of a checkout of different depth, three spellings of the profile's path, 2 edits, working directories and arguments with dots, one that leaves the workspace and comes back by its name, or none | does what runs have the bytes that were signed, is it in the workspace |
| `kernel_double_publish` | as `kernel_publication`, valid payloads, no failing append | *violation expected*: see below |

`Cap` bounds the kernel's log by kind of record, which lets a run spend its states on its
question: a run with `Cap["runtime_denied"] = 0`, as `kernel_sidecar`, leaves out
the behaviours in which something is refused (they are in `kernel_batch`).
`MaxFaults` is the number of appends that fail; properties
that compare the log with the state of the kernel are about `faults = 0`, the
others hold for any number. The bounds are enough for the cases the properties
tell apart: two passes through a start or a stop (so a restart), two events and
their order, a batch of two, evidence before, during and after a drain. Two
plugins are enough for confusion between plugins, since a method names one.

In `transport_lines` two lines per stream, with a pipe, a hand and a channel to be
in, are enough for one line to overtake or repeat another and for a stop to
fall between two lines; `HeardInOrder` and `LossIsATail` speak of several
sessions, which the one session of the run does not exercise and the theorems
about them do. In
`transport_progress` pipes of 1 make the child block after one line; `MaxHeld` of 4
lets both pipes be full with a line on the way. In `event_bus` three
subscriptions put a live one before and after the one that is removed. In
`schema_registry` integers of 3 bits go from -4 to 7, and the literals -5, -4, 3, 4, 7
and 8 stand for those at the limits of `i64` and `u64`. In `sidecar_files` one checkout is deeper than the other, so that a path
with `..` leaves one workspace and not the other.

`CHECK_DEADLOCK FALSE` is set everywhere: a sealed run has no further step, a caller
need not call, and bounds end the others.

Every property has a faulty variant of some definition (`..._FirstClaim`,
`..._AnyMove`, `ReaderSends_Bounded`, ...), an operator beside the faithful one
that no specification uses; with it in place of the faithful one the property it
is listed with in `PROJECT.json` fails.

### What holds only with a premise

Some properties state as a premise what the code does not give without it. The
premise is in the definition:

- `NoPluginLeftInTransit` is about hosts and manifests none of whose failures
  `start_plugin` meets with a bare `?` after its first move: a working directory
  out of bounds, and an executable or an argument that cannot be read, leave the plugin
  in `Starting`, from which no method leads out.
- `ReplayMirrorsLifecycle`, `LegalHistory`, `AdmissionsReachCaller`,
  `EvidenceConserved` and `SealedClosure` are about runs in which no append failed, and
  so is the running half of `AdmissionsJustified`. A method returns at the append that
  fails: a drain that does so returns no tokens for what it had admitted, and drops
  the evidence it had taken out of the transport and not yet recorded.
- `EvidenceConserved` counts the evidence that reached the transport's channel; what
  the sidecar wrote and no reader had passed on is the business of `LinesConserved`
  and `LossIsATail`. It is about plugins none of whose stops failed: `stop_plugin`
  removes the transport before it stops it, and a stop that fails drops what
  the transport still holds. Candidates nobody drained are dropped by every stop;
  `SidecarFeed` has `Dropped` for that.
- `SidecarCausality` is about what is decided while a sidecar's outputs are drained.
  Events that callers offer between drains may name any parent, also in the name of a
  running sidecar: `admit` does not ask.
- `ReplayedIsListed` says that of every topic the first artifact was replayed
  unless its own append failed after delivery; the later ones are not replayed at all
  (below).
- `AdmissionsJustified` asks that the plugin ran when its event was admitted, and
  not when it is published: a token outlives the stop of its plugin.
- `VerifiedHoldsAcked` and `SealedCount` are about files that verify, and
  `SealStaysTrue` about sessions in which no write failed: after a failed append what
  is left in the buffer is written in front of the next record, whose append
  returns `Ok`, or at the drop of the log, after the manifest was made.
- `LinesConserved` is about a session that lasts and readers that work, and
  `LossIsATail` says what is lost otherwise: reader threads are not joined, so
  lines that reach the channel after the last pump of a stop are lost, and a
  line that is not UTF-8 ends its stream.
- `PumpReturns` is about a child that has fallen silent or is gone, and
  `WaitReturns` begins where `stop` waits: the first pump of a stop is before
  the deadline is set, and a child that writes as fast as the kernel pumps keeps
  it there.
- `RunsWhatWasSigned` and `RunsInWorkspace` are about manifests with a `working_dir`
  (without one only the text of a relative argument is hashed, and the child looks
  for it in the kernel's directory); `MovesFreely`, `RunsInWorkspace` and
  `FoundWhereItIs` are about profiles named with a directory (a bare file name
  has the empty path as its parent).
- `MovesFreely` is also about manifests whose paths stay inside the workspace
  (`StaysInside`): `../../a/tools`, from the profile of a checkout called `a`, is a
  directory of the workspace that is accepted there and refused, or is another
  one, after the checkout is renamed.

### Where the README and the code part

`kernel_double_publish` finds that the second publication on a topic fails for
good after its artifact was recorded: `publish_admitted` subscribes to the topic for
each publication (`kernel/runtime.rs:94`), the receiver is dropped when it
returns, its sender stays in the bus, and the next publication counts it
as failed and returns `PublicationFailed` before it appends to replay. The
README's flow of an event ends in "replay + artifact + manifest closure".

## 4. What is proved

Assumptions: `RulesAssumption`, `KernelAssumption`, `TransportAssumption`,
`BusAssumption`, `ReplayAssumption`, `SchemaAssumption`, `ClosureAssumption`,
`FilesAssumption`, and `EnvelopesAssumption` (what callers offer are events). They give the constants their types. Two say more:
`SchemaAssumption` that a schema is a record of its three parts, so that schemas with
the same parts are one, and `FilesAssumption` what a file system is: no file is
called `.` or `..`, the directory above a file or directory exists, and the
directory that stands for the rest of the disk is not in a checkout. Nothing is
assumed of manifests, profiles, failures or bounds. All runs' instances satisfy
them.

**Types.** `KernelProofs!TypeCorrect`, one lemma per action; what an append does to
the log is `AppendTypes`, used by all of them.

**Authority.** `KernelProofs!AuthorityCorrect`: `Spec => []AuthorityInv`.
`TokensBacked` alone is not inductive: a drain in progress holds tokens that
become the caller's at its end, so the invariant speaks of `HeldTokens`; and
of an in-flight event it says that its `send_attempted` record is in the log.
Each step extends the log (`ExtendsLog`), everything an earlier record backs stays
backed, and each *new* record is `Warranted` by what the kernel holds when it
appends it: a publication or a send by a token, a decision made during a drain by an
in-flight request of the plugin being drained, a lifecycle record into `Starting` or
`Running` by the permission check. `TokensAreBacked`, `PublishedIsAdmitted` and `SentIsAdmitted`
follow, and `PermissionsRespected` from the same `Warranted`. `AnswersAreCaused` is an
action property: a record that a drain's step appends is warranted by a request in
flight, and the invariant finds that request in the log (`NextAnswers`). It
is about drains and not about parents, because a decision made in `admit`
may name any parent.

**Lifecycle.** `KernelProofs!TransportsMatch` is inductive with the types. It
rests on two facts of the transition table, that nothing starts from `Running` or
`Stopping` and nothing stops from elsewhere than `Running`, and on `faults` never
going down: the one way to keep a transport in `Stopping` is a failed append of
that very move.

**History.** `KernelProofs`: `MirrorKept`, `HistoryIsLegal`, `AdmissionsAreJustified`,
`AdmissionsArrive` are parts of one invariant, `HistoryInv`. That the last record
of a plugin is its state is not inductive record by record, since a method appends
several; `TellsUpTo(log, states, n)` says that the first n records of a log tell
legal histories that end in the given states, and each method walks it along its
own records, from the states before to the states after. That an admission was
made while the log showed the plugin as running then comes from
`admit_and_record` looking at the supervisor in the same step.
`NobodyLeftInTransit` is inductive with the types.

**Evidence.** `KernelProofs!EvidenceConservedHolds`: the evidence of a plugin that reached its
transport's channel, that is what is in the log, in the batch of a drain and in its transport, put one behind the other, is
`1 .. lines[p]`. The property is inductive with the types. Each action either
leaves the three parts alone, moves a piece from the front of one to the end of
the one before, or adds new lines at the end (`EvidencePasses`); a failed append,
and a failed stop of that plugin, end the premise and not the argument.

**Contract.** `KernelProofs!ContractKept`: `KernelRuntime` implements `StationContract`, whichever
append fails. A step appends several records, at most one of which the contract
sees; the lemmas say that the others are quiet, and what the contract asks
of the one is what `AuthorityInv` says of tokens and of requests in flight. A drain that
begins is `Listens`, one that ends or is abandoned at a failed append is `TurnsAway`,
and in between an admission has to answer something.
`ClosureIsComplete` needs `ClosureInv`: every publication in the log is listed in
the ledger, a manifest is the ledger's copy, and (`SealedIdle`) no looping method is in
progress once the run is sealed.

**Transports.** `KernelProofs!FeedsUsed`: every step of the kernel is, for each
plugin, a step of `SidecarFeed` or none; it needs `TransportsMatch`, so that a
start finds no transport in the map. On the other side of that interface
`TransportProofs!FeedImplemented`: `SubprocessTransport` implements `SidecarFeed`, where
what the kernel is offered is the buffer followed by the lines of that kind in the
channel, so that a pump is a stutter and a reader's `send` is what makes a line
appear. `ProgressImplemented`: it also implements `TransportProgress`, for pipes of
every size; the invariant bounds the lines on their way by the lines written
(which is where `MaxHeld` comes from) and says that a stopped transport has no
line or reader.

**Lines.** `TransportProofs`: `LinesConservedHolds` and `LossIsATailHolds` come from `LineInv`:
the lines heard of a stream of a session, that is those in the buffers or returned
by a drain, have the numbers `1 .. h`, and those in the channel, in the hand of the reader
and in the pipe are `h+1, h+2, ...`, up to the last one written if the reader is not
broken. That a session that ended keeps the first half is what a loss is a tail
of. `HeardInOrderHolds` needs more than the numbers: `OrderInv` says of any two elements
of what was heard which of them may come first, and `ExitsReportedHolds` needs
`ExitInv`, that a report says of the child what is or will be the end of its session.

**Replay log.** `ReplayProofs`: `VerifiedHoldsAckedHolds` rests on what reading the file has
at any moment (`FileKept`): the line not yet ended has no part of an acknowledged
record, and if every line so far was whole, the acknowledged records are among
those read, in their order. An append that works writes what is left in the
buffer, then a whole line; so the only lines that a failure can join are those of
records nobody was told are there. `ReadBackIsAckedHolds` and `SealStaysTrueHolds` need `Faithful`:
without a failed write the buffer is empty, and without a death either, the
file reads as the acknowledged records, which are a chain, and the log stands after
them. `SealedCountHolds` needs `FirstSession`: no line of a log's first session has a
later index than the log's next one, so a chain that verifies is at most one longer
than what was acknowledged.

**Bus.** `EventBusProofs!BusTypeCorrect` and `FailedOnce`, from `BusInv`: no
subscription is listed twice, none that failed is still listed, each was made
before the publication that walks over it, and what failed one matches its filter,
since a subscription is removed only where it was found to match. `EveryMatchOnceHolds`: what a listed
subscription was sent is `Due`, the matching events among those publish has passed it with, in
order; where `publish` stands (`Upto`) is what changes at a delivery, a skip and a
removal, and a removal moves the later subscriptions up under the index.
`ReportTrueHolds` counts along the same walk.

**Schemas.** `SchemaProofs`: the invariant is `Registry`: registered schemas are schemas,
one for each topic, and every admitted event still validates. Registering more
never changes the schema of a topic that has one (`SameChoice`), which is what keeps
`Validate` true of an old event. `AdmittedConformHolds` needs `IntegersFit`: `is_i64` or `is_u64` is
true of exactly the literals that are whole and between the limits, for every
width. `HashesArePortableHolds` needs `LoadWrite`: a file gives back the schema.

**Closure.** `ClosureProofs`: the invariant says that ids and topics tell the registered
apart (`RegistryInv`), what the ledger has at `n` is the `n`-th publication, of a
registered plugin and schema (`LedgerInv`), what replay has is in the ledger, the
ledger's topics are deaf and of each replay has the first artifact, unless its append
failed (`ReplayInv`), and that a
sealed manifest is made of two walks (`SealInv`). All theorems then come down to the
sort. `Before` is a total order of names (`BeforeTotal`), so `Precedes` is one of the positions
of a list, and `Place` counts those before: different positions have different
places, none of them beyond the length, so every place is taken (`PlacesTaken`). From that,
`SortedFacts`: a sorted list is a rearrangement, in the order of its keys, with equal keys
in the order they had. A walk of a set lists it, nothing twice (`WalkFacts`).
`OneManifestHolds` says what the order is for: two walks of the same registries make
the same manifest, since an element has as many before it in one walk's
keys as in the other's (`PlaceBound`, both ways).

**Files.** `FilesProofs`: what `Walk` and `Collapse` do with one part more (`WalkAppend`,
`CollapseAppend`) is proved from their recursions, and the rest by induction over
the parts. A walk reaches one place at most and no `.` or `..` is left in it; what
`CanonicalizeOrNormalize` returns is plain for the same reason, whichever of its
two branches made it, so a prefix of parts is a directory above, and a path that passes
the comparison with a root is under it. That is `RunsInWorkspaceHolds`.
`RunsWhatWasSignedHolds` needs `SignedInv`, that the signed hash is of the very file
the child opened when it was signed, and that the kernel's `dir.join(arg)` and the child's
own lookup in `dir` end at one place, because a walk goes on from where
its first part ended. `FoundWhereItIsHolds` compares three
candidates under two spellings in the same way. `MovesFreelyHolds` rests on
`MoveInv`: until the next edit the signed hashes are of what the files hold now, by a
formula that does not mention where the workspace is (`SignedBytes`). The lemmas are
`CollapseBelow` and `WalkBelow`, that a path which `Collapse` can reduce from the
empty path is reduced from any directory to a place below it, and that a walk along it
ends there or nowhere.

**Sequences.** The library's induction theorems take the statement to be proved as
an operator, which no installed prover can instantiate. `SequenceLemmas` states
induction over numbers and over sequences with the *set* of those the statement
is true of, and so proves what `Only` returns of an appended, concatenated or
shortened sequence; recursion is by recursive functions (`Only`, `Scan`).

Every invariant and action property that a passing run checks is a theorem.
Model-checked only:

- `WaitReturns`, `PumpReturns`, `SendReturnsToReader`: liveness under fairness is out
  of the prover's reach. They are checked for `TransportProgress`; that
  `SubprocessTransport` implements its safety part is proved; that the detailed
  module under like fairness implements the fair one is argued from the steps,
  which correspond, and not checked (it would need `ENABLED`).
- `ArtifactsReplayed`, which does not hold.

There is no `RECURSIVE` operator in any module.

## 5. What is not modelled

- Paths: symbolic links, and files that change between the hash and the spawn;
  `SidecarFiles` assumes neither.
- JSON: that a document parses is a choice; the literal `-0`.
- The environment of a child, and the session, trace and time stamps on evidence;
  reasons of denials; hashes of events.
- `run_from_env` and `main`, which call the methods once in a fixed order; the
  model's caller calls them in any.
- A log file that is cut or edited after the run; deaths and failed writes are.
- The claims copied into a plugin's summary in the manifest.
- Restarting one transport object (`MaxSessions`), which the kernel never does.
- The stub transports, which the factory refuses, and the adapters, bridges and
  telemetry, which are stubs without state.

## 6. Plan

1. A second session of one transport object at bounds that stay within minutes.
2. `SidecarFiles` with symbolic links, which `canonicalize` follows and
   `normalize_path` does not.
3. `run_from_env` as one caller of `KernelRuntime`, in its fixed order.
