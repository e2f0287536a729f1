# Transceiver Registry: TLA+ specification

A TLA+ model of the registry, its snapshots, its server, its wire protocol and its
command line, model-checked with TLC and, where a proof is within reach, proved with
TLAPS. The code is the reference: every definition that models code is listed in
`PROJECT.json` under `map` with the lines it stands for.

## The system and its parts

| Part | State | Operations | Interacts with |
| --- | --- | --- | --- |
| lifecycle table (`src/lifecycle.cpp`) | none (a constant table) | is a move legal, does a state imply an attachment | every handler that moves a module |
| registry core (`src/registry.cpp`, `registry_internal.hpp`) | one published `State`: generation, sources by name with an epoch, modules by key with an incarnation, a lifecycle state and a bounded history, attachments by slot | `register_source`, `register_module`, `replace_module`, `attach`, `detach`, `transition`, `reconcile_lifecycle`, reads | all mutations go through `RegistryImpl::mutate`: lock, compare the expected generation, copy, change, publish, unlock, autosave |
| identity and capability evidence (`src/registry.cpp`, `identity.cpp`, `capability.cpp`) | claims of a module, declarations of a module or a port, each from one source epoch and one incarnation; budgets | `update_identity`, `publish_capability`, `publish_port_capability`, trimming, consensus, history, summary | core (authority, incarnations) |
| health (`src/health.cpp`, `registry.cpp`) | samples per series, series counters, latches, thresholds | `ingest_health`, `publish_threshold`, report | core (reconciliation reads the report), clock |
| compatibility (`src/compatibility.cpp`) | rules | `publish_rule`, `retire_rule`, three-valued evaluation, `verify_decision` | evidence, generation |
| persistence (`src/snapshot.cpp`) | the snapshot file, its temporary | `save`, autosave, `load`, recovery of a damaged file | core (copies the published state; installs a loaded one) |
| server (`src/wire.cpp`, `tools/server_main.cpp`) | listener, connections, worker threads, stop flag | accept, serve, stop, signal handler, start from a snapshot, final save | each worker calls the core |
| wire protocol and client (`src/wire.cpp`) | frames in flight | request, reply, dispatch | server, core |
| sockets (`src/net.cpp`) | open handles | bind, accept, connect, send, receive, shutdown, close | server and client |
| command line (`tools/cli_main.cpp`) | a session: cached handles and tokens, a mirror file | the subcommands | core in its own process, or a server |
| canonical documents, codec, digests, clock, taxonomy, benchmark | none worth a model | | |

The hard behaviours are: callers that act on what they read earlier (fence tokens,
handles, authority tokens, decisions, mirrors) while others commit; saves that run
outside the lock; a crash between publishing and saving; files that come back cut short
or damaged; answers that are lost after the request was applied; bounded collections at
their limit; the stop of a server that is still accepting. `PROJECT.json` lists them
under `hazards`, each at the line where it bites and with the properties that watch it.

What makes each part correct:

- **core**: a mutation that passes the fence acts on the state its caller saw; nothing
  is attributed to a source epoch or a module incarnation outside its reign; slots of a
  superseded incarnation are released; the lifecycle follows the table and its history
  explains it.
- **persistence**: the snapshot path always names a complete snapshot; a save that
  returned is not lost; fences of an earlier process are stale; what a damaged file is
  recovered as is consistent, without a gap, and reissues no id.
- **evidence**: what is shown is what the sources last said; budgets hold; trimming never
  drops evidence that decides; a revision always fits.
- **health**: a latch moves only on evidence; a healthy verdict rests on fresh live
  evidence; a restart changes no verdict.
- **compatibility**: a decision that verifies is what the query would give now; a closed
  decision does not depend on what is missing.
- **server**: limits hold, no slot leaks, nothing runs after `stop`, `stop` returns,
  nothing accepted is lost by it.
- **protocol**: a fenced call is applied at most once however often it is repeated,
  answers tell the truth, every call returns.
- **command line**: a subcommand reaches the module it names; runs do not disturb one
  another.

## Modules

| Module | Models |
| --- | --- |
| `Lifecycle` | the states, the transition table and the predicates on states (constants only) |
| `Registry` | the registry core, its callers, and its properties |
| `RegistryProofs` | TLAPS proofs about `Registry` |
| `DurableStore` | abstract: what the owner of a registry with a snapshot path may rely on |
| `Persistence` | autosave, the system calls of a save, crashes, restarts; implements `DurableStore` |
| `PersistenceProofs` | TLAPS proofs about `Persistence`, the refinement among them, and `SnapshotLoad` |
| `PersistenceClaims` | what the documents say of autosave and the code does not do |
| `SnapshotLoad` | the records of a snapshot, damage, recovery, the two halves of a load |
| `SnapshotLoadClaims` | what the source says of snapshots and the code does not do |
| `Consensus` | what several sources together say of one attribute (constants only) |
| `Evidence` | claims and declarations, their bounded stores, and the view of them |
| `EvidenceProofs` | TLAPS proofs about `Evidence` |
| `Health` | health evidence of one module: samples, thresholds, latches, the report, a load |
| `HealthProofs` | TLAPS proofs about `Health` |
| `Compatibility` | rules, the three-valued evaluation, decisions held by a client |
| `CompatibilityProofs` | TLAPS proofs about `Compatibility` |
| `Service` | abstract: what the owner of a server may rely on |
| `Server` | the accept loop, the connection threads, `stop()`, the daemon and a library owner; implements `Service` |
| `ServerProofs` | TLAPS proofs about `Server`, the refinement among them |
| `ServerClaims` | what the source says of the signal handler and the code does not do |
| `Wire` | client, link and dispatch |
| `WireProofs` | TLAPS proofs about `Wire` |
| `Cli` | runs of the command line utility against a server or registries of their own |
| `CliProofs` | TLAPS proofs about `Cli` |
| `MC...` | an instance of the module of that name for TLC |

The composition is by extension and by instance: `Registry` uses `Lifecycle`,
`Evidence` and `Compatibility` use `Consensus`, `Server` is mapped to `Service` and `Persistence` to `DurableStore`. Where two
modules meet, one carries the other's result: `Compatibility` keeps what each source
stands for, which `Evidence` shows is what the registry computes; `Wire` keeps the
registry as a generation with a fence, which is what `Registry` is to a caller; `Server`
keeps a request as one step, whose content is the subject of `Wire`; `SnapshotLoad` keeps
a save as one step, whose system calls are the subject of `Persistence`.

### Registry

`generation`, `sources`, `modules` and `attachments` are the members of `State`; ids are
allocated once per name and per key and never reused, so names and keys stand for them.
`live` collects the `live` flags of the attachment records. An attachment record stays
in the map when it is dead, as in the code.

`token`, `handle` and `seen` are what each caller holds: the `AuthorityToken` and the
`ModuleHandle` it got earlier and the lifecycle state it read with that handle. A
`mutate` is one critical section, so each mutation is one action; all that interleaves
is what callers hold. Handlers map one to one to actions; `register_module` is three
(`RegisterNewKey`, `EnsureCurrent`, `NewIncarnation`), along its branches. A refused
call publishes nothing and is a stuttering step: the guards are the refusals, negated.
The evidence mutations (`PublishEvidence`, `PublishPolicy`) only take a generation here,
which is all the rest of the core sees of them; the verdict `Reconcile` gets from the
health report is an input. The budgets of claims and declarations are not in this
module: it allows a registration the code may refuse because of them, so the safety
properties hold for more behaviours than the code has.

`epochStart`, `incStart` and `incEnd` are history variables: when each epoch and each
incarnation began, and the state in which each superseded incarnation ended. No action
reads them.

Abstracted: texts, notes, sequence numbers, wall clock times, port indexes and the
validation of texts; the statistics counters.

### Persistence

A registry state is identified by its generation and its registry incarnation. A
snapshot is a file of two blocks labelled with the state: the head (file header and
first records) and the tail (the rest and the trailer); two are enough for a file to be
cut short or mixed. Files are inodes with a kernel content and a prefix that is on
stable storage; `target` and `temporary` are the two names. `fopen(..., "wb")` on an
existing temporary truncates the file another thread is writing, writers keep their own
offset, a rename moves whatever file has the name at that time. `fwrite` passes on what
stdio does not keep (`Unflushed`), `fsync` reaches what the kernel has, `fclose` passes
on the rest.

A kill drops the process and its stdio buffers; a loss of power may also drop any suffix
of a file that is not on stable storage (completed renames are taken to survive: what
the file system makes of them is not modelled). `Restart` is the start of the daemon:
load if the file exists, exit if it is refused. `Parsed` says what a file is loaded as.
Tail recovery is on by default, and a payload cut short is then loaded as an *empty*
state. `decision` is a generation some caller keeps to verify against later. `boot`,
`saved`, `settled`, `overlap` and `stdio` are history variables; `stdio` says whether `fwrite`
kept bytes back that `fclose` passed on behind `fsync`, and whether power was lost after that.

Files nobody can reach any more are cleared (`Reclaim`), which keeps the state space
small and is what the kernel does.

`DurableStore` is the abstraction: the state the process has published and the state the next
process would find. A commit publishes; a save that returns keeps the present state, or one
the process was in when the save began, and never an older one than was stored; the end of a
process leaves what is stored; the next process begins one generation and one incarnation
after it. `ImplementsStore` maps the first to `generation` and `incarnation` of a running
process and the second to what `Parsed` makes of the target, until `overlap` or `"lost"` is set.

### Health

The evidence of one module. `samples`, `counts`, `latches` and `thresholds` are
`ModuleRecord::samples`, `series_counts`, `latches` and `State::thresholds`; `epochs` and
`incarnation` are what makes a sample live. Every caller acts with its current epoch for
the current incarnation (stale ones are refused; that is `Registry`'s subject). A value
stands for its position among the bounds of a policy, `Absent` for the three kinds of
absence, `Terms` for the contents of a threshold. The report is an operator of the state
(`MetricState` for a row, `Outcome`, `Healthy`), as in the code, where a query computes
it. `now` and `steady` are the wall and the monotonic clock; a sample carries both, as
they were up to `MaxDelay` ago, so samples are committed in another order than they were
stamped, and `SetBack` lets the wall clock go back. `Load` is a restart from a current
snapshot: a new clock domain, counters made anew, latches revalidated.

`recent` is a history variable: the last measurements shown to each latch. Left out:
plausible ranges, reasons and issues of a row, digests, the counters of a row.

### SnapshotLoad

`state` is what `RegistryImpl` publishes, reduced to what refers to what: a module
to the source of its evidence, an attachment to its module, ports, thresholds and rules to
their source, and the id counters. `Encoded` is the order of `encode_state_records`;
`file` is the sequence of records last saved, a `damage` and, for the judgement of the
properties, the state it was made from. `Damages` is any record that no longer matches
its checksum, a file cut at any record, and a damaged file header. `Parse` is
`parse_snapshot`: file header, records in order, what is refused without tail recovery
and what is dropped with it; `Decoded` is its loop over the records in closed form: the
counters of the last header and what the records after it say (the code refuses a second
module of one uid; a file of `Encoded` has one record for each id). `Installed` is what `load_snapshot` makes of it (attachments
without their module dropped, the incarnation counted up). A module record whose samples
exceed `RecordLimit` is written all the same and accepted by no reader. `BeginLoad` and
`Install` are the two critical sections of `load_snapshot`; mutations may come between.

### Evidence

A store is a set of statements; `seq` is the position in the code's vector. `Trim`
and the port's own way of making room are what the code does with a full store, refusals
included. `ConsensusOn`, `History` and `EvidenceSummary` are operators of the state, as
the queries compute them. `said` is a history variable: what each source last got
accepted, by subject; no action reads it. A revision in a later epoch, a renewed
registration and a new incarnation leave earlier statements in the store as evidence that
no longer counts, which is what makes the budgets interesting.

### Compatibility

Rules with their validation, each operator on the value shapes it accepts, the
indeterminate outcome of everything else, the order by priority, the limit on rules and
the three outcomes with their closure. `held` is one decision a client keeps;
`verify_decision` compares the generation only. The digest of the inputs is kept as the
inputs themselves.

### Server

The runner is the thread in `start()` and `run()`: in the daemon it is main, in the
library a thread of the owner. Each step of it between two points where another thread
can come in is an action; `connections_mutex_` is held by the runner exactly in
`"pushing"` and `worker_mutex_` exactly in `"emplacing"`, and every other critical section
is one step, which waits while the runner is there. A worker is the thread of one
connection: check the stop flag and the request count, read, dispatch, write or refuse,
close, erase its entry. `stop()` is seven steps with its copies of the two lists, called
by the owner, by main after `run()`, by the destructor or by the signal handler; the
handler runs on main's thread, so it blocks for good when main holds the mutex it needs.
The handler is delivered to main, at most once. Clients connect, send a request, another
frame or an end at any time or never; reads and writes fail at any time.

`Service` is the abstraction: a phase, the connections a thread works for, and those whose
thread may be inside the registry. Requests are handled only while the service is up,
`stop` returns only when nobody is inside, the object goes away only when no thread is
left. `ImplementsService` maps `active` to the threads that live and `busy` to the workers
in `"dispatching"`.

### Wire

A client has one call outstanding, no timeout, and may connect again and repeat a call
that returned no answer. `DispatchRow` is the table of `dispatch()`: for each operation
what it does to the registry, what it is fenced with, which parameters it refuses to go
without and whether its answer can outgrow a frame. A break of the link may come before or
after the request was taken; a copy already taken is applied whether or not anybody waits
for the answer (`up`). The frame of an answer (`Frames`) is whole, larger than the client
accepts, whole around a document past the client's limits (`CanonicalLimits::request()`), or
broken: cut inside its body by a break of the link (`Break`), or altered on a link that
stays open (`Damage`). What the client says of each is `Received`: the server's code,
`CapacityExceeded`, or `Corrupt`; without a whole header it says `IoError` (`ReceiveFails`). A
frame that is too large leaves its body on the link (`"desynced"`), which the next calls read in
place of their answers and call `Malformed` (`ReceiveRest`). `OwnCodes` collects what a client may
say by itself: a caller told one of them does not know whether its call was committed, and may
repeat it. `Internal` is among them for a request without an encoding (`wire.cpp:351`); the other two
places (403, 408) would need a failure without a code or with an unknown one, which
`error_document` of the same build does not write. `applied` counts commits of the current call
and is a history variable.

Two things are left out: an answer altered in its header (its length may then make the client wait for
bytes that never come), and a broken request, which the server drops with its connection, as
`Break` does.

### Cli

A session holds what `Session` in `cli_main.cpp` holds: its mode, the handle and token
caches, the mirror registry it loaded from `--snapshot`. The subcommands are actions along
the calls they make: resolve a key (cache, registration, own registry, mirror), ensure the
source, the call itself, the update of the cache, the save. A refused call, a usage error
or a lost connection ends the run, after whatever was done before. `Strangers` are
the module maps of files from another registry. `fenced` is a history variable.

## Runs

| Run | Instance | Shows |
| --- | --- | --- |
| `registry` | 2 callers, 2 source names with a renewable instance, 2 modules, 2 slots, a history of 3 events, counters that run out at 2, 5 commits | `TypeOK`, `FencedViewIsCurrent`, `AttachedWithinEpoch`, `AttachedWithinIncarnation`, `SupersededSlotsReleased`, `HistoryExplainsState`, `LifecycleFollowsTable` |
| `autosave` | 2 threads, failing calls, kills at any system call, loss of power, 2 restarts, 3 commits, a registry incarnation that wraps at 2 | `SnapshotIntact`, `SavedIsRecoverable`, `SavedDecisionsFenced`, `ImplementsStore` |
| `health` | 2 sources, one lane, a threshold for the lane (two bands, two samples to move) and one for the module (one band, at once), 2 samples kept by the module, a counter limit of 3, one clock set back, one load, 5 commits | `SampleBudgets`, `KeptInOrder`, `OneThreshold`, `LatchMovesOnRun`, `SustainedFaultLatched`, `HealthyIsEarned`, `LoadKeepsVerdicts` |
| `server` | 2 connections, limits 1 and 2, 1 request per connection, both hosts | `ThreadBudget`, `SlotsReturned`, `QuietAfterStop`, `JoinedAtEnd`, `NothingLostOnStop`, `ImplementsService`, `StopCompletes` |
| `wire` | 2 clients, every operation and an unknown one, 2 calls, each sent at most twice, 4 generations | `AtMostOnce`, `OkMeansApplied`, `RefusalIsFinal`, `CallReturns` |
| `evidence` | 2 sources, 2 attributes, 2 values, 1 port, budgets of 3 claims, 1 declaration, 2 port declarations, a history of 2, 4 statements, 3 epochs, 2 incarnations | `ViewIsLatest`, `RevisionFits`, `StoreBudgets` |
| `compatibility` | 2 sources, a count, an enumeration and a set, 7 rules of all verdicts, a rule budget of 2, query limits 1 and 4, 6 generations | `VerifiedDecisionHolds`, `ClosedIsFinal` |
| `load` | 1 source, 2 modules, 1 rule, 1 slot, modules of up to 2 samples of which a record holds 1, any one damage, 7 generations, 2 loads | `NothingDangles`, `CountersAhead`, `NeverAGap` |
| `cli` | 2 runs, 2 keys, 3 subcommands, no file or a file of another registry | `AddressedAsAsked`, `CachedIsOwnLatest`, `TokensStay` |

Every property of a passing run has a mutant of the code model that breaks it
(`PROJECT.json`, `mutants`); the mutated forms stand before the definitions they replace.

Why the bounds are enough, and what they are:

- `registry`: five commits are register, register module, re-register by the other caller,
  attach, and one more; they reach a replacement after an attachment, a takeover, and a
  history that is cut while several events are pushed. States after the fifth commit are
  checked but not continued (`BeforeLastCommit`): what callers would still read then meets no
  further commit.
- `autosave`: behaviours are followed until two saves overlap, or until power is lost when
  `fsync` had reached only a part of a file (`Covered`): from there on the properties
  claim nothing. Two restarts are one to use generations again and one to load the result.
- `health`: five commits are a threshold and four samples: one to set a latch, one outside,
  one inside and one outside its zone.
- `server`: two connections are one that is served and one that is accepted while `stop()`
  runs; a limit of one makes it refused.
- `wire`: two tries are the least with a late copy; two calls are the least with the rest of
  a frame that belongs to the call before.
- `evidence`: a history of two is cut by the third statement of one source on one attribute,
  which the budget of three claims admits; the fourth claim makes room or is refused, and
  declarations are at their limit after one. Each half has a mutant of `StoreBudgets`.
- `compatibility`: two rules can disagree, with two sources an attribute can be disputed.
- `load`: two modules and their attachment are the least with a reference that can be cut off.
- `cli`: three subcommands are one that fills a cache, one of another run, and one that uses it.

`MaxGeneration`, `MaxBoots`, `MaxStatements`, `MaxEpoch`, `MaxIncarnation`, `MaxCalls`,
`MaxTries`, `MaxCommands`, `MaxUnsaved`, `MaxSteady`, `MaxDelay`, `MaxMutations`, `MaxLoads`, `LongestRun`, `EpochsSpent` and the id bounds of
`SnapshotLoad` are guards of the models, not of the code. Callers, keys, slots, threads,
files, sources, attributes, values and runs are symmetric where only compared; the runs
with liveness properties use no symmetry.

`registry` and `autosave` check for deadlock: there one would be a daemon that
cannot start from its own snapshot. The other runs do not: callers may stop calling,
connections and runs of the program are used once, the clock of `Health` stops at its bound.

### Fairness

Two runs have liveness properties.

`Server!FairSpec` assumes weak fairness of each thread's own steps: the runner, each
worker, the thread inside `stop()`, and what the host does by itself (main's
`stop()` and save, the destructor). That is the operating system scheduling every thread
that is not blocked. Nothing is assumed of clients, of the owner's decision to stop or of
signals; a read or a write that waits for its peer is only promised to return when its
socket has been shut, which is what `stop()` does. `StopCompletes` says that `stop()` then
returns and the server goes away, for the owner at any time, and for a signal that found
the daemon started and main without a mutex.

`Wire!FairSpec` assumes weak fairness of the server's threads (`Dispatch`) and of the
client's read (`Receive`, `ReceiveRest` or `ReceiveFails`). Nothing is assumed of the link; `CallReturns`
holds because a link that breaks makes the read fail. A client on a link that neither breaks nor delivers is
outside the model: the code has no timeout, and such a call does not return.

### Runs that end in a violation

Each refutes one statement of the repository's documents or comments; `PROJECT.json`
quotes it under `findings`:

| Run | What the trace shows |
| --- | --- |
| `claim_autosave` | two overlapping autosaves, with no crash and no failing call, leave a file made of both, or the older state |
| `claim_signal` | a signal before `start()` is forgotten, and one that interrupts main inside a critical section of `run()` hangs the daemon |
| `claim_roundtrip` | a module at its sample budget is written as a record that no reader accepts: an undamaged snapshot is read back without it |

### Differences without a run

Some differences between the code and what its documents or comments say show when the
handlers are read, and have no run of their own.

In the core:

- attaching to a slot whose entry is dead does not compare `max_attachments`
  (`registry.cpp:1219`; `README.md:361-362` says every collection has a cap);
- a takeover of a slot leaves the previous module in an attached state without a slot
  (`registry.cpp:1217`; `lifecycle.hpp:42` says the state implies an attachment), and does not
  enter `Replaced`;
- an incarnation that `transition()` has ended keeps its slot when its successor is
  registered (`registry.cpp:793`; `README.md:188-190`);
- `register_module` records a move to `Replaced` from `Removed`, which the table does not list
  (`LifecycleFollowsTable` is about states, not about that record);
- `RequireGeneration` compares nothing in the calls that pass `Generation{}`
  (`registry.cpp:1063, 1274, 1480, 1830, 1858`; `README.md:347-350`), `detach` among them;
- a revision of a port capability is refused at a full budget (`registry.cpp:1079`), where
  one of a module is not;
- `evidence_summary` counts samples of a source epoch that is over as superseded
  declarations (`registry.cpp:2224`).

In the health code: `series_counts` is not "kept in sync" (`registry_internal.hpp:80`) by the
module budget, so that a series can lose the sample just stored; escalation and recovery of
a latch share one counter, so that one sample off in one direction counts towards a
move in the other (`health.cpp:117`; `health.hpp:97`); a replayed sample is refused only
while the one it repeats is kept; a latch set by an epoch that is over still colours the
report of the next one; and `revalidate_evidence` takes the first of two samples with the same
time where `classify_series` takes the last, so that a restart can reset a latch whose
evidence holds.

In compatibility: `in` and `not_in` on a scalar are always indeterminate
(`compatibility.cpp:114`); the limit on rules is applied after the sort and can drop a
denial of low priority (`compatibility.cpp:359`; `README.md:252`).

In persistence: `fsync` comes before `fclose`, which may still pass on what stdio kept
(`snapshot.cpp:584`; `snapshot.hpp:30-31`); a decision made between a commit and its save is
current again when the process is killed there and another commits as often
(`snapshot.cpp:947`; `README.md:302-304`); a payload that is cut short is loaded with tail recovery as
an empty state, not as the longest valid prefix (`snapshot.cpp:706-713`; `README.md:293-294`,
`snapshot.hpp:38`); the generation in the file header is covered by
no checksum (`snapshot.cpp:715`).

In the server and the tools: a connection whose request frame cannot be read is closed without an
answer (`wire.cpp:1182-1184`; `README.md:328-330` says with a classified failure); finished workers stay in `workers_` until `stop()`
(`wire.cpp:1172`); a failing last save only changes the exit code; `net.cpp` uses
`INVALID_SOCKET` and `SOCKET_ERROR` outside its Windows branch (476, 495, 502, 597, 664);
`selftest` exits with 0 even when what it read back does not match (`cli_main.cpp:2101`);
some usage errors are found only after a subcommand was applied (`cli_main.cpp:2189`).

## Proofs

Proved for every value of the constants that satisfies the assumptions named below:

| Theorem | States | Inductive invariant |
| --- | --- | --- |
| `RegistryProofs!TypeCorrect` | `Spec => []TypeOK` | `TypeOK` itself |
| `FenceSound` | `Spec => []FencedViewIsCurrent` | `FenceInv`: no handle carries a generation from the future, so a commit makes every fence token stale |
| `EpochSound` | `Spec => []AttachedWithinEpoch` | `EpochInv`: an epoch is the number of times its source was minted, at generations already reached |
| `IncarnationSound` | `Spec => []AttachedWithinIncarnation` | `IncarnationInv`: the same for incarnations |
| `SlotsReleased` | `Spec => []SupersededSlotsReleased` | `IncarnationInv`, which also says that all incarnations but the current one have ended |
| `TableObeyed` | `Spec => LifecycleFollowsTable` | the type invariant |
| `HistorySound` | `Spec => []HistoryExplainsState` | `TypeOK` and the property itself |
| `PersistenceProofs!TypeCorrect` | `Spec => []TypeOK` | `Basic` |
| `SnapshotComplete` | `Flushing` implies `Spec => []SnapshotIntact` | `Persistence!Inv` |
| `SavedFound` | `Flushing` implies `Spec => []SavedIsRecoverable` | `Persistence!Inv` |
| `DecisionsFenced` | `Flushing` implies `Spec => []SavedDecisionsFenced` | `Persistence!Inv` |
| `StoreImplemented` | `Flushing` implies `Spec => ImplementsStore` | `Persistence!Inv`; every step maps to a step of `DurableStore` or a stutter |
| `RecoveredWhole` | `LSpec => []NothingDangles` | `SnapshotLoad!LInv` |
| `CountersRecovered` | `LSpec => []CountersAhead` | `SnapshotLoad!LInv` |
| `PrefixRecovered` | `LSpec => []NeverAGap` | `SnapshotLoad!LInv` |
| `EvidenceProofs!BudgetsHold` | `Spec => []StoreBudgets` | `Evidence!Inv` |
| `RevisionsFit` | `Spec => []RevisionFits` | `Evidence!Inv` |
| `LatestShown` | `Spec => []ViewIsLatest` | `Evidence!Inv` |
| `HealthProofs!BudgetsHold` | `Spec => []SampleBudgets` | `Health!Inv` |
| `OrderKept` | `Spec => []KeptInOrder` | `Health!Inv` |
| `ThresholdUnique` | `Spec => []OneThreshold` | `Health!Inv` |
| `LatchNeedsRun` | `Spec => []LatchMovesOnRun` | `Health!Inv` |
| `FaultShows` | `Spec => []SustainedFaultLatched` | `Health!Inv` |
| `HealthyEarned` | `Spec => []HealthyIsEarned` | `Health!Inv` |
| `VerdictsKept` | `Spec => LoadKeepsVerdicts` | `Health!Inv` |
| `CompatibilityProofs!VerifiedSound` | `Spec => []VerifiedDecisionHolds` | `DecisionInv`: a held decision is of a generation already reached, and the present one if that is current |
| `ClosedSound` | `Spec => []ClosedIsFinal` | the rules are those of the catalogue |
| `WireProofs!OnceAtMost` | `Spec => []AtMostOnce` | `Wire!Inv` |
| `OkIsTrue` | `Spec => []OkMeansApplied` | `Wire!Inv` |
| `RefusalIsTrue` | `Spec => []RefusalIsFinal` | `Wire!Inv` |
| `ServerProofs!SlotsKept` | `Spec => []SlotsReturned` | `Server!Inv` |
| `BudgetKept` | `Spec => []ThreadBudget` | `Server!Inv` |
| `QuietOnceStopped` | `Spec => []QuietAfterStop` | `Server!Inv` |
| `NobodyLeft` | `Spec => []JoinedAtEnd` | `Server!Inv` |
| `LastSaveIsLast` | `Spec => []NothingLostOnStop` | `Server!Inv` |
| `Refines` | `Spec => ImplementsService` | `Server!Inv`; every step maps to a step of `Service` or a stutter |
| `CliProofs!Addressed` | `Spec => []AddressedAsAsked` | `Cli!Inv` |
| `CacheFresh` | `Spec => []CachedIsOwnLatest` | `Cli!Inv` |
| `TokensKept` | `Spec => []TokensStay` | `Cli!Inv` |

The type invariants of `Wire`, `Server`, `Evidence`, `Health` and `Cli` are conjuncts of their
`Inv` and proved with it (`WireProofs` and `ServerProofs` state it as `TypeCorrect`).

- **Registry.** `MutationShape` collects what all mutations do to the generation and to the
  callers' handles; the frame lemmas (`EpochFrame`, `IncarnationFrame`) dispose of the
  actions that do not mint an epoch or begin an incarnation. `HistorySound` reduces every
  step to what it does to one module record (`RecordStep`: none, a new record, a cut, a move, a
  new incarnation) and then follows each pair of neighbours of the history through an append
  (`AppendUnbroken`) and a cut at the front (`TrimUnbroken`).
- **Persistence.** `Basic` holds always: types, which thread holds which file, and labels that
  fit. `Steady` holds as long as no two saves have overlapped and `fsync` covered what was lost
  with the power: one thread saves (`OneSaver`), the temporary is exactly what it has
  written, on stable storage as far as `fsync` reached (`WriterFits`), the target is whole and
  of the newest generation whose save returned (`TargetFits`), and neither a copy being saved
  (`CopiesFit`, which also has it of the running incarnation) nor a new process
  (`GenerationsAhead`) is older than that. The properties claim nothing once `overlap` or
  `"lost"` is set, and both stay set (`LostForGood`). `WriterFits` is what carries it: a rename
  moves a file that is complete only because the thread that renames is the one that wrote it.
  The refinement rests on the same invariant: a rename is the one step that changes what is
  stored (`RenameKeeps`, `WritesUnseen`, `TargetLeft`, `TargetSurvives`), and a restart reads
  exactly that (`RestartBegins`). The hypothesis `Flushing` is that `fsync` is asked for or
  power is never lost; with neither the properties are false.
- **Snapshot recovery.** `LInv` says that the file holds the records of a sound state (`FileFits`)
  and that what was parsed is a number of its first records, or nothing (`ParsedFits`); the three
  properties are not inductive without both, because a load reads what an earlier process
  wrote. `EncodedFacts`: each record is written once, the header first, then the sources, and
  the records of a kind are exactly what the state has of it. From that `PartFacts` and `PrefixFacts`
  say what any first *n* records decode to, `PartSourced` that evidence among them has its
  source, since every source stands before it, and `InstalledSound` that dropping attachments
  without a module is enough for the rest. `ParsedNoGap` encodes that again and compares the
  two lists. The order of `Ascending` and `SetToSeq` is never used: only that a list has each
  element once (`Lists`).
- **Evidence.** `Accounted` relates a store to what the sources last got accepted: `seq`
  identifies a statement, nothing in the store is later than the one remembered, and the one
  remembered is in the store unless its epoch or incarnation has passed. It survives trimming
  because trimming drops only what another statement supersedes (`RoomFacts`), never the newest of
  its matter (`HistoryFacts`). That the oldest *n* statements are *n* (`OldestCount`, from
  the general `Ranking`) is what makes a budget hold and a revision fit. Exactly one
  epoch and incarnation are current, so what is live in a store is what is remembered as
  live (`LiveIsValid`), from which `LatestShown` follows for every view.
- **Health.** `LatchesFit` says what a latch of a zone was shown last: a sample inside the zone,
  then as many outside it as it has counted, fewer than the last of their policies asked for. It is
  needed because the counter says nothing of what it counted, nor of which policy judged it;
  `LatchShown` carries it and `LatchMovesOnRun` through one more measurement, and
  `SustainedFaultLatched` follows from it at any time, whichever policy came into force. The
  budgets, the order of samples and the uniqueness of a live threshold survive trimming
  because erasing leaves a subsequence (`Picks`, `EraseFacts`, `PicksTrans`): no more of any series
  (`PicksFewer`), one fewer of the one erased from (`EraseCount`), the same order.
  For `VerdictsKept` the sample `revalidate_evidence` picks is shown to exist (`Minimal`,
  `NewestExists`) and to be no older than the fresh one `classify_series` rests on.
- **Compatibility.** `MutationFences`: a mutation raises the generation past every held
  decision; `QueryReads`: a query changes nothing it reads. `ClosedSound`: a
  requirement that is decided has the same outcome in every world that completes the evidence
  (`DecidedStays`), so have the rules (`RulesInWorlds`), and a closed decision rests on those alone.
- **Wire.** `Inv` adds three facts. `AttemptsCounted`: each attempt is dispatched once.
  `FenceSpent`: a commit raises the generation above the one its call was fenced with, so
  that the next copy is refused. `AnswersTrue`: an answer on the way says what its attempt
  did, which is needed because it may be read long after. A frame that is cut or altered
  keeps the code it was sent with (`BrokenFrame`), and the client then says `Corrupt`, a code of
  its own: `RefusalIsTrue` is about all the codes that are not.
- **Server.** `Inv` adds: `UnservedYet` (a connection in the runner's hands or in the
  listener's queue has no thread), `HandlesKept` (every thread has a handle that a `stop()` will
  join), `StopHolds` (once `stop()` has set its flag the threads that still serve are
  among those it joins), `CallerFits` (who can be inside `stop()`, and when), `PhaseFits`
  (after the host's `stop()` nobody is served), `WithinLimits`. Without `StopHolds` a worker
  started after `stop()` has taken its copies of the lists would not be known to be harmless. The run checks
  each property; `Counted` and `Fewer` are the counting lemmas of the budget.
- **Command line.** `Inv` adds: a mirror or a file of this server is an older state of it
  (`MirrorsAgree`, by `SameUids`: a uid once given to a key stays its), a cached handle has the uid
  of its key (`CachesAgree`), a resolved handle belongs to a subcommand about a module
  (`TargetsFit`), a run that has not started has opened nothing (`NothingBefore`), and whoever
  holds a token speaks for the instance the registry knows (`TokensNamed`). `RegisterModuleFacts` and
  `RegisterSourceFacts` say what the two registrations do to a registry; `StepInv`, `RunInv` and `SourceInv`
  keep the invariant over a step of one run for all the runs beside it.

Assumptions: `ConstantsAssumption` and `NoRecordAssumption` (`Registry`),
`CompatibilityAssumption`, `WireAssumption` and `NoneAssumption` (`Wire`), `ServerAssumption`
and `NoneAssumption` (`Server`), `PersistenceAssumption` and `HoleAssumption` (`Persistence`),
`SnapshotLoadAssumption`, `EvidenceAssumption`, `HealthAssumption`, `KeyAssumption`, `RegistryAssumption` and
`NoneAssumption` (`Cli`). They bound or type the constants and keep the sentinel values
apart; TLC evaluates them on the runs. Three say more: the rules of the catalogue speak of
attributes there are (`CompatibilityAssumption`; `validate_rule` refuses others), there are
two files more than threads (`PersistenceAssumption`; one can always be created), and a file
from another registry was not written by one of these runs (`RegistryAssumption`). The
invariants `Inv` of `Persistence`, `Evidence`, `Health` and `Cli` and `LInv` of `SnapshotLoad` were checked by TLC on the instances of the runs before they were proved.

Only model-checked: the liveness properties `StopCompletes` and `CallReturns`. Liveness under
fairness and enabledness are out of the prover's reach, and so are recursive operators and
induction over data, which is why `Decoded` is stated in closed form and not as the loop it
stands for. `LongestRun` (`Health`) and `EpochsSpent` (`Evidence`) are bounds of
the models alone: how long a history of measurements is kept, and how many registrations
of sources are followed; the proofs hold for every value of them.

## Not modelled

- **Canonical documents and codec, digests.** Sequential, pure, byte by byte; the repository tests
  them by round trips. In the models a checksum detects damage and a digest is what it is a
  digest of.
- **Clock, taxonomy, value types.** Reads of a clock and enumerations; `Health` has the two
  clocks as variables.
- **Benchmark tool.** Loops around the library.
- **Sockets** are modelled as far as `Server` and `Wire` use them; partial sends and receives
  are retried inside one call and stay out.
- **Within modelled parts**: validation of texts, notes and sequence numbers of audit events,
  statistics counters, wording of explanations, the plausible ranges of metrics, options of
  the tools and the ready file.

What could be added: the composition of `Registry` with `Health`, where `Reconcile` takes the
verdict as an input.
