# Incin: verification project

TLA+ models of the coordination logic of the Incin deep-learning framework, checked with TLC and,
where a theorem is stated, proved with TLAPS. The repository is the reference: each definition
translates the source lines that the `map` of `PROJECT.json` names for it. Paths below are relative
to `src/crates/` unless they say otherwise.

Most of Incin is numerical: tensors, kernels, autograd, optimizers. Its own tests compare that part
with numbers. What those tests hardly reach is the part where threads, processes and ranks have to
agree, and the bookkeeping whose errors show only after a long sequence of steps. That is modelled
here:

| Part of the system | Modules | Runs |
|---|---|---|
| Autotuning service: who measures, who waits | `SingleFlight`, `TuningService`, `TuningServiceProofs` | `tuning` |
| Persistent tuning cache: one file, many processes | `TuningCache`, `AtomicityProofs` | `cache` |
| Data loader: workers, channel, reorder buffer | `OrderedStream`, `DataLoader`, `DataProofs` | `loader` |
| Distributed sampler: who reads what in an epoch | `EpochShards`, `DataProofs` | `shards` |
| Distributed context: rendezvous and lifecycle | `DistContext`, `DistContextProofs` | `dist_context` |
| Pipeline schedule and NCCL transport | `PipelineSchedule`, `PipelineRun`, `PipelineProofs` | `pipeline` |
| Gradient rendezvous of two training ranks | `GradientRendezvous`, `GradientRendezvousProofs` | `rendezvous`, `rendezvous_retry` |
| The training step of two ranks, with ZeRO and loss scaling | `ShardedStep`, `TrainingProofs` | `sharded_step` |
| Loading a state, committing an optimizer step | `ParameterCommit`, `AtomicityProofs` | `parameter_commit` |
| Compiled graphs: liveness, buffer slots, execution | `MemoryPlan`, `MemoryPlanProofs` | `memory_plan` |
| Telemetry emitter: two lanes and a writer | `Emitter`, `TrainingProofs` | `telemetry` |

Each `MC*` module gives a module small constants for TLC; each `*.cfg` is one run.

    tlc -config MCCache.cfg MCTuningCache      # one run
    tlapm TuningServiceProofs.tla              # one proof module

## 1. The system

### 1.1 Components, state and interaction

**Tuning service** (`incin-backends/src/tuning/service/`). One `TuningService` is shared by the
threads of a process. It keeps a lease table and the results (mutex `state`), a condition variable
`ready`, and a persistent cache (a mutex of its own). `decide` returns a selection, a permit to
measure under a lease with a deadline, `WaitTimeout` or an error; a permit is committed (locally,
with the votes of all participants, or with the result of a collective measurement), cancelled or
dropped. Hard: a commit visits the state, then the cache, then the state again without holding both
locks; leases run out while their holders still measure; waiters depend on `notify_all` being called
after the lock was released; votes arrive late.

**Collective tuning** (`incin-backends/src/dist/tuning/`). Two ranks measure together, exchange
their reports and vote; the unanimous result is committed through a permit of the tuning service.

**Tuning cache** (`tuning/cache.rs`). Processes share a JSON file. `open`, `commit` and `clear`
take a file lock, read, quarantine or prune, write a temporary file, sync it, rename it and sync
the directory. Hard: death of a process and loss of power between any two of these steps; failing
steps; processes with different limits. The service calls it at the end of a commit and when a key
is not in its results.

**Data loader** (`incin-data/src/loader.rs`). `into_iter` shuffles, truncates or pads, shards and
batches the indices, starts worker threads and returns an iterator with a bounded channel and a
reorder buffer. Hard: workers that fail while others are ahead, a receive timeout, an iterator
dropped with workers blocked in a send, and ranks that have to come to equal numbers of batches
without talking to each other.

**Distributed context** (`incin-core/src/dist/context/`). Rank 0 listens, rank 1 connects, they
compare run identities and keep one control connection. The clones of a context share an atomic
state and a lock around the connection. Hard: clones that abort, wait and shut down at the same
time on both ranks, and a communicator that invalidates the context meanwhile.

**Pipeline** (`incin-core/src/dist/pipeline.rs`, `incin-backends/src/dist/nccl/`). Pure functions
give the clocks of the two stages and a plan of boundary transfers. Each rank builds the plan for
itself, the ranks compare a summary before they create the NCCL communicator, and each launches its
half of the transfers in plan order. A failed call invalidates the context the transport is bound
to. Hard: two programs that must pair up without looking at each other; a rank that fails alone.

**Gradient rendezvous** (`incin/src/train.rs`, `ReferenceDataParallel`). Two training threads bring
gradients to a table behind one mutex; the leader reduces and publishes. Hard: timeouts that race
with the publication, callers that call again after an error, handles that are dropped.

**Training step** (`incin/src/train.rs`, with `incin-core/src/dist/`). The trainer reduces the
gradients through a synchronizer, steps the optimizer, and under ZeRO steps the slice a rank owns
and gathers the parameters; every collective is one of a walk over the model's parameters. Hard: a
rank that skips its step because its gradients overflowed, one that fails between two collectives,
slices that are stepped with zeroed gradients until the gather overwrites them.

**State loading and optimizer commit** (`incin-core/src/nn/state.rs`, `optim/support.rs`). Both
replace many variables on a backend that assigns them one by one and may refuse: prepare all,
commit all, roll back what was committed. Hard: a refusal in the middle, a refused rollback, tied
parameters that are visited twice.

**Compiled graphs** (`incin-core/src/compiled/`). Capture records nodes, liveness gives each value
an interval, the planner gives it a buffer slot and takes the slot back, the executor reads and
writes slots only. Graphs run as they were captured: folding and prepacking always refuse in this
commit (fold.rs:54, :69), and fusion returns the graph unchanged beside the groups it admits
(fusion.rs:575-581). Hard: a slot that is handed on one
node too early gives wrong numbers and no error.

**Telemetry emitter** (`incin-telemetry/src/emitter.rs`). Training threads send to two bounded
channels: the bulk lane evicts its oldest event when it is full, the priority lane waits for a
moment. A writer thread drains both. Hard: eviction is two operations on a channel that two other
threads use; drop closes two lanes while the writer is between them; the writer may be stuck or dead.

**Checkpoints** (`incin-core/src/serialize.rs`, `nn/save.rs`). Snapshots written to and read from
files.

**Everything else** (plan builders, tensors, shapes, modules, backends, code generation, capability
tables, hub and vision data, visualizer, language server, macros, tools) is numerical, static or
user interface; `PROJECT.json` lists these parts with the reason why each is left out.

### 1.2 What makes each part correct

| Part | It is correct when |
|---|---|
| Tuning service | never two live permits for a key; a result never changes; nobody sleeps through the event it waits for; a selection is legal for the caller; a distributed result was accepted by all; every `decide` returns |
| Tuning cache | a crash leaves no torn file; an acknowledged record survives; concurrent commits lose nothing but the oldest, unless a file is too long for a process with a smaller limit; every call ends |
| Data loader | the epoch is the ordered stream whatever the workers do; the reported error is the first one; `next` and `drop` return; abandoned workers end |
| Sampler | nearly every sample is read, nearly none twice; ranks take equally many steps |
| Context | both ranks are of one run; `Shutdown` is mutual; calls return; the loss of the peer is noticed |
| Pipeline | both halves of a transfer are the same transfer; microbatches run in causal order; 1F1B keeps at most two activations; a step completes, or both sides stop |
| Rendezvous | gradients are averaged with those of the same step; a failure stops both ranks; waiters are woken; calls return |
| Training step | ranks come to the same collectives; replicas stay equal; they are what one process would have; a run ends |
| State loading, optimizer commit | a call does everything or nothing, or says that it could not and marks what is wrong; staged memory is released |
| Compiled graphs | a value is read back as it was written; the plan has no more slots than needed and no fewer than are used |
| Telemetry | what is lost was counted, or was in the lane when a transport panicked; a shutdown flushes; bulk events do not starve priority events; senders are never stuck |

## 2. Modules and code

**`TuningService`** has one action per critical section. `Decide` is the entry of `decide`,
`LookupResults` and `LookupCache` its two lookups, `LoopFindsResult`/`LoopWaits`/`LoopLeases`/
`WaitTimeout` one turn of its loop each, `Wake` and `SpuriousWake` the return from `wait_timeout`.
`CommitLocal`, `CommitCoordinated` and `CommitCollective` check what they are given, then `CheckActive`,
`Persist`, `Publish`, `NotifyCommit` are the four stretches of `finish`; `Cancel` and drop are
`Release`, `NotifyRelease`. `ballots` holds the accepting votes that were sent (one that rejects
can only make a commit fail, which not voting does too); a collective vote has no epoch (`NoEpoch`),
and `Pair` is the pair of ranks collective tuning is written for. `Imported` are records that other
builds may have left in the cache, with a winner that is legal for its set or not. A legal set stands
for its digest, a candidate for its hash and encoding. Only the last answer of `decide` is kept
(`reply`): each is looked at when it is given. `SingleFlight` is what callers rely on: an owner per
key that can be lost at any time, and winners that stay. The refinement maps the owner to the
caller whose permit has the epoch in the lease table.

**`TuningCache`** has one action per file-system step of `write_entries` and of the loading under
the lock. `file` is what processes read, `durable` what a power loss comes back to, and `unsynced`
what it may come back to instead because the directory has not been synced. `Damage` stands for any
other program that writes into the file. A record is numbered when it is merged (`merges`, a history
variable), which tells two versions of a key apart; when it was created is the caller's word, and the
time of the commit is the clock's. `OnlyOldestEvicted` looks at every step in which a record leaves the
file. Damage and power loss aside, it is a step of the process that holds the lock: for a newer version
of the record's key, by `clear`, because the process has no room for it (`NoRoom`) and it is older than
all that were there and stay, or because that process takes the whole file aside as too long for its
own limit though it fits another's (`SetAside`, section 3.1). The record just committed is not among
those compared: it may be older than what it evicts, because a commit reads the clock before it waits
for the lock.
A stronger form, in which the evicted record is older than everything that stays, holds with two
commits and fails with three, which the proof found before the run did.

**`DataLoader`** follows `into_iter`'s worker closure and `DataLoaderIter::next`/`drop` step by step; the
dataset and the collator are external and settle for each batch, before the epoch, how it ends.
`OrderedStream` is the abstract promise; the refinement needs no mapping, as the iterator's cursor
and its verdict are variables of both. **`EpochShards`** is the index arithmetic of the same
function for all ranks, over an arbitrary permutation, and ranks that take their batches in
lockstep.

**`DistContext`** has one action per socket operation or state access of the three calls, for two
ranks with several threads each. An inbox holds what the peer wrote; a dead or closed peer is `Gone`.

**`PipelineSchedule`** holds the pure functions: clocks, transfer order and tags of both schedules.
**`PipelineRun`** composes them with the transport: plan comparison, communicator, launches, waits,
deadlines, failures, and an executor that works through the clocks as soon as inputs are there. The
repository has no executor yet; this one is external, the least that uses the functions as their
documentation says.

**`GradientRendezvous`** has one action per stretch under the mutex: `Call` deposits, and one look at
the table is `Take`, `Refuse`, `PeerGone`, `Diverge`, `Publish`, `TransportRefuses` or `Sleep`, in
the order of the code. The batch path and the single path (FSDP) have separate slots. A deposit is
named by its rank's call, so that a result shows which deposits it combines; the arithmetic, the
cutting of a batch into buckets (`chunk_bucket`) and the launch evidence are left out, and the hook
that tests use to make a transport fail is a transport that may refuse.

**`ShardedStep`** is the loop body of `fit`, `fit_with_config` and `fit_scaled` on two ranks: `Backward`,
`AllReduce` or `ReduceScatter`, `Mask`, `Step` or `Skip`, `Gather`, `Readback`, `Finish`, and `Fail`
anywhere. A parameter has one slice per rank. The content of a slice is not a number: it says how many
updates the slice got and by whose gradients, which is all that tells a replica from what one process
would have. A collective is one step of both ranks, which is what `GradientRendezvous` promises
(`Paired`); what happens when it does not come about is `Refused`. Loss scales are exponents of two.

**`ParameterCommit`** has one action per visit of a leaf in each pass of `load_state` (prepare, commit,
roll back, clear) and of AdamW's `step` with `commit_parameter_updates`. Any visit that reaches the
backend may be refused. Leaves that share a slot are tied. A pass visits leaves in any order.

**`MemoryPlan`** goes from capture to execution: `CaptureNode` adds any node to the graph and extends the
intervals as `LivenessMap::compute` does, and `CloseGraph` fixes the outputs; `PlaceSource`, `Release`
and `AllocateOutput` are the planner's loop over the nodes; `LoadSources`, `RunNode` and `Return` are
the executor, again and again (`NextInvocation`). The free list is a set, because its order must not
matter. The graph is part of the state: a run explores all graphs within the bounds.

**`Emitter`** has one action per channel operation of a sender, of the writer's loop and of `drop`.
History variables record what was written, evicted or refused. `LossIsCounted` needs of them only what
was written or refused: it starts from the calls that have returned, and looks for those whose event
no transport has seen or will see (`Unseen`).

Operators whose comment begins with "Mutant" are deliberate errors, each the body a definition would
have with a plausible bug. They are used in no specification; put in the place of the definition they
imitate, they make a property fail (`PROJECT.json`, `mutants`), which shows that the property sees it.

## 3. Runs

| Run | What it asks | Bounds and why they are enough |
|---|---|---|
| `tuning` | `SelectionLegal`, `SingleFlight`, `NoLostWakeup`, `PublishedUnanimously`, `ImplementsSingleFlight`, `DecideReturns` | two callers with different legal sets on one key (keys share no state), all four policies, one process or two ranks, an imported record that is right or wrong, two votes, two epochs, one unit of time: a lease, its expiry, the lease after it, and a commit and votes of the first that come late |
| `cache` | `NeverTorn`, `OnlyOldestEvicted`, `AckedSurvives`, `CallsEnd` | two processes with different limits, two keys, two sizes, two commits, and one fault, which may be a failing step, a death, a power loss or damage; two instants give every order of age |
| `loader` | `ImplementsOrderedStream`, `CallsReturn`, `WorkersStop` | none, one or two workers and every outcome of four batches: with a channel of one, a worker can block, another overtake it, and a third batch still be to come |
| `shards` | `SharedFairly`, `EpochEnds` | three ranks, up to five samples, batches of one and two, both policies: lengths below, at and above a multiple of the world, and a padding longer than the dataset |
| `dist_context` | `ShutdownAcknowledged`, `CallsReturn`, `PeerLossNoticed` | two threads a rank, three calls in all and one fault: two calls on one rank meet each other and a third on the other rank |
| `pipeline` | `TransfersPair`, `CausalOrder`, `LiveBounded`, `StepCompletes`, `NobodyHangs` | up to three microbatches and plans that differ in schedule, count or boundary, one fault: 1F1B reaches its steady state at two; the transport is bound to a context |
| `rendezvous` | `Paired`, `BothStop`, `Informed`, `CallsReturn` | two shapes, three calls a rank: a call after an error, with two rounds of leftovers |
| `rendezvous_retry` | *violated*: `FutureRefuses`, a call after the stop does not succeed | two calls |
| `sharded_step` | `ReplicasAgree`, `PairsAlike`, `MatchesOneProcess`, `RunsToTheEnd` | two parameters, so that a walk has a middle; two batches, so that a second step starts from what a first left; all three modes, with and without loss scaling, any overflow, a failure anywhere; the scale can shrink to its floor, and grow after two steps |
| `parameter_commit` | `AllOrNothing`, `UnrestoredIsMarked`, `StagingReleased` | three leaves, two of them tied, two contents, any number of loads and one optimizer step, any pattern of refusals; contents are symmetric |
| `memory_plan` | `ReadsItsOwn`, `PlanIsTight` | every graph of up to two sources and three nodes with up to two reads each, run any number of times: a slot is freed, handed on and handed on again; values are symmetric |
| `telemetry` | `LossIsCounted`, `ShutdownFlushes`, `PriorityNotStarved`, `CallsReturn` | two producers of two events each, lanes of one, a batch of one: two producers can race for an evicted slot, and the writer with both |

`rendezvous_retry` shows a disagreement with the documentation: a wait that timed out while the leader
published leaves its result behind, and the next call of that rank takes it for its own, after the
pair has stopped (train.rs:2425 against :2127 and :2316).

Safety runs of the sequential `parameter_commit` and `memory_plan` check deadlock: there is always a next
call. In the others deadlock checking is off, because the system may stop, when nobody calls any more.

### 3.1 What else was met while reading

These are in the models where they say so, and are the subject of no run.

* *Tuning.* `finish` writes the cache (engine.rs:554) before it looks at its lease for the last time: a
  superseded permit is refused, and yet its measurement replaces the published winner in the database
  (`src/docs/plan/tasks/TUN-003.md:22` asks that it be ignored). `commit_collective`
  (engine.rs:484-500) compares neither the epoch nor the problem of the result with those of the
  permit, so an older collective result may be published; `CommitCollective` has this.
* *Cache.* A process whose byte limit is smaller than the file is long quarantines the valid file of
  another (cache.rs:753-762), newest records included, although a commit is to merge its record with
  the writes of other processes (:681). It needs processes that were opened with different limits, and
  it is the last alternative of `OnlyOldestEvicted` (`SetAside`): without it the run finds `Quarantine` to
  violate the property. A commit reads the clock before it waits for the lock, so its record may be the
  oldest when its turn comes, and `RecordTooLarge` (cache.rs:707, documented at :56) then reports a
  small record.
* *Loader.* `RemainderPolicy::Pad` takes the padding from the front of the index list and panics when
  the padding is longer than that (loader.rs:812; documented at :210-212 without this limit; action
  `DerivePanics`). The document says `Drop` can give ranks unequal batch counts; the code truncates
  so that it cannot, and `EpochEnds` confirms that. The reorder buffer has no bound: one slow batch
  makes it hold the rest of the epoch whatever `prefetch` says (loader.rs:751). Without workers, a
  panic of the dataset reaches the caller.
* *Context.* `shutdown` and `wait_for_peer` store the outcome of their exchange without looking at the
  state, over a failure reported meanwhile (lifecycle.rs:165, :218 against state.rs:18, :87).
  `wait_for_peer` does not look at the state at all: called after a shutdown it reads a finished
  connection and turns `Shutdown` into `Failed`. The model has both.
* *Pipeline.* A transport bound to no context remembers no failure: a launch that was submitted and then
  reported as failed is launched again, and the streams are one transfer apart (transport.rs:488,
  :499, :520). `WithContext = FALSE` has this; the run and the theorems about pairing have a context.
  `ncclCommInitRank` has no deadline (transport.rs:109); `PipelineRun` assumes that it returns.
* *Rendezvous.* A timed-out waiter writes its own message over the first failure (train.rs:2585; "First
  failure wins", :2127). The model keeps that the pair is stopped, not the wording.
* *Training step.* With ZeRO and loss scaling the gradients are cut to the owned slice before
  `step_scaled` looks for an overflow (train.rs:1635-1662), so one rank may skip and the other step:
  half of each parameter is updated and the scales part, although :1560-1562 says that the scale is
  uniform. `PairsAlike` and `ReplicasAgree` hold all the same; `MatchesOneProcess` is about the other
  modes. Early stopping decides on a metric of one rank (train.rs:1928-1935), so one rank may stop
  while its peer waits in the next reduction. A loss scale that has grown to infinity never recovers.
* *Telemetry.* The emitter keeps a receiver of the bulk lane, so the `Disconnected` arm of `send_bulk`
  (emitter.rs:214) cannot be reached. `dropped_count` counts a drop that did not happen when the
  writer drains the lane in between, and counts once when two events are lost to two producers;
  hence the factor in `LossIsCounted`. After a transport panicked, up to a lane of bulk events stays in
  the channel, which the emitter's own receiver keeps open (:83, :211): nobody writes them and nothing
  counts them, hence its last term. Priority events that time out, or that were queued when the
  writer died, are in no count, though their lane is called guaranteed-delivery and always-delivered
  (:221, :288); `refused` has them.
* *Where a model is narrower or wider than the code.* `TuningService` fixes the participants once; the code
  reads `context.topology` at each call (engine.rs:276-279, :395). `DistContext.WaitForPeer` takes the lock
  in the step that begins the call (lifecycle.rs:160; nothing is read before). `PlansAgree` compares the
  schedule, the code's hash the descriptors only: with one microbatch the two schedules have the same
  transfers, and the code would go on where the model refuses. Tags assume fewer than 2^32 microbatches;
  `plan_tag` shifts any `usize` (pipeline.rs:162, transport.rs:726). Lanes of the emitter hold at least
  one event, as the two constants do; `with_capacities` (emitter.rs:103) would take zero. A captured
  node has one output, as tracing records it (tracing.rs:236); `capture` would take
  several (capture.rs:98-109), of which the executor keeps the first (compiled.rs:340).

### 3.2 Fairness

Safety runs use `Spec` alone. The others assume:

* `TuningService`: the clock goes on and a thread inside the service does not stop there. Nothing makes
  the application commit or give back its permit; that is why `decide` has a deadline.
* `TuningCache`: a process in a call keeps running; a lock that stays free is granted (weak fairness
  only, the number of calls is bounded).
* `DataLoader`: threads run, datasets and collators return. The consumer need not call `next`, and no
  timeout needs to happen.
* `EpochShards`: a rank that is not waiting for another one goes on.
* `DistContext`: threads keep running; each socket operation carries a deadline in the code, so it
  ends, in failure if nothing is heard.
* `PipelineRun`: processes go on. The deadline of a wait counts as certain only when the peer is no
  longer there; otherwise a schedule in which both stages wait for each other would pass by timing out.
* `GradientRendezvous`: threads run. The deadline is not assumed except, as a premise, in
  `CallsReturn`, so that `Informed` shows the wake-ups themselves. Spurious wake-ups are left out: they
  would let a waiter notice what nobody told it.
* `ShardedStep`: some rank that can go on does (`WF_vars(Progress)`; the number of batches is bounded).
  Nothing has to fail, so no failure is there to end a wait.
* `Emitter`: a call that a training thread has started goes on. That the writer does is a premise of
  the second half of `CallsReturn` only: the first half shows that senders return without it.

## 4. Proofs

TLAPS proves, for every value of the constants:

* `TuningServiceProofs`: `TypeCorrect`; `LeaseInvariant`, the inductive invariant; from it
  `SingleFlightHolds` (two permits of a key are never both in time) and `ResultsStay`
  (`ResultWrittenOnce`). `SingleFlight` is not inductive: two permits are kept apart by their epochs, so
  the invariant says that epochs are issued once (`EpochsIssued`, `EpochsDistinct`) and that a permit
  that is still in time is the lease in the table (`UnexpiredOwns`). For `ResultsStay` the point is
  `Publish`: `OwnerUnsettled` says that the problem of the lease in the table has no result yet.
  `SelectionsLegal` adds what is legal about a choice before it becomes an answer (`HeuristicLegal`,
  `CommittedLegal`). `VotesUnanimous` adds that a commit that passed its checks stays backed by its
  votes (`FinishingBacked`), and that as many votes as participants, of distinct participants, leave
  nobody out (a pigeonhole argument). `NobodyOversleeps` (`NoLostWakeup`) goes action by action: what
  changes the lease or the results of a key leaves its thread about to notify. `FlightImplemented` is
  the refinement of `SingleFlight`: each step is a claim, a loss, a settlement or a stutter of it, with
  `OwnersNamed` to show that at most one caller is the owner.
* `DataProofs`, the loader: `LoaderInvariant`, `TypeCorrect` and `StreamImplemented`, the refinement of
  `OrderedStream`. The hard case is a receive that finds the channel disconnected: it must be that the
  batch it waits for was lost with its worker. For that, every batch taken is in the buffer, in the
  channel, in a worker's hands, or lost (`Accounted`), and a worker that stopped early did so because
  some batch had failed (`Stopped`).
* `DataProofs`, the shards: `EpochShared` (`SharedFairly`), for every dataset, permutation, batch size,
  policy and number of ranks, and `EpochsEqual`. The behaviour is short; the invariant says only that
  a rank's batches are those of its slice of one permutation (`Parted`), and the rest is arithmetic. The
  narrowed list has `Share * World` places (`NarrowedIs`). A read has a place in it (`ReadIs`), no two
  reads have the same (`OnePlace`, since quotient and remainder are unique), and only places beyond the
  dataset's length repeat a sample (`FirstTime`); so the reads less the repeats inject into the samples.
  In the other direction each place is read, unless its rank dropped it with an incomplete batch
  (`PlaceRead`), and what is unread is counted as the image of those places and of the ones cut off.
  `EpochsEqual` says that a collective that one rank has entered is one that every rank with an epoch
  has a batch for: what `EpochEnds` needs besides fairness. `EpochTypeCorrect` bounds every batch.
* `PipelineProofs`: `TagsDistinct`, that a tag names one transfer, for every number of microbatches;
  `TypeCorrect`; and `TransfersAlwaysPair`. The invariant (`StreamInvariant`) says that a communicator, or a
  launch, means that the plans are equal (`Agreed`), and that each rank's stream is a prefix of its
  plan that is level with its cursor, or one launch ahead of it with the context invalid, when the
  call failed after the launch (`Streams`). Pairing follows by comparing two prefixes of one
  sequence. `AlwaysCausal` (`CausalOrder`) adds that a transfer that carries an activation or a gradient
  was launched after the clock that made it (`Produced`), and that a clock that ran had its input
  (`Used`). Both are about a transport that is bound to a context (`WithContext`). `FewRetained`
  (`LiveBounded`) needs none: it follows the closed form `Retained` of what a 1F1B stage holds, clock by
  clock.
* `PipelineProofs`, the schedules: `ClockOf` gives the clock of each action and `PlaceOf` the place of each
  transfer in its stage's plan, for GPipe and for 1F1B. `ClocksAlwaysValid` follows: `build_checked`
  accepts the clocks of every schedule. So does `PipelineNeverStuck` (`NeverStuck`): while nothing has
  failed, the two stages are never both blocked. They have waited for equally many transfers; the
  next one is missing because one stage has yet to compute what it carries, and that stage waits for a
  transfer that comes later in the common order; but each stage's clocks meet its transfers in that order
  (`OrderFits`). `PipelineOnlyForward` (`OnlyForward`) adds that each step without a fault raises `Effort`,
  which is at most `12 * M + 10`. With the two, `StepCompletes` needs nothing but that stages go on.
* `DistContextProofs`: `Lifecycle`, the inductive invariant, and from it `TypeCorrect`, `RunsMatch`,
  `ShutdownMutual` and `ShutdownOnce`. The four properties are about states, but they hold because of
  what is under way: until rank 0 has answered, only hellos of rank 1 are; an acceptance names rank 0's
  run; a Shutdown message, and every step a thread takes after it read one, means that `told` has the
  other rank (`Heeds`); and a thread between two socket operations of `wait_for_peer` or in `await`
  holds the lock (`Locked`). `Exclusive` adds that while one thread is in a shutdown the state is not
  `Active`, so that no other can enter. The steps of the calls are first shown to be `CallStep`s.
* `GradientRendezvousProofs`: `TypeCorrect`, `Rendezvous`, `PairsBelongTogether`, `FailureStopsBoth`.
  The invariant follows a rank up to its first error: idle, it has left nothing in the table
  (`IdleClean`); in a call, it has its deposit or its result there, not both, and in no other slot
  (`BusyOwn`); while neither has failed, equally many collectives are settled for both (`Level`); and
  when one has failed, the other has not settled more than that one (`NotBeyond`). After its first error
  a rank may have anything left over, which is why all of these are about ranks without one.
  `NobodyOverlooked` (`NothingUnseen`) is the safety core of `Informed`: a rank sleeps only while the pair
  goes on, its peer is there and it has no result, and if both deposits are in the table it is not the
  leader, which is up. Its invariant: what a rank saw when it fell asleep is still so (`Unaware`), as
  every step that changes it notifies; and a rank in a call has its deposit or its result (`Provided`).
* `TrainingProofs`, the step: `StepInvariant`, `TypeCorrect`, `CollectivesPair` (`PairsAlike`), `ReplicasEqual`
  (`ReplicasAgree`), `OneProcess` (`MatchesOneProcess`), and `ScalesEqual` (`UniformScale`: without
  sharding the loss scales never part). Between two collectives a rank runs freely, so the invariant
  compares what is the same at all places in between: whether a sharded step is open (`Half`), the
  batches reduced or stepped (`Count`), how far the walk has come (`Walked`). With sharding, replicas
  agree on what is gathered (`Agreed`); without, a rank that has stepped has what the other will have
  (`Twins`). `Covered` and `Exact` say whose gradients are in an owned slice. `StepNeverStuck`
  (`NeverDeserted`) is the safety core of `RunsToTheEnd`: while no rank fails on its own, both are done,
  or one has work of its own, or both have brought the same collective. It needs that a rank that waits
  has stepped as much as its peer, so that the peer cannot be done (`NotDeserted`), hence that nobody is
  refused (`Healthy`). `StepAdvances` (`Advances`, `WorkFits`): each step without a failure advances a
  rank and takes none back, and the work of a run is bounded.
* `TrainingProofs`, the emitter: `LossCounted` (`LossIsCounted`), `PriorityServed` (`PriorityNotStarved`) and
  `ShutdownComplete` (`ShutdownFlushes`), for any number of producers, events, lane capacities and
  batch size. What is `Unseen` is among the events that were evicted or given up, or, after a panic,
  still in the bulk lane, which holds no more than its capacity: the calls inject into those two
  (`CallsOfEvents`, by `NoneMissing`). The first are counted by a ledger (`LossLedger`): a drop that is counted pays for two losses, and a
  sender that has counted and not yet evicted or retried still holds what it may spend; a step moves
  one or the other. Overtaking is bounded by the batch drained so far (`BatchBounded`). Flushing needs
  that each event is in one place only (`EachOnce`), that none is missing (`NoneMissing`), and that a lane
  the writer has left was closed and empty (`ClosedInOrder`; `EmitterTypeCorrect` bounds the lanes): then, when the writer has ended, the lanes
  are empty and no sender is in a call, and nothing else is left for an event to be in.
* `AtomicityProofs`, loading and commit: `Typed`, `Atomic` (`AllOrNothing`), `FailuresMarked` (`UnrestoredIsMarked`),
  `StagingGone` (`StagingReleased`), for any sharing of variables. The invariant says, for each pass, which
  variables may differ from what the call found and which leaf answers for each.
* `AtomicityProofs`, the cache: `FileNeverTorn` (`NeverTorn`), `AckedRecordsSurvive` (`AckedSurvives`) and
  `OldestEvicted` (`OnlyOldestEvicted`), for any number of processes, each with limits of its own, and
  of records, deaths, power losses and damages. The file is one thing that all see and another on disk, so
  the invariants are about every version a power loss may bring back (`OnDisk`). `DiskWhole`: they are
  whole, because the temporary file is complete and synced before the rename (`TempReady`), and only one
  process is past the lock (`OneInside`). `AckedEverywhere`: an acknowledged record that is in the file
  is in each of them, because the directory was synced before the promise; it needs that a record about
  to be written was never acknowledged before (`LoadedSince`), which its number tells. `OldestEvicted`
  is about every step. A rename replaces a file several steps after it was decided what to drop:
  `ByLoad` and `Lawful` carry the reason from `Load` and `Merge` to it. A quarantine takes records only
  from a file that fits some process's limits (`AllFit`: each version of the file fits those of the
  process that wrote it, as `PruneSize` stops at the least number of records that does, the minimum of
  a set of numbers by well-founded induction). The lemmas about `Prune` say for each
  of its three stages that it drops only what is older than all it keeps, and only when a limit is
  exceeded; keeping `Tidy` (one record per key, finite) makes exceeding a limit monotone.
  `CacheTypeCorrect` says that what any process reads, holds or writes are records.
* `MemoryPlanProofs`: `Typed`, `ReuseIsInvisible` (`ReadsItsOwn`), `TightPlan` (`PlanIsTight`), for every
  graph. Intervals cover every use (`GraphInv`); a slot's holders have disjoint intervals and slots are
  numbered below the peak (`PlanInv`); while an interval lasts the slot holds the value (`RunInv`).

Assumptions are the named `ASSUME`s of the modules (kinds and non-emptiness of the constants); TLC
evaluates them in the runs. `ProcessesAssumption` of the cache says that `Nobody`, the owner of a free
lock, is no process. `ResultWrittenOnce`, `RunsMatch`, `ShutdownOnce`, `UniformScale`, `NobodyStranded`,
`NeverStuck`, `OnlyForward`, `NothingUnseen`, `NeverDeserted` and `Advances` are proved and are in no run.

Every invariant and every action property that a run checks is proved, and both refinements. Only
model-checked are the liveness properties: `DecideReturns`, `CallsEnd`, `CallsReturn` (of the loader, the
context, the rendezvous and the emitter), `WorkersStop`, `EpochEnds`, `PeerLossNoticed`, `StepCompletes`,
`NobodyHangs`, `Informed` and `RunsToTheEnd`. They rest on fairness and so on ENABLED, which is beyond the
proof system's backends; so is induction over data. `FutureRefuses` is violated and stays so.

## 5. Plan

Done, in this order: tuning service, cache, loader and sampler, context, pipeline, rendezvous; then
memory plan, parameter commit, training step, emitter, collective commits, and the proofs of section 4.

Next to model:

1. **Collective plan builder** (`incin-core/src/dist/plan/`): sequence numbers and dependencies; an
   abstract specification for the plan comparison of `PipelineRun`.
2. **Collective tuning**: the exchange of reports before the vote, which is now an arbitrary vote.
3. **Execution policy scopes**: nesting and unwinding of the thread-local policy and tape.
4. **Checkpoints**: interrupted saves (serialize.rs:1126 writes in place), composed with the training
   loop's hooks and early stopping.

Next to prove: the safety cores of the liveness properties that have none yet (`EpochsEqual`,
`PipelineNeverStuck`, `NobodyOverlooked`, `StepNeverStuck` and `NobodyOversleeps` are those of `EpochEnds`,
`StepCompletes`, `Informed`, `RunsToTheEnd` and `DecideReturns`): that a waiter is never the last one to
move, and that what remains to be done shrinks, first for the loader's `CallsReturn` and `WorkersStop`,
then for `NobodyHangs`, where a stage has to outlive its peer's faults.

### Not modelled

Kernels, gradients and optimizers' arithmetic, shape rules and placement, reference collectives, folding and
fusion, code generation, codecs, capability tables, user interface and the bindings of foreign
libraries: they are sequential and without state that outlives a call, and what could go wrong in
them is a number, not an order. They are most of the code, so that the models cover a small share of
the repository's lines.
