# A verification project for the go-opera node

This directory holds TLA+ models of the Opera (Fantom) node in this repository, the TLC
runs that check them on small instances, and proofs, checked by TLAPS, of what matters
most for every instance. `PROJECT.json` is the index: components, runs, the lines of code
that each definition translates (`map`), the mutation that breaks each property, findings,
hazards and theorems.

How to run (TLC and TLAPS installed, in this directory):

    tlc -workers 2 -config MCLlrVotes.cfg MCLlrVotes
    tlapm LlrVotesProofs.tla

## 1. The system

The node takes part in Lachesis, an aBFT consensus on a DAG of events. The consensus engine
itself, the stream leechers and the flushable database are the library lachesis-base, which
is not in this repository; the EVM, its tries and its snapshot are go-ethereum. What is here
is everything around them.

| component | state | operations | interacts with |
|---|---|---|---|
| **Event callbacks** `gossip/c_event_callbacks.go` | `engineMu`, the engine, `blockProcWg` | `processEvent`, `processSavedEvent`, `SwitchEpochTo`, `commit`, `ReprocessEpochEvents` | everything below runs under `engineMu` or waits for it |
| **Block pipeline** `gossip/c_block_callbacks.go`, `gossip/blockproc/` | `BlockState`, `EpochState`, one worker | `BeginBlock`, `ApplyEvent`, `EndBlock`, `blockFn` | called by the engine; `blockFn` runs in a worker which the next block and a commit wait for |
| **LLR votes and decisions** `gossip/c_llr_callbacks.go`, `store_llr_*.go`, `store_last_*.go` | ballots, weights with bitmaps behind a write-back cache, results, `LlrState`, last voted numbers | `ProcessBlockVotes`, `ProcessEpochVote` | events carry votes, streams carry ballots |
| **Full records and decided state** `gossip/c_llr_callbacks.go`, `store_decided_state.go`, `store_activation_heights.go` | blocks, epoch history, epoch marks, upgrade heights, lowest numbers to fill | `ProcessFullBlockRecord`, `ProcessFullEpochRecord` | beside consensus, mostly outside `engineMu` |
| **Snapsync stages** `gossip/sync.go` | `syncStatus`, `snapState`, two channels | `snapsyncStageTick`, `snapsyncStateLoop` | handler.Start and Stop, `SwitchEpochTo`, `PauseEvmSnapshot`, snap leecher |
| **Commit and crash** `gossip/store.go`, `gossip/tflusher.go` | caches above the tables, one flushable overlay | `Commit`, `PeriodicFlusher` | under `engineMu`, after `blockProcWg` |
| **Event store** `gossip/store_event.go`, `store_epoch.go`, `store_heads.go`, `store_last_events.go` | events; heads and last events in databases of the epoch, which do not survive it, or a restart | set, delete, iterate, exchange the epoch's store | event callbacks, emitter, streams |
| **Emitter** `gossip/emitter/` | last emitted event, its file, doublesign timers, challenges | `EmitEvent`, `tick`, `OnEventConnected`, `OnNewEpoch` | the file survives what the database loses |
| **Transaction pool** `evmcore/tx_*.go` | pending and queue, nonces, journal | add, promote, demote, reset | blocks move its head; its own goroutine reorganises it |
| **Handler, peers and streams** `gossip/handler.go`, `peer.go`, `peerset.go`, `gossip/protocols/` | peers, progress, inflight bounds | connections, messages, broadcasts, four leechers and seeders, processors | `lachesis-base` orders events and bounds what is inserted; the callbacks it gets are here |
| **Event checks** `eventcheck/` | nothing, or a copy of the epoch's validators | basic, epoch, parents, heavy, gas power | before an event or record is processed |
| **Version watcher, filters, log index, gas price oracle** | small | read-only or advisory | |
| **Rules, types, integration, launcher, API, keys** | configuration | wiring and I/O | |

### What is hard, and what makes it correct

* **Votes.** A weight, the bitmap of its voters and the result it leads to are in different
  places with different lives: the weight in a cache that evicts and is only flushed at a
  commit, ballots in the overlay. Correct: a weight is that of the stored ballots' different
  creators whatever happens; a result has more than a third behind it; on disk it is final.
* **Records.** Two inserters and consensus write the same blocks, epochs and upgrade heights.
  Correct: nothing missing below the head or below the lowest number to fill, a block is
  executed under its own epoch's upgrades, and the lowest number does not stay behind.
* **Snapsync.** Two goroutines, two channels, a download, a snapshot being generated and a
  network that moves on. Correct: fullsync, a download and the EVM snapshot never meet; the
  stages do not go back; the node gets to fullsync; start and stop return.
* **Emitter.** The file written per event and the database flushed per minute give a
  validator two memories after a crash. Correct: it never signs two events with one parent.
* **Events into the DAG.** The checks take no lock and read the epoch from three places, which
  a sealing in the middle of `processEvent` changes one after the other. Correct: the epoch's
  index is that of its events, also after a restart; honest peers are not taken for faulty;
  what is dropped on the way comes again.
* **Block pipeline.** A block may be skipped, and what it said of cheaters, uptimes and gas is
  for a later one; sealing exchanges the validators that receipts and refunds are counted by.
  Correct: cheaters are punished once, no gas power is used twice or lost, and a stored block
  leads to its transactions and state again.
* **Transaction pool.** Adding, a head that moves, eviction, and a reorganisation that merges
  requests and runs on its own goroutine. Correct: lists, lookup and nonces agree, nothing is
  missed by subscribers or the journal, every call and the stop return.
* **Peers.** A connection is entered in six places one by one, fails at any of them, and
  waits for its snap satellite. Correct: nothing of it is left behind, and it ends.

The hazards are listed line by line in `PROJECT.json`, with the property that covers each or
the reason why none does yet.

## 2. The modules

| module | models | is used by |
|---|---|---|
| `LlrDecision` | the promise of LLR voting: votes only grow, an item is decided on the word of a third, at once and for good, and a restart falls back to the last flush | `LlrVotes` implements it |
| `LlrVotes` | `processBlockVotes`, `processEpochVote`, `VotesCache`, bitmaps, `Commit`, crash | `MCLlrVotes`, two runs |
| `LlrRecords` | consensus and full records at the granularity of writes, commit, crash, the end of a snapsync | `MCLlrRecords`, two runs |
| `SnapSync` | `gossip/sync.go` with `Start`, `Stop`, `SwitchEpochTo`, `PauseEvmSnapshot` and `processEvent` as far as they meet it | two runs |
| `Emitter` | `EmitEvent`, what `processEvent` does to the validator's own events, the two files, commit, crash, peers | two runs |
| `DagEvents` | events from their arrival to the commit after `processEvent`: checks, queue, buffer, index, the switch of the epoch, restart | `MCDagEvents`, one run |
| `GasPower` | the gas power check's arithmetic | `BlockPipeline` |
| `BlockTxs` | what the transactions of a block do to accounts, and how they are found again in what is stored | `BlockPipeline` |
| `BlockPipeline` | decided blocks: skipping, cheaters, confirmed events, sealing, refunds, what is stored, re-execution | `MCBlockPipeline`, one run |
| `TxLists` | the pool's lists and what each operation does to them, under its lock | `TxPool` |
| `TxPool` | the calls, the loops and the reorganisation with their locks and channels | `MCTxPool`, one run |
| `Peers` | a connection's way through `handle`, the peer set, the snap satellite, `Start`, `Stop` | one run |
| `LlrVotesProofs`, `LlrRecordsProofs`, `SnapSyncProofs`, `EmitterProofs`, `DagEventsProofs`, `TxPoolProofs`, `PeersProofs`, `BlockPipelineProofs` | the proofs, each about the module that it is named after | |

### LlrVotes

`db` is the store as the process sees it and `disk` as of the last flush; `cache` is the two
`VotesCache`s; `job` is the ballot under `engineMu`. `BeginBallot` has the early returns of
`processBlockVotes` and `processEpochVote`, `CountVote` is `processBlockVote` or
`processRawEpochVote` with the cache's `Get` and `Add` and an eviction of any entry (the LRU
order is left open), `StoreBallot` the rest. `Commit` writes the caches out and flushes
everything in one piece, `Crash` returns to `disk`. `PassPreLlr` is what `EndBlock` does with
the lowest numbers while the rules have LLR off. A ballot is a value with its votes;
signatures, Merkle trees and names are left out. Weights are a measure (`IsMeasure`), so that
they need no summation. Weights are natural numbers: the code has 32-bit weights whose
total the library bounds to half of that, so no sum overflows.

Block votes and epoch votes share the actions: the kind of an item keeps them apart, in
the caches as well.

### LlrRecords

`engine`, `worker`, `br` and `er` are the four threads, each with its next step. A processing
of an event that does not seal is atomic (`BeginBlock`): it holds `engineMu` and leaves the
writes to the worker. A processing that seals holds it from the read of the upgrade heights
(`BeginSealing`) to the commit (`Commit`). The worker's `RecordEpoch`, `RecordBlock`,
`EndBlockFn` and the inserters' writes are single steps in the order of the code. What a
block contains is abstracted to its number: whoever writes a number writes the network's
value for it. `MayDecideBlock` and `MayDecideEpoch` say when a result can be there, by the
guards that `LlrVotes` models. A switch to an epoch is only possible while `syncing`, and
consensus only when not.

### SnapSync

`tick` is the stage loop, or before it has started handler.Start, and says what the tick does
next; `loop` is the state loop. `BeginTick` is `updateSnapsyncStage` and the read of
`LlrState`; then every candidate epoch is skipped (`SkipCandidate`) or has the snapsync
ended at it (`SendCancel`, `TakeCancel`, `SwitchEpochTo`), and `Push` is the end of the tick.
Every wait is a guard: for room in `updatesCh`, for the answer to a cancel, for quit. Ages
are numbers of epochs to `netEpoch`, the clock. The download, its failure, the EVM snapshot's
generation and the network are external and modelled by what the stages see of them.

### Emitter

`db` and `disk` are what the store knows of the validator's own events, now and as of the
last commit; `eventFile` and `votesFile` are the files, which a crash leaves alone; `job` is
how far `EmitEvent` has come, under `engineMu`; `net` is what peers have. An event is its
epoch and its chain of self-parents, each with the life of the process that created it and
the block it votes for, so that two events made after different crashes differ. `Create` is
`createEvent` and the saving, from where peers can fetch the event (`Serve` reads the store
without `engineMu`, as `handleMsg` and the streams do); `Process` is the rest of
`processEvent`, which may commit or seal the epoch; `WriteEvent`, `WriteVotes` and
`Broadcast` follow. `premature` is history: what peers had before it was sent, and at which
step. `Lock` is `errlock.Permanent`. `Receive` is an own event that comes back from a peer.

Timers (intervals, doublesign protection) only hold events back and say nothing of what has
been downloaded by then: waiting is a step that is not taken. Protection is on, so that the
pause for a lost event is in force. There is one instance, always a validator. An event votes
for one block at most; the epoch vote and its file work the same way and are left out. Errors
of `processEvent` on an own event are not modelled.

### DagEvents

`store` is the database with its caches and `disk` the last commit; `index` is the epoch store
and `engine` what the DAG indexer and the engine have; `ctx` are the epochs of the two readers
(`checker_helpers.go`). `HandleEvents` is the message with the light check, `HeavyCheck` the
checker's goroutine, `Insert`, `Push` and `PushChild` the library's inserter and buffer
(external) with the callbacks the handler gives it; `Process` is `processEvent` up to the saved
event, then `ProcessSavedEvent` (or `ProcessSavedFails`), `ProcessEventEpochIndex`,
`SwitchEpochTo`, `Notify` and `EndEvent` one step each, since whoever takes no `engineMu` runs in
between. `Emit` is the same for an own event. `Clear` is `onNewEpochLoop`. `Crash` drops the
epoch's databases (`integration/assembly.go`) and is followed by `ReprocessEpochEvents`. An
event is its epoch, creator, Lamport time and parents, and which check, if any, finds it wrong; a
right one has at most one parent of its own creator, its self-parent. The engine seals an epoch
when a given set of its events is complete. A restart's index is a fold over the epoch's events
in the order of their IDs, as the database is iterated.

### BlockPipeline, BlockTxs, GasPower

`bs`, `es` and the rest are the block and epoch state of `inter/iblockproc`. `Block` is
`BeginBlock` to `EndBlock` of a block that consensus decides, from any set of unconfirmed
events with their ancestors: `Skipped`, or `Start` (cheaters, confirmed events, pre-internal
transactions, sealing) and `Worker` (`blockFn`: internal transactions, spilling, transactions,
receipts, the stored block). `SealEpoch` includes `UpdateRules`. `BlockTxs` translates
`TransitionDb` with this network's own rules of who is returned what, the EVM processor and the
driver's internal transactions and logs; the driver contract's answers are external. `GasPower`
is `CalcValidatorGasPower` with whole seconds; events that would use more than they may are not
made (`Made`). `Restart` loses the states of the last blocks and runs `RecoverEVM`. `account`
and `history` are history variables: what each validator was given and has used, and what was
executed.

### TxLists and TxPool

In `TxLists` the pool is a record of sets: `pending`, `queue`, `all` (the lookup) with `own` its
local part, `locals`, `nonce` (the noncer), `journal`, and the head. Operations are functions
from pools to pools, or to sets of outcomes where prices decide (which transactions the price
heaps discard, which accounts a truncation takes from, is left open). In `TxPool`, `call` are
the goroutines in `addTxs`, `loop` the pool's loop, `sched` `scheduleReorgLoop` with the
request it merges, `run` the `runReorg` it has started, `mu` the pool's lock; every channel
operation and every critical section is a step. A call that has left the scheduler's select may
launch the next run at once (`Continue`): both belong to one turn of its loop. Known transactions
are left out before the lock is taken (`Begin`), and are looked for again under it
(`AddOutcomes`).

### Peers

Per peer and protocol (the main one and its snap satellite) a goroutine goes through the steps
of `handle` or `runSnapExtension`; `set` is the peer set with its two maps of satellites that
wait for each other, `at` the parties where the peer is entered, `stage` how far `Start` and
`Stop` have come. The server that connects and disconnects is external. Which peers run the snap
protocol, run the version of the main one that goes with it, and have "opera" in their names are
constants (`RunsSnap`, `FTM63`, `Named`): the first two make a peer eligible for snap, whose
connection is refused otherwise, and a useless peer outside of them or without the name is banned.
The leechers and the syncer are left in one step, as nobody looks in between.

## 3. The runs

| run | bounds | shows |
|---|---|---|
| `llr_votes` | 3 validators of weights 2, 1, 1, epochs 0..2, numbers 0..3, 2 hashes, 6 ballots, cache of 2, words of 2 bits, one pre-LLR block; 118,002 states | weights, results, lowest and last numbers are right under every order, eviction, flush and crash, and the counting implements `LlrDecision` |
| `llr_votes_moved` | the same, but in epoch 2 a validator has gained weight, which moves another's index | the finding on votes that are weighed by two epochs |
| `llr_records` | 4 epochs of a block each, 2 upgrades, one crash; 855,810 states | no gap below a head, records with their parents, right epochs and upgrades, no lowest number left behind; a snapsync ends |
| `llr_records_refused` | the same | the finding on records that were half written |
| `snapsync` | 4 epochs, ages of 1, 2 candidates, a channel of 2; 142,711 states | fullsync, downloads and the snapshot stay apart, no snapsync comes back, the node reaches fullsync |
| `snapsync_hangs` | the same | the findings on Start and Stop |
| `emitter` | 2 epochs, 2 own events each, one block to vote for, one crash; 1,461,882 states | no two events with one self-parent, nor the same votes twice, reach peers, except by an early fetch; a lost event is waited for no longer than its epoch |
| `emitter_locked` | as `emitter` | the finding on the lock of a node with a right database |
| `dag_events` | 6 events in 2 epochs, a fork, a faulty event, an own one; an honest and a faulty peer; a queue of one; one crash; 36,282 states | the index is that of the epoch's events, no honest peer is removed, events get connected |
| `block_pipeline` | 3 validators, a fourth who joins and one who may leave, 9 events with 6 transactions in 3 epochs, a cheater, 2 changes of rules, one restart; 32,490 states | cheaters punished once, uptimes within the epoch, gas power conserved, stored blocks replay, states are recovered |
| `txpool` | 2 accounts, 7 transactions, 3 calls of which 2 are made, 3 heads of which one may lack its state, room for 4; 200,950 states | lists, lookup and nonces agree, nothing is lost, limits hold, everyone returns, the pool follows the head |
| `peers` | 2 peers, both with the satellite, one of them without a fitting main protocol, one trusted, room for one, 3 connections; 107,215 states | nothing is left behind, connections end, Stop returns |

**Why these bounds are enough.** `llr_votes`: two ballots agree and make a third only together,
one repeats a vote in another ballot, one has a third alone and contradicts them, one claims a
wrong epoch; four keys of one kind meet a cache of two, so that clean and mutated entries are
evicted and come back; three validators and words of two bits give a partial last word; numbers
decided out of order give `actualizeLowestIndex` something to skip. `llr_records`: four epochs, so
that a record can be two epochs ahead of consensus and the heights of both upgrades can come in
either order, with an epoch left in which they might change a third time; three blocks seal their
epochs and the last does not; `SwitchSpan = 3` is the code's. One crash is enough to leave a
partial record, which a second would only repeat. `snapsync`: four epochs let the network outrun a
download twice. A channel of two is filled by an epoch and a cancel (the code has 128 entries);
the code tries three candidates, the model two: what matters is that there is one after a switch.
`MaxStartAge` and `MinEndAge` are equal as only `MaxStartAge <= MinEndAge` is used. `emitter`: two
events in an epoch give an event with a self-parent and one without, two epochs let the store and
the file be in different ones, and one crash leaves any mixture of the two memories; a second
crash, with fewer events, gave nothing new. A fork is reachable in the model, by an early fetch.
`dag_events`: an event with two parents, which may come in either order, a fork and a faulty
sibling fill the buffer; the own event seals the epoch, made or fetched back after a crash that
lost it; one event of the next epoch is there before the node is, and its sealing leads to an
epoch that wants an upgrade. A queue of one makes peers wait; with longer queues the inserter sees
the same orders. `block_pipeline`: the three epochs let a validator join, be caught, and be gone;
a block may have any number of the events; limits are such that gas is spilled and refused.
`txpool`: limits of one slot make each truncation bite with two transactions of an account; a
local call that replaces overlaps with one that adds; a run under way, one waiting and a third
request are all there can be. `peers`: two peers and a limit of one full peer give a second one
that is refused or useless; a second connection of the same peer finds what the first has left.
The proofs below hold for any of these numbers.

Deadlock is checked in the LLR runs and in `txpool`. In the others the system may really stop:
a node that has been stopped, an emitter that is locked, events that are all decided or
connected, or what is bounded has been used up; their configurations switch it off.

**Fairness.** `LlrVotes` has none and no liveness property. `LlrRecords`: records keep coming
and both inserters go on (each is a goroutine whose waits for `engineMu` end), and the tick
ends a snapsync that can be ended (it runs every 200 ms). Neither consensus nor commits are
fair, and a crash is never required. `SnapSync`: weak fairness for the tick and the state
loop as wholes, for records, downloads that finish, the snapshot's generation and the
network. Downloads may also fail, and nothing says they do not while the network moves on.
Strong fairness for taking quit: Go's `select` picks at random among what is ready, so a
closed channel is taken sooner or later although updates keep coming. `Emitter`: the steps of
`EmitEvent` go on once it has begun, as it waits for nothing, and the other validators seal
epochs. Neither emissions nor downloads nor commits are fair. `DagEvents`: the inserter, the
checker and whoever is in `processEvent` go on; the inserter gets `engineMu` although the emitter
takes it too (strong fairness); honest peers offer a valid event again and again, as it is asked
for as a missing parent and by the stream of the epoch's events, and find room in the queue.
Faulty peers, emissions and commits are not fair. `TxPool`: goroutines run, `mu` is not
withheld from one of them for ever, subscribers read; calls, new heads and Stop need not come.
`Peers`: each connection's goroutines go on, the server lets go of a connection that is closed
and the node starts; peers need not connect, send or close. `BlockPipeline` has no liveness
property.

**Mutants.** Each property of a passing run has in `PROJECT.json` a change of a mapped
definition, the way a plausible bug would change the code, by which TLC finds it violated.
They stand in the modules beside the definitions they change.

## 4. The proofs

All are checked by TLAPS for every value of the constants that meets the modules' named
assumptions.

* `LlrVotesProofs`: types; that a weight is its voters' (`SpecTallyMatchesBallots`), that a
  decided item has a third (`SpecDecidedByThird`), that no bit is out of range
  (`SpecBitmapInRange`), all three with `StableValidators`, and without it that a flushed result
  is final (`SpecFlushedResultsFinal`). The inductive invariant `IInv` says of both copies of the
  store that a clean cache entry equals the table's, that weights match the votes counted, that
  allocated bitmaps have room for every index, and that an item has a result exactly if some
  weight for it is full, and that memory extends the disk. It is needed because
  `TallyMatchesBallots` alone does not survive an eviction (a clean entry is dropped without being
  written). For finality, `MemoryInv` says that memory extends the disk. `StableValidators` is
  necessary: `llr_votes_moved` refutes `DecidedByThird` without it.
* `SnapSyncProofs`: types, and that a switch's epoch exists (`SpecTypeOK`); no way back to a
  snapsync (`SpecNeverSnapsAgain`); no download beside an enabled snapshot
  (`SpecDownloadPausesSnapshot`), from `ChannelInv`: a cancel in the channel is the last
  update and somebody waits for its answer, so that when it has been answered nothing is left
  that could start a download; and `SpecFullsyncAlone`, without `FreshGenesis`, from
  `FullsyncInv`: while a snapsync goes on it stays needed, since every state it may
  download is above the head, so the stage only leaves `ssSnaps` through a cancel.

  `SpecStagesApart` puts the last two together.

Of `LlrVotes` there is more: `SpecIndexesMatchStore` (the lowest undecided numbers and each
validator's last votes are those the tables give; the invariant says it of both copies, and of
the numbers below the lowest one by one, as `actualizeLowestIndex` skips them), and
`SpecImplementsDecision`: with `StableValidators` every step of `LlrVotes` is a `Count`, `Flush`,
`Restart` or stutter of `LlrDecision` under the refinement mapping. `SpecDecisionsRight` says of
`LlrVotes` what the abstract module promises: memory and disk hold only what enough voters are
behind, and memory extends the disk.

* `LlrRecordsProofs`: types (`Typing`), nothing missing below a head or a lowest number to fill
  (`Complete`), no lowest number left behind (`NotStuck`), and the epochs and upgrades of blocks
  (`OwnEpoch`). `NothingMissing` is not inductive: `Working` says of every thread what must still
  hold when it goes on from where it has been interrupted, `Raised` who is about to raise a lowest
  number that points at what is stored, and `Heights` that the list of upgrade heights begins with
  epoch 1 and the first change and, behind the head, ends with the last one, for the list in the
  store and for the copy that each writer has read. `OwnEpoch` rests on that: with at most two
  changes the first and the last are all there is between.
* `EmitterProofs`: types, `Doublesign`, `Memorable`. The invariant says of every event that peers
  or the store have by whom it is remembered (a commit, a later epoch, the file, or the emission
  under way), that a file's event is above all that it stands for, and that any fork has a leaked
  branch; crashes and commits then only move events between those cases.
* `DagEventsProofs`: types with the order in which the readers change epochs (`Typing`), honest
  peers are not removed (`Blameless`), the index is right (`IndexAlwaysRight`). The invariant has
  one conjunct per place between two steps of `processEvent` (`AtEngine`, `AtIndex`, `AtSwitch`),
  saying by which event store, engine, index and readers differ there, one for the queue and the
  buffer (`Checked`: where an event is, it has passed the checks before, and a fault comes from a
  faulty peer), and one for the disk. That the restart's fold builds the index of all events,
  whatever their order, is the lemma `ReprocessedRight`.
* `TxPoolProofs`: types, `ListsAgree`, `Lossless`, `Limits`. First each function of `TxLists`: what
  it returns, field by field, from which content. Between two steps of a reorganisation the
  content is not in order (`Start` after a reset, `Fit` after promotion, `Even` after demotion:
  next nonces that are ahead of what is pending, or behind), and what each of them may owe is what
  the next one makes good, down to `NoncesSet`. Then the goroutines: `Control` says who holds the
  lock and where events wait, `Forward` that heads never come back (which is what makes `Fit`
  hold after a reset), `Waits` that a queued transaction that could be executed has a call,
  a request or a run that will look at its account, `Announced` the same of events. The
  scheduler's turn is proved once (`Continuing`) for the three steps that end in it.
* `BlockPipelineProofs`: types (`PipelineTyped`), `PipelinePunishes`, `PipelineUptime`,
  `PipelineGas`, `PipelineReplays` and `PipelineRecovers`, that is every property of the run. The
  assumptions are `BlockPipelineAssumption` and `BlockTxsAssumption`; the only one on who takes
  part is that some validator neither forks nor leaves (`Stays`), without which an epoch might
  have no group. The inductive invariant `IInv` is about the block state that the next block will
  start from, be it the store's or, while a block is executed, the listener's copy (`Latest`):
  * `InTime`: nobody was last seen in a block after the next one. `LastBlock` may be one ahead of
    the block state, as skipped blocks do not count up the index.
  * `Punished`: whom the driver has been told to deactivate stays out of the group of the next epoch
    too, since the logs of the block that seals are heard before and after the sealing.
  * `UpSince`: an uptime above 0 ends at an event of the epoch that was confirmed. Without it the
    next event, whose time is no earlier, could not be shown to add no more than has gone by.
  * `InOrder` and `Covered`: of a validator's events a block confirms a prefix, and the account
    that is kept of it is never better than what it was allotted: the last confirmed event's left
    gas is at most the credit, and its time is the account's. `Chain`, what events may use one
    after the other, is taken from the recorded account; the proof follows it between two
    confirmed events.
  * `Owed`: between the sealing and the worker's end a refund is in the epoch state and still in
    debt.
  * `Stored`: what has been executed so far, and the places skipped, replay to the same state
    (`Replays`), before each stage of the block and after it; and each block was executed under
    the rules of its epoch in `history`. That skipping leaves no trace in the state is what makes
    it hold.

  `Recovers` needs `Bounded` besides, as RecoverEVM's lowest number is taken modulo `BlockRange`:
  consensus decides at most `MaxBlocks` blocks. The lemmas before those say what each recursive
  function returns (`Sums`, `Stages`, `TxsUpTo`, `Heard`, `Chain`), that `Sorted` enumerates a set,
  and that filtering, spilling and reading a block give the same transactions.
* `PeersProofs`: types with the count of snap peers, and `NoTrace`, from `Traces` (each entry says
  where its goroutine is) and `Meeting` (of the two goroutines of a peer one finds what the other
  has left).

Induction, where a proof needs it, is by least counterexample (`WFMin` over the numbers, or over
the sizes of finite sets), since the library's induction theorems take operators.

Two invariants turned out to be wrong when their proofs were tried, and were corrected against the
code. `ConfigRight` of `LlrRecords` held for the chains TLC had, of up to two changes of upgrades;
with three, heights may come in an order that hides the one in the middle although nobody is slow,
so it now says `AtMostTwoChanges` and `NoneRevoked`. `LocalJournaled` of `TxPool` said that what a
local account has in the pool is in the journal; `RemoteToLocals` makes an account local without
journaling what it has, so it now says what every step does: nothing new of a local account comes
in, and nothing leaves the journal, without the other.

`BlockPipeline` and `BlockTxs` changed with their proofs. Recursion over sequences is now by
recursive functions, on which the least-counterexample argument works. What the driver's contract
does with who was deactivated had been a matter of the chosen transactions: now the external
contract says nothing of a validator it would have to take back (`TakesBack`), and
`CheatersPunished` needs it. And the named assumption says what the bounded instance had anyway:
events in the order of their times and epochs, no less gas than their transactions, and a
validator that never forks nor leaves.

**Only model-checked:** liveness (`SnapsyncEnds`, `ReachesFullsync`, `PauseEnds`, `EventsConnect`,
`EveryoneReturns`, `FollowsHead`, `ConnectionsEnd`, `StopReturns`), which is beyond this proof
system.

## 5. Findings

1. `llr_votes_moved`, `DecidedByThird`: votes for a block of one epoch may be weighed by the
   validators of the next (`c_llr_callbacks.go:62-75`), with other bit indexes and weights in
   the same bitmap.
2. `llr_records_refused`, `RefusedIsProcessed`: a commit between two writes of a record, and a
   crash, leave a record that is refused as processed although part of it is lost.
3. `snapsync_hangs`, `StartAndStopReturn`: the tick made inside handler.Start may wait for an
   answer from a loop that Start has not started yet (the conjunct `StartReturns`).
4. The same run, `StopReturns`: the state loop may take quit while a tick waits for it. TLC
   reports one of the two; with the other conjunct alone in `SnapSyncHangs.cfg`, the other.
5. `emitter_locked`, `NeverCorrupted`: `processEvent` may commit an own event before its ID is
   in the file; a crash in between makes the node stop for good over a "corrupted" database.

Two caveats are constants of the models and no findings, as no text of the repository
contradicts them. `SlowWriter = TRUE`: `AddUpgradeHeight` reads, appends and writes without a
lock; an epoch record whose write is delayed until consensus has sealed a whole further epoch
takes its height away, and `ConfigRight` fails. (It also fails, without `SlowWriter`, on a chain
that takes an upgrade back or changes them three times: with changes at a < g < c the records of g
and c may be there before consensus has sealed a and g; the heights are then g, a, c, g, and what
g turned on is active from c only.) `FreshGenesis = TRUE`: a node with no EVM
state and a head younger than `snapsyncMaxStartAge` downloads the state of its own head, the
stage leaves `ssSnaps` without a cancel and with the snapshot disabled, and `FullsyncAlone`
fails.

Behaviour worth knowing that the models have as the code has it, and that their properties
therefore except or leave room for:

* `DagEvents`: `IsBan` is true of the error of a node that waits for an upgrade, so that honest
  peers are removed then. It is also true of the errors of a node that has been stopped or whose
  EVM snapshot is still generated; these two are not among the model's refusals.
* `BlockPipeline`: a cheater that is no validator any more has index 0, so the first validator
  loses the block's event info and may use that gas again (`GasPowerConserved` excepts it);
  events of a skipped block's time can make an uptime exceed the time of the block that seals;
  refunds of validators who leave are lost; a creation whose sender lacks the value it sends
  consumes gas but leaves the nonce, so that the same transaction may be executed again;
  `RecoverEVM` begins at `start - 20000`, which
  underflows for a chain of fewer blocks, and recovers nothing.
* `TxPool`: a reset that is merged with a promotion sets the nonces back before promoting, so an
  executable transaction may stay queued behind pending ones (`QueueWaits`); a local transaction
  that replaces a pending one of an account that is not local makes it neither local nor
  journaled; what an account had in the pool before it became local is not journaled until the
  hourly rotation; a reset that does not find its state drops the events of replacements.
* `Peers`: two connections can both pass the limit before either is registered; a handler that
  has passed the check of `quitSync` but not its `wg.Add` runs after `Stop` has returned; a peer
  that leechers or the syncer refuse because they have been stopped stays where it was entered.

## 6. Not modelled

* **The consensus engine, the DAG processor and its buffer, the stream leechers and seeders, the
  flushable database** are lachesis-base, not in the repository; `DagEvents` has the processor and
  the buffer as external. What is here of the streams are adapters to it, so neither they nor the
  semaphores of the processors (`gossip/protocols/`) are modelled: what they deliver, in any order
  and repeatedly, is where the models of records, votes and events begin.
* **EVM execution**: the virtual machine and the tries are go-ethereum; contracts are given by
  their answers, the refund counter by nothing. In blocks: the time before LLR, bootstrapping,
  originated fees, transaction indexes and accusations of wrong votes; prices before London; a
  gas contract whose call fails.
* **Events**: which fields and signatures are wrong; votes inside events are in `LlrVotes` only.
* **Transaction pool**: prices and heaps (every choice they could make is possible), slots above
  one, static checks, `SetGasPrice` (nobody calls it), reorganised chains (Opera has none).
* **Peers**: contents of messages, broadcasts, fetchers, progress. The hang of the snapsync loops
  in `Stop` is in `snapsync_hangs`.
* **Emitter**: intervals, parents, transactions, becoming a validator, a second instance.
* **Errors** of the engine's reset in `SwitchEpochTo`, and of the database.
* **Service**: wiring, and the start before the emitters are initialised.
* **Left out for good**: the RPC API, keys, launcher, genesis files, serialisation, filters, the
  log index and the gas price oracle (I/O, or reads without a state machine of their own).

## 7. Plan

Done: `LlrDecision`, `LlrVotes`, `LlrRecords`, `SnapSync`, `Emitter`, `TxLists`, `TxPool`,
`GasPower`, `BlockTxs`, `BlockPipeline`, `Peers`, `DagEvents`.

Proved: what section 4 lists, that is every safety property of every run.

Next: an abstract specification of the chain (blocks each executed on the one before, a refund paid
once, an account per validator) that `BlockPipeline` implements, with the refinement proved; and
the lemmas on records of `BlockPipelineProofs` with one field changed, which repeat each other.
