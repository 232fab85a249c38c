----------------------------- MODULE LlrRecords -----------------------------
(***************************************************************************)
(* The two ways in which a node obtains blocks and epoch states, and what  *)
(* they share.                                                             *)
(*                                                                         *)
(* (1) Consensus: an Atropos is decided while an event is processed under  *)
(*     Service.engineMu (c_block_callbacks.go). The epoch is sealed there  *)
(*     and then; the rest of the block runs in a worker (blockFn) that     *)
(*     only the next block, a commit and an epoch switch wait for          *)
(*     (blockProcWg).                                                      *)
(* (2) LLR: a full record whose hash was decided by votes is written by    *)
(*     ProcessFullBlockRecord or ProcessFullEpochRecord, outside engineMu, *)
(*     by the one inserter of its stream processor (c_llr_callbacks.go).   *)
(*                                                                         *)
(* A node that snapsyncs lives on (2) until Service.SwitchEpochTo moves it *)
(* into an epoch whose blocks are all filled; then it lives on (1), with   *)
(* (2) still running ahead of it. Store.Commit flushes everything at once  *)
(* and a crash falls back to the last flush.                               *)
(*                                                                         *)
(* There is one chain: the network's. Blocks and epochs are numbers, and   *)
(* a value written for a number is the network's value for it.             *)
(***************************************************************************)
EXTENDS Integers, Sequences, FiniteSets, SequencesExt

CONSTANTS
  Top,         \* the last block the network has made
  FirstBlock,  \* FirstBlock[e]: first block of epoch e; epoch 1 is that of the genesis
  Feature,     \* the flags of opera.Upgrades
  Upgrades,    \* Upgrades[e]: the flags that are on in epoch e
  SwitchSpan,  \* how many epochs below the lowest unfilled one a snapsync may end at
  MaxCrashes,  \* bound: how often the node crashes
  SlowWriter   \* whether the writes of an epoch record may take as long as an epoch

Epoch == 1 .. Len(FirstBlock)

Block == 1 .. Top

ASSUME ChainAssumption ==
  /\ Top \in Nat \ {0}
  /\ FirstBlock \in Seq(Block) /\ FirstBlock # <<>> /\ FirstBlock[1] = 1
  /\ \A e \in Epoch : e + 1 \in Epoch => FirstBlock[e] < FirstBlock[e + 1]
  /\ Upgrades \in [Epoch -> SUBSET Feature]
  /\ SwitchSpan \in Nat \ {0}
  /\ MaxCrashes \in Nat
  /\ SlowWriter \in BOOLEAN

\* The epoch block b belongs to: Atropos.Epoch().
EpochOf(b) == CHOOSE e \in Epoch : /\ FirstBlock[e] <= b
                                   /\ e + 1 \in Epoch => b < FirstBlock[e + 1]

VARIABLES
  db,      \* the store: overlay and in-memory values that Commit writes through
  disk,    \* the store as of the last flush
  engine,  \* who holds engineMu between two actions: the processEvent that seals an epoch
  worker,  \* blockFn: its next step and its block
  br,      \* ProcessFullBlockRecord: its next step and its block
  er,      \* ProcessFullEpochRecord: its next step, its epoch and the heights it has read
  syncing, \* snapsync has not ended: events are not accepted
  crashes  \* how often the node has crashed

vars == <<db, disk, engine, worker, br, er, syncing, crashes>>

----------------------------------------------------------------------------
(* The store *)

GenesisAtLast ==  \* mutant: the lowest index is the last one, not the next
  [blocks  |-> {},
   history |-> {1},
   marks   |-> {1},
   heights |-> <<1>>,
   fill    |-> [block |-> 0, epoch |-> 1],
   head    |-> [block |-> 0, epoch |-> 1]]

\* ApplyGenesis; epoch 1 is its last record and blocks are counted from there.
\* UpgradeHeights is a sequence of epochs: the entry of epoch e has the upgrades of e and
\* the height FirstBlock[e].
Genesis ==
  [blocks  |-> {},                          \* Blocks
   history |-> {1},                         \* BlockEpochStateHistory
   marks   |-> {1},                         \* EpochBlocks: e at block FirstBlock[e]
   heights |-> <<1>>,                       \* UpgradeHeights
   fill    |-> [block |-> 1, epoch |-> 2],  \* LlrState.Lowest*ToFill
   head    |-> [block |-> 0, epoch |-> 1]]  \* BlockEpochState

\* GetHistoryEpochState: the current epoch's state is known before its history entry is.
KnownEpoch(d, e) == e \in d.history \/ e = d.head.epoch

ActualizedOnce(current, upd, present) ==  \* mutant: what was stored ahead is not skipped
  IF current # upd THEN current ELSE current + 1

\* actualizeLowestIndex
Actualized(current, upd, present) ==
  IF current # upd
    THEN current
    ELSE CHOOSE u \in current + 1 .. current + 1 + Cardinality(present) :
           u \notin present /\ \A n \in current + 1 .. u - 1 : n \in present

FillBlock(d, b) == [d EXCEPT !.fill.block = Actualized(@, b, d.blocks)]

FillEpoch(d, e) == [d EXCEPT !.fill.epoch = Actualized(@, e, d.history)]

\* Store.FindBlockEpoch for a block that is not cached: the mark at or below b.
FindBlockEpoch(d, b) ==
  LET below == {e \in d.marks : FirstBlock[e] <= b}
  IN IF below = {} THEN 0 ELSE CHOOSE e \in below : \A x \in below : x <= e

\* Rules.EvmChainConfig: the height from which feature f is active, or Top + 1 if it is
\* not. A run of entries with f on starts after the last entry with f off.
ActiveFrom(heights, f) ==
  LET off == {i \in 1 .. Len(heights) : f \notin Upgrades[heights[i]]}
      lastOff == IF off = {} THEN 0 ELSE CHOOSE i \in off : \A x \in off : x <= i
  IN CASE lastOff = Len(heights) -> Top + 1
       [] lastOff = 0 -> 0
       [] OTHER -> FirstBlock[heights[lastOff + 1]]

\* The condition of WriteUpgradeHeight and of EndBlock, for an epoch after the first.
UpgradesDiffer(e) == Upgrades[e] # Upgrades[e - 1]

----------------------------------------------------------------------------
(* Who runs *)

Idle == [step |-> "idle"]

EngineFree == engine = Idle

(* LLR results: LlrVotes says how they come about. Here it matters when one can be there. A *)
(* result is never taken back but by a crash, which takes back what it rested on as well.   *)
(* Votes are processed under engineMu. The check of a record is not; but as an inserter ends*)
(* a job under engineMu, a check that finds a result while engineMu is held could as well   *)
(* have been made just before, and that is where it is made here.                           *)

\* processBlockVotes: votes for block b are weighed by the validators of a known epoch
\* which is not below the epoch of b.
MayDecideBlock(b) == \E e \in Epoch : e >= EpochOf(b) /\ KnownEpoch(db, e)

\* processEpochVote: votes for epoch e are weighed by the validators of the one before it.
MayDecideEpoch(e) == e > 1 /\ KnownEpoch(db, e - 1)

----------------------------------------------------------------------------
(* Consensus *)

Next1 == db.head.block + 1

Seals(b) == db.head.epoch + 1 \in Epoch /\ FirstBlock[db.head.epoch + 1] = b + 1

MayBegin ==
  /\ ~syncing
  /\ EngineFree
  /\ worker = Idle                       \* blockProcWg.Wait in BeginBlock
  /\ Next1 <= Top

\* EndBlock of a block that does not seal: the rest of it is left to blockFn.
BeginBlock ==
  /\ MayBegin
  /\ ~Seals(Next1)
  /\ worker' = [step |-> "block", block |-> Next1]
  /\ UNCHANGED <<db, disk, engine, br, er, syncing, crashes>>

\* EndBlock of a block that seals, up to the read in AddUpgradeHeight. Nothing keeps an
\* epoch record from being between its check and its writes for however long; ~SlowWriter
\* supposes that it does not stay there until consensus has sealed that epoch and the next.
BeginSealing ==
  /\ MayBegin
  /\ Seals(Next1)
  /\ ~SlowWriter /\ er.step \in {"state", "mark", "height"} => er.epoch > db.head.epoch
  /\ engine' = [step |-> "seal", heights |-> db.heights]
  /\ UNCHANGED <<db, disk, worker, br, er, syncing, crashes>>

SealEpochSilent ==  \* mutant: no upgrade height is added
  /\ engine.step = "seal"
  /\ db' = [db EXCEPT !.head.epoch = @ + 1]
  /\ engine' = [step |-> "commit"]
  /\ worker' = [step |-> "epoch", block |-> Next1]
  /\ UNCHANGED <<disk, br, er, syncing, crashes>>

\* The rest of it: the height is written, the new epoch's state becomes the current one
\* and blockFn is left to the worker; engineMu is held until the commit.
SealEpoch ==
  /\ engine.step = "seal"
  /\ LET e == db.head.epoch + 1
     IN db' = [db EXCEPT !.head.epoch = e,
                         !.heights = IF UpgradesDiffer(e) THEN Append(engine.heights, e) ELSE @]
  /\ engine' = [step |-> "commit"]
  /\ worker' = [step |-> "epoch", block |-> Next1]
  /\ UNCHANGED <<disk, br, er, syncing, crashes>>

\* blockFn of a sealing block: SetHistoryBlockEpochState, SetEpochBlock.
RecordEpoch ==
  /\ worker.step = "epoch"
  /\ db' = [db EXCEPT !.history = @ \cup {db.head.epoch}, !.marks = @ \cup {db.head.epoch}]
  /\ worker' = [worker EXCEPT !.step = "block"]
  /\ UNCHANGED <<disk, engine, br, er, syncing, crashes>>

\* blockFn: SetBlock, SetBlockEpochState.
RecordBlock ==
  /\ worker.step = "block"
  /\ db' = [db EXCEPT !.blocks = @ \cup {worker.block}, !.head.block = worker.block]
  /\ worker' = [worker EXCEPT !.step = "fill"]
  /\ UNCHANGED <<disk, engine, br, er, syncing, crashes>>

\* blockFn: updateLowestBlockToFill, updateLowestEpochToFill.
EndBlockFn ==
  /\ worker.step = "fill"
  /\ db' = FillEpoch(FillBlock(db, worker.block), db.head.epoch)
  /\ worker' = Idle
  /\ UNCHANGED <<disk, engine, br, er, syncing, crashes>>

\* Store.Commit by whoever holds engineMu; after a sealing always. It waits for blockFn.
Commit ==
  /\ engine.step \in {"idle", "commit"}
  /\ worker = Idle
  /\ disk' = db
  /\ engine' = Idle
  /\ UNCHANGED <<db, worker, br, er, syncing, crashes>>

----------------------------------------------------------------------------
(* ProcessFullBlockRecord *)

CheckBlockRecord(b) ==
  /\ br = Idle
  /\ EngineFree
  /\ b \notin db.blocks                  \* ErrAlreadyProcessedBR
  /\ MayDecideBlock(b)                  \* or else ErrUndecidedBR
  /\ br' = [step |-> "write", block |-> b]
  /\ UNCHANGED <<db, disk, engine, worker, er, syncing, crashes>>

\* WriteFullBlockRecord, without engineMu.
WriteBlockRecord ==
  /\ br.step = "write"
  /\ db' = [db EXCEPT !.blocks = @ \cup {br.block}]
  /\ br' = [br EXCEPT !.step = "fill"]
  /\ UNCHANGED <<disk, engine, worker, er, syncing, crashes>>

FillBlockRecordSkips ==  \* mutant: the lowest index is left to consensus
  /\ br.step = "fill"
  /\ EngineFree
  /\ br' = Idle
  /\ UNCHANGED <<db, disk, engine, worker, er, syncing, crashes>>

\* The part under engineMu.
FillBlockRecord ==
  /\ br.step = "fill"
  /\ EngineFree
  /\ db' = FillBlock(db, br.block)
  /\ br' = Idle
  /\ UNCHANGED <<disk, engine, worker, er, syncing, crashes>>

----------------------------------------------------------------------------
(* ProcessFullEpochRecord *)

CheckEpochRecord(e) ==
  /\ er = Idle
  /\ EngineFree
  /\ e \notin db.history                 \* ErrAlreadyProcessedER
  /\ MayDecideEpoch(e)                  \* or else ErrUndecidedER
  /\ er' = [step |-> "state", epoch |-> e, heights |-> <<>>]
  /\ UNCHANGED <<db, disk, engine, worker, br, syncing, crashes>>

\* WriteFullEpochRecord: SetHistoryBlockEpochState.
WriteEpochState ==
  /\ er.step = "state"
  /\ db' = [db EXCEPT !.history = @ \cup {er.epoch}]
  /\ er' = [er EXCEPT !.step = "mark"]
  /\ UNCHANGED <<disk, engine, worker, br, syncing, crashes>>

\* WriteFullEpochRecord: SetEpochBlock; then the reads of WriteUpgradeHeight.
WriteEpochMark ==
  /\ er.step = "mark"
  /\ db' = [db EXCEPT !.marks = @ \cup {er.epoch}]
  /\ er' = IF ~KnownEpoch(db, er.epoch - 1) \/ UpgradesDiffer(er.epoch)
             THEN [er EXCEPT !.step = "height", !.heights = db.heights]
             ELSE [er EXCEPT !.step = "fill"]
  /\ UNCHANGED <<disk, engine, worker, br, syncing, crashes>>

\* WriteUpgradeHeight: the write in AddUpgradeHeight.
WriteHeight ==
  /\ er.step = "height"
  /\ db' = [db EXCEPT !.heights = Append(er.heights, er.epoch)]
  /\ er' = [er EXCEPT !.step = "fill"]
  /\ UNCHANGED <<disk, engine, worker, br, syncing, crashes>>

\* The part under engineMu.
FillEpochRecord ==
  /\ er.step = "fill"
  /\ EngineFree
  /\ db' = FillEpoch(db, er.epoch)
  /\ er' = Idle
  /\ UNCHANGED <<disk, engine, worker, br, syncing, crashes>>

----------------------------------------------------------------------------
(* The end of a snapsync, and a crash *)

BlocksFilledOff(d, e) ==  \* mutant: < for <= in the test
  d.fill.block >= FirstBlock[e] - 1

\* Blocks below the start of epoch e are filled: the test of snapsyncStageTick.
BlocksFilled(d, e) == d.fill.block > FirstBlock[e] - 1

\* snapsyncStageTick and Service.SwitchEpochTo, which commits. The other conditions of the
\* tick, on the EVM state and on ages, are in SnapSync.
SwitchEpochTo(e) ==
  /\ syncing
  /\ EngineFree
  /\ worker = Idle
  /\ e \in db.fill.epoch - SwitchSpan .. db.fill.epoch - 1
  /\ e > db.head.epoch
  /\ e \in db.history
  /\ BlocksFilled(db, e)
  /\ db' = [db EXCEPT !.head = [block |-> FirstBlock[e] - 1, epoch |-> e]]
  /\ disk' = db'
  /\ syncing' = FALSE
  /\ UNCHANGED <<engine, worker, br, er, crashes>>

\* A restart falls back to the last flush, and may find the node behind enough to snapsync.
Crash ==
  /\ crashes < MaxCrashes
  /\ crashes' = crashes + 1
  /\ db' = disk
  /\ engine' = Idle /\ worker' = Idle /\ br' = Idle /\ er' = Idle
  /\ syncing' \in BOOLEAN
  /\ UNCHANGED disk

----------------------------------------------------------------------------
Init ==
  /\ db = Genesis
  /\ disk = Genesis                      \* genesis is flushed before the node starts
  /\ engine = Idle /\ worker = Idle /\ br = Idle /\ er = Idle
  /\ syncing \in BOOLEAN
  /\ crashes = 0

Consensus == BeginBlock \/ BeginSealing \/ SealEpoch

BlockFn == RecordEpoch \/ RecordBlock \/ EndBlockFn

BlockRecord == (\E b \in Block : CheckBlockRecord(b)) \/ WriteBlockRecord \/ FillBlockRecord

EpochRecord ==
  \/ \E e \in Epoch : CheckEpochRecord(e)
  \/ WriteEpochState \/ WriteEpochMark \/ WriteHeight \/ FillEpochRecord

EndSync == \E e \in Epoch : SwitchEpochTo(e)

Next ==
  Consensus \/ BlockFn \/ BlockRecord \/ EpochRecord \/ EndSync \/ Commit \/ Crash

Spec == Init /\ [][Next]_vars

\* Records keep coming from peers, the inserters and the tick keep running.
FairSpec == Spec /\ WF_vars(BlockRecord) /\ WF_vars(EpochRecord) /\ WF_vars(EndSync)
----------------------------------------------------------------------------
(* Properties *)

\* Every variable has its type: stored numbers are those of the chain, and a lowest index
\* to fill is at most one above its last element.
Store ==
  [blocks  : SUBSET Block,
   history : SUBSET Epoch,
   marks   : SUBSET Epoch,
   heights : Seq(Epoch),
   fill    : [block : 1 .. Top + 1, epoch : 1 .. Len(FirstBlock) + 1],
   head    : [block : 0 .. Top, epoch : Epoch]]

TypeOK ==
  /\ db \in Store /\ disk \in Store
  /\ engine \in {Idle, [step |-> "commit"]} \cup [step : {"seal"}, heights : Seq(Epoch)]
  /\ worker \in {Idle} \cup [step : {"epoch", "block", "fill"}, block : Block]
  /\ br \in {Idle} \cup [step : {"write", "fill"}, block : Block]
  /\ er \in {Idle} \cup [step : {"state", "mark", "height", "fill"}, epoch : Epoch,
                         heights : Seq(Epoch)]
  /\ syncing \in BOOLEAN
  /\ crashes \in 0 .. MaxCrashes

\* Below LowestBlockToFill every block is stored and below LowestEpochToFill every epoch
\* state is, in memory and in whatever a crash falls back to (actualizeLowestIndex).
FilledBelow ==
  \A d \in {db, disk} : /\ 1 .. d.fill.block - 1 \subseteq d.blocks
                        /\ 1 .. d.fill.epoch - 1 \subseteq d.history

\* The node never stands above something it has not got: up to the head every block and
\* every epoch state is stored, wherever the snapsync switched to and whenever the node
\* crashed. Only the epoch which is being sealed may be missing, and never on disk.
Sealing == engine.step = "commit" /\ worker # Idle

NoGapBelowHead ==
  /\ \A d \in {db, disk} : 1 .. d.head.block \subseteq d.blocks
  /\ 1 .. disk.head.epoch \subseteq disk.history
  /\ 1 .. db.head.epoch - (IF Sealing THEN 1 ELSE 0) \subseteq db.history

\* The store knows the validators that an epoch's record was decided by, so that
\* WriteUpgradeHeight always has a previous epoch to compare with.
RecordsHaveParents ==
  \A d \in {db, disk} : \A e \in d.history : e > 1 => KnownEpoch(d, e - 1)

\* Nothing is missing from the store that what is there builds on.
NothingMissing == FilledBelow /\ NoGapBelowHead /\ RecordsHaveParents

\* As long as the node has not crashed, and no epoch record is being written, the epoch
\* that FindBlockEpoch gives for a stored block is the block's own: consensus and records
\* interleave without losing an EpochBlocks mark.
FindBlockEpochRight ==
  crashes = 0 /\ er.step # "mark" => \A b \in db.blocks : FindBlockEpoch(db, b) = EpochOf(b)

\* As long as the node has not crashed, a block that consensus begins is executed under the
\* upgrades of its epoch, whichever of the two ways the heights have come by and in
\* whichever order (EvmChainConfig in EndBlock).
\* Upgrades are not revoked: a record that ran ahead would turn one off for the blocks before
\* as well. They change at most twice: with changes at a < g < c the records of g and c may
\* be there before consensus has sealed a and g; the heights are then g, a, c, g, and what g
\* turned on is active from c only.
\* It holds unless SlowWriter: AddUpgradeHeight reads and writes without a lock (it allocates
\* "new memory to avoid race condition in cache"), and a write based on a read from before
\* the last sealing takes the sealed epoch's height away.
NoneRevoked == \A e \in Epoch : e + 1 \in Epoch => Upgrades[e] \subseteq Upgrades[e + 1]

AtMostTwoChanges ==
  \A a, g, c \in Epoch \ {1} :
    a < g /\ g < c => ~(UpgradesDiffer(a) /\ UpgradesDiffer(g) /\ UpgradesDiffer(c))

ConfigRight ==
  NoneRevoked /\ AtMostTwoChanges /\ ~SlowWriter /\ crashes = 0 /\ MayBegin =>
    \A f \in Feature :
      (ActiveFrom(db.heights, f) <= Next1) <=> (f \in Upgrades[db.head.epoch])

\* A block is judged and executed by its own epoch.
BlockEpochRight == FindBlockEpochRight /\ ConfigRight

\* As long as the node has not crashed, the lowest index to fill is at the first number
\* that is missing, once the writers are done: no interleaving of blockFn with the two
\* inserters leaves it behind on a stored one, where nobody would raise it again.
FillNotStuck ==
  /\ crashes = 0 /\ br.step # "fill" /\ worker.step # "fill" => db.fill.block \notin db.blocks
  /\ crashes = 0 /\ er = Idle /\ worker = Idle /\ ~Sealing => db.fill.epoch \notin db.history

\* A snapsync ends, as long as the node does not crash: records reach an epoch to switch to.
SnapsyncEnds == (syncing /\ crashes = 0) ~> (~syncing \/ crashes > 0)

\* What the error "ER is processed already" (eventcheck/ban.go) says of the record of an
\* epoch whose state is stored: that all that ProcessFullEpochRecord does has been done.
\* Refuted: a commit by another holder of engineMu between two of its writes, and a crash
\* after it, keep the state and lose the mark, the upgrade height or the lowest index,
\* and the record is refused from then on.
RefusedIsProcessed ==
  er = Idle /\ worker = Idle /\ EngineFree =>
    \A e \in db.history : /\ e \in db.marks
                          /\ e # db.fill.epoch
                          /\ e > 1 /\ UpgradesDiffer(e) => e \in ToSet(db.heights)
=============================================================================
