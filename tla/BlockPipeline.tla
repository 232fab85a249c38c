---------------------------- MODULE BlockPipeline ----------------------------
(***************************************************************************)
(* What a decided block does to the block state, the epoch state and the   *)
(* EVM: gossip/c_block_callbacks.go with the modules it calls from         *)
(* EndBlock (blockproc: events, sealer, driver transactions, EVM).         *)
(*                                                                         *)
(* EndBlock decides whether the block is skipped and whether it seals the  *)
(* epoch, has the driver punish cheaters, and hands the rest of the block  *)
(* to a worker if there are events with transactions; the next block waits *)
(* for it. The listener of the driver's logs and receipts keeps copies of  *)
(* the states of its own (job.l), and is told of the states after sealing. *)
(*                                                                         *)
(* Consensus chooses what comes: the events of the epoch are given         *)
(* (Body), in the order of their Lamport times, and it decides blocks of   *)
(* them. An event's median time does not decrease with it and is not below *)
(* the epoch's start. An Atropos that a block before has confirmed         *)
(* confirms nothing. The driver's contract is not under src/: it removes   *)
(* whom it deactivates and never takes them back.                          *)
(*                                                                         *)
(* States of validators are kept by validator, not by index. What the      *)
(* index of one that is not a validator does is modelled: pos.Validators   *)
(* gives 0, the index of the first.                                        *)
(***************************************************************************)
EXTENDS BlockTxs, GasPower, FiniteSetsExt

CONSTANTS
  Validator,                 \* numbers above 0: the first of a group is the least
  Genesis,                   \* the validators of the first epoch
  Faulty,                    \* those that may be seen to fork
  Body,                      \* events in Lamport order: for each its epoch, creator, time, gas,
                             \* txs and proven (whom its proofs accuse)
  Funds,                     \* of each account
  InitialRules,              \* those that may change: price and maxBlockGas
  MaxBlocks, MaxRestarts,    \* bounds: blocks of consensus; restarts
  BlockMissedSlack,          \* the other rules
  MaxEmptyBlockSkipPeriod, MaxEpochGas, MaxEpochDuration,
  MaxAdvanceEpochs,
  RecoverDepth, BlockRange   \* how far RecoverEVM looks back (20000), in numbers modulo this

Event == DOMAIN Body

\* What a transaction may tell the driver, transactions, and events
Rules == [{"price", "maxBlockGas"} -> Nat]
Diff == [{"price"} -> Nat] \cup [{"maxBlockGas"} -> Nat] \cup Rules
Log ==
  [kind : {"none"}] \cup [kind : {"weight"}, validator : Validator, on : BOOLEAN]
    \cup [kind : {"rules"}, diff : Diff] \cup [kind : {"advance"}, num : Nat]
Tx == {tx \in [from : Account, nonce : Nat, gas : Nat, runs : Nat, claims : BOOLEAN, unpaid : BOOLEAN,
               log : Log] :
         tx.runs <= tx.gas}
Payload == [epoch : Nat, creator : Validator, time : Nat, gas : Nat, txs : Seq(Tx),
            proven : SUBSET Validator]

\* Some validator never forks nor leaves: without a group there would be no consensus.
Stays(v) ==
  /\ v \in Genesis \ Faulty
  /\ \A e \in Event :
       /\ v \notin Body[e].proven
       /\ \A i \in DOMAIN Body[e].txs :
            Body[e].txs[i].log # [kind |-> "weight", validator |-> v, on |-> FALSE]

ASSUME BlockPipelineAssumption ==
  /\ Validator \subseteq Nat \ {0} /\ IsFiniteSet(Validator)
  /\ Genesis \subseteq Validator /\ Faulty \subseteq Validator
  /\ \E v \in Validator : Stays(v)
  /\ Body \in Seq(Payload)
  /\ \A e \in Event :
       Body[e].gas >= Total([i \in DOMAIN Body[e].txs |-> Body[e].txs[i].gas])
  /\ \A e, f \in Event : e < f => Body[e].time <= Body[f].time /\ Body[e].epoch <= Body[f].epoch
  /\ Funds \in [Account -> Nat] /\ InitialRules \in Rules
  /\ {MaxBlocks, MaxRestarts, BlockMissedSlack, MaxEmptyBlockSkipPeriod, MaxEpochGas,
      MaxEpochDuration, MaxAdvanceEpochs, RecoverDepth, BlockRange} \subseteq Nat
  /\ RecoverDepth < BlockRange /\ MaxBlocks < BlockRange

VARIABLES
  bs, es,     \* the store's block state and epoch state
  job,        \* the block that the worker is at, with its own states
  confirmed,  \* events that blocks of the epoch have confirmed
  left,       \* how many more blocks consensus decides
  blocks,     \* the stored blocks; ran is what was executed
  history,    \* for each epoch its rules and its first block
  roots,      \* the states that the EVM's database has
  up, restarts,
  seen,       \* history: cheaters, by what the blocks of the epoch have seen
  told,       \* history: what the driver was told when the last epoch was sealed, and of what
  debt,       \* history: refunds that receipts brought a validator and no epoch has granted yet
  account     \* history: what validators were allotted and have not used: see Allotted

vars == <<bs, es, job, confirmed, left, blocks, history, roots, up, restarts, seen, told, debt,
          account>>

NoRules == [kind |-> "none"]
NoJob == [busy |-> FALSE]
NotTold == [deactivated |-> <<>>, seen |-> {}, uptime |-> <<>>, length |-> <<>>]
NewState == [uptime |-> 0, online |-> 0, lastBlock |-> 0, refund |-> 0, event |-> NoEvent]
World == [nonce |-> [a \in Account |-> 0], balance |-> Funds, dead |-> {}]

NoneOpened == [credit |-> 0, since |-> 0, recorded |-> TRUE]
Opened(group, time) == [credit |-> Startup(group), since |-> time, recorded |-> TRUE]

Init ==
  /\ bs = [idx |-> 0, time |-> 0, root |-> World, gas |-> 0, cheaters |-> <<>>, written |-> 0,
           states |-> [v \in Genesis |-> NewState], next |-> Genesis, dirty |-> NoRules, advance |-> 0]
  /\ es = [epoch |-> 1, start |-> 0, validators |-> Genesis, refund |-> [v \in Genesis |-> 0],
           prev |-> [v \in Genesis |-> NoEvent], rules |-> InitialRules]
  /\ job = NoJob
  /\ confirmed = {}
  /\ left = MaxBlocks
  /\ blocks = <<>>
  /\ history = <<[rules |-> InitialRules, first |-> 1]>>
  /\ roots = {World}
  /\ up = TRUE
  /\ restarts = 0
  /\ seen = {}
  /\ told = NotTold
  /\ debt = [v \in Validator |-> 0]
  /\ account = [v \in Validator |->
                  IF v \in Genesis THEN Opened(Genesis, 0) ELSE NoneOpened]

----------------------------------------------------------------------------
(* What consensus decides *)

MedianTime(e) == Larger(es.start, Body[e].time)

\* A validator's event e, after those in acc: buildEvent refuses it if it uses more than there is.
\* made are those that were made, and account is what the last of them left.
Build(acc, e) ==
  LET power == CalcValidatorGasPower(es.validators, acc.account, MedianTime(e), acc.made = {})
  IN IF Body[e].gas > power THEN acc
     ELSE [account |-> [left |-> power - Body[e].gas, time |-> MedianTime(e)],
           made |-> acc.made \cup {e}]

\* The events of validator v in the epoch, one after the other, up to each event
Chain(v) ==
  LET upTo[e \in 0 .. Len(Body)] ==
        IF e = 0
          THEN [account |-> EpochAccount(es.prev[v], es.start, es.refund[v]), made |-> {}]
        ELSE IF Body[e].epoch = es.epoch /\ Body[e].creator = v THEN Build(upTo[e - 1], e)
        ELSE upTo[e - 1]
  IN upTo

Made == UNION {Chain(v)[Len(Body)].made : v \in es.validators}
Pending == Made \ confirmed

\* A block confirms the events that its Atropos, the highest, observes: with an event its
\* creator's earlier ones. cheaters are those that the Atropos sees to have forked.
Decided ==
  {c \in [events : SUBSET Pending, cheaters : SUBSET (Faulty \cap es.validators)] :
     \A e \in c.events, f \in Pending :
       f < e /\ Body[f].creator = Body[e].creator => f \in c.events}

WithTxs(c) == {e \in c.events : Body[e].txs # <<>>}
Proven(c) == UNION {Body[e].proven : e \in c.events}

GasOf(events) == Total([e \in Event |-> IF e \in events THEN Body[e].gas ELSE 0])

\* mergeCheaters, of new ones in the order of their numbers
MergeCheaters(a, new) == a \o Sorted(new \ ToSet(a))

\* GetIdx
Indexed(v) == IF v \in es.validators THEN v ELSE Min(es.validators)

----------------------------------------------------------------------------
(* ValidatorEventsProcessor *)

OnlineSince(info) == info.online  \* mutant: an epoch's uptime starts in the one before

\* Since when a validator counts as up (the rule since Berlin)
OnlineStart(info) == Larger(info.online, es.start)

OnlineInTime(info, e, ctx) ==  \* mutant: the last event is only noted of one that has not missed blocks
  IF ctx.idx <= info.lastBlock + BlockMissedSlack
  THEN [info EXCEPT !.uptime = @ + Larger(0, MedianTime(e) - OnlineStart(info)),
                    !.event = Chain(Body[e].creator)[e].account,
                    !.online = MedianTime(e), !.lastBlock = ctx.idx]
  ELSE [info EXCEPT !.online = MedianTime(e), !.lastBlock = ctx.idx]

\* What the highest event e of its creator changes in the creator's state
Online(info, e, ctx) ==
  [info EXCEPT
     !.uptime = IF ctx.idx <= info.lastBlock + BlockMissedSlack
                THEN @ + Larger(0, MedianTime(e) - OnlineStart(info)) ELSE @,
     !.online = MedianTime(e),
     !.lastBlock = ctx.idx,
     !.event = Chain(Body[e].creator)[e].account]

\* Finalize: cheaters of the epoch that are known so far get nothing for the block, and neither
\* does the first validator if a cheater is none.
EventsFinalize(b, c, ctx) ==
  LET ignored == {Indexed(v) : v \in ToSet(b.cheaters)}
      highest(v) == {e \in c.events : Body[e].creator = v}
  IN [b EXCEPT
        !.gas = @ + GasOf(c.events),
        !.states = [v \in es.validators |->
                      IF v \in ignored \/ highest(v) = {} THEN @[v]
                      ELSE Online(@[v], Max(highest(v)), ctx)]]

----------------------------------------------------------------------------
(* OperaEpochsSealer *)

EpochSealing(b, ctx) ==
  \/ b.gas >= MaxEpochGas
  \/ ctx.time - es.start >= MaxEpochDuration
  \/ b.advance > 0
  \/ b.cheaters # <<>>

SealEpochKeepsStates(b, ctx) ==  \* mutant: states are those of the old group
  [bs |-> [b EXCEPT !.gas = 0, !.cheaters = <<>>, !.written = 0, !.advance = Larger(@, 1) - 1],
   es |-> [epoch |-> es.epoch + 1, start |-> ctx.time, validators |-> b.next,
           refund |-> [v \in b.next |-> 0], prev |-> [v \in b.next |-> NoEvent],
           rules |-> es.rules]]

\* The group that the driver's logs made; who stays keeps the state, and is granted the refund.
SealEpoch(b, ctx) ==
  LET stays(v) == v \in es.validators
      state(v) == IF stays(v) THEN [b.states[v] EXCEPT !.refund = 0, !.uptime = 0]
                  ELSE [NewState EXCEPT !.lastBlock = ctx.idx, !.online = ctx.time]
  IN [bs |-> [b EXCEPT !.states = [v \in b.next |-> state(v)], !.gas = 0, !.cheaters = <<>>,
                       !.written = 0, !.dirty = NoRules, !.advance = Larger(@, 1) - 1],
      es |-> [epoch |-> es.epoch + 1, start |-> ctx.time, validators |-> b.next,
              refund |-> [v \in b.next |-> IF stays(v) THEN b.states[v].refund ELSE 0],
              prev |-> [v \in b.next |-> IF stays(v) THEN b.states[v].event ELSE NoEvent],
              rules |-> IF b.dirty = NoRules THEN es.rules ELSE b.dirty]]

----------------------------------------------------------------------------
(* The driver's transactions, and the listener to its logs and to receipts *)

\* The uptime that the contract is told: up to the block, unless too many were missed
EpochUptime(b, v, ctx) ==
  LET info == b.states[v]
      since == Larger(info.online, es.start)
  IN IF Larger(ctx.idx, info.lastBlock) - info.lastBlock <= BlockMissedSlack
     THEN info.uptime + Larger(ctx.time, since) - since
     ELSE info.uptime

PreInternalTxs(b, sealing) ==
  LET unwritten == SubSeq(b.cheaters, b.written + 1, Len(b.cheaters))
  IN [i \in 1 .. Len(unwritten) |-> Deactivate(unwritten[i])]
       \o (IF sealing THEN <<SealEpochMetrics>> ELSE <<>>)

PostInternalTxs(e, sealing) == IF sealing THEN <<SealEpochValidators(e.validators)>> ELSE <<>>

\* Rules change with the next epoch; changes add up. rules are the epoch's.
OnNewLog(b, rules, log) ==
  CASE log.kind = "weight" ->
         [b EXCEPT !.next = IF log.on THEN @ \cup {log.validator} ELSE @ \ {log.validator}]
    [] log.kind = "rules" ->
         [b EXCEPT !.dirty = UpdateRules(IF @ = NoRules THEN rules ELSE @, log.diff)]
    [] log.kind = "advance" ->
         [b EXCEPT !.advance = IF @ + log.num > MaxAdvanceEpochs THEN MaxAdvanceEpochs ELSE @ + log.num]
    [] OTHER -> b

Heard(b, rules, logs) ==
  LET after[n \in 0 .. Len(logs)] ==
        IF n = 0 THEN b ELSE OnNewLog(after[n - 1], rules, logs[n])
  IN after
OnNewLogs(b, rules, logs) == Heard(b, rules, logs)[Len(logs)]

\* The receipts are those of the transactions that were not skipped, in their order. A creator
\* that is no longer a validator is none.
NotUsedGas(done, receipts, originator, v) ==
  Total([i \in 1 .. Len(receipts) |->
           IF originator[i] = v THEN done[i].gas - receipts[i].used ELSE 0])

OnNewReceipts(l, done, receipts, originator) ==
  [l.bs EXCEPT !.states = [v \in l.es.validators |->
     [l.bs.states[v] EXCEPT !.refund = @ + NotUsedGas(done, receipts, originator, v)]]]

----------------------------------------------------------------------------
(* The account of a validator as it ought to be: what it was allotted and has not used, and since *)
(* when it has been allotted nothing. It is recorded unless a cheater that is no validator had    *)
(* what the last event left taken for its own and dropped.                                        *)

Allotted(b, c) ==
  LET taken == {Indexed(v) : v \in ToSet(b.cheaters) \ es.validators}
      mine(v) == {e \in c.events : Body[e].creator = v}
      allot(v) == LET until == MedianTime(Max(mine(v)))
                  IN [credit |-> account[v].credit - GasOf(mine(v))
                                   + (until - account[v].since) * PerSec(es.validators),
                      since |-> until,
                      recorded |-> account[v].recorded /\ v \notin taken]
  IN [v \in Validator |-> IF mine(v) = {} THEN account[v] ELSE allot(v)]

\* With the next epoch, e; what is overdrawn stays so.
Granted(a, e) ==
  [v \in Validator |->
     IF v \notin e.validators THEN NoneOpened
     ELSE IF v \notin es.validators THEN Opened(e.validators, e.start)
     ELSE [a[v] EXCEPT !.credit = IF @ < 0 THEN @ ELSE Larger(@ + e.refund[v], Startup(e.validators))]]

----------------------------------------------------------------------------
(* The block *)

\* blockFn; the listener's states become the store's.
Finish(j) ==
  LET p1 == Execute(j.p, PostInternalTxs(j.es, j.sealing))
      events == SpillBlockEvents(j.events, Body, j.es.rules.maxBlockGas)
      p2 == Execute(p1, TxsOf(events, Body))
      done == FilterSkippedTxs(p2.txs, p2.skipped)
      creator(i) == EventCreator(p2.receipts[i].tx, events, Body)
      originator == [i \in 1 .. Len(p2.receipts) |->
                       IF creator(i) \in j.es.validators THEN creator(i) ELSE 0]
      l == [j.l EXCEPT !.bs = OnNewLogs(@, j.l.es.rules, p1.logs \o p2.logs)]
      b == OnNewReceipts(l, done, p2.receipts, originator)
  IN /\ bs' = [b EXCEPT !.root = p2.world, !.idx = j.ctx.idx, !.time = j.ctx.time,
                        !.written = Len(b.cheaters)]
     /\ es' = j.es
     /\ blocks' = Append(blocks, [events |-> events, txs |-> p1.txs, skipped |-> p2.skipped,
                                  root |-> p2.world, ran |-> [i \in 1 .. Len(p2.receipts) |->
                                                                p2.receipts[i].tx]])
     /\ history' = IF j.sealing
                   THEN Append(history, [rules |-> j.es.rules, first |-> j.ctx.idx + 1])
                   ELSE history
     /\ roots' = roots \cup {p2.world}
     /\ debt' = [v \in Validator |->
                   IF v \in j.es.validators
                   THEN debt[v] - (IF j.sealing THEN j.es.refund[v] ELSE 0)
                        + NotUsedGas(done, p2.receipts, originator, v)
                   ELSE 0]
     /\ job' = NoJob

\* The driver is told of the cheaters and the seal, whose logs the new epoch's group depends on;
\* then the epoch is sealed.
Start(b, c, ctx) ==
  LET sealing == EpochSealing(b, ctx)
      p == Execute(NewProcessor(b.root, es.rules), PreInternalTxs(b, sealing))
      heard == OnNewLogs(b, es.rules, p.logs)
      after == IF sealing THEN SealEpoch(heard, ctx) ELSE [bs |-> heard, es |-> es]
  IN [busy |-> TRUE, ctx |-> ctx, es |-> after.es, l |-> after, p |-> p, sealing |-> sealing,
      events |-> Sorted(WithTxs(c))]

\* Where the driver is told to deactivate somebody
Deactivations(txs) == {i \in DOMAIN txs : txs[i].call = "deactivate"}

SkippedForgets(b) == bs  \* mutant: nothing is stored of a skipped block

\* A skipped block leaves a mark in the state all the same: cheaters, gas, who was online.
Skipped(b) == b

\* BeginBlock to EndBlock. The next block waits for the worker. What the worker does is done at
\* once if no event has transactions.
Block(c) ==
  LET atropos == IF c.events = {} THEN 0 ELSE MedianTime(Max(c.events))
      ctx == [idx |-> bs.idx + 1, time |-> Larger(atropos, bs.time + 1)]
      empty == WithTxs(c) = {} /\ c.cheaters = {}
      skip == c.events = {} \/ (empty /\ ctx.time < bs.time + MaxEmptyBlockSkipPeriod)
      begun == [bs EXCEPT !.cheaters = MergeCheaters(@, c.cheaters)]
      b == [EventsFinalize(begun, c, ctx) EXCEPT !.cheaters = MergeCheaters(@, Proven(c))]
      j == Start(b, c, ctx)
      all == seen \cup c.cheaters \cup Proven(c)
  IN /\ left' = left - 1
     /\ confirmed' = IF ~skip /\ j.sealing THEN {} ELSE confirmed \cup c.events
     /\ seen' = IF ~skip /\ j.sealing THEN {} ELSE all
     /\ told' = IF ~skip /\ j.sealing
                THEN [deactivated |-> [i \in Deactivations(j.p.txs) |-> j.p.txs[i].validator],
                      seen |-> all,
                      length |-> [v \in es.validators |->
                                    Larger(ctx.time, b.states[v].online) - es.start],
                      uptime |-> [v \in es.validators |-> EpochUptime(b, v, ctx)]]
                ELSE told
     /\ \/ /\ skip
           /\ bs' = Skipped(b)
           /\ UNCHANGED <<es, job, blocks, history, roots, debt>>
        \/ /\ ~skip /\ WithTxs(c) = {}
           /\ Finish(j)
        \/ /\ ~skip /\ WithTxs(c) # {}
           /\ job' = j
           /\ bs' = IF j.sealing THEN j.l.bs ELSE bs
           /\ es' = j.es
           /\ UNCHANGED <<blocks, history, roots, debt>>
     /\ account' = IF ~skip /\ j.sealing THEN Granted(Allotted(begun, c), j.es) ELSE Allotted(begun, c)
     /\ UNCHANGED <<up, restarts>>

EndBlock == up /\ ~job.busy /\ left > 0 /\ \E c \in Decided : Block(c)

Worker ==
  /\ job.busy
  /\ Finish(job)
  /\ UNCHANGED <<confirmed, left, up, restarts, seen, told, account>>

----------------------------------------------------------------------------
(* Restart. The database is committed between blocks; of the states of the EVM, those that were *)
(* only in memory are lost.                                                                     *)

\* RecoverEVM: the highest block of the last ones whose state there is
Recoverable(kept) ==
  LET lowest == (bs.idx + BlockRange - RecoverDepth) % BlockRange
  IN {n \in 1 .. bs.idx : n > lowest /\ blocks[n].root \in kept}

FindBlockEpoch(n) == Max({e \in DOMAIN history : history[e].first <= n})

ReexecutedAt(n) ==
  Reexecute(IF n = 1 THEN World ELSE blocks[n - 1].root, blocks[n], Body,
            history[FindBlockEpoch(n)].rules)

ReexecutedLate(kept) ==  \* mutant: the block after the one found is left out
  IF Recoverable(kept) = {} THEN {}
  ELSE {ReexecutedAt(n) : n \in Max(Recoverable(kept)) + 2 .. bs.idx}

\* ReexecuteBlocks: each block on the stored state of the one before
Reexecuted(kept) ==
  LET from == Max(Recoverable(kept))
  IN IF Recoverable(kept) = {} THEN {}
     ELSE {ReexecutedAt(n) : n \in from + 1 .. bs.idx}

Restart ==
  /\ up /\ ~job.busy /\ restarts < MaxRestarts
  /\ restarts' = restarts + 1
  /\ \E kept \in SUBSET roots : roots' = kept \cup Reexecuted(kept)
  /\ up' = (bs.root \in roots')  \* else Start returns an error
  /\ UNCHANGED <<bs, es, job, confirmed, left, blocks, history, seen, told, debt, account>>

Next == EndBlock \/ Worker \/ Restart

Spec == Init /\ [][Next]_vars

----------------------------------------------------------------------------
(* Properties *)

StateOf(b, e) ==
  /\ DOMAIN b.states = e.validators
  /\ DOMAIN e.refund = e.validators /\ DOMAIN e.prev = e.validators
  /\ e.validators # {} /\ b.next \subseteq Validator
  /\ b.written <= Len(b.cheaters) /\ b.advance \in 0 .. MaxAdvanceEpochs
  /\ \A v \in e.validators : b.states[v].lastBlock \in 0 .. b.idx + 1

\* Types. Each validator of the epoch, and no other, has a block state and an epoch state; the
\* blocks stored are those up to the last one; EVM accounts have no negative balance.
TypeOK ==
  /\ StateOf(bs, es)
  /\ job.busy => StateOf(job.l.bs, job.es)
  /\ Len(blocks) = bs.idx
  /\ confirmed \subseteq Event /\ left \in 0 .. MaxBlocks /\ restarts \in 0 .. MaxRestarts
  /\ \A w \in roots : \A a \in Account : w.nonce[a] >= 0 /\ w.balance[a] >= 0
  /\ \A v \in Validator : debt[v] >= 0

\* mergeCheaters and CheatersWritten: a cheater seen by any block of an epoch, be the block
\* skipped, is remembered until the epoch is sealed; then the driver was told of each of them,
\* once, and none is in the next group.
CheatersPunished ==
  /\ ~job.busy => ToSet(bs.cheaters) = seen
  /\ Range(told.deactivated) = told.seen
  /\ IsInjective(told.deactivated)
  /\ es.validators \cap bs.root.dead = {}
  /\ ~job.busy => told.seen \subseteq bs.root.dead

\* The metrics of an epoch never claim that a validator was up for longer than the epoch took: until
\* its last block, or its last event where a skipped block before had a later one.
UptimeWithinEpoch == \A v \in DOMAIN told.uptime : told.uptime[v] <= told.length[v]

\* Gas that a transaction was given and did not use is owed to the validator whose event had it:
\* it is granted with the next epoch, and until then is in the validator's state. A block that
\* seals counts for the epoch after, for those who are still validators.
RefundsConserved == ~job.busy => \A v \in es.validators : bs.states[v].refund = debt[v]

\* The events of a validator that blocks have confirmed never used more than it was allotted: for
\* each second once, its refunds, and at the start of an epoch as much as makes up the startup; as
\* long as what its last event left has been recorded.
NothingUsedTwice ==
  \A v \in es.validators : account[v].recorded => account[v].credit >= 0

\* Both sides of a validator's gas account are right.
GasPowerConserved == RefundsConserved /\ NothingUsedTwice

\* What a reader finds of a block, by its events and the places of skipped transactions, is what
\* was executed, and executing it again gives the block's state.
BlocksReplay ==
  \A n \in DOMAIN blocks :
    /\ GetBlockTxs(blocks[n], Body) = blocks[n].ran
    /\ ReexecutedAt(n) = blocks[n].root

\* RecoverEVM, for chains longer than it looks back: if the state of one of the last blocks is in
\* the database, the last one's state is there after the restart, and the node starts.
Recovers ==
  [][restarts' # restarts /\ bs.idx >= RecoverDepth
       /\ (\E n \in 1 .. bs.idx : n + RecoverDepth > bs.idx /\ blocks[n].root \in roots')
     => up']_vars
=============================================================================
