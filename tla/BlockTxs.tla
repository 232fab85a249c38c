------------------------------ MODULE BlockTxs ------------------------------
(***************************************************************************)
(* How the transactions of a block change the state of the EVM, which of   *)
(* them are skipped, and how a reader finds them again: the processor of   *)
(* gossip/blockproc/evmmodule, evmcore/state_processor.go, the transition  *)
(* of evmcore/state_transition.go with this network's free transactions    *)
(* and claims, spillBlockEvents and GetBlockTxs. Pure operators: the       *)
(* states they work on are BlockPipeline's.                                *)
(*                                                                         *)
(* What a call does in the virtual machine is what the transaction says:   *)
(* runs is the gas it takes, intrinsic gas included (the checks of events  *)
(* refuse less gas than that, eventcheck/basiccheck), log the one log of   *)
(* the driver's contract it leaves, and unpaid that it creates a contract  *)
(* with more value than its sender has, which is no reason to skip it. Gas *)
(* costs the base fee, the price of the epoch's rules. The contract that   *)
(* knows who is whitelisted, whose transactions are free and what may be   *)
(* claimed is not under src/: its answers are constants.                   *)
(***************************************************************************)
EXTENDS Integers, Sequences, FiniteSets, SequencesExt

CONSTANTS
  Account,
  Whitelisted, Free, FreeGasCap,  \* of the contract: who, whose transactions, up to what gas
  Claim, Commission,              \* what is minted by a claim, and the percentage of it ...
  CommissionTo,                   \* ... that goes to this account, or NoAccount
  NoAccount,
  Internal                        \* the sender of internal transactions

ASSUME BlockTxsAssumption ==
  /\ Free \subseteq Whitelisted /\ Whitelisted \subseteq Account
  /\ NoAccount \notin Account /\ Internal \notin Account
  /\ CommissionTo \in Account \cup {NoAccount}
  /\ {FreeGasCap, Claim} \subseteq Nat /\ Commission \in 0 .. 100

NoLog == [kind |-> "none"]

\* The k-th of a set of numbers, all of them in order, and what a sequence of numbers adds up to
Nth(S, k) == CHOOSE x \in S : Cardinality({y \in S : y < x}) = k - 1
Sorted(S) == [k \in 1 .. Cardinality(S) |-> Nth(S, k)]

Sums(seq) == LET sum[n \in 0 .. Len(seq)] == IF n = 0 THEN 0 ELSE sum[n - 1] + seq[n] IN sum
Total(seq) == Sums(seq)[Len(seq)]

Pay(w, a, n) == [w EXCEPT !.balance[a] = @ + n]

----------------------------------------------------------------------------
(* evmcore/state_transition.go *)

\* A skipped transaction must leave no trace: nothing is undone if the checks fail.
PreCheck(w, tx, price) ==
  /\ tx.nonce = w.nonce[tx.from]
  /\ tx.gas * price <= w.balance[tx.from]

ProcessClaimTokens(w, tx) ==
  LET part == (Claim * Commission) \div 100
      to == Pay(w, tx.from, 1)
  IN IF CommissionTo = NoAccount THEN Pay(to, tx.from, 5)
     ELSE Pay(Pay(to, CommissionTo, part), tx.from, Claim - part)

\* What becomes of the gas that is left; the contract always answers. A whitelisted sender does not get it back, unless the
\* transaction is free: then it is all returned and none was used.
RefundGas(w, tx, gas, price) ==
  IF tx.from \notin Whitelisted
  THEN [world |-> Pay(w, tx.from, gas * price), used |-> tx.gas - gas]
  ELSE LET ten == Pay(w, tx.from, 10)
           claimed == IF tx.claims THEN ProcessClaimTokens(ten, tx) ELSE ten
       IN IF tx.from \notin Free
          THEN [world |-> Pay(claimed, tx.from, 1000), used |-> tx.gas - gas]
          ELSE IF tx.gas - gas <= FreeGasCap
          THEN [world |-> Pay(claimed, tx.from, 10000 + 100000 + tx.gas * price), used |-> 0]
          ELSE [world |-> Pay(claimed, tx.from, 10000), used |-> tx.gas - gas]

\* TransitionDb of a transaction that passes PreCheck; a tenth of the gas not used is taken. A
\* creation leaves the nonce to evm.Create, which returns before it if the value is unpaid.
Transition(w, tx, price) ==
  LET paid == Pay(w, tx.from, 0 - tx.gas * price)
      bought == IF tx.unpaid THEN paid ELSE [paid EXCEPT !.nonce[tx.from] = @ + 1]
      left == tx.gas - tx.runs
  IN RefundGas(bought, tx, left - left \div 10, price)

\* An internal transaction has no sender that pays or whose nonce is compared. The driver's
\* contract deactivates a validator once, and says so in a log.
Deactivate(v) == [from |-> Internal, call |-> "deactivate", validator |-> v, gas |-> 0]
SealEpochMetrics == [from |-> Internal, call |-> "sealEpoch", gas |-> 0]
SealEpochValidators(vs) == [from |-> Internal, call |-> "sealEpochValidators", ids |-> vs, gas |-> 0]

InternalTransition(w, tx) ==
  IF tx.call = "deactivate" THEN [w EXCEPT !.dead = @ \cup {tx.validator}] ELSE w

\* Whoever has been deactivated gets no weight again.
TakesBack(w, log) == log.kind = "weight" /\ log.on /\ log.validator \in w.dead

LogOf(w, tx) ==
  IF tx.from # Internal THEN IF TakesBack(w, tx.log) THEN NoLog ELSE tx.log
  ELSE IF tx.call = "deactivate" /\ tx.validator \notin w.dead
  THEN [kind |-> "weight", validator |-> tx.validator, on |-> FALSE] ELSE NoLog

----------------------------------------------------------------------------
(* evmcore/state_processor.go and the processor of a block that calls it *)

\* EVMModule.Start: for all of the block, by the rules of the epoch that it is in
NewProcessor(w, rules) ==
  [world |-> w, price |-> rules.price, txs |-> <<>>, skipped |-> <<>>, receipts |-> <<>>,
   logs |-> <<>>]

SkipPays(p, tx, i) ==  \* mutant: gas is bought before the nonce is compared
  [p EXCEPT !.skipped = Append(@, i), !.world = Pay(@, tx.from, 0 - tx.gas * p.price)]

\* The error of PreCheck is not one of the block: the place of the transaction is noted.
Skip(p, tx, i) == [p EXCEPT !.skipped = Append(@, i)]

Done(p, tx, r) ==
  [p EXCEPT !.world = r.world, !.receipts = Append(@, [tx |-> tx, used |-> r.used]),
            !.logs = Append(@, LogOf(p.world, tx))]

\* applyTransaction, of the transaction at place i
Apply(p, tx, i) ==
  IF tx.from = Internal THEN Done(p, tx, [world |-> InternalTransition(p.world, tx), used |-> 0])
  ELSE IF PreCheck(p.world, tx, p.price) THEN Done(p, tx, Transition(p.world, tx, p.price))
  ELSE Skip(p, tx, i)

\* Execute may be called several times in a block: the places it notes are those in the whole.
\* The logs are those of this call.
Stages(p, txs) ==
  LET after[n \in 0 .. Len(txs)] ==
        IF n = 0 THEN [p EXCEPT !.logs = <<>>] ELSE Apply(after[n - 1], txs[n], Len(p.txs) + n)
  IN after
Execute(p, txs) == [Stages(p, txs)[Len(txs)] EXCEPT !.txs = p.txs \o txs]

\* skipped is in order
FilterSkippedTxs(txs, skipped) ==
  LET kept == Sorted(DOMAIN txs \ ToSet(skipped)) IN [i \in DOMAIN kept |-> txs[kept[i]]]

----------------------------------------------------------------------------
(* gossip *)

\* The highest events that fit; the first that does not, and all below it, are left out.
\* body gives the gas that an event was granted.
SpillBlockEvents(events, body, maxBlockGas) ==
  LET fits(i) == Total([k \in 1 .. Len(events) - i + 1 |-> body[events[i + k - 1]].gas])
                 <= maxBlockGas
      first == CHOOSE i \in 1 .. Len(events) + 1 :
                 /\ \A k \in i .. Len(events) : fits(k)
                 /\ i = 1 \/ ~fits(i - 1)
  IN SubSeq(events, first, Len(events))

TxsUpTo(events, body) ==
  LET upTo[n \in 0 .. Len(events)] ==
        IF n = 0 THEN <<>> ELSE upTo[n - 1] \o body[events[n]].txs
  IN upTo
TxsOf(events, body) == TxsUpTo(events, body)[Len(events)]

\* What a reader of the database finds
GetBlockTxs(block, body) ==
  FilterSkippedTxs(block.txs \o TxsOf(block.events, body), block.skipped)

\* The creator of the first event of the block that has the transaction; 0 of an internal one
EventCreator(tx, events, body) ==
  LET has == {i \in 1 .. Len(events) : Contains(body[events[i]].txs, tx)}
  IN IF has = {} THEN 0 ELSE body[events[CHOOSE i \in has : \A k \in has : i <= k]].creator

\* ReexecuteBlocks: what block gives on the state of the one before it
Reexecute(w, block, body, rules) == Execute(NewProcessor(w, rules), GetBlockTxs(block, body)).world

(* opera/marshal.go: a rule that diff does not name stays *)
UpdateRules(src, diff) == [r \in DOMAIN src |-> IF r \in DOMAIN diff THEN diff[r] ELSE src[r]]

=============================================================================
