------------------------ MODULE BlockPipelineProofs ------------------------
(***************************************************************************)
(* Theorems about the block pipeline for every set of validators, every    *)
(* events and transactions, all rules and every schedule of blocks, the    *)
(* worker and restarts.                                                    *)
(*                                                                         *)
(* The invariant comes first, and then: recursion, the EVM and what is     *)
(* read of a block, the driver's listener, the worker's step, the gas      *)
(* accounts of validators, and the steps of a block.                       *)
(***************************************************************************)
EXTENDS BlockPipeline, FiniteSetTheorems, WellFoundedInduction, TLAPS

----------------------------------------------------------------------------
(* Types *)

Worlds == [nonce : [Account -> Nat], balance : [Account -> Nat], dead : SUBSET Validator]

DriverTx ==
  {Deactivate(v) : v \in Validator} \cup {SealEpochMetrics}
    \cup {SealEpochValidators(vs) : vs \in SUBSET Validator}

AnyTx == Tx \cup DriverTx

Receipts == {r \in [tx : AnyTx, used : Nat] : r.used <= r.tx.gas}

Processors ==
  [world : Worlds, price : Nat, txs : Seq(AnyTx), skipped : Seq(Nat), receipts : Seq(Receipts),
   logs : Seq(Log)]

Accounts == [left : Nat, time : Int]

Infos == [uptime : Nat, online : Nat, lastBlock : Nat, refund : Nat, event : Accounts]

BlockStates(group) ==
  [idx : Nat, time : Nat, root : Worlds, gas : Nat, cheaters : Seq(Validator), written : {0},
   states : [group -> Infos], next : SUBSET Validator, dirty : Rules \cup {NoRules},
   advance : 0 .. MaxAdvanceEpochs]

EpochStates(group) ==
  [epoch : Nat, start : Nat, validators : {group}, refund : [group -> Nat],
   prev : [group -> Accounts], rules : Rules]

Jobs(e) ==
  [busy : {TRUE}, ctx : [idx : Nat, time : Nat], es : {e},
   l : [bs : BlockStates(e.validators), es : {e}], p : Processors, sealing : BOOLEAN,
   events : Seq(Event)]

Blocks ==
  [events : Seq(Event), txs : Seq(DriverTx), skipped : Seq(Nat), root : Worlds, ran : Seq(AnyTx)]

\* Types of b and j, the block state and the job, and of what is stored: bl, hs, rt and dt are
\* blocks, history, roots and debt.
Typed(b, j, bl, hs, rt, dt) ==
  /\ es.validators \subseteq Validator
  /\ es \in EpochStates(es.validators)
  /\ b \in BlockStates(es.validators)
  /\ j = NoJob \/ j \in Jobs(es)
  /\ bl \in Seq(Blocks) /\ hs \in Seq([rules : Rules, first : Nat])
  /\ rt \subseteq Worlds /\ dt \in [Validator -> Nat]
  /\ confirmed \subseteq Event /\ left \in 0 .. MaxBlocks /\ restarts \in 0 .. MaxRestarts
  /\ up \in BOOLEAN /\ seen \subseteq Validator
  /\ account \in [Validator -> [credit : Int, since : Nat, recorded : BOOLEAN]]

----------------------------------------------------------------------------
(* The invariant *)

\* The block state that the next block will start from, but for what is still to be executed
Latest(b, j) == IF j.busy THEN j.l.bs ELSE b

\* Who has been deactivated by now
Dead(b, j) == IF j.busy THEN j.p.world.dead ELSE b.root.dead

\* Time goes on, and nobody is said to have been in a block that is to come.
InTime(b, j) ==
  /\ es.start <= (IF j.busy THEN j.ctx.time ELSE b.time)
  /\ \A v \in es.validators : b.states[v].lastBlock <= b.idx + 1
  /\ j.busy => /\ j.ctx.idx = b.idx + 1 /\ j.l.bs.idx = b.idx /\ j.l.bs.root = b.root
               /\ \A v \in es.validators : j.l.bs.states[v].lastBlock <= b.idx + 1

\* While a block is executed, cheaters have been dealt with.
Punished(b, j) ==
  /\ IsInjective(b.cheaters) /\ ToSet(b.cheaters) = seen
  /\ j.busy => seen = {} /\ j.l.bs.cheaters = <<>>
  /\ Range(told.deactivated) = told.seen /\ IsInjective(told.deactivated)
  /\ b.root.dead \subseteq Dead(b, j) /\ told.seen \subseteq Dead(b, j)
  /\ es.validators \cap Dead(b, j) = {} /\ Latest(b, j).next \cap Dead(b, j) = {}
  /\ \A v \in Validator : Stays(v) =>
       v \in es.validators /\ v \in Latest(b, j).next /\ v \notin seen /\ v \notin Dead(b, j)

\* Of the events of a validator that have been made, those in conf come before the others.
Orderly(conf) ==
  /\ conf \subseteq Made
  /\ \A g \in conf, f \in Made :
       f < g /\ Body[f].creator = Body[g].creator => f \in conf
InOrder == Orderly(confirmed)

\* A validator has an uptime only up to an event of the epoch in conf.
Ups(conf, states) ==
  \A v \in es.validators :
    \/ states[v].uptime = 0
    \/ /\ states[v].uptime <= states[v].online - es.start
       /\ \E g \in conf : Body[g].creator = v /\ states[v].online = MedianTime(g)
UpSince(b, j) == Ups(confirmed, Latest(b, j).states) /\ UptimeWithinEpoch

\* Refunds that the epoch was granted while its first block is still executed are still in debt.
Owed(b, j, dt) ==
  \A v \in es.validators :
    dt[v] = Latest(b, j).states[v].refund
              + (IF j.busy THEN IF j.sealing THEN es.refund[v] ELSE 0 ELSE 0)
NotOwed(j, dt) == ~j.busy => \A v \in Validator \ es.validators : dt[v] = 0

\* The last event of v in conf, or 0
LastOf(conf, v) ==
  LET mine == {e \in conf : Body[e].creator = v} IN IF mine = {} THEN 0 ELSE Max(mine)

\* Account a of v is no better for v than what it has been allotted says; and kept is what is stored.
Covers(conf, v, a, stained, kept) ==
  LET m == LastOf(conf, v)
      last == Chain(v)[m].account
  IN /\ a.credit >= last.left
     /\ m = 0 => a.credit >= Startup(es.validators)
     /\ a.since <= last.time
     /\ m # 0 => a.since = MedianTime(m)
     /\ \/ a.since <= es.start
        \/ \E g \in Event : /\ a.since = Body[g].time
                            /\ \/ Body[g].epoch < es.epoch
                               \/ g \in conf /\ Body[g].creator = v
     /\ ~stained => kept = IF m = 0 THEN es.prev[v] ELSE last
Covered(b, j) ==
  \A v \in es.validators :
    account[v].recorded =>
      Covers(confirmed, v, account[v], v \in seen, Latest(b, j).states[v].event)

\* What p has executed of txs gives its state again when it is executed on w, without what was
\* skipped.
Replays(txs, p, w) ==
  LET ran == FilterSkippedTxs(txs, p.skipped)
  IN /\ ToSet(p.skipped) \subseteq DOMAIN txs
     /\ ran = [i \in DOMAIN p.receipts |-> p.receipts[i].tx]
     /\ p.world = Stages(NewProcessor(w, [price |-> p.price]), ran)[Len(ran)].world
Sound(p, w) == Replays(p.txs, p, w)

RootOf(bl, n) == IF n = 0 THEN World ELSE bl[n].root

\* ReexecutedAt of the stored blocks bl and the history hs
Again(n, bl, hs) ==
  Reexecute(RootOf(bl, n - 1), bl[n], Body, hs[Max({e \in DOMAIN hs : hs[e].first <= n})].rules)

Stored(b, j, bl, hs) ==
  /\ Len(bl) = b.idx /\ b.root = RootOf(bl, b.idx)
  /\ Len(hs) > 0 /\ hs[1].first = 1 /\ \A i \in DOMAIN hs : hs[i].first <= b.idx + 1
  /\ j.busy => /\ \A i \in DOMAIN j.p.txs : j.p.txs[i] \in DriverTx
               /\ j.p.price = hs[Len(hs)].rules.price
               /\ Sound(j.p, b.root)
  /\ (j.busy => ~j.sealing) => es.rules = hs[Len(hs)].rules
  /\ \A n \in DOMAIN bl :
       GetBlockTxs(bl[n], Body) = bl[n].ran /\ Again(n, bl, hs) = bl[n].root

Inv(b, j, bl, hs, rt, dt) ==
  /\ Typed(b, j, bl, hs, rt, dt)
  /\ InTime(b, j)
  /\ Punished(b, j)
  /\ InOrder
  /\ UpSince(b, j)
  /\ Owed(b, j, dt) /\ NotOwed(j, dt)
  /\ Covered(b, j)
  /\ Stored(b, j, bl, hs)

IInv == Inv(bs, job, blocks, history, roots, debt)

----------------------------------------------------------------------------
(* Induction and recursion *)

\* A set of numbers has a least one (WFMin over the well-founded order of Nat).
LEMMA LeastNat ==
  ASSUME NEW T \in SUBSET Nat, T # {}
  PROVE  \E x \in T : \A y \in T : x <= y
<1> DEFINE R == OpToRel(<, Nat)
<1>1. IsWellFoundedOn(R, Nat)
  BY NatLessThanWellFounded
<1>2. \A x, y \in Nat : y < x => <<y, x>> \in R
  BY DEF OpToRel
<1> HIDE DEF R
<1>3. PICK x \in T : \A y \in T : ~(<<y, x>> \in R)
  BY <1>1, WFMin
<1>4. ASSUME NEW y \in T
      PROVE  x <= y
  <2>1. x \in Nat /\ y \in Nat /\ ~(<<y, x>> \in R)
    BY <1>3
  <2>2. ~(y < x)
    BY <1>2, <2>1
  <2>3. QED
    BY <2>1, <2>2
<1>5. QED
  BY <1>3, <1>4

\* Induction, for a set of numbers.
LEMMA NatSet ==
  ASSUME NEW S \in SUBSET Nat, 0 \in S, \A n \in S : n + 1 \in S
  PROVE  S = Nat
<1>1. SUFFICES ASSUME Nat \ S # {}
               PROVE  FALSE
  OBVIOUS
<1>2. PICK x \in Nat \ S : \A y \in Nat \ S : x <= y
  BY <1>1, LeastNat
<1>3. x - 1 \in Nat /\ x - 1 < x /\ (x - 1) + 1 = x
  BY <1>2
<1>4. x - 1 \in S
  BY <1>2, <1>3
<1>5. QED
  BY <1>2, <1>3, <1>4

\* The same up to N.
LEMMA UpTo ==
  ASSUME NEW N \in Nat, NEW S, 0 \in S,
         \A n \in 0 .. N : n \in S /\ n < N => n + 1 \in S
  PROVE  \A n \in 0 .. N : n \in S
<1> DEFINE T == {n \in Nat : n \in S \/ n > N}
<1>1. \A n \in T : n + 1 \in T
  <2>1. SUFFICES ASSUME NEW n \in T
                 PROVE  n + 1 \in T
    OBVIOUS
  <2>2. CASE n > N \/ n = N
    BY <2>2
  <2>3. CASE n < N
    BY <2>3
  <2>4. QED
    BY <2>2, <2>3
<1>2. 0 \in T
  OBVIOUS
<1>3. T = Nat
  <2> HIDE DEF T
  <2>1. T \in SUBSET Nat
    BY DEF T
  <2>2. QED
    BY <1>1, <1>2, <2>1, NatSet
<1>4. QED
  BY <1>3

\* A sum is that of what comes before and the last.
LEMMA SumsIs ==
  ASSUME NEW seq, Len(seq) \in Nat
  PROVE  /\ Sums(seq)[0] = 0
         /\ \A n \in 1 .. Len(seq) : Sums(seq)[n] = Sums(seq)[n - 1] + seq[n]
         /\ DOMAIN Sums(seq) = 0 .. Len(seq)
<1> DEFINE Grown(g, n) == IF n = 0 THEN 0 ELSE g[n - 1] + seq[n]
           Has(k) == \E g : g = [n \in 0 .. k |-> Grown(g, n)]
           S == {k \in Nat : Has(k)}
<1>1. 0 \in S
  <2> DEFINE g == [n \in 0 .. 0 |-> 0]
  <2>1. \A n \in 0 .. 0 : 0 = Grown(g, n)
    OBVIOUS
  <2>2. g = [n \in 0 .. 0 |-> Grown(g, n)]
    BY <2>1, Zenon
  <2>3. QED
    BY <2>2
<1>2. ASSUME NEW k \in S
      PROVE  k + 1 \in S
  <2>1. k \in Nat /\ Has(k)
    OBVIOUS
  <2>2. PICK g : g = [n \in 0 .. k |-> Grown(g, n)]
    BY <2>1, Zenon
  <2> DEFINE h == [n \in 0 .. k + 1 |-> Grown(g, n)]
  <2>3. \A n \in 0 .. k : n \in 0 .. k + 1
    BY <2>1
  <2>4. \A n \in 0 .. k : g[n] = Grown(g, n)
    <3> HIDE DEF Grown
    <3>1. QED
      BY <2>2, Zenon
  <2>5. \A n \in 0 .. k : h[n] = g[n]
    <3> HIDE DEF Grown
    <3>1. QED
      BY <2>3, <2>4, Zenon
  <2>6. \A n \in 0 .. k + 1 : n # 0 => n - 1 \in 0 .. k
    BY <2>1
  <2>7. \A n \in 0 .. k + 1 : Grown(g, n) = Grown(h, n)
    <3> HIDE DEF h
    <3>1. QED
      BY <2>5, <2>6, Zenon
  <2>8. h = [n \in 0 .. k + 1 |-> Grown(h, n)]
    BY <2>7, Zenon
  <2>9. k + 1 \in Nat
    BY <2>1
  <2>10. Has(k + 1)
    BY <2>8, Zenon
  <2>11. QED
    BY <2>9, <2>10
<1>3. Has(Len(seq))
  <2> HIDE DEF Has
  <2>1. S = Nat
    BY <1>1, <1>2, NatSet
  <2>2. QED
    BY <2>1
<1>4. Sums(seq) = [n \in 0 .. Len(seq) |-> Grown(Sums(seq), n)]
  BY <1>3, Zenon DEF Sums
<1> DEFINE F == Sums(seq)
<1>5. F = [n \in 0 .. Len(seq) |-> Grown(F, n)]
  BY <1>4
<1>6. \A n \in 1 .. Len(seq) : n \in 0 .. Len(seq) /\ n # 0
  OBVIOUS
<1>7. 0 \in 0 .. Len(seq)
  OBVIOUS
<1> HIDE DEF F
<1>8. /\ F[0] = Grown(F, 0)
      /\ \A n \in 1 .. Len(seq) : F[n] = Grown(F, n)
      /\ DOMAIN F = 0 .. Len(seq)
  <2> HIDE DEF Grown
  <2>1. QED
    BY <1>5, <1>6, <1>7, Zenon
<1>9. /\ F[0] = 0
      /\ \A n \in 1 .. Len(seq) : F[n] = F[n - 1] + seq[n]
  BY <1>6, <1>8, Zenon
<1>10. QED
  BY <1>8, <1>9, Zenon DEF F

\* So are the transactions of a block's events.
LEMMA TxsUpToIs ==
  ASSUME NEW events, NEW body, Len(events) \in Nat
  PROVE  /\ TxsUpTo(events, body)[0] = <<>>
         /\ \A n \in 1 .. Len(events) :
              TxsUpTo(events, body)[n] = TxsUpTo(events, body)[n - 1] \o body[events[n]].txs
         /\ DOMAIN TxsUpTo(events, body) = 0 .. Len(events)
<1> DEFINE Grown(g, n) == IF n = 0 THEN <<>> ELSE g[n - 1] \o body[events[n]].txs
           Has(k) == \E g : g = [n \in 0 .. k |-> Grown(g, n)]
           S == {k \in Nat : Has(k)}
<1>1. 0 \in S
  <2> DEFINE g == [n \in 0 .. 0 |-> <<>>]
  <2>1. \A n \in 0 .. 0 : <<>> = Grown(g, n)
    OBVIOUS
  <2>2. g = [n \in 0 .. 0 |-> Grown(g, n)]
    BY <2>1, Zenon
  <2>3. QED
    BY <2>2
<1>2. ASSUME NEW k \in S
      PROVE  k + 1 \in S
  <2>1. k \in Nat /\ Has(k)
    OBVIOUS
  <2>2. PICK g : g = [n \in 0 .. k |-> Grown(g, n)]
    BY <2>1, Zenon
  <2> DEFINE h == [n \in 0 .. k + 1 |-> Grown(g, n)]
  <2>3. \A n \in 0 .. k : n \in 0 .. k + 1
    BY <2>1
  <2>4. \A n \in 0 .. k : g[n] = Grown(g, n)
    <3> HIDE DEF Grown
    <3>1. QED
      BY <2>2, Zenon
  <2>5. \A n \in 0 .. k : h[n] = g[n]
    <3> HIDE DEF Grown
    <3>1. QED
      BY <2>3, <2>4, Zenon
  <2>6. \A n \in 0 .. k + 1 : n # 0 => n - 1 \in 0 .. k
    BY <2>1
  <2>7. \A n \in 0 .. k + 1 : Grown(g, n) = Grown(h, n)
    <3> HIDE DEF h
    <3>1. QED
      BY <2>5, <2>6, Zenon
  <2>8. h = [n \in 0 .. k + 1 |-> Grown(h, n)]
    BY <2>7, Zenon
  <2>9. k + 1 \in Nat
    BY <2>1
  <2>10. Has(k + 1)
    BY <2>8, Zenon
  <2>11. QED
    BY <2>9, <2>10
<1>3. Has(Len(events))
  <2> HIDE DEF Has
  <2>1. S = Nat
    BY <1>1, <1>2, NatSet
  <2>2. QED
    BY <2>1
<1>4. TxsUpTo(events, body) = [n \in 0 .. Len(events) |-> Grown(TxsUpTo(events, body), n)]
  BY <1>3, Zenon DEF TxsUpTo
<1> DEFINE F == TxsUpTo(events, body)
<1>5. F = [n \in 0 .. Len(events) |-> Grown(F, n)]
  BY <1>4
<1>6. \A n \in 1 .. Len(events) : n \in 0 .. Len(events) /\ n # 0
  OBVIOUS
<1>7. 0 \in 0 .. Len(events)
  OBVIOUS
<1> HIDE DEF F
<1>8. /\ F[0] = Grown(F, 0)
      /\ \A n \in 1 .. Len(events) : F[n] = Grown(F, n)
      /\ DOMAIN F = 0 .. Len(events)
  <2> HIDE DEF Grown
  <2>1. QED
    BY <1>5, <1>6, <1>7, Zenon
<1>9. /\ F[0] = <<>>
      /\ \A n \in 1 .. Len(events) : F[n] = F[n - 1] \o body[events[n]].txs
  BY <1>6, <1>8, Zenon
<1>10. QED
  BY <1>8, <1>9, Zenon DEF F

\* So is what a processor comes to.
LEMMA StagesIs ==
  ASSUME NEW p, NEW txs, Len(txs) \in Nat
  PROVE  /\ Stages(p, txs)[0] = [p EXCEPT !.logs = <<>>]
         /\ \A n \in 1 .. Len(txs) :
              Stages(p, txs)[n] = Apply(Stages(p, txs)[n - 1], txs[n], Len(p.txs) + n)
         /\ DOMAIN Stages(p, txs) = 0 .. Len(txs)
<1> DEFINE Grown(g, n) == IF n = 0 THEN [p EXCEPT !.logs = <<>>]
                          ELSE Apply(g[n - 1], txs[n], Len(p.txs) + n)
           Has(k) == \E g : g = [n \in 0 .. k |-> Grown(g, n)]
           S == {k \in Nat : Has(k)}
<1>1. 0 \in S
  <2> DEFINE g == [n \in 0 .. 0 |-> [p EXCEPT !.logs = <<>>]]
  <2>1. \A n \in 0 .. 0 : [p EXCEPT !.logs = <<>>] = Grown(g, n)
    OBVIOUS
  <2>2. g = [n \in 0 .. 0 |-> Grown(g, n)]
    BY <2>1, Zenon
  <2>3. QED
    BY <2>2
<1>2. ASSUME NEW k \in S
      PROVE  k + 1 \in S
  <2>1. k \in Nat /\ Has(k)
    OBVIOUS
  <2>2. PICK g : g = [n \in 0 .. k |-> Grown(g, n)]
    BY <2>1, Zenon
  <2> DEFINE h == [n \in 0 .. k + 1 |-> Grown(g, n)]
  <2>3. \A n \in 0 .. k : n \in 0 .. k + 1
    BY <2>1
  <2>4. \A n \in 0 .. k : g[n] = Grown(g, n)
    <3> HIDE DEF Grown
    <3>1. QED
      BY <2>2, Zenon
  <2>5. \A n \in 0 .. k : h[n] = g[n]
    <3> HIDE DEF Grown
    <3>1. QED
      BY <2>3, <2>4, Zenon
  <2>6. \A n \in 0 .. k + 1 : n # 0 => n - 1 \in 0 .. k
    BY <2>1
  <2>7. \A n \in 0 .. k + 1 : Grown(g, n) = Grown(h, n)
    <3> HIDE DEF h
    <3>1. QED
      BY <2>5, <2>6, Zenon
  <2>8. h = [n \in 0 .. k + 1 |-> Grown(h, n)]
    BY <2>7, Zenon
  <2>9. k + 1 \in Nat
    BY <2>1
  <2>10. Has(k + 1)
    BY <2>8, Zenon
  <2>11. QED
    BY <2>9, <2>10
<1>3. Has(Len(txs))
  <2> HIDE DEF Has
  <2>1. S = Nat
    BY <1>1, <1>2, NatSet
  <2>2. QED
    BY <2>1
<1>4. Stages(p, txs) = [n \in 0 .. Len(txs) |-> Grown(Stages(p, txs), n)]
  BY <1>3, Zenon DEF Stages
<1> DEFINE F == Stages(p, txs)
<1>5. F = [n \in 0 .. Len(txs) |-> Grown(F, n)]
  BY <1>4
<1>6. \A n \in 1 .. Len(txs) : n \in 0 .. Len(txs) /\ n # 0
  OBVIOUS
<1>7. 0 \in 0 .. Len(txs)
  OBVIOUS
<1> HIDE DEF F
<1>8. /\ F[0] = Grown(F, 0)
      /\ \A n \in 1 .. Len(txs) : F[n] = Grown(F, n)
      /\ DOMAIN F = 0 .. Len(txs)
  <2> HIDE DEF Grown
  <2>1. QED
    BY <1>5, <1>6, <1>7, Zenon
<1>9. /\ F[0] = [p EXCEPT !.logs = <<>>]
      /\ \A n \in 1 .. Len(txs) : F[n] = Apply(F[n - 1], txs[n], Len(p.txs) + n)
  BY <1>6, <1>8, Zenon
<1>10. QED
  BY <1>8, <1>9, Zenon DEF F

\* So is what the listener has heard.
LEMMA HeardIs ==
  ASSUME NEW b, NEW rules, NEW logs, Len(logs) \in Nat
  PROVE  /\ Heard(b, rules, logs)[0] = b
         /\ \A n \in 1 .. Len(logs) :
              Heard(b, rules, logs)[n] = OnNewLog(Heard(b, rules, logs)[n - 1], rules, logs[n])
         /\ DOMAIN Heard(b, rules, logs) = 0 .. Len(logs)
<1> DEFINE Grown(g, n) == IF n = 0 THEN b ELSE OnNewLog(g[n - 1], rules, logs[n])
           Has(k) == \E g : g = [n \in 0 .. k |-> Grown(g, n)]
           S == {k \in Nat : Has(k)}
<1>1. 0 \in S
  <2> DEFINE g == [n \in 0 .. 0 |-> b]
  <2>1. \A n \in 0 .. 0 : b = Grown(g, n)
    OBVIOUS
  <2>2. g = [n \in 0 .. 0 |-> Grown(g, n)]
    BY <2>1, Zenon
  <2>3. QED
    BY <2>2
<1>2. ASSUME NEW k \in S
      PROVE  k + 1 \in S
  <2>1. k \in Nat /\ Has(k)
    OBVIOUS
  <2>2. PICK g : g = [n \in 0 .. k |-> Grown(g, n)]
    BY <2>1, Zenon
  <2> DEFINE h == [n \in 0 .. k + 1 |-> Grown(g, n)]
  <2>3. \A n \in 0 .. k : n \in 0 .. k + 1
    BY <2>1
  <2>4. \A n \in 0 .. k : g[n] = Grown(g, n)
    <3> HIDE DEF Grown
    <3>1. QED
      BY <2>2, Zenon
  <2>5. \A n \in 0 .. k : h[n] = g[n]
    <3> HIDE DEF Grown
    <3>1. QED
      BY <2>3, <2>4, Zenon
  <2>6. \A n \in 0 .. k + 1 : n # 0 => n - 1 \in 0 .. k
    BY <2>1
  <2>7. \A n \in 0 .. k + 1 : Grown(g, n) = Grown(h, n)
    <3> HIDE DEF h
    <3>1. QED
      BY <2>5, <2>6, Zenon
  <2>8. h = [n \in 0 .. k + 1 |-> Grown(h, n)]
    BY <2>7, Zenon
  <2>9. k + 1 \in Nat
    BY <2>1
  <2>10. Has(k + 1)
    BY <2>8, Zenon
  <2>11. QED
    BY <2>9, <2>10
<1>3. Has(Len(logs))
  <2> HIDE DEF Has
  <2>1. S = Nat
    BY <1>1, <1>2, NatSet
  <2>2. QED
    BY <2>1
<1>4. Heard(b, rules, logs) = [n \in 0 .. Len(logs) |-> Grown(Heard(b, rules, logs), n)]
  BY <1>3, Zenon DEF Heard
<1> DEFINE F == Heard(b, rules, logs)
<1>5. F = [n \in 0 .. Len(logs) |-> Grown(F, n)]
  BY <1>4
<1>6. \A n \in 1 .. Len(logs) : n \in 0 .. Len(logs) /\ n # 0
  OBVIOUS
<1>7. 0 \in 0 .. Len(logs)
  OBVIOUS
<1> HIDE DEF F
<1>8. /\ F[0] = Grown(F, 0)
      /\ \A n \in 1 .. Len(logs) : F[n] = Grown(F, n)
      /\ DOMAIN F = 0 .. Len(logs)
  <2> HIDE DEF Grown
  <2>1. QED
    BY <1>5, <1>6, <1>7, Zenon
<1>9. /\ F[0] = b
      /\ \A n \in 1 .. Len(logs) : F[n] = OnNewLog(F[n - 1], rules, logs[n])
  BY <1>6, <1>8, Zenon
<1>10. QED
  BY <1>8, <1>9, Zenon DEF F

\* So are a validator's events.
LEMMA ChainIs ==
  ASSUME NEW v, Len(Body) \in Nat
  PROVE  /\ Chain(v)[0] = [account |-> EpochAccount(es.prev[v], es.start, es.refund[v]), made |-> {}]
         /\ \A n \in 1 .. Len(Body) :
              Chain(v)[n] = (IF Body[n].epoch = es.epoch /\ Body[n].creator = v
                             THEN Build(Chain(v)[n - 1], n) ELSE Chain(v)[n - 1])
         /\ DOMAIN Chain(v) = 0 .. Len(Body)
<1> DEFINE Grown(g, n) ==
             IF n = 0
             THEN [account |-> EpochAccount(es.prev[v], es.start, es.refund[v]), made |-> {}]
             ELSE (IF Body[n].epoch = es.epoch /\ Body[n].creator = v
                   THEN Build(g[n - 1], n) ELSE g[n - 1])
           Has(k) == \E g : g = [n \in 0 .. k |-> Grown(g, n)]
           S == {k \in Nat : Has(k)}
<1>1. 0 \in S
  <2> DEFINE g == [n \in 0 .. 0 |->
                     [account |-> EpochAccount(es.prev[v], es.start, es.refund[v]), made |-> {}]]
  <2>1. \A n \in 0 .. 0 :
          [account |-> EpochAccount(es.prev[v], es.start, es.refund[v]), made |-> {}] = Grown(g, n)
    OBVIOUS
  <2>2. g = [n \in 0 .. 0 |-> Grown(g, n)]
    BY <2>1, Zenon
  <2>3. QED
    BY <2>2
<1>2. ASSUME NEW k \in S
      PROVE  k + 1 \in S
  <2>1. k \in Nat /\ Has(k)
    OBVIOUS
  <2>2. PICK g : g = [n \in 0 .. k |-> Grown(g, n)]
    BY <2>1, Zenon
  <2> DEFINE h == [n \in 0 .. k + 1 |-> Grown(g, n)]
  <2>3. \A n \in 0 .. k : n \in 0 .. k + 1
    BY <2>1
  <2>4. \A n \in 0 .. k : g[n] = Grown(g, n)
    <3> HIDE DEF Grown
    <3>1. QED
      BY <2>2, Zenon
  <2>5. \A n \in 0 .. k : h[n] = g[n]
    <3> HIDE DEF Grown
    <3>1. QED
      BY <2>3, <2>4, Zenon
  <2>6. \A n \in 0 .. k + 1 : n # 0 => n - 1 \in 0 .. k
    BY <2>1
  <2>7. \A n \in 0 .. k + 1 : Grown(g, n) = Grown(h, n)
    <3> HIDE DEF h
    <3>1. QED
      BY <2>5, <2>6, Zenon
  <2>8. h = [n \in 0 .. k + 1 |-> Grown(h, n)]
    BY <2>7, Zenon
  <2>9. k + 1 \in Nat
    BY <2>1
  <2>10. Has(k + 1)
    BY <2>8, Zenon
  <2>11. QED
    BY <2>9, <2>10
<1>3. Has(Len(Body))
  <2> HIDE DEF Has
  <2>1. S = Nat
    BY <1>1, <1>2, NatSet
  <2>2. QED
    BY <2>1
<1>4. Chain(v) = [n \in 0 .. Len(Body) |-> Grown(Chain(v), n)]
  BY <1>3, Zenon DEF Chain
<1> DEFINE F == Chain(v)
<1>5. F = [n \in 0 .. Len(Body) |-> Grown(F, n)]
  BY <1>4
<1>6. \A n \in 1 .. Len(Body) : n \in 0 .. Len(Body) /\ n # 0
  OBVIOUS
<1>7. 0 \in 0 .. Len(Body)
  OBVIOUS
<1> HIDE DEF F
<1>8. /\ F[0] = Grown(F, 0)
      /\ \A n \in 1 .. Len(Body) : F[n] = Grown(F, n)
      /\ DOMAIN F = 0 .. Len(Body)
  <2> HIDE DEF Grown
  <2>1. QED
    BY <1>5, <1>6, <1>7, Zenon
<1>9. /\ F[0] = [account |-> EpochAccount(es.prev[v], es.start, es.refund[v]), made |-> {}]
      /\ \A n \in 1 .. Len(Body) :
           F[n] = (IF Body[n].epoch = es.epoch /\ Body[n].creator = v
                   THEN Build(F[n - 1], n) ELSE F[n - 1])
  BY <1>6, <1>8, Zenon
<1>10. QED
  BY <1>8, <1>9, Zenon DEF F

----------------------------------------------------------------------------
(* Sets of numbers in order *)

\* A sequence of members of a set is one of members of any greater set.
LEMMA SeqWithin ==
  ASSUME NEW S, NEW T, S \subseteq T, NEW s \in Seq(S)
  PROVE  s \in Seq(T)
<1>1. s = [i \in 1 .. Len(s) |-> s[i]] /\ Len(s) \in Nat /\ \A i \in 1 .. Len(s) : s[i] \in T
  OBVIOUS
<1>2. QED
  BY <1>1

Below(S, x) == {y \in S : y < x}

\* Whatever is below a member of a finite set of numbers is finite, and less than the set.
LEMMA BelowIs ==
  ASSUME NEW S \in SUBSET Nat, IsFiniteSet(S), NEW x \in S
  PROVE  /\ IsFiniteSet(Below(S, x)) /\ Below(S, x) \subseteq S
         /\ Cardinality(Below(S, x)) \in 0 .. Cardinality(S) - 1
         /\ \A y \in S : x < y => Cardinality(Below(S, x)) < Cardinality(Below(S, y))
<1>1. \A y \in S : IsFiniteSet(Below(S, y)) /\ Below(S, y) \subseteq S
                   /\ Cardinality(Below(S, y)) \in Nat /\ y \notin Below(S, y)
  BY FS_Subset, FS_CardinalityType DEF Below
<1>2. Cardinality(S) \in Nat
  BY FS_CardinalityType
<1>3. Cardinality(Below(S, x)) < Cardinality(S)
  BY <1>1, <1>2, FS_Subset
<1>4. ASSUME NEW y \in S, x < y
      PROVE  Cardinality(Below(S, x)) < Cardinality(Below(S, y))
  <2>1. Below(S, x) \subseteq Below(S, y) /\ x \in Below(S, y)
    <3>1. \A z \in S : z < x => z < y
      BY <1>4
    <3>2. QED
      BY <1>4, <3>1, Zenon DEF Below
  <2>2. Below(S, x) # Below(S, y)
    BY <1>1, <2>1
  <2>3. QED
    BY <1>1, <2>1, <2>2, FS_Subset
<1>5. QED
  BY <1>1, <1>2, <1>3, <1>4

\* For each place there is a member, and one only.
LEMMA NthIs ==
  ASSUME NEW S \in SUBSET Nat, IsFiniteSet(S)
  PROVE  /\ \A k \in 1 .. Cardinality(S) :
              Nth(S, k) \in S /\ Cardinality(Below(S, Nth(S, k))) = k - 1
         /\ \A x \in S : /\ Cardinality(Below(S, x)) + 1 \in 1 .. Cardinality(S)
                         /\ Nth(S, Cardinality(Below(S, x)) + 1) = x
<1> DEFINE N == Cardinality(S)
           At(x) == Cardinality(Below(S, x))
           T == {k \in Nat : k < N => \E x \in S : At(x) = k}
<1>1. N \in Nat
  BY FS_CardinalityType
<1>2. \A x \in S : At(x) \in 0 .. N - 1 /\ (\A y \in S : x < y => At(x) < At(y))
  BY BelowIs
<1>3. \A x, y \in S : At(x) = At(y) => x = y
  <2> HIDE DEF At
  <2>1. QED
    BY <1>1, <1>2
<1>4. 0 \in T
  <2>1. SUFFICES ASSUME 0 < N
                 PROVE  \E x \in S : At(x) = 0
    BY DEF T
  <2>2. S # {}
    BY <2>1, FS_EmptySet
  <2>3. PICK x \in S : \A y \in S : x <= y
    BY <2>2, LeastNat
  <2>4. Below(S, x) = {}
    <3>1. \A y \in S : y \in Nat /\ ~(y < x)
      BY <2>3
    <3>2. QED
      BY <3>1 DEF Below
  <2>5. QED
    BY <2>4, FS_EmptySet
<1>5. ASSUME NEW k \in T
      PROVE  k + 1 \in T
  <2>1. SUFFICES ASSUME k + 1 < N
                 PROVE  \E x \in S : At(x) = k + 1
    BY DEF T
  <2>2. k \in Nat /\ k < N
    BY <1>1, <2>1
  <2>3. PICK x \in S : At(x) = k
    BY <2>2
  <2> DEFINE D == Below(S, x) \cup {x}
  <2>4. IsFiniteSet(Below(S, x)) /\ D \subseteq S /\ x \notin Below(S, x)
    BY BelowIs DEF Below
  <2>5. IsFiniteSet(D) /\ Cardinality(D) = k + 1
    BY <2>3, <2>4, FS_AddElement
  <2>6. S \ D # {}
    BY <2>1, <2>4, <2>5, <1>1
  <2>7. PICK y \in S \ D : \A z \in S \ D : y <= z
    BY <2>6, LeastNat
  <2>8. Below(S, y) = D
    <3>1. ASSUME NEW z \in S
          PROVE  z < y <=> z \in D
      <4>1. z \in Nat /\ y \in Nat /\ x \in Nat /\ y \in S /\ y \notin D
        BY <2>7
      <4>2. \A w \in S : w \in D <=> w < x \/ w = x
        BY DEF Below
      <4>3. ~(z \in D) => y <= z
        BY <2>7
      <4>4. y > x
        BY <4>1, <4>2
      <4>5. QED
        BY <4>1, <4>2, <4>3, <4>4
    <3>2. QED
      BY <2>4, <3>1 DEF Below
  <2>9. QED
    BY <2>5, <2>7, <2>8
<1>6. T = Nat
  <2> HIDE DEF T
  <2>1. T \in SUBSET Nat
    BY DEF T
  <2>2. QED
    BY <1>4, <1>5, <2>1, NatSet
<1>7. ASSUME NEW k \in 1 .. N
      PROVE  Nth(S, k) \in S /\ At(Nth(S, k)) = k - 1
  <2>1. k - 1 \in Nat /\ k - 1 < N
    BY <1>1
  <2>2. k - 1 \in T
    BY <1>6, <2>1
  <2>3. \E x \in S : At(x) = k - 1
    BY <2>1, <2>2
  <2>4. Nth(S, k) = CHOOSE x \in S : At(x) = k - 1
    BY DEF Nth, Below
  <2> HIDE DEF At
  <2>5. QED
    BY <2>3, <2>4
<1>8. ASSUME NEW x \in S
      PROVE  At(x) + 1 \in 1 .. N /\ Nth(S, At(x) + 1) = x
  <2>1. At(x) + 1 \in 1 .. N /\ (At(x) + 1) - 1 = At(x)
    BY <1>1, <1>2
  <2>2. Nth(S, At(x) + 1) \in S /\ At(Nth(S, At(x) + 1)) = At(x)
    BY <1>7, <2>1
  <2>3. QED
    BY <1>3, <2>1, <2>2
<1>9. QED
  BY <1>7, <1>8

\* A set in order is a sequence of its members without repetition.
LEMMA SortedIs ==
  ASSUME NEW S \in SUBSET Nat, IsFiniteSet(S)
  PROVE  /\ Sorted(S) \in Seq(S) /\ Len(Sorted(S)) = Cardinality(S)
         /\ DOMAIN Sorted(S) = 1 .. Cardinality(S)
         /\ ToSet(Sorted(S)) = S /\ IsInjective(Sorted(S))
<1>1. Cardinality(S) \in Nat
  BY FS_CardinalityType
<1>2. \A k \in 1 .. Cardinality(S) : Nth(S, k) \in S /\ Cardinality(Below(S, Nth(S, k))) = k - 1
  BY NthIs
<1>3. Sorted(S) \in Seq(S) /\ Len(Sorted(S)) = Cardinality(S) /\ DOMAIN Sorted(S) = 1 .. Cardinality(S)
  BY <1>1, <1>2 DEF Sorted
<1>4. \A x \in S : \E k \in 1 .. Cardinality(S) : Nth(S, k) = x
  BY NthIs
<1>5. ToSet(Sorted(S)) = S
  BY <1>2, <1>4 DEF ToSet, Sorted
<1>6. ASSUME NEW i \in 1 .. Cardinality(S), NEW k \in 1 .. Cardinality(S), Sorted(S)[i] = Sorted(S)[k]
      PROVE  i = k
  <2>1. Nth(S, i) = Nth(S, k)
    BY <1>6 DEF Sorted
  <2>2. i - 1 = k - 1
    BY <1>2, <2>1
  <2>3. QED
    BY <2>2
<1>7. IsInjective(Sorted(S))
  BY <1>3, <1>6 DEF IsInjective
<1>8. QED
  BY <1>3, <1>5, <1>7

\* A greater number comes last.
LEMMA SortedAdds ==
  ASSUME NEW S \in SUBSET Nat, IsFiniteSet(S), NEW m \in Nat, \A x \in S : x < m
  PROVE  Sorted(S \cup {m}) = Append(Sorted(S), m)
<1> DEFINE U == S \cup {m}
           N == Cardinality(S)
<1>0. m \notin S
  OBVIOUS
<1>1. U \in SUBSET Nat /\ IsFiniteSet(U) /\ Cardinality(U) = N + 1 /\ N \in Nat
  BY <1>0, FS_AddElement, FS_CardinalityType
<1>10. /\ \A x \in S : x < m /\ ~(m < x)
       /\ ~(m < m)
  OBVIOUS
<1>2. Below(U, m) = S
  BY <1>10, Zenon DEF Below
<1>3. \A x \in S : Below(U, x) = Below(S, x)
  BY <1>10, Zenon DEF Below
<1>4. Nth(U, N + 1) = m
  BY <1>1, <1>2, NthIs
<1>5. ASSUME NEW k \in 1 .. N
      PROVE  Nth(U, k) = Nth(S, k)
  <2>1. Nth(S, k) \in S /\ Cardinality(Below(S, Nth(S, k))) = k - 1
    BY NthIs
  <2>2. Cardinality(Below(U, Nth(S, k))) + 1 = k
    <3>1. Below(U, Nth(S, k)) = Below(S, Nth(S, k))
      BY <1>3, <2>1, Zenon
    <3>2. k \in Int /\ (k - 1) + 1 = k
      BY <1>1
    <3>3. Cardinality(Below(U, Nth(S, k))) = k - 1
      BY <2>1, <3>1, Zenon
    <3>4. QED
      BY <3>2, <3>3, Zenon
  <2>3. Nth(S, k) \in U
    BY <2>1
  <2>4. Nth(U, Cardinality(Below(U, Nth(S, k))) + 1) = Nth(S, k)
    BY <1>1, <2>3, NthIs
  <2>5. QED
    BY <2>2, <2>4
<1> HIDE DEF U
<1>6. Sorted(S) \in Seq(Nat) /\ Len(Sorted(S)) = N
  <2>1. Sorted(S) \in Seq(S) /\ Len(Sorted(S)) = N /\ S \subseteq Nat
    BY SortedIs
  <2>2. QED
    BY <2>1, SeqWithin
<1>7. Sorted(U) \in Seq(Nat) /\ Len(Sorted(U)) = N + 1
  <2>1. Sorted(U) \in Seq(U) /\ Len(Sorted(U)) = N + 1 /\ U \subseteq Nat
    BY <1>1, SortedIs
  <2>2. QED
    BY <2>1, SeqWithin
<1>8. \A k \in 1 .. N + 1 : Sorted(U)[k] = IF k = N + 1 THEN m ELSE Sorted(S)[k]
  BY <1>1, <1>4, <1>5 DEF Sorted
<1> DEFINE a == Sorted(S)
           c == Sorted(U)
<1>9. a \in Seq(Nat) /\ Len(a) = N /\ c \in Seq(Nat) /\ Len(c) = N + 1
      /\ \A k \in 1 .. N + 1 : c[k] = IF k = N + 1 THEN m ELSE a[k]
  BY <1>6, <1>7, <1>8
<1> HIDE DEF a, c, N
<1>11. c = Append(a, m)
  BY <1>9
<1>12. QED
  BY <1>11 DEF U, a, c

----------------------------------------------------------------------------
(* Transactions that were skipped *)

\* What is left of no transactions.
LEMMA FilterNone == \A sk : ToSet(sk) \subseteq {} => FilterSkippedTxs(<<>>, sk) = <<>>
<1> SUFFICES ASSUME NEW sk
             PROVE  FilterSkippedTxs(<<>>, sk) = <<>>
  OBVIOUS
<1>1. DOMAIN <<>> \ ToSet(sk) = {}
  OBVIOUS
<1>2. {} \in SUBSET Nat /\ IsFiniteSet({}) /\ Cardinality({}) = 0
  BY FS_EmptySet
<1>3. DOMAIN Sorted({}) = 1 .. 0
  BY <1>2, SortedIs
<1>4. FilterSkippedTxs(<<>>, sk) = [i \in 1 .. 0 |-> <<>>[Sorted({})[i]]]
  BY <1>1, <1>3 DEF FilterSkippedTxs
<1>5. QED
  BY <1>4

\* The places of what is left of transactions
Kept(txs, sk) == DOMAIN txs \ ToSet(sk)

\* What is left of transactions, by their places.
LEMMA FilterIs ==
  ASSUME NEW X, NEW txs \in Seq(X), NEW sk
  PROVE  /\ Kept(txs, sk) \subseteq 1 .. Len(txs)
         /\ Kept(txs, sk) \in SUBSET Nat /\ IsFiniteSet(Kept(txs, sk))
         /\ FilterSkippedTxs(txs, sk) \in Seq(X)
         /\ Len(FilterSkippedTxs(txs, sk)) = Cardinality(Kept(txs, sk))
         /\ \A k \in 1 .. Cardinality(Kept(txs, sk)) :
              /\ Sorted(Kept(txs, sk))[k] \in 1 .. Len(txs)
              /\ FilterSkippedTxs(txs, sk)[k] = txs[Sorted(Kept(txs, sk))[k]]
<1> DEFINE K == Kept(txs, sk)
           q == Sorted(K)
           c == Cardinality(K)
<1>1. K \in SUBSET (1 .. Len(txs)) /\ Len(txs) \in Nat
  BY DEF Kept
<1>2. K \in SUBSET Nat /\ IsFiniteSet(K) /\ c \in Nat
  <2>1. IsFiniteSet(1 .. Len(txs))
    BY <1>1, FS_Interval
  <2>2. IsFiniteSet(K)
    BY <1>1, <2>1, FS_Subset, Zenon
  <2>3. K \in SUBSET Nat
    BY <1>1
  <2>4. QED
    BY <2>2, <2>3, FS_CardinalityType
<1> HIDE DEF K
<1>3. q \in Seq(K) /\ Len(q) = c /\ DOMAIN q = 1 .. c
  BY <1>2, SortedIs
<1> HIDE DEF q, c
<1>4. \A k \in 1 .. c : q[k] \in 1 .. Len(txs)
  <2>1. \A k \in 1 .. c : q[k] \in K
    BY <1>3
  <2>2. QED
    BY <1>1, <2>1
<1>5. FilterSkippedTxs(txs, sk) = [k \in 1 .. c |-> txs[q[k]]]
  BY <1>3 DEF FilterSkippedTxs, K, q, Kept
<1>6. /\ FilterSkippedTxs(txs, sk) \in Seq(X)
      /\ Len(FilterSkippedTxs(txs, sk)) = c
      /\ \A k \in 1 .. c : FilterSkippedTxs(txs, sk)[k] = txs[q[k]]
  <2>1. \A k \in 1 .. c : txs[q[k]] \in X
    BY <1>4
  <2>2. QED
    BY <1>2, <1>5, <2>1
<1>7. QED
  BY <1>1, <1>2, <1>4, <1>6 DEF K, q, c

\* One more transaction that is skipped leaves what there was.
LEMMA FilterSkips ==
  ASSUME NEW X, NEW txs \in Seq(X), NEW tx \in X,
         NEW sk \in Seq(Nat)
  PROVE  FilterSkippedTxs(Append(txs, tx), Append(sk, Len(txs) + 1)) = FilterSkippedTxs(txs, sk)
<1> DEFINE K == Kept(txs, sk)
           t == Append(txs, tx)
           s == Append(sk, Len(txs) + 1)
<1>1. Len(txs) \in Nat /\ t \in Seq(X) /\ Len(t) = Len(txs) + 1 /\ \A i \in 1 .. Len(txs) : t[i] = txs[i]
  OBVIOUS
<1>2. ToSet(s) = ToSet(sk) \cup {Len(txs) + 1}
  <2>1. Len(sk) \in Nat /\ Len(s) = Len(sk) + 1 /\ s[Len(sk) + 1] = Len(txs) + 1
        /\ \A i \in 1 .. Len(sk) : s[i] = sk[i]
    OBVIOUS
  <2>2. DOMAIN s = 1 .. Len(sk) + 1 /\ DOMAIN sk = 1 .. Len(sk)
    BY <2>1
  <2>3. \A i \in 1 .. Len(sk) + 1 : i \in 1 .. Len(sk) \/ i = Len(sk) + 1
    BY <2>1
  <2>4. Len(sk) + 1 \in 1 .. Len(sk) + 1 /\ \A i \in 1 .. Len(sk) : i \in 1 .. Len(sk) + 1
    BY <2>1
  <2> HIDE DEF s
  <2>5. QED
    BY <2>1, <2>2, <2>3, <2>4, Zenon DEF ToSet
<1>3. Kept(t, s) = K
  <2>1. DOMAIN t = 1 .. Len(txs) + 1 /\ DOMAIN txs = 1 .. Len(txs)
    BY <1>1
  <2>2. \A i \in 1 .. Len(txs) + 1 : i # Len(txs) + 1 <=> i \in 1 .. Len(txs)
    BY <1>1
  <2>3. \A i \in 1 .. Len(txs) : i \in 1 .. Len(txs) + 1
    BY <1>1
  <2> HIDE DEF t, s
  <2>4. QED
    BY <1>2, <2>1, <2>2, <2>3, Zenon DEF Kept
<1>4. /\ K \in SUBSET Nat /\ IsFiniteSet(K)
      /\ FilterSkippedTxs(txs, sk) \in Seq(X) /\ Len(FilterSkippedTxs(txs, sk)) = Cardinality(K)
      /\ \A k \in 1 .. Cardinality(K) : FilterSkippedTxs(txs, sk)[k] = txs[Sorted(K)[k]]
  BY FilterIs
<1>5. /\ FilterSkippedTxs(t, s) \in Seq(X) /\ Len(FilterSkippedTxs(t, s)) = Cardinality(K)
      /\ \A k \in 1 .. Cardinality(K) : FilterSkippedTxs(t, s)[k] = t[Sorted(K)[k]]
  <2> HIDE DEF t, s, K
  <2>1. QED
    BY <1>1, <1>3, FilterIs
<1>6. \A k \in 1 .. Cardinality(K) : Sorted(K)[k] \in 1 .. Len(txs)
  <2>1. \A k \in 1 .. Cardinality(Kept(txs, sk)) : Sorted(Kept(txs, sk))[k] \in 1 .. Len(txs)
    BY FilterIs
  <2>2. QED
    BY <2>1
<1> HIDE DEF K, t, s
<1> DEFINE f == FilterSkippedTxs(txs, sk)
           g == FilterSkippedTxs(t, s)
<1>7. f \in Seq(X) /\ g \in Seq(X) /\ Len(f) = Len(g) /\ \A k \in 1 .. Len(f) : f[k] = g[k]
  BY <1>1, <1>4, <1>5, <1>6
<1> HIDE DEF f, g
<1>8. f = g
  BY <1>7
<1>9. QED
  BY <1>8 DEF f, g, t, s

\* One more that is not skipped comes last.
LEMMA FilterAppends ==
  ASSUME NEW X, NEW txs \in Seq(X), NEW tx \in X, NEW sk, ToSet(sk) \subseteq DOMAIN txs
  PROVE  FilterSkippedTxs(Append(txs, tx), sk) = Append(FilterSkippedTxs(txs, sk), tx)
<1> DEFINE K == Kept(txs, sk)
           t == Append(txs, tx)
           m == Len(txs) + 1
<1>1. /\ Len(txs) \in Nat /\ t \in Seq(X) /\ Len(t) = m /\ t[m] = tx
      /\ \A i \in 1 .. Len(txs) : t[i] = txs[i]
  OBVIOUS
<1>2. Kept(t, sk) = K \cup {m}
  <2>1. DOMAIN t = 1 .. m /\ DOMAIN txs = 1 .. Len(txs)
    BY <1>1
  <2>2. /\ \A i \in 1 .. m : i # m <=> i \in 1 .. Len(txs)
        /\ m \in 1 .. m /\ m \notin 1 .. Len(txs) /\ \A i \in 1 .. Len(txs) : i \in 1 .. m
    BY <1>1
  <2> HIDE DEF t, m
  <2>3. QED
    BY <2>1, <2>2, Zenon DEF Kept
<1>3. /\ K \in SUBSET Nat /\ IsFiniteSet(K)
      /\ FilterSkippedTxs(txs, sk) \in Seq(X) /\ Len(FilterSkippedTxs(txs, sk)) = Cardinality(K)
      /\ \A k \in 1 .. Cardinality(K) : FilterSkippedTxs(txs, sk)[k] = txs[Sorted(K)[k]]
  BY FilterIs
<1>4. m \in Nat /\ m \notin K /\ (\A x \in K : x < m) /\ Cardinality(K) \in Nat
  <2>1. K \subseteq 1 .. Len(txs)
    BY FilterIs
  <2>2. QED
    BY <1>1, <1>3, <2>1, FS_CardinalityType
<1>5. Cardinality(K \cup {m}) = Cardinality(K) + 1
  BY <1>3, <1>4, FS_AddElement
<1>6. Sorted(K \cup {m}) = Append(Sorted(K), m)
  BY <1>3, <1>4, SortedAdds
<1>7. Sorted(K) \in Seq(1 .. Len(txs)) /\ Len(Sorted(K)) = Cardinality(K)
  <2>0. K \subseteq 1 .. Len(txs)
    BY FilterIs
  <2>1. Sorted(K) \in Seq(K) /\ Len(Sorted(K)) = Cardinality(K)
    BY <1>3, SortedIs
  <2>2. QED
    BY <2>0, <2>1, SeqWithin
<1>8. /\ FilterSkippedTxs(t, sk) \in Seq(X) /\ Len(FilterSkippedTxs(t, sk)) = Cardinality(K) + 1
      /\ \A k \in 1 .. Cardinality(K) + 1 : FilterSkippedTxs(t, sk)[k] = t[Sorted(K \cup {m})[k]]
  <2> HIDE DEF t, K, m
  <2>1. /\ FilterSkippedTxs(t, sk) \in Seq(X)
        /\ Len(FilterSkippedTxs(t, sk)) = Cardinality(Kept(t, sk))
        /\ \A k \in 1 .. Cardinality(Kept(t, sk)) :
             FilterSkippedTxs(t, sk)[k] = t[Sorted(Kept(t, sk))[k]]
    BY <1>1, FilterIs
  <2>2. QED
    BY <1>2, <1>5, <2>1
<1> HIDE DEF K, t, m
<1>9. \A k \in 1 .. Cardinality(K) + 1 :
        Sorted(K \cup {m})[k] = IF k = Cardinality(K) + 1 THEN m ELSE Sorted(K)[k]
  <2>1. \A q \in Seq(1 .. Len(txs)) : \A k \in 1 .. Len(q) + 1 :
          Append(q, m)[k] = IF k = Len(q) + 1 THEN m ELSE q[k]
    OBVIOUS
  <2>2. QED
    BY <1>4, <1>6, <1>7, <2>1
<1> DEFINE f == FilterSkippedTxs(txs, sk)
           g == FilterSkippedTxs(t, sk)
           c == Cardinality(K)
           q == Sorted(K)
<1>10. \A k \in 1 .. c : q[k] \in 1 .. Len(txs)
  BY <1>4, <1>7
<1>11. \A k \in 1 .. c + 1 : g[k] = IF k = c + 1 THEN tx ELSE f[k]
  <2>1. SUFFICES ASSUME NEW k \in 1 .. c + 1
                 PROVE  g[k] = IF k = c + 1 THEN tx ELSE f[k]
    OBVIOUS
  <2>2. CASE k = c + 1
    BY <1>1, <1>8, <1>9, <2>2
  <2>3. CASE k # c + 1
    <3>1. k \in 1 .. c
      BY <1>4, <2>3
    <3>2. g[k] = t[q[k]] /\ q[k] \in 1 .. Len(txs)
      BY <1>8, <1>9, <1>10, <2>3, <3>1
    <3>3. f[k] = txs[q[k]]
      BY <1>3, <3>1
    <3>4. QED
      BY <1>1, <2>3, <3>2, <3>3
  <2>4. QED
    BY <2>2, <2>3
<1>12. f \in Seq(X) /\ g \in Seq(X) /\ Len(f) = c /\ Len(g) = c + 1 /\ c \in Nat
  BY <1>3, <1>4, <1>8
<1> HIDE DEF f, g, c
<1>13. g = Append(f, tx)
  BY <1>11, <1>12
<1>14. QED
  BY <1>13 DEF f, g, t

----------------------------------------------------------------------------
(* Transactions change worlds *)

\* A product of natural numbers is one, and grows with a factor.
LEMMA Product == \A a, b \in Nat : a * b \in Nat
  OBVIOUS

\* The part of a claim that goes to somebody else is no more than the claim.
LEMMA ClaimPart ==
  /\ Claim \in Nat /\ (Claim * Commission) \div 100 \in Nat
  /\ Claim - (Claim * Commission) \div 100 \in Nat
<1>1. Claim \in Nat /\ Commission \in 0 .. 100
  BY BlockTxsAssumption
<1>2. Claim * Commission \in Nat
  BY <1>1, Product
<1>3. Claim * Commission <= Claim * 100
  BY <1>1
<1>4. QED
  BY <1>1, <1>2, <1>3

\* Paying what there is.
LEMMA PayTyped ==
  ASSUME NEW w \in Worlds, NEW a \in Account, NEW n \in Int, w.balance[a] + n >= 0
  PROVE  /\ Pay(w, a, n) \in Worlds
         /\ Pay(w, a, n).dead = w.dead /\ Pay(w, a, n).nonce = w.nonce
         /\ Pay(w, a, n).balance[a] = w.balance[a] + n
<1>1. w.balance \in [Account -> Nat]
  BY DEF Worlds
<1>2. w.balance[a] + n \in Nat
  BY <1>1
<1>3. [w.balance EXCEPT ![a] = w.balance[a] + n] \in [Account -> Nat]
  BY <1>1, <1>2
<1>4. QED
  BY <1>1, <1>3 DEF Worlds, Pay

\* Paying something.
LEMMA PayMore ==
  ASSUME NEW w \in Worlds, NEW a \in Account, NEW n \in Nat
  PROVE  Pay(w, a, n) \in Worlds /\ Pay(w, a, n).dead = w.dead
<1>1. w.balance[a] \in Nat
  BY DEF Worlds
<1>2. QED
  BY <1>1, PayTyped

\* ProcessClaimTokens only adds to balances.
LEMMA ClaimTyped ==
  ASSUME NEW w \in Worlds, NEW tx \in Tx
  PROVE  ProcessClaimTokens(w, tx) \in Worlds /\ ProcessClaimTokens(w, tx).dead = w.dead
<1> DEFINE part == (Claim * Commission) \div 100
           to == Pay(w, tx.from, 1)
<1>1. tx.from \in Account
  BY DEF Tx
<1>2. to \in Worlds /\ to.dead = w.dead
  BY <1>1, PayMore
<1>3. part \in Nat /\ Claim - part \in Nat
  BY ClaimPart
<1> HIDE DEF to, part
<1>4. CASE CommissionTo = NoAccount
  BY <1>1, <1>2, <1>4, PayMore DEF ProcessClaimTokens, to
<1>5. CASE CommissionTo # NoAccount
  <2>1. CommissionTo \in Account
    BY <1>5, BlockTxsAssumption
  <2>2. Pay(to, CommissionTo, part) \in Worlds /\ Pay(to, CommissionTo, part).dead = w.dead
    BY <1>2, <1>3, <2>1, PayMore
  <2>3. /\ Pay(Pay(to, CommissionTo, part), tx.from, Claim - part) \in Worlds
        /\ Pay(Pay(to, CommissionTo, part), tx.from, Claim - part).dead = w.dead
    BY <1>1, <1>3, <2>2, PayMore
  <2>4. ProcessClaimTokens(w, tx) = Pay(Pay(to, CommissionTo, part), tx.from, Claim - part)
    BY <1>5 DEF ProcessClaimTokens, to, part
  <2>5. QED
    BY <2>3, <2>4
<1>6. QED
  BY <1>4, <1>5

\* So does RefundGas; no more gas is used than there was.
LEMMA RefundTyped ==
  ASSUME NEW w \in Worlds, NEW tx \in Tx, NEW gas \in 0 .. tx.gas, NEW price \in Nat
  PROVE  LET r == RefundGas(w, tx, gas, price)
         IN r.world \in Worlds /\ r.world.dead = w.dead /\ r.used \in 0 .. tx.gas
<1> DEFINE ten == Pay(w, tx.from, 10)
           claimed == IF tx.claims THEN ProcessClaimTokens(ten, tx) ELSE ten
           r == RefundGas(w, tx, gas, price)
<1>1. tx.from \in Account /\ tx.gas \in Nat /\ gas \in Nat
  BY DEF Tx
<1>2. gas * price \in Nat /\ tx.gas * price \in Nat
  BY <1>1, Product
<1>3. ten \in Worlds /\ ten.dead = w.dead
  BY <1>1, PayMore
<1> HIDE DEF ten
<1>4. claimed \in Worlds /\ claimed.dead = w.dead
  BY <1>3, ClaimTyped
<1> HIDE DEF claimed
<1>9. tx.gas - gas \in 0 .. tx.gas /\ 0 \in 0 .. tx.gas
  BY <1>1
<1>5. CASE tx.from \notin Whitelisted
  <2>1. r = [world |-> Pay(w, tx.from, gas * price), used |-> tx.gas - gas]
    BY <1>5 DEF RefundGas
  <2>2. Pay(w, tx.from, gas * price) \in Worlds /\ Pay(w, tx.from, gas * price).dead = w.dead
    BY <1>1, <1>2, PayMore
  <2>3. QED
    BY <1>9, <2>1, <2>2 DEF r
<1>6. CASE tx.from \in Whitelisted /\ tx.from \notin Free
  <2>1. r = [world |-> Pay(claimed, tx.from, 1000), used |-> tx.gas - gas]
    BY <1>6 DEF RefundGas, claimed, ten
  <2>2. Pay(claimed, tx.from, 1000) \in Worlds /\ Pay(claimed, tx.from, 1000).dead = w.dead
    BY <1>1, <1>4, PayMore
  <2>3. QED
    BY <1>9, <2>1, <2>2 DEF r
<1>7. CASE tx.from \in Whitelisted /\ tx.from \in Free /\ tx.gas - gas <= FreeGasCap
  <2>1. r = [world |-> Pay(claimed, tx.from, 10000 + 100000 + tx.gas * price), used |-> 0]
    BY <1>7 DEF RefundGas, claimed, ten
  <2>2. \A n \in Nat : Pay(claimed, tx.from, n) \in Worlds /\ Pay(claimed, tx.from, n).dead = w.dead
    BY <1>1, <1>4, PayMore
  <2>3. /\ Pay(claimed, tx.from, 10000 + 100000 + tx.gas * price) \in Worlds
        /\ Pay(claimed, tx.from, 10000 + 100000 + tx.gas * price).dead = w.dead
    BY <1>2, <2>2
  <2>4. QED
    BY <1>9, <2>1, <2>3 DEF r
<1>8. CASE tx.from \in Whitelisted /\ tx.from \in Free /\ ~ (tx.gas - gas <= FreeGasCap)
  <2>1. r = [world |-> Pay(claimed, tx.from, 10000), used |-> tx.gas - gas]
    BY <1>8 DEF RefundGas, claimed, ten
  <2>2. Pay(claimed, tx.from, 10000) \in Worlds /\ Pay(claimed, tx.from, 10000).dead = w.dead
    BY <1>1, <1>4, PayMore
  <2>3. QED
    BY <1>9, <2>1, <2>2 DEF r
<1>10. QED
  BY <1>5, <1>6, <1>7, <1>8

\* A transaction that passes the checks leaves a world, and uses no more than its gas.
LEMMA TransitionTyped ==
  ASSUME NEW w \in Worlds, NEW tx \in Tx, NEW price \in Nat, PreCheck(w, tx, price)
  PROVE  LET r == Transition(w, tx, price)
         IN r.world \in Worlds /\ r.world.dead = w.dead /\ r.used \in 0 .. tx.gas
<1> DEFINE paid == Pay(w, tx.from, 0 - tx.gas * price)
           bought == IF tx.unpaid THEN paid ELSE [paid EXCEPT !.nonce[tx.from] = @ + 1]
           unused == tx.gas - tx.runs
           back == unused - unused \div 10
<1>1. tx.from \in Account /\ tx.gas \in Nat /\ tx.runs \in Nat /\ tx.runs <= tx.gas
  BY DEF Tx
<1>2. unused \in Nat /\ unused <= tx.gas
  BY <1>1
<1>3. back \in 0 .. tx.gas
  BY <1>1, <1>2
<1>4. tx.gas * price \in Nat
  BY <1>1, Product
<1>5. w.balance[tx.from] \in Nat /\ w.balance[tx.from] + (0 - tx.gas * price) >= 0
  BY <1>1, <1>4 DEF PreCheck, Worlds
<1>6. 0 - tx.gas * price \in Int
  BY <1>4
<1>7. paid \in Worlds /\ paid.dead = w.dead
  BY <1>1, <1>5, <1>6, PayTyped
<1> HIDE DEF paid
<1>8. bought \in Worlds /\ bought.dead = w.dead
  BY <1>1, <1>7 DEF Worlds
<1> HIDE DEF bought, back
<1>9. /\ RefundGas(bought, tx, back, price).world \in Worlds
      /\ RefundGas(bought, tx, back, price).world.dead = w.dead
      /\ RefundGas(bought, tx, back, price).used \in 0 .. tx.gas
  BY <1>3, <1>8, RefundTyped
<1>10. Transition(w, tx, price) = RefundGas(bought, tx, back, price)
  BY DEF Transition, bought, back, paid
<1>11. QED
  BY <1>9, <1>10

----------------------------------------------------------------------------
(* Processors *)

\* Who sends transactions, and what a driver's transaction may deactivate.
LEMMA Senders ==
  /\ \A tx \in Tx : tx.from # Internal /\ tx.gas \in Nat /\ tx.log \in Log
  /\ \A tx \in DriverTx : /\ tx.from = Internal /\ tx.gas = 0
                          /\ tx.call = "deactivate" => tx.validator \in Validator
<1>1. \A tx \in Tx : tx.from # Internal /\ tx.gas \in Nat /\ tx.log \in Log
  BY BlockTxsAssumption DEF Tx
<1>2. \A v \in Validator : /\ Deactivate(v).from = Internal /\ Deactivate(v).gas = 0
                           /\ Deactivate(v).validator \in Validator
  BY DEF Deactivate
<1>3. /\ SealEpochMetrics.from = Internal /\ SealEpochMetrics.gas = 0
      /\ SealEpochMetrics.call # "deactivate"
  BY DEF SealEpochMetrics
<1>4. \A vs : /\ SealEpochValidators(vs).from = Internal /\ SealEpochValidators(vs).gas = 0
              /\ SealEpochValidators(vs).call # "deactivate"
  BY DEF SealEpochValidators
<1>5. QED
  BY <1>1, <1>2, <1>3, <1>4 DEF DriverTx

\* A transaction that is executed
Passes(w, price, tx) == tx.from = Internal \/ PreCheck(w, tx, price)

\* What becomes of it, and what it tells the driver
Outcome(w, price, tx) ==
  IF tx.from = Internal THEN [world |-> InternalTransition(w, tx), used |-> 0]
  ELSE Transition(w, tx, price)

\* A transaction is executed or skipped.
LEMMA ApplyIs ==
  \A p, tx, i :
    Apply(p, tx, i) = IF Passes(p.world, p.price, tx)
                      THEN Done(p, tx, Outcome(p.world, p.price, tx)) ELSE Skip(p, tx, i)
  BY DEF Apply, Passes, Outcome

\* The driver only deactivates; other transactions do not.
LEMMA OutcomeTyped ==
  ASSUME NEW w \in Worlds, NEW price \in Nat, NEW tx \in AnyTx, Passes(w, price, tx)
  PROVE  LET r == Outcome(w, price, tx)
         IN /\ r.world \in Worlds /\ r.used \in Nat /\ r.used <= tx.gas
            /\ w.dead \subseteq r.world.dead
            /\ tx \in Tx => r.world.dead = w.dead
            /\ tx \in DriverTx /\ tx.call = "deactivate" => r.world.dead = w.dead \cup {tx.validator}
            /\ tx \in DriverTx /\ tx.call # "deactivate" => r.world.dead = w.dead
<1> DEFINE r == Outcome(w, price, tx)
<1>1. CASE tx \in Tx
  <2>1. tx.from # Internal /\ tx \notin DriverTx /\ tx.gas \in Nat
    BY <1>1, Senders
  <2>2. r = Transition(w, tx, price) /\ PreCheck(w, tx, price)
    BY <2>1 DEF Outcome, Passes
  <2>3. r.world \in Worlds /\ r.world.dead = w.dead /\ r.used \in 0 .. tx.gas
    BY <1>1, <2>2, TransitionTyped
  <2> HIDE DEF r
  <2>4. /\ r.world \in Worlds /\ r.used \in Nat /\ r.used <= tx.gas
        /\ w.dead \subseteq r.world.dead
        /\ tx \in Tx => r.world.dead = w.dead
        /\ tx \in DriverTx /\ tx.call = "deactivate" => r.world.dead = w.dead \cup {tx.validator}
        /\ tx \in DriverTx /\ tx.call # "deactivate" => r.world.dead = w.dead
    BY <2>1, <2>3
  <2>5. QED
    BY <2>4 DEF r
<1>2. CASE tx \in DriverTx
  <2>1. tx.from = Internal /\ tx \notin Tx /\ tx.gas = 0
    BY <1>2, Senders
  <2>2. r = [world |-> InternalTransition(w, tx), used |-> 0]
    BY <2>1 DEF Outcome
  <2>3. CASE tx.call = "deactivate"
    <3>1. tx.validator \in Validator
      BY <1>2, <2>3, Senders
    <3>2. InternalTransition(w, tx) = [w EXCEPT !.dead = @ \cup {tx.validator}]
      BY <2>3 DEF InternalTransition
    <3>3. InternalTransition(w, tx) \in Worlds
            /\ InternalTransition(w, tx).dead = w.dead \cup {tx.validator}
      BY <3>1, <3>2 DEF Worlds
    <3> HIDE DEF r
    <3>4. /\ r.world \in Worlds /\ r.used \in Nat /\ r.used <= tx.gas
          /\ w.dead \subseteq r.world.dead
          /\ tx \in Tx => r.world.dead = w.dead
          /\ tx \in DriverTx /\ tx.call = "deactivate" => r.world.dead = w.dead \cup {tx.validator}
          /\ tx \in DriverTx /\ tx.call # "deactivate" => r.world.dead = w.dead
      BY <2>1, <2>2, <2>3, <3>3
    <3>5. QED
      BY <3>4 DEF r
  <2>4. CASE tx.call # "deactivate"
    <3>1. InternalTransition(w, tx) = w
      BY <2>4 DEF InternalTransition
    <3> HIDE DEF r
    <3>2. /\ r.world \in Worlds /\ r.used \in Nat /\ r.used <= tx.gas
          /\ w.dead \subseteq r.world.dead
          /\ tx \in Tx => r.world.dead = w.dead
          /\ tx \in DriverTx /\ tx.call = "deactivate" => r.world.dead = w.dead \cup {tx.validator}
          /\ tx \in DriverTx /\ tx.call # "deactivate" => r.world.dead = w.dead
      BY <2>1, <2>2, <2>4, <3>1
    <3>3. QED
      BY <3>2 DEF r
  <2>5. QED
    BY <2>3, <2>4
<1>3. QED
  BY <1>1, <1>2 DEF AnyTx

\* A log is one of those there are.
LEMMA LogTyped == \A w : \A tx \in AnyTx : LogOf(w, tx) \in Log
<1> SUFFICES ASSUME NEW w, NEW tx \in AnyTx
             PROVE  LogOf(w, tx) \in Log
  OBVIOUS
<1>1. NoLog \in Log
  BY DEF NoLog, Log
<1>2. \A v \in Validator : [kind |-> "weight", validator |-> v, on |-> FALSE] \in Log
  BY DEF Log
<1>3. CASE tx \in Tx
  BY <1>1, <1>3, Senders DEF LogOf
<1>4. CASE tx \in DriverTx
  BY <1>1, <1>2, <1>4, Senders DEF LogOf
<1>5. QED
  BY <1>3, <1>4 DEF AnyTx

\* What a processor is after a transaction
LEMMA ApplyTyped ==
  ASSUME NEW p \in Processors, NEW tx \in AnyTx, NEW i \in Nat
  PROVE  LET q == Apply(p, tx, i)
         IN /\ q \in Processors
            /\ q.price = p.price /\ q.txs = p.txs
            /\ IF Passes(p.world, p.price, tx)
               THEN /\ q.world = Outcome(p.world, p.price, tx).world
                    /\ q.skipped = p.skipped
                    /\ q.receipts = Append(p.receipts,
                                           [tx |-> tx, used |-> Outcome(p.world, p.price, tx).used])
                    /\ q.logs = Append(p.logs, LogOf(p.world, tx))
               ELSE /\ q.world = p.world
                    /\ q.skipped = Append(p.skipped, i)
                    /\ q.receipts = p.receipts
                    /\ q.logs = p.logs
<1> DEFINE r == Outcome(p.world, p.price, tx)
           q == Apply(p, tx, i)
<1>1. /\ p.world \in Worlds /\ p.price \in Nat /\ p.txs \in Seq(AnyTx) /\ p.skipped \in Seq(Nat)
      /\ p.receipts \in Seq(Receipts) /\ p.logs \in Seq(Log)
  BY DEF Processors
<1>2. CASE Passes(p.world, p.price, tx)
  <2>1. r.world \in Worlds /\ r.used \in Nat /\ r.used <= tx.gas
    BY <1>1, <1>2, OutcomeTyped
  <2>2. [tx |-> tx, used |-> r.used] \in Receipts
    BY <2>1 DEF Receipts
  <2>3. LogOf(p.world, tx) \in Log
    BY LogTyped
  <2>4. q = Done(p, tx, r)
    BY <1>2, ApplyIs
  <2> HIDE DEF q, r
  <2>5. q = [p EXCEPT !.world = r.world, !.receipts = Append(@, [tx |-> tx, used |-> r.used]),
                      !.logs = Append(@, LogOf(p.world, tx))]
    BY <2>4 DEF Done
  <2>6. /\ Append(p.receipts, [tx |-> tx, used |-> r.used]) \in Seq(Receipts)
        /\ Append(p.logs, LogOf(p.world, tx)) \in Seq(Log)
    BY <1>1, <2>2, <2>3
  <2>7. q = [world |-> r.world, price |-> p.price, txs |-> p.txs, skipped |-> p.skipped,
             receipts |-> Append(p.receipts, [tx |-> tx, used |-> r.used]),
             logs |-> Append(p.logs, LogOf(p.world, tx))]
    BY <2>5 DEF Processors
  <2>8. q \in Processors
    BY <1>1, <2>1, <2>6, <2>7 DEF Processors
  <2>9. QED
    BY <1>2, <2>7, <2>8 DEF q, r
<1>3. CASE ~Passes(p.world, p.price, tx)
  <2>1. q = Skip(p, tx, i)
    BY <1>3, ApplyIs
  <2> HIDE DEF q, r
  <2>2. q = [p EXCEPT !.skipped = Append(@, i)]
    BY <2>1 DEF Skip
  <2>3. Append(p.skipped, i) \in Seq(Nat)
    BY <1>1
  <2>4. q = [world |-> p.world, price |-> p.price, txs |-> p.txs, skipped |-> Append(p.skipped, i),
             receipts |-> p.receipts, logs |-> p.logs]
    BY <2>2 DEF Processors
  <2>5. q \in Processors
    BY <1>1, <2>3, <2>4 DEF Processors
  <2>6. QED
    BY <1>3, <2>4, <2>5 DEF q
<1>4. QED
  BY <1>2, <1>3

----------------------------------------------------------------------------
(* Several transactions *)

\* What a processor comes to, and who has been deactivated then.
LEMMA StagesTyped ==
  ASSUME NEW p \in Processors, NEW txs \in Seq(AnyTx)
  PROVE  \A n \in 0 .. Len(txs) :
           /\ Stages(p, txs)[n] \in Processors
           /\ Stages(p, txs)[n].price = p.price /\ Stages(p, txs)[n].txs = p.txs
           /\ p.world.dead \subseteq Stages(p, txs)[n].world.dead
           /\ \A i \in 1 .. n : txs[i] \in DriverTx /\ txs[i].call = "deactivate"
                => txs[i].validator \in Stages(p, txs)[n].world.dead
           /\ \A v \in Stages(p, txs)[n].world.dead :
                v \in p.world.dead
                  \/ \E i \in 1 .. n : txs[i] \in DriverTx /\ txs[i].call = "deactivate"
                                        /\ v = txs[i].validator
<1> DEFINE q(n) == Stages(p, txs)[n]
           Told(i) == txs[i] \in DriverTx /\ txs[i].call = "deactivate"
           Good(n) == /\ q(n) \in Processors
                      /\ q(n).price = p.price /\ q(n).txs = p.txs
                      /\ p.world.dead \subseteq q(n).world.dead
                      /\ \A i \in 1 .. n : Told(i) => txs[i].validator \in q(n).world.dead
                      /\ \A v \in q(n).world.dead :
                           v \in p.world.dead \/ \E i \in 1 .. n : Told(i) /\ v = txs[i].validator
           S == {n \in 0 .. Len(txs) : Good(n)}
<1>1. Len(txs) \in Nat /\ \A i \in 1 .. Len(txs) : txs[i] \in AnyTx
  OBVIOUS
<1>2. /\ q(0) = [p EXCEPT !.logs = <<>>]
      /\ \A n \in 1 .. Len(txs) : q(n) = Apply(q(n - 1), txs[n], Len(p.txs) + n)
  BY <1>1, StagesIs
<1>3. Len(p.txs) \in Nat
  BY DEF Processors
<1>9. /\ p.world \in Worlds /\ p.price \in Nat /\ p.txs \in Seq(AnyTx) /\ p.skipped \in Seq(Nat)
      /\ p.receipts \in Seq(Receipts)
  BY DEF Processors
<1> HIDE DEF q
<1>4. 0 \in S
  <2>1. q(0) \in Processors /\ q(0).price = p.price /\ q(0).txs = p.txs /\ q(0).world = p.world
    <3> DEFINE none == <<>>
    <3>1. none \in Seq(Log)
      OBVIOUS
    <3>2. q(0) = [world |-> p.world, price |-> p.price, txs |-> p.txs, skipped |-> p.skipped,
                  receipts |-> p.receipts, logs |-> none]
      BY <1>2 DEF Processors
    <3> HIDE DEF none
    <3>3. QED
      BY <1>9, <3>1, <3>2 DEF Processors
  <2>2. QED
    BY <1>1, <2>1
<1>5. ASSUME NEW n \in 0 .. Len(txs), n \in S, n < Len(txs)
      PROVE  n + 1 \in S
  <2>1. Good(n) /\ n + 1 \in 1 .. Len(txs) /\ n + 1 \in 0 .. Len(txs) /\ (n + 1) - 1 = n
    BY <1>1, <1>5
  <2> DEFINE tx == txs[n + 1]
             r == Outcome(q(n).world, q(n).price, tx)
  <2>2. tx \in AnyTx /\ Len(p.txs) + (n + 1) \in Nat
    <3>1. n + 1 \in 1 .. Len(txs)
      BY <2>1
    <3>2. tx \in AnyTx
      BY <1>1, <3>1
    <3>3. n + 1 \in Nat
      BY <1>1, <3>1
    <3>4. \A x, y \in Nat : x + y \in Nat
      OBVIOUS
    <3>5. Len(p.txs) + (n + 1) \in Nat
      BY <1>3, <3>3, <3>4, Zenon
    <3>6. QED
      BY <3>2, <3>5
  <2>3. q(n + 1) = Apply(q(n), tx, Len(p.txs) + (n + 1))
    BY <1>2, <2>1
  <2>4. q(n).world \in Worlds /\ q(n).price \in Nat
    BY <2>1 DEF Processors
  <2> HIDE DEF tx, r
  <2>5. /\ q(n + 1) \in Processors
        /\ q(n + 1).price = q(n).price /\ q(n + 1).txs = q(n).txs
        /\ q(n + 1).world = IF Passes(q(n).world, q(n).price, tx) THEN r.world ELSE q(n).world
    <3>1. q(n) \in Processors
      BY <2>1
    <3> DEFINE k == Len(p.txs) + (n + 1)
    <3>2. k \in Nat
      BY <2>2
    <3> HIDE DEF k
    <3>3. /\ Apply(q(n), tx, k) \in Processors
          /\ Apply(q(n), tx, k).price = q(n).price /\ Apply(q(n), tx, k).txs = q(n).txs
          /\ Apply(q(n), tx, k).world = IF Passes(q(n).world, q(n).price, tx)
                                       THEN Outcome(q(n).world, q(n).price, tx).world ELSE q(n).world
      BY <2>2, <3>1, <3>2, ApplyTyped
    <3>4. QED
      BY <2>3, <3>3 DEF r, k
  <2>6. Passes(q(n).world, q(n).price, tx) =>
          /\ q(n).world.dead \subseteq r.world.dead
          /\ tx \in Tx => r.world.dead = q(n).world.dead
          /\ Told(n + 1) => r.world.dead = q(n).world.dead \cup {tx.validator}
          /\ tx \in DriverTx /\ ~Told(n + 1) => r.world.dead = q(n).world.dead
    BY <2>2, <2>4, OutcomeTyped DEF r, tx
  <2>7. Told(n + 1) => Passes(q(n).world, q(n).price, tx)
    BY Senders DEF Passes, tx
  <2>8. tx \in Tx \/ tx \in DriverTx
    BY <2>2 DEF AnyTx
  <2>9. \A i \in 1 .. n + 1 : i \in 1 .. n \/ i = n + 1
    BY <2>1
  <2>10. (\A i \in 1 .. n : i \in 1 .. n + 1) /\ n + 1 \in 1 .. n + 1
    BY <2>1
  <2>11. q(n).world.dead \subseteq q(n + 1).world.dead
    BY <2>5, <2>6
  <2>12. \A i \in 1 .. n + 1 : Told(i) => txs[i].validator \in q(n + 1).world.dead
    <3>1. SUFFICES ASSUME NEW i \in 1 .. n + 1, Told(i)
                   PROVE  txs[i].validator \in q(n + 1).world.dead
      OBVIOUS
    <3>2. CASE i \in 1 .. n
      BY <2>1, <2>11, <3>1, <3>2
    <3>3. CASE i = n + 1
      BY <2>5, <2>6, <2>7, <3>1, <3>3 DEF tx
    <3>4. QED
      BY <2>9, <3>2, <3>3
  <2>13. \A v \in q(n + 1).world.dead :
           v \in q(n).world.dead \/ (Told(n + 1) /\ v = txs[n + 1].validator)
    BY <2>5, <2>6, <2>8 DEF tx
  <2>14. \A v \in q(n + 1).world.dead :
           v \in p.world.dead \/ \E i \in 1 .. n + 1 : Told(i) /\ v = txs[i].validator
    <3>1. SUFFICES ASSUME NEW v \in q(n + 1).world.dead, v \notin p.world.dead
                   PROVE  \E i \in 1 .. n + 1 : Told(i) /\ v = txs[i].validator
      OBVIOUS
    <3>2. CASE v \in q(n).world.dead
      <4>1. PICK i \in 1 .. n : Told(i) /\ v = txs[i].validator
        BY <2>1, <3>1, <3>2
      <4>2. QED
        BY <2>10, <4>1
    <3>3. QED
      BY <2>10, <2>13, <3>2
  <2> HIDE DEF Told
  <2>15. Good(n + 1)
    BY <2>1, <2>5, <2>11, <2>12, <2>14
  <2>16. QED
    BY <2>1, <2>15
<1> HIDE DEF Good
<1>6. \A n \in 0 .. Len(txs) : n \in S
  <2> HIDE DEF S
  <2>1. QED
    BY <1>1, <1>4, <1>5, UpTo
<1>7. \A n \in 0 .. Len(txs) : Good(n)
  BY <1>6
<1>10. QED
  BY <1>7 DEF Good, q

\* What comes after does not change what a processor was before.
LEMMA StagesPrefix ==
  ASSUME NEW p, NEW X, NEW txs \in Seq(X), NEW tx \in X
  PROVE  \A n \in 0 .. Len(txs) : Stages(p, Append(txs, tx))[n] = Stages(p, txs)[n]
<1> DEFINE more == Append(txs, tx)
           S == {n \in 0 .. Len(txs) : Stages(p, more)[n] = Stages(p, txs)[n]}
<1>1. /\ Len(txs) \in Nat /\ more \in Seq(X) /\ Len(more) = Len(txs) + 1 /\ Len(more) \in Nat
      /\ \A i \in 1 .. Len(txs) : more[i] = txs[i]
  OBVIOUS
<1> HIDE DEF more
<1>2. /\ Stages(p, txs)[0] = [p EXCEPT !.logs = <<>>]
      /\ \A n \in 1 .. Len(txs) :
           Stages(p, txs)[n] = Apply(Stages(p, txs)[n - 1], txs[n], Len(p.txs) + n)
  BY <1>1, StagesIs
<1>3. /\ Stages(p, more)[0] = [p EXCEPT !.logs = <<>>]
      /\ \A n \in 1 .. Len(more) :
           Stages(p, more)[n] = Apply(Stages(p, more)[n - 1], more[n], Len(p.txs) + n)
  <2>1. Len(more) \in Nat
    BY <1>1
  <2>2. QED
    BY <2>1, StagesIs
<1>4. 0 \in S
  BY <1>1, <1>2, <1>3
<1>5. ASSUME NEW n \in 0 .. Len(txs), n \in S, n < Len(txs)
      PROVE  n + 1 \in S
  <2>1. /\ n + 1 \in 1 .. Len(txs) /\ n + 1 \in 0 .. Len(txs) /\ n + 1 \in 1 .. Len(more)
        /\ (n + 1) - 1 = n
    BY <1>1, <1>5
  <2>2. Stages(p, more)[n] = Stages(p, txs)[n] /\ more[n + 1] = txs[n + 1]
    BY <1>1, <1>5, <2>1
  <2>3. Stages(p, more)[n + 1] = Apply(Stages(p, more)[n], more[n + 1], Len(p.txs) + (n + 1))
    BY <1>3, <2>1
  <2>4. Stages(p, txs)[n + 1] = Apply(Stages(p, txs)[n], txs[n + 1], Len(p.txs) + (n + 1))
    BY <1>2, <2>1
  <2>5. QED
    BY <2>1, <2>2, <2>3, <2>4
<1>6. \A n \in 0 .. Len(txs) : n \in S
  <2> HIDE DEF S
  <2>1. QED
    BY <1>1, <1>4, <1>5, UpTo
<1>7. QED
  BY <1>6 DEF more

----------------------------------------------------------------------------
(* What has been executed gives the same state again *)

\* A processor at the start of a block.
LEMMA NewTyped ==
  ASSUME NEW w \in Worlds, NEW rules, rules.price \in Nat
  PROVE  /\ NewProcessor(w, rules) \in Processors
         /\ NewProcessor(w, rules).world = w /\ NewProcessor(w, rules).price = rules.price
         /\ NewProcessor(w, rules).txs = <<>> /\ NewProcessor(w, rules).skipped = <<>>
         /\ NewProcessor(w, rules).receipts = <<>> /\ NewProcessor(w, rules).logs = <<>>
<1> DEFINE none == <<>>
<1>1. none \in Seq(AnyTx) /\ none \in Seq(Nat) /\ none \in Seq(Receipts) /\ none \in Seq(Log)
  OBVIOUS
<1>2. NewProcessor(w, rules) = [world |-> w, price |-> rules.price, txs |-> none, skipped |-> none,
                                receipts |-> none, logs |-> none]
  BY DEF NewProcessor
<1> HIDE DEF none
<1>3. /\ NewProcessor(w, rules) \in Processors
      /\ NewProcessor(w, rules).world = w /\ NewProcessor(w, rules).price = rules.price
      /\ NewProcessor(w, rules).txs = none /\ NewProcessor(w, rules).skipped = none
      /\ NewProcessor(w, rules).receipts = none /\ NewProcessor(w, rules).logs = none
  BY <1>1, <1>2 DEF Processors
<1>4. QED
  BY <1>3 DEF none

\* A processor that has executed nothing.
LEMMA ReplaysNew ==
  ASSUME NEW w \in Worlds, NEW rules, rules.price \in Nat
  PROVE  Sound(NewProcessor(w, rules), w)
<1> DEFINE p == NewProcessor(w, rules)
           none == <<>>
           other == NewProcessor(w, [price |-> p.price])
<1>1. /\ p \in Processors /\ p.world = w /\ p.price \in Nat
      /\ p.txs = none /\ p.skipped = none /\ p.receipts = none
  BY NewTyped
<1>2. other.world = w
  <2>1. [price |-> p.price].price \in Nat
    BY <1>1
  <2> HIDE DEF p
  <2>2. QED
    BY <2>1, NewTyped
<1>3. ToSet(none) \subseteq {} /\ DOMAIN none = {} /\ Len(none) = 0
  BY DEF ToSet
<1>4. FilterSkippedTxs(none, none) = none
  BY <1>3, FilterNone
<1>5. [i \in DOMAIN none |-> none[i].tx] = none
  OBVIOUS
<1>6. Stages(other, none)[0] = [other EXCEPT !.logs = <<>>]
  <2>1. Len(none) \in Nat
    BY <1>3
  <2> HIDE DEF none, other
  <2>2. QED
    BY <2>1, StagesIs
<1>7. [other EXCEPT !.logs = <<>>].world = other.world
  <2>1. other.world = w /\ [price |-> p.price].price \in Nat
    BY <1>1, <1>2
  <2>2. other \in Processors
    <3> HIDE DEF p
    <3>1. QED
      BY <2>1, NewTyped
  <2> HIDE DEF other
  <2>3. QED
    BY <2>2 DEF Processors
<1>8. p.world = Stages(other, none)[Len(none)].world
  BY <1>1, <1>2, <1>3, <1>6, <1>7, Zenon
<1>9. ToSet(p.skipped) \subseteq DOMAIN p.txs
  BY <1>1, <1>3, Zenon
<1>10. FilterSkippedTxs(p.txs, p.skipped) = none
  BY <1>1, <1>4, Zenon
<1>11. [i \in DOMAIN p.receipts |-> p.receipts[i].tx] = none
  BY <1>1, <1>5, Zenon
<1> HIDE DEF none, p
<1>12. Replays(p.txs, p, w)
  BY <1>8, <1>9, <1>10, <1>11 DEF Replays
<1>13. QED
  BY <1>12 DEF Sound, p

\* Executing one more transaction, or skipping it, keeps what has been executed sound.
LEMMA ReplaysStep ==
  ASSUME NEW w \in Worlds, NEW t \in Seq(AnyTx), NEW q \in Processors, Replays(t, q, w),
         NEW tx \in AnyTx
  PROVE  Replays(Append(t, tx), Apply(q, tx, Len(t) + 1), w)
<1> DEFINE a == Apply(q, tx, Len(t) + 1)
           more == Append(t, tx)
           start == NewProcessor(w, [price |-> q.price])
           ran == FilterSkippedTxs(t, q.skipped)
           next == FilterSkippedTxs(more, a.skipped)
           r == Outcome(q.world, q.price, tx)
<1>1. /\ Len(t) \in Nat /\ Len(t) + 1 \in Nat /\ more \in Seq(AnyTx) /\ Len(more) = Len(t) + 1
      /\ DOMAIN t = 1 .. Len(t) /\ DOMAIN more = 1 .. Len(t) + 1
  OBVIOUS
<1>2. /\ q.world \in Worlds /\ q.price \in Nat /\ q.skipped \in Seq(Nat) /\ q.receipts \in Seq(Receipts)
  BY DEF Processors
<1>3. /\ ToSet(q.skipped) \subseteq DOMAIN t
      /\ ran = [i \in DOMAIN q.receipts |-> q.receipts[i].tx]
      /\ q.world = Stages(start, ran)[Len(ran)].world
  BY DEF Replays
<1>4. ran \in Seq(AnyTx) /\ Len(ran) \in Nat
  <2>1. ran \in Seq(AnyTx)
    BY FilterIs
  <2>2. QED
    BY <2>1
<1>5. /\ a \in Processors /\ a.price = q.price
      /\ IF Passes(q.world, q.price, tx)
         THEN /\ a.world = r.world /\ a.skipped = q.skipped
              /\ a.receipts = Append(q.receipts, [tx |-> tx, used |-> r.used])
         ELSE /\ a.world = q.world /\ a.skipped = Append(q.skipped, Len(t) + 1)
              /\ a.receipts = q.receipts
  BY <1>1, ApplyTyped
<1>6. start \in Processors
  <2>1. [price |-> q.price].price \in Nat
    BY <1>2
  <2>2. QED
    BY <2>1, NewTyped
<1>7. start.price = q.price
  <2>1. [price |-> q.price].price \in Nat
    BY <1>2
  <2>2. QED
    BY <2>1, NewTyped
<1> HIDE DEF a, start, ran, r
<1>8. CASE ~Passes(q.world, q.price, tx)
  <2>1. a.skipped = Append(q.skipped, Len(t) + 1)
    BY <1>5, <1>8
  <2>2. next = ran
    BY <1>2, <2>1, FilterSkips DEF ran
  <2>3. ToSet(a.skipped) \subseteq DOMAIN more
    <3>1. /\ DOMAIN a.skipped = 1 .. Len(q.skipped) + 1 /\ Len(q.skipped) \in Nat
          /\ \A i \in 1 .. Len(q.skipped) : a.skipped[i] = q.skipped[i]
          /\ a.skipped[Len(q.skipped) + 1] = Len(t) + 1
      BY <1>2, <2>1
    <3>2. \A i \in 1 .. Len(q.skipped) : q.skipped[i] \in 1 .. Len(t)
      BY <1>1, <1>2, <1>3 DEF ToSet
    <3>3. \A i \in DOMAIN a.skipped : a.skipped[i] \in 1 .. Len(t) + 1
      BY <1>1, <3>1, <3>2
    <3>4. QED
      BY <1>1, <3>3 DEF ToSet
  <2>4. a.world = q.world /\ a.receipts = q.receipts /\ a.price = q.price
    BY <1>5, <1>8
  <2> HIDE DEF next, more
  <2>5. next = [i \in DOMAIN a.receipts |-> a.receipts[i].tx]
    BY <1>3, <2>2, <2>4
  <2>6. a.world = Stages(NewProcessor(w, [price |-> a.price]), next)[Len(next)].world
    BY <1>3, <2>2, <2>4 DEF start
  <2>7. Replays(more, a, w)
    BY <2>3, <2>5, <2>6 DEF Replays, next
  <2>8. QED
    BY <2>7 DEF more, a
<1>9. CASE Passes(q.world, q.price, tx)
  <2>1. a.skipped = q.skipped /\ a.world = r.world /\ a.price = q.price
        /\ a.receipts = Append(q.receipts, [tx |-> tx, used |-> r.used])
    BY <1>5, <1>9
  <2>2. next = Append(ran, tx)
    BY <1>3, <2>1, FilterAppends DEF ran
  <2>3. ToSet(a.skipped) \subseteq DOMAIN more
    BY <1>1, <1>3, <2>1
  <2> HIDE DEF next, more
  <2>4. next = [i \in DOMAIN a.receipts |-> a.receipts[i].tx]
    <3> DEFINE rec == [tx |-> tx, used |-> r.used]
               n == Len(q.receipts)
    <3>1. /\ n \in Nat /\ DOMAIN q.receipts = 1 .. n /\ DOMAIN a.receipts = 1 .. n + 1
          /\ \A i \in 1 .. n : a.receipts[i] = q.receipts[i]
          /\ a.receipts[n + 1] = rec /\ rec.tx = tx
      BY <1>2, <2>1
    <3> HIDE DEF n, rec
    <3>2. Len(ran) = n /\ DOMAIN ran = 1 .. n /\ \A i \in 1 .. n : ran[i] = q.receipts[i].tx
      BY <1>3, <1>4, <3>1
    <3>3. /\ DOMAIN next = 1 .. n + 1 /\ next[n + 1] = tx
          /\ \A i \in 1 .. n : next[i] = ran[i]
      BY <1>4, <2>2, <3>1, <3>2
    <3>4. \A i \in 1 .. n + 1 : i \in 1 .. n \/ i = n + 1
      BY <3>1
    <3>5. \A i \in 1 .. n + 1 : next[i] = a.receipts[i].tx
      BY <3>1, <3>2, <3>3, <3>4
    <3>6. next \in Seq(AnyTx)
      BY <1>4, <2>2
    <3>7. next = [i \in DOMAIN next |-> next[i]]
      BY <3>6
    <3>8. QED
      BY <3>1, <3>3, <3>5, <3>7
  <2>5. a.world = Stages(start, next)[Len(next)].world
    <3> DEFINE s == Stages(start, ran)[Len(ran)]
    <3>1. Len(next) = Len(ran) + 1 /\ next[Len(ran) + 1] = tx /\ Len(next) \in Nat
      BY <1>4, <2>2
    <3>2. Stages(start, next)[Len(ran) + 1] =
            Apply(Stages(start, next)[(Len(ran) + 1) - 1], next[Len(ran) + 1],
                  Len(start.txs) + (Len(ran) + 1))
      <4>1. \A n \in 1 .. Len(next) :
              Stages(start, next)[n] = Apply(Stages(start, next)[n - 1], next[n], Len(start.txs) + n)
        BY <3>1, StagesIs
      <4>2. Len(ran) + 1 \in 1 .. Len(next)
        BY <1>4, <3>1
      <4>3. QED
        BY <4>1, <4>2
    <3>3. (Len(ran) + 1) - 1 = Len(ran) /\ Len(ran) \in 0 .. Len(ran)
      BY <1>4
    <3>4. Stages(start, next)[Len(ran)] = s
      BY <1>4, <2>2, <3>3, StagesPrefix
    <3>5. s \in Processors /\ s.price = start.price /\ s.world = q.world
      BY <1>3, <1>4, <1>6, <3>3, StagesTyped
    <3> HIDE DEF s
    <3>6. Len(start.txs) + (Len(ran) + 1) \in Nat
      <4>1. start.txs \in Seq(AnyTx)
        BY <1>6 DEF Processors
      <4>2. Len(start.txs) \in Nat
        BY <4>1
      <4>3. \A m, n \in Nat : m + (n + 1) \in Nat
        OBVIOUS
      <4>4. QED
        BY <1>4, <4>2, <4>3
    <3>7. Apply(s, tx, Len(start.txs) + (Len(ran) + 1)).world = r.world
      <4>1. \A k \in Nat : Apply(s, tx, k).world = IF Passes(s.world, s.price, tx)
                                                   THEN Outcome(s.world, s.price, tx).world ELSE s.world
        BY <3>5, ApplyTyped
      <4>2. s.world = q.world /\ s.price = q.price
        BY <1>7, <3>5
      <4>3. Outcome(s.world, s.price, tx) = r /\ Passes(s.world, s.price, tx)
        BY <1>9, <4>2 DEF r
      <4>4. QED
        BY <3>6, <4>1, <4>3
    <3>8. QED
      BY <2>1, <3>1, <3>2, <3>3, <3>4, <3>7
  <2>6. Replays(more, a, w)
    BY <2>1, <2>3, <2>4, <2>5 DEF Replays, next, start
  <2>7. QED
    BY <2>6 DEF more, a
<1>10. QED
  BY <1>8, <1>9

\* Execute, and who has been deactivated then.
LEMMA ExecuteTyped ==
  ASSUME NEW p \in Processors, NEW txs \in Seq(AnyTx)
  PROVE  /\ Len(txs) \in Nat
         /\ Execute(p, txs) \in Processors
         /\ Execute(p, txs).price = p.price /\ Execute(p, txs).txs = p.txs \o txs
         /\ Execute(p, txs).world = Stages(p, txs)[Len(txs)].world
         /\ Execute(p, txs).skipped = Stages(p, txs)[Len(txs)].skipped
         /\ Execute(p, txs).receipts = Stages(p, txs)[Len(txs)].receipts
         /\ Execute(p, txs).logs = Stages(p, txs)[Len(txs)].logs
         /\ p.world.dead \subseteq Execute(p, txs).world.dead
         /\ \A i \in 1 .. Len(txs) : txs[i] \in DriverTx /\ txs[i].call = "deactivate"
              => txs[i].validator \in Execute(p, txs).world.dead
         /\ \A v \in Execute(p, txs).world.dead :
              v \in p.world.dead
                \/ \E i \in 1 .. Len(txs) : txs[i] \in DriverTx /\ txs[i].call = "deactivate"
                                             /\ v = txs[i].validator
<1> DEFINE s == Stages(p, txs)[Len(txs)]
           e == Execute(p, txs)
<1>1. Len(txs) \in Nat /\ Len(txs) \in 0 .. Len(txs)
  OBVIOUS
<1>2. /\ s \in Processors
      /\ s.price = p.price /\ s.txs = p.txs
      /\ p.world.dead \subseteq s.world.dead
      /\ \A i \in 1 .. Len(txs) : txs[i] \in DriverTx /\ txs[i].call = "deactivate"
           => txs[i].validator \in s.world.dead
      /\ \A v \in s.world.dead :
           v \in p.world.dead
             \/ \E i \in 1 .. Len(txs) : txs[i] \in DriverTx /\ txs[i].call = "deactivate"
                                          /\ v = txs[i].validator
  BY <1>1, StagesTyped
<1>3. e = [s EXCEPT !.txs = p.txs \o txs]
  BY DEF Execute
<1>4. p.txs \o txs \in Seq(AnyTx)
  BY DEF Processors
<1> HIDE DEF s, e
<1>5. /\ e \in Processors /\ e.price = s.price /\ e.txs = p.txs \o txs /\ e.world = s.world
      /\ e.skipped = s.skipped /\ e.receipts = s.receipts /\ e.logs = s.logs
  <2> DEFINE t == p.txs \o txs
  <2>1. t \in Seq(AnyTx) /\ e = [s EXCEPT !.txs = t]
    BY <1>3, <1>4
  <2> HIDE DEF t
  <2>2. e = [world |-> s.world, price |-> s.price, txs |-> t, skipped |-> s.skipped,
             receipts |-> s.receipts, logs |-> s.logs]
    BY <1>2, <2>1 DEF Processors
  <2>3. e \in Processors
    BY <1>2, <2>1, <2>2 DEF Processors
  <2>4. QED
    BY <2>2, <2>3 DEF t
<1>6. QED
  BY <1>1, <1>2, <1>5 DEF s, e

\* Executing more keeps what has been executed sound.
LEMMA ExecuteSound ==
  ASSUME NEW w \in Worlds, NEW p \in Processors, NEW txs \in Seq(AnyTx), Sound(p, w)
  PROVE  Sound(Execute(p, txs), w)
<1> DEFINE t(n) == p.txs \o SubSeq(txs, 1, n)
           q(n) == Stages(p, txs)[n]
           S == {n \in 0 .. Len(txs) : Replays(t(n), q(n), w)}
           e == Execute(p, txs)
<1>1. /\ Len(txs) \in Nat /\ p.txs \in Seq(AnyTx) /\ Len(p.txs) \in Nat
      /\ \A i \in 1 .. Len(txs) : txs[i] \in AnyTx
  BY DEF Processors
<1>2. t(0) = p.txs /\ t(Len(txs)) = p.txs \o txs
  <2>1. SubSeq(txs, 1, 0) = <<>> /\ SubSeq(txs, 1, Len(txs)) = txs
    BY <1>1
  <2>2. p.txs \o <<>> = p.txs
    BY <1>1
  <2>3. QED
    BY <2>1, <2>2
<1>3. \A n \in 0 .. Len(txs) : t(n) \in Seq(AnyTx) /\ Len(t(n)) = Len(p.txs) + n
  <2>1. \A n \in 0 .. Len(txs) : SubSeq(txs, 1, n) \in Seq(AnyTx) /\ Len(SubSeq(txs, 1, n)) = n
    BY <1>1
  <2>2. \A x, y \in Seq(AnyTx) : x \o y \in Seq(AnyTx) /\ Len(x \o y) = Len(x) + Len(y)
    OBVIOUS
  <2>3. QED
    BY <1>1, <2>1, <2>2
<1>4. \A n \in 0 .. Len(txs) : n < Len(txs) => t(n + 1) = Append(t(n), txs[n + 1])
  <2>1. SUFFICES ASSUME NEW n \in 0 .. Len(txs), n < Len(txs)
                 PROVE  t(n + 1) = Append(t(n), txs[n + 1])
    OBVIOUS
  <2> DEFINE a == SubSeq(txs, 1, n)
             b == SubSeq(txs, 1, n + 1)
  <2>2. /\ a \in Seq(AnyTx) /\ Len(a) = n /\ b \in Seq(AnyTx) /\ Len(b) = n + 1
        /\ txs[n + 1] \in AnyTx
        /\ (\A i \in 1 .. n : a[i] = txs[i]) /\ (\A i \in 1 .. n + 1 : b[i] = txs[i])
    BY <1>1, <2>1
  <2> HIDE DEF a, b
  <2>3. b = Append(a, txs[n + 1])
    BY <1>1, <2>2
  <2>4. \A x, y \in Seq(AnyTx) : \A z \in AnyTx : x \o Append(y, z) = Append(x \o y, z)
    OBVIOUS
  <2>5. p.txs \o Append(a, txs[n + 1]) = Append(p.txs \o a, txs[n + 1])
    BY <1>1, <2>2, <2>4
  <2>6. p.txs \o b = Append(p.txs \o a, txs[n + 1])
    BY <2>3, <2>5
  <2>7. QED
    BY <2>6 DEF a, b
<1>5. /\ q(0) = [p EXCEPT !.logs = <<>>]
      /\ \A n \in 1 .. Len(txs) : q(n) = Apply(q(n - 1), txs[n], Len(p.txs) + n)
  BY <1>1, StagesIs
<1>6. \A n \in 0 .. Len(txs) : q(n) \in Processors
  BY StagesTyped
<1>7. q(Len(txs)).world = e.world /\ q(Len(txs)).price = e.price
      /\ q(Len(txs)).skipped = e.skipped /\ q(Len(txs)).receipts = e.receipts
      /\ e.txs = p.txs \o txs
  <2>1. Len(txs) \in 0 .. Len(txs)
    BY <1>1
  <2>2. QED
    BY <2>1, ExecuteTyped, StagesTyped
<1> HIDE DEF t, q, e
<1>8. 0 \in S
  <2>1. /\ q(0).world = p.world /\ q(0).price = p.price /\ q(0).skipped = p.skipped
        /\ q(0).receipts = p.receipts
    BY <1>5 DEF Processors
  <2>2. Replays(p.txs, p, w)
    BY DEF Sound
  <2>3. Replays(p.txs, q(0), w)
    BY <2>1, <2>2 DEF Replays
  <2>4. QED
    BY <1>1, <1>2, <2>3
<1>9. ASSUME NEW n \in 0 .. Len(txs), n \in S, n < Len(txs)
      PROVE  n + 1 \in S
  <2>1. n + 1 \in 1 .. Len(txs) /\ n + 1 \in 0 .. Len(txs) /\ (n + 1) - 1 = n
    BY <1>1, <1>9
  <2>2. Replays(t(n), q(n), w)
    BY <1>9
  <2>3. Replays(Append(t(n), txs[n + 1]), Apply(q(n), txs[n + 1], Len(t(n)) + 1), w)
    BY <1>1, <1>3, <1>6, <2>1, <2>2, ReplaysStep
  <2>4. q(n + 1) = Apply(q(n), txs[n + 1], Len(p.txs) + (n + 1))
    BY <1>5, <2>1
  <2>5. Len(t(n)) + 1 = Len(p.txs) + (n + 1)
    <3>1. \A x, y \in Nat : (x + y) + 1 = x + (y + 1)
      OBVIOUS
    <3>2. n \in Nat
      BY <1>1
    <3>3. QED
      BY <1>1, <1>3, <3>1, <3>2
  <2>6. t(n + 1) = Append(t(n), txs[n + 1])
    BY <1>4, <1>9
  <2>7. Replays(t(n + 1), q(n + 1), w)
    BY <2>3, <2>4, <2>5, <2>6
  <2>8. QED
    BY <2>1, <2>7
<1>10. \A n \in 0 .. Len(txs) : n \in S
  <2> HIDE DEF S
  <2>1. QED
    BY <1>1, <1>8, <1>9, UpTo
<1>11. Replays(t(Len(txs)), q(Len(txs)), w)
  BY <1>1, <1>10
<1>12. Replays(e.txs, e, w)
  BY <1>2, <1>7, <1>11 DEF Replays
<1>13. QED
  BY <1>12 DEF Sound, e

----------------------------------------------------------------------------
(* What the listener hears *)

\* Rules that a diff changes are rules.
LEMMA RulesTyped == \A src \in Rules : \A diff \in Diff : UpdateRules(src, diff) \in Rules
<1> SUFFICES ASSUME NEW src \in Rules, NEW diff \in Diff
             PROVE  UpdateRules(src, diff) \in Rules
  OBVIOUS
<1>1. DOMAIN src = {"price", "maxBlockGas"} /\ \A r \in DOMAIN src : src[r] \in Nat
  BY DEF Rules
<1>2. \A r \in DOMAIN diff : diff[r] \in Nat
  BY DEF Diff, Rules
<1>3. QED
  BY <1>1, <1>2 DEF UpdateRules, Rules

\* What one log changes
LEMMA OnNewLogTyped ==
  ASSUME NEW g, NEW b \in BlockStates(g), NEW rules \in Rules, NEW log \in Log
  PROVE  LET h == OnNewLog(b, rules, log)
         IN /\ h \in BlockStates(g)
            /\ h.idx = b.idx /\ h.time = b.time /\ h.root = b.root /\ h.gas = b.gas
            /\ h.cheaters = b.cheaters /\ h.written = b.written /\ h.states = b.states
            /\ h.next = IF log.kind = "weight"
                        THEN IF log.on THEN b.next \cup {log.validator} ELSE b.next \ {log.validator}
                        ELSE b.next
<1> DEFINE h == OnNewLog(b, rules, log)
<1>1. /\ b.dirty \in Rules \cup {NoRules} /\ b.advance \in 0 .. MaxAdvanceEpochs
      /\ b.next \in SUBSET Validator
  BY DEF BlockStates
<1>2. MaxAdvanceEpochs \in Nat
  BY BlockPipelineAssumption
<1> DEFINE dirty == IF log.kind = "rules"
                    THEN UpdateRules(IF b.dirty = NoRules THEN rules ELSE b.dirty, log.diff) ELSE b.dirty
           advance == IF log.kind = "advance"
                      THEN IF b.advance + log.num > MaxAdvanceEpochs THEN MaxAdvanceEpochs
                           ELSE b.advance + log.num
                      ELSE b.advance
           next == IF log.kind = "weight"
                   THEN IF log.on THEN b.next \cup {log.validator} ELSE b.next \ {log.validator}
                   ELSE b.next
<1>3. /\ log.kind \in {"none", "weight", "rules", "advance"}
      /\ log.kind = "weight" => log.validator \in Validator
      /\ log.kind = "rules" => log.diff \in Diff
      /\ log.kind = "advance" => log.num \in Nat
  BY DEF Log
<1>4. dirty \in Rules \cup {NoRules}
  BY <1>1, <1>3, RulesTyped
<1>5. advance \in 0 .. MaxAdvanceEpochs
  BY <1>1, <1>2, <1>3
<1>6. next \in SUBSET Validator
  BY <1>1, <1>3
<1>7. h = [idx |-> b.idx, time |-> b.time, root |-> b.root, gas |-> b.gas, cheaters |-> b.cheaters,
           written |-> b.written, states |-> b.states, next |-> next, dirty |-> dirty,
           advance |-> advance]
  BY <1>3 DEF OnNewLog, BlockStates
<1> HIDE DEF next, dirty, advance
<1>8. h \in BlockStates(g)
  BY <1>4, <1>5, <1>6, <1>7 DEF BlockStates
<1>9. QED
  BY <1>7, <1>8 DEF next

\* Who is in the next group after a log.
LEMMA OnNewLogNext ==
  ASSUME NEW g, NEW b \in BlockStates(g), NEW rules \in Rules, NEW log \in Log
  PROVE  OnNewLog(b, rules, log).next = IF log.kind = "weight"
                                        THEN IF log.on THEN b.next \cup {log.validator}
                                             ELSE b.next \ {log.validator}
                                        ELSE b.next
<1> DEFINE h == OnNewLog(b, rules, log)
<1>1. h.next = IF log.kind = "weight"
               THEN IF log.on THEN b.next \cup {log.validator} ELSE b.next \ {log.validator}
               ELSE b.next
  BY OnNewLogTyped
<1>2. QED
  BY <1>1

\* All that logs do not change
Untold(h, b) ==
  /\ h.idx = b.idx /\ h.time = b.time /\ h.root = b.root /\ h.gas = b.gas
  /\ h.cheaters = b.cheaters /\ h.written = b.written /\ h.states = b.states

\* What several logs change
LEMMA HeardTyped ==
  ASSUME NEW g, NEW b \in BlockStates(g), NEW rules \in Rules, NEW logs \in Seq(Log)
  PROVE  /\ \A n \in 0 .. Len(logs) :
              Heard(b, rules, logs)[n] \in BlockStates(g) /\ Untold(Heard(b, rules, logs)[n], b)
         /\ OnNewLogs(b, rules, logs) \in BlockStates(g) /\ Untold(OnNewLogs(b, rules, logs), b)
<1> DEFINE h(n) == Heard(b, rules, logs)[n]
           S == {n \in 0 .. Len(logs) : h(n) \in BlockStates(g) /\ Untold(h(n), b)}
<1>1. Len(logs) \in Nat /\ \A i \in 1 .. Len(logs) : logs[i] \in Log
  OBVIOUS
<1>2. h(0) = b /\ \A n \in 1 .. Len(logs) : h(n) = OnNewLog(h(n - 1), rules, logs[n])
  BY <1>1, HeardIs
<1> HIDE DEF h
<1>3. 0 \in S
  BY <1>1, <1>2 DEF Untold
<1>4. ASSUME NEW n \in 0 .. Len(logs), n \in S, n < Len(logs)
      PROVE  n + 1 \in S
  <2>1. n + 1 \in 1 .. Len(logs) /\ n + 1 \in 0 .. Len(logs) /\ (n + 1) - 1 = n
    BY <1>1, <1>4
  <2>2. h(n + 1) = OnNewLog(h(n), rules, logs[n + 1])
    BY <1>2, <2>1
  <2>3. h(n) \in BlockStates(g) /\ Untold(h(n), b)
    BY <1>4
  <2>4. logs[n + 1] \in Log
    BY <1>1, <2>1
  <2>5. h(n + 1) \in BlockStates(g) /\ Untold(h(n + 1), h(n))
    <3>1. \A a \in BlockStates(g) : \A x \in Log :
            OnNewLog(a, rules, x) \in BlockStates(g) /\ Untold(OnNewLog(a, rules, x), a)
      BY OnNewLogTyped DEF Untold
    <3>2. QED
      BY <2>2, <2>3, <2>4, <3>1
  <2>6. Untold(h(n + 1), b)
    BY <2>3, <2>5 DEF Untold
  <2>7. QED
    BY <2>1, <2>5, <2>6
<1>5. \A n \in 0 .. Len(logs) : n \in S
  <2> HIDE DEF S
  <2>1. QED
    BY <1>1, <1>3, <1>4, UpTo
<1>6. \A n \in 0 .. Len(logs) : h(n) \in BlockStates(g) /\ Untold(h(n), b)
  BY <1>5
<1>7. Len(logs) \in 0 .. Len(logs)
  BY <1>1
<1>8. QED
  BY <1>6, <1>7 DEF h, OnNewLogs

\* Another log
LEMMA HeardAppend ==
  ASSUME NEW b, NEW rules, NEW logs \in Seq(Log), NEW log \in Log
  PROVE  OnNewLogs(b, rules, Append(logs, log)) = OnNewLog(OnNewLogs(b, rules, logs), rules, log)
<1> DEFINE more == Append(logs, log)
           S == {n \in 0 .. Len(logs) : Heard(b, rules, more)[n] = Heard(b, rules, logs)[n]}
<1>1. /\ Len(logs) \in Nat /\ more \in Seq(Log) /\ Len(more) = Len(logs) + 1 /\ Len(more) \in Nat
      /\ more[Len(logs) + 1] = log /\ \A i \in 1 .. Len(logs) : more[i] = logs[i]
  OBVIOUS
<1> HIDE DEF more
<1>2. /\ Heard(b, rules, logs)[0] = b
      /\ \A n \in 1 .. Len(logs) :
           Heard(b, rules, logs)[n] = OnNewLog(Heard(b, rules, logs)[n - 1], rules, logs[n])
  BY <1>1, HeardIs
<1>3. /\ Heard(b, rules, more)[0] = b
      /\ \A n \in 1 .. Len(more) :
           Heard(b, rules, more)[n] = OnNewLog(Heard(b, rules, more)[n - 1], rules, more[n])
  <2>1. Len(more) \in Nat
    BY <1>1
  <2>2. QED
    BY <2>1, HeardIs
<1>4. 0 \in S
  BY <1>1, <1>2, <1>3
<1>5. ASSUME NEW n \in 0 .. Len(logs), n \in S, n < Len(logs)
      PROVE  n + 1 \in S
  <2>1. /\ n + 1 \in 1 .. Len(logs) /\ n + 1 \in 0 .. Len(logs) /\ n + 1 \in 1 .. Len(more)
        /\ (n + 1) - 1 = n
    BY <1>1, <1>5
  <2>2. Heard(b, rules, more)[n] = Heard(b, rules, logs)[n] /\ more[n + 1] = logs[n + 1]
    BY <1>1, <1>5, <2>1
  <2>3. Heard(b, rules, more)[n + 1] = OnNewLog(Heard(b, rules, more)[n], rules, more[n + 1])
    BY <1>3, <2>1
  <2>4. Heard(b, rules, logs)[n + 1] = OnNewLog(Heard(b, rules, logs)[n], rules, logs[n + 1])
    BY <1>2, <2>1
  <2>5. QED
    BY <2>1, <2>2, <2>3, <2>4
<1>6. \A n \in 0 .. Len(logs) : n \in S
  <2> HIDE DEF S
  <2>1. QED
    BY <1>1, <1>4, <1>5, UpTo
<1>7. Heard(b, rules, more)[Len(logs)] = Heard(b, rules, logs)[Len(logs)]
  BY <1>1, <1>6
<1>8. Len(logs) + 1 \in 1 .. Len(more) /\ (Len(logs) + 1) - 1 = Len(logs)
  BY <1>1
<1>9. Heard(b, rules, more)[Len(logs) + 1] = OnNewLog(Heard(b, rules, more)[Len(logs)], rules, log)
  BY <1>1, <1>3, <1>8
<1>10. QED
  BY <1>1, <1>7, <1>9 DEF OnNewLogs, more

\* tx may tell that v leaves.
Leaves(tx, v) ==
  \/ tx \in Tx /\ tx.log = [kind |-> "weight", validator |-> v, on |-> FALSE]
  \/ tx \in DriverTx /\ tx.call = "deactivate" /\ tx.validator = v

\* What a transaction's log does to the next group.
LEMMA LogOfIs ==
  ASSUME NEW w \in Worlds, NEW tx \in AnyTx
  PROVE  LET log == LogOf(w, tx)
         IN /\ log.kind = "weight" /\ log.on => log.validator \notin w.dead
            /\ tx \in DriverTx => ~(log.kind = "weight" /\ log.on)
            /\ \A v : log.kind = "weight" /\ ~log.on /\ log.validator = v => Leaves(tx, v)
            /\ tx \in DriverTx /\ tx.call = "deactivate" /\ tx.validator \notin w.dead
                 => log.kind = "weight" /\ ~log.on /\ log.validator = tx.validator
<1> DEFINE log == LogOf(w, tx)
           Goal == /\ log.kind = "weight" /\ log.on => log.validator \notin w.dead
                   /\ tx \in DriverTx => ~(log.kind = "weight" /\ log.on)
                   /\ \A v : log.kind = "weight" /\ ~log.on /\ log.validator = v => Leaves(tx, v)
                   /\ tx \in DriverTx /\ tx.call = "deactivate" /\ tx.validator \notin w.dead
                        => log.kind = "weight" /\ ~log.on /\ log.validator = tx.validator
<1>1. NoLog.kind # "weight"
  BY DEF NoLog
<1>2. CASE tx \in Tx
  <2>1. tx.from # Internal /\ tx \notin DriverTx /\ tx.log \in Log
    BY <1>2, Senders
  <2>2. log = IF TakesBack(w, tx.log) THEN NoLog ELSE tx.log
    BY <2>1 DEF LogOf
  <2>3. \A v : tx.log.kind = "weight" /\ ~tx.log.on /\ tx.log.validator = v
                 => tx.log = [kind |-> "weight", validator |-> v, on |-> FALSE]
    BY <2>1 DEF Log
  <2> HIDE DEF log
  <2>4. Goal
    BY <1>1, <1>2, <2>1, <2>2, <2>3 DEF TakesBack, Leaves
  <2>5. QED
    BY <2>4 DEF log
<1>3. CASE tx \in DriverTx
  <2>1. tx.from = Internal /\ tx \notin Tx
    BY <1>3, Senders
  <2>2. log = IF tx.call = "deactivate" /\ tx.validator \notin w.dead
              THEN [kind |-> "weight", validator |-> tx.validator, on |-> FALSE] ELSE NoLog
    BY <2>1 DEF LogOf
  <2> HIDE DEF log
  <2>3. Goal
    BY <1>1, <1>3, <2>1, <2>2 DEF Leaves
  <2>4. QED
    BY <2>3 DEF log
<1>4. QED
  BY <1>2, <1>3 DEF AnyTx

\* While transactions are executed and what they tell is heard, whoever has been deactivated is not
\* in the next group, and whoever no transaction sends away stays in it.
LEMMA HeardAfter ==
  ASSUME NEW g, NEW b \in BlockStates(g), NEW rules \in Rules, NEW l \in Seq(Log),
         NEW p \in Processors, NEW txs \in Seq(AnyTx), NEW v,
         OnNewLogs(b, rules, l).next \cap p.world.dead = {}
  PROVE  LET e == Execute(p, txs)
             h == OnNewLogs(b, rules, l \o e.logs)
         IN /\ l \o e.logs \in Seq(Log)
            /\ h.next \cap e.world.dead = {}
            /\ v \in OnNewLogs(b, rules, l).next /\ (\A i \in 1 .. Len(txs) : ~Leaves(txs[i], v))
                 => v \in h.next
<1> DEFINE q(n) == Stages(p, txs)[n]
           h(n) == OnNewLogs(b, rules, l \o q(n).logs)
           Kept_ == v \in OnNewLogs(b, rules, l).next /\ (\A i \in 1 .. Len(txs) : ~Leaves(txs[i], v))
           S == {n \in 0 .. Len(txs) : /\ h(n).next \cap q(n).world.dead = {}
                                       /\ Kept_ => v \in h(n).next}
<1>1. Len(txs) \in Nat /\ Len(p.txs) \in Nat /\ \A i \in 1 .. Len(txs) : txs[i] \in AnyTx
  BY DEF Processors
<1>2. /\ q(0) = [p EXCEPT !.logs = <<>>]
      /\ \A n \in 1 .. Len(txs) : q(n) = Apply(q(n - 1), txs[n], Len(p.txs) + n)
  BY <1>1, StagesIs
<1>3. \A n \in 0 .. Len(txs) : q(n) \in Processors
  BY StagesTyped
<1>4. \A n \in 0 .. Len(txs) : l \o q(n).logs \in Seq(Log)
  <2>1. \A n \in 0 .. Len(txs) : q(n).logs \in Seq(Log)
    BY <1>3 DEF Processors
  <2>2. QED
    BY <2>1
<1> HIDE DEF q
<1>5. 0 \in S
  <2>1. q(0).logs = <<>> /\ q(0).world = p.world
    BY <1>2 DEF Processors
  <2>2. l \o <<>> = l
    OBVIOUS
  <2>3. h(0) = OnNewLogs(b, rules, l)
    BY <2>1, <2>2
  <2> HIDE DEF h
  <2>4. QED
    BY <1>1, <2>1, <2>3
<1>6. ASSUME NEW n \in 0 .. Len(txs), n \in S, n < Len(txs)
      PROVE  n + 1 \in S
  <2> DEFINE tx == txs[n + 1]
             w == q(n).world
             log == LogOf(w, tx)
             k == Len(p.txs) + (n + 1)
             out == Outcome(w, q(n).price, tx).world
             pass == Passes(w, q(n).price, tx)
  <2>1. n + 1 \in 1 .. Len(txs) /\ n + 1 \in 0 .. Len(txs) /\ (n + 1) - 1 = n /\ k \in Nat
    BY <1>1, <1>6
  <2>2. q(n + 1) = Apply(q(n), tx, k)
    BY <1>2, <2>1
  <2>3. tx \in AnyTx /\ q(n) \in Processors /\ w \in Worlds /\ q(n).price \in Nat
          /\ q(n).logs \in Seq(Log)
    BY <1>1, <1>3, <2>1 DEF Processors
  <2> HIDE DEF tx, k, w
  <2>4. IF pass THEN q(n + 1).world = out /\ q(n + 1).logs = Append(q(n).logs, log)
        ELSE q(n + 1).world = w /\ q(n + 1).logs = q(n).logs
    <3>1. \A a \in Processors : \A x \in AnyTx : \A i \in Nat :
            IF Passes(a.world, a.price, x)
            THEN /\ Apply(a, x, i).world = Outcome(a.world, a.price, x).world
                 /\ Apply(a, x, i).logs = Append(a.logs, LogOf(a.world, x))
            ELSE Apply(a, x, i).world = a.world /\ Apply(a, x, i).logs = a.logs
      BY ApplyTyped
    <3> HIDE DEF out, log, pass
    <3>2. IF pass THEN Apply(q(n), tx, k).world = out /\ Apply(q(n), tx, k).logs = Append(q(n).logs, log)
          ELSE Apply(q(n), tx, k).world = w /\ Apply(q(n), tx, k).logs = q(n).logs
      BY <2>1, <2>3, <3>1, Zenon DEF w, out, log, pass
    <3>3. QED
      BY <2>2, <3>2
  <2> HIDE DEF out, log, pass
  <2>5. h(n).next \cap w.dead = {} /\ (Kept_ => v \in h(n).next)
    BY <1>6 DEF w
  <2> DEFINE l1 == l \o q(n).logs
  <2>6. l1 \in Seq(Log) /\ log \in Log
    BY <1>4, <2>3, LogTyped DEF log
  <2>7. CASE ~pass
    BY <2>1, <2>4, <2>5, <2>7
  <2>8. CASE pass
    <3>1. l \o Append(q(n).logs, log) = Append(l1, log)
      <4>1. \A x, y \in Seq(Log) : \A z \in Log : x \o Append(y, z) = Append(x \o y, z)
        OBVIOUS
      <4>2. QED
        BY <2>3, <2>6, <4>1
    <3>2. h(n + 1) = OnNewLog(h(n), rules, log)
      <4>1. OnNewLogs(b, rules, Append(l1, log)) = OnNewLog(OnNewLogs(b, rules, l1), rules, log)
        BY <2>6, HeardAppend
      <4>2. QED
        BY <2>4, <2>8, <3>1, <4>1
    <3>3. h(n) \in BlockStates(g)
      BY <2>6, HeardTyped
    <3> HIDE DEF h
    <3>4. h(n + 1).next = IF log.kind = "weight"
                          THEN IF log.on THEN h(n).next \cup {log.validator}
                               ELSE h(n).next \ {log.validator}
                          ELSE h(n).next
      <4> DEFINE a == h(n)
      <4>1. a \in BlockStates(g) /\ log \in Log
        BY <2>6, <3>3
      <4> HIDE DEF a
      <4>2. OnNewLog(a, rules, log).next = IF log.kind = "weight"
                                           THEN IF log.on THEN a.next \cup {log.validator}
                                                ELSE a.next \ {log.validator}
                                           ELSE a.next
        <5> HIDE DEF log
        <5>1. QED
          BY <4>1, OnNewLogNext, Zenon
      <4>3. QED
        BY <3>2, <4>2 DEF a
    <3>5. /\ tx \in Tx => out.dead = w.dead
          /\ tx \in DriverTx /\ tx.call = "deactivate" => out.dead = w.dead \cup {tx.validator}
          /\ tx \in DriverTx /\ tx.call # "deactivate" => out.dead = w.dead
      BY <2>3, <2>8, OutcomeTyped DEF out, pass
    <3>6. /\ log.kind = "weight" /\ log.on => log.validator \notin w.dead
          /\ tx \in DriverTx => ~(log.kind = "weight" /\ log.on)
          /\ log.kind = "weight" /\ ~log.on /\ log.validator = v => Leaves(tx, v)
          /\ tx \in DriverTx /\ tx.call = "deactivate" /\ tx.validator \notin w.dead
               => log.kind = "weight" /\ ~log.on /\ log.validator = tx.validator
      BY <2>3, LogOfIs DEF log
    <3>7. tx \in Tx \/ tx \in DriverTx
      BY <2>3 DEF AnyTx
    <3>8. h(n + 1).next \cap out.dead = {}
      <4>1. CASE out.dead = w.dead
        BY <2>5, <3>4, <3>6, <4>1
      <4>2. CASE tx \in DriverTx /\ tx.call = "deactivate"
        BY <2>5, <3>4, <3>5, <3>6, <4>2
      <4>3. QED
        BY <3>5, <3>7, <4>1, <4>2
    <3>9. Kept_ => v \in h(n + 1).next
      <4>1. Kept_ => ~Leaves(tx, v)
        BY <2>1 DEF tx
      <4>2. QED
        BY <2>5, <3>4, <3>6, <4>1
    <3>10. QED
      BY <2>1, <2>4, <2>8, <3>8, <3>9
  <2>9. QED
    BY <2>7, <2>8
<1>7. \A n \in 0 .. Len(txs) : n \in S
  <2> HIDE DEF S
  <2>1. QED
    BY <1>1, <1>5, <1>6, UpTo
<1>8. Len(txs) \in 0 .. Len(txs)
  BY <1>1
<1>9. /\ h(Len(txs)).next \cap q(Len(txs)).world.dead = {}
      /\ Kept_ => v \in h(Len(txs)).next
  BY <1>7, <1>8
<1>10. Execute(p, txs).logs = q(Len(txs)).logs /\ Execute(p, txs).world = q(Len(txs)).world
  BY ExecuteTyped DEF q
<1>11. QED
  BY <1>4, <1>8, <1>9, <1>10

----------------------------------------------------------------------------
(* Sums, and the events of a block *)

\* A sum of natural numbers is one.
LEMMA TotalNat ==
  ASSUME NEW seq \in Seq(Nat)
  PROVE  Total(seq) \in Nat
<1> DEFINE S == {n \in 0 .. Len(seq) : Sums(seq)[n] \in Nat}
<1>1. Len(seq) \in Nat /\ \A i \in 1 .. Len(seq) : seq[i] \in Nat
  OBVIOUS
<1>2. /\ Sums(seq)[0] = 0
      /\ \A n \in 1 .. Len(seq) : Sums(seq)[n] = Sums(seq)[n - 1] + seq[n]
  BY <1>1, SumsIs
<1>3. 0 \in S
  BY <1>1, <1>2
<1>4. ASSUME NEW n \in 0 .. Len(seq), n \in S, n < Len(seq)
      PROVE  n + 1 \in S
  <2>1. n + 1 \in 1 .. Len(seq) /\ n + 1 \in 0 .. Len(seq) /\ (n + 1) - 1 = n
    BY <1>1, <1>4
  <2>2. Sums(seq)[n + 1] = Sums(seq)[n] + seq[n + 1]
    BY <1>2, <2>1
  <2>3. QED
    BY <1>1, <1>4, <2>1, <2>2
<1>5. \A n \in 0 .. Len(seq) : n \in S
  <2> HIDE DEF S
  <2>1. QED
    BY <1>1, <1>3, <1>4, UpTo
<1>6. QED
  BY <1>1, <1>5 DEF Total

\* The greatest of some numbers.
LEMMA MaxIs ==
  ASSUME NEW N \in Nat, NEW T \in SUBSET (1 .. N), T # {}
  PROVE  Max(T) \in T /\ \A y \in T : y <= Max(T)
<1> DEFINE R == {n \in Nat : \E x \in T : x + n = N}
<1>1. R \in SUBSET Nat
  OBVIOUS
<1>2. \A x \in T : N - x \in R /\ x \in Nat /\ x \in 1 .. N
  OBVIOUS
<1>3. R # {}
  BY <1>2
<1> HIDE DEF R
<1>4. PICK n \in R : \A k \in R : n <= k
  BY <1>1, <1>3, LeastNat
<1>5. PICK x \in T : x + n = N
  BY <1>4 DEF R
<1>6. \A y \in T : x >= y
  BY <1>1, <1>2, <1>4, <1>5
<1>7. \E z \in T : \A y \in T : z >= y
  BY <1>6
<1>8. Max(T) \in T /\ \A y \in T : Max(T) >= y
  BY <1>7 DEF Max
<1>9. QED
  BY <1>2, <1>8

\* The least of some numbers.
LEMMA MinIs ==
  ASSUME NEW T \in SUBSET Nat, T # {}
  PROVE  Min(T) \in T
<1>1. PICK x \in T : \A y \in T : x <= y
  BY LeastNat
<1>2. QED
  BY <1>1 DEF Min

\* What is known of the events.
LEMMA BodyTyped ==
  /\ Len(Body) \in Nat /\ Event = 1 .. Len(Body)
  /\ \A e \in Event :
       /\ Body[e] \in Payload
       /\ Body[e].epoch \in Nat /\ Body[e].creator \in Validator /\ Body[e].time \in Nat
       /\ Body[e].gas \in Nat /\ Body[e].txs \in Seq(Tx) /\ Body[e].proven \in SUBSET Validator
<1>1. Body \in Seq(Payload)
  BY BlockPipelineAssumption
<1>2. Len(Body) \in Nat /\ Event = 1 .. Len(Body) /\ \A e \in Event : Body[e] \in Payload
  BY <1>1 DEF Event
<1>3. QED
  BY <1>2 DEF Payload

\* The events that fit are some of those there are.
LEMMA SpillTyped ==
  ASSUME NEW X, NEW events \in Seq(X), NEW body, NEW maxBlockGas
  PROVE  SpillBlockEvents(events, body, maxBlockGas) \in Seq(X)
<1> DEFINE fits(i) == Total([k \in 1 .. Len(events) - i + 1 |-> body[events[i + k - 1]].gas])
                        <= maxBlockGas
           Good(i) == /\ \A k \in i .. Len(events) : fits(k)
                      /\ i = 1 \/ ~fits(i - 1)
           first == CHOOSE i \in 1 .. Len(events) + 1 : Good(i)
           R == {i \in 1 .. Len(events) + 1 : \A k \in i .. Len(events) : fits(k)}
<1>1. Len(events) \in Nat /\ \A i \in 1 .. Len(events) : events[i] \in X
  OBVIOUS
<1> HIDE DEF fits
<1>2. R \in SUBSET Nat /\ Len(events) + 1 \in R
  BY <1>1
<1>3. PICK i \in R : \A k \in R : i <= k
  BY <1>2, LeastNat
<1>4. i \in 1 .. Len(events) + 1 /\ \A k \in i .. Len(events) : fits(k)
  BY <1>3
<1>5. i = 1 \/ ~fits(i - 1)
  <2>1. SUFFICES ASSUME i # 1, fits(i - 1)
                 PROVE  FALSE
    OBVIOUS
  <2>2. i - 1 \in 1 .. Len(events) + 1 /\ i - 1 < i
          /\ \A k \in i - 1 .. Len(events) : k = i - 1 \/ k \in i .. Len(events)
    BY <1>1, <1>4, <2>1
  <2>3. i - 1 \in R
    BY <1>4, <2>1, <2>2
  <2>4. i <= i - 1
    BY <1>3, <2>3
  <2>5. QED
    BY <1>4, <2>4
<1>6. \E n \in 1 .. Len(events) + 1 : Good(n)
  BY <1>4, <1>5
<1> HIDE DEF Good
<1>7. first \in 1 .. Len(events) + 1
  BY <1>6
<1> HIDE DEF first
<1>8. SubSeq(events, first, Len(events)) \in Seq(X)
  BY <1>1, <1>7
<1>9. QED
  BY <1>8 DEF SpillBlockEvents, first, Good, fits

\* The transactions of events.
LEMMA TxsOfTyped ==
  ASSUME NEW X, NEW events \in Seq(Event), \A e \in Event : Body[e].txs \in Seq(X)
  PROVE  TxsOf(events, Body) \in Seq(X)
<1> DEFINE t(n) == TxsUpTo(events, Body)[n]
           S == {n \in 0 .. Len(events) : t(n) \in Seq(X)}
<1>1. Len(events) \in Nat /\ \A i \in 1 .. Len(events) : events[i] \in Event
  OBVIOUS
<1>2. t(0) = <<>> /\ \A n \in 1 .. Len(events) : t(n) = t(n - 1) \o Body[events[n]].txs
  BY <1>1, TxsUpToIs
<1> HIDE DEF t
<1>3. 0 \in S
  <2>1. <<>> \in Seq(X)
    OBVIOUS
  <2>2. 0 \in 0 .. Len(events)
    BY <1>1
  <2>3. t(0) \in Seq(X)
    BY <1>2, <2>1, Zenon
  <2>4. QED
    BY <2>2, <2>3
<1>4. ASSUME NEW n \in 0 .. Len(events), n \in S, n < Len(events)
      PROVE  n + 1 \in S
  <2>1. n + 1 \in 1 .. Len(events) /\ n + 1 \in 0 .. Len(events) /\ (n + 1) - 1 = n
    BY <1>1, <1>4
  <2>2. t(n + 1) = t(n) \o Body[events[n + 1]].txs
    BY <1>2, <2>1
  <2>3. t(n) \in Seq(X) /\ Body[events[n + 1]].txs \in Seq(X)
    BY <1>1, <1>4, <2>1
  <2>4. \A x, y \in Seq(X) : x \o y \in Seq(X)
    OBVIOUS
  <2>5. QED
    BY <2>1, <2>2, <2>3, <2>4
<1>5. \A n \in 0 .. Len(events) : n \in S
  <2> HIDE DEF S
  <2>1. QED
    BY <1>1, <1>3, <1>4, UpTo
<1>6. Len(events) \in 0 .. Len(events)
  BY <1>1
<1>7. QED
  BY <1>5, <1>6 DEF TxsOf, t

\* The gas that the creators get back of a block.
LEMMA NotUsedNat ==
  ASSUME NEW receipts \in Seq(Receipts), NEW originator, NEW v,
         NEW done, done = [i \in DOMAIN receipts |-> receipts[i].tx]
  PROVE  NotUsedGas(done, receipts, originator, v) \in Nat
<1> DEFINE unused(i) == IF originator[i] = v THEN done[i].gas - receipts[i].used ELSE 0
           seq == [i \in 1 .. Len(receipts) |-> unused(i)]
<1>1. Len(receipts) \in Nat /\ DOMAIN receipts = 1 .. Len(receipts)
      /\ \A i \in 1 .. Len(receipts) : receipts[i] \in Receipts
  OBVIOUS
<1>2. \A r \in Receipts : r.tx.gas - r.used \in Nat
  <2>1. \A tx \in AnyTx : tx.gas \in Nat
    BY Senders DEF AnyTx
  <2>2. QED
    BY <2>1 DEF Receipts
<1>3. \A i \in 1 .. Len(receipts) : unused(i) \in Nat
  BY <1>1, <1>2
<1> HIDE DEF unused
<1>4. seq \in Seq(Nat)
  BY <1>1, <1>3
<1> HIDE DEF seq
<1>5. Total(seq) \in Nat
  BY <1>4, TotalNat
<1>6. QED
  BY <1>5 DEF NotUsedGas, seq, unused

----------------------------------------------------------------------------
(* What the worker makes of job j *)

P1(j) == Execute(j.p, PostInternalTxs(j.es, j.sealing))
Fit(j) == SpillBlockEvents(j.events, Body, j.es.rules.maxBlockGas)
P2(j) == Execute(P1(j), TxsOf(Fit(j), Body))
Executed(j) == FilterSkippedTxs(P2(j).txs, P2(j).skipped)
Originator(j) ==
  [i \in 1 .. Len(P2(j).receipts) |->
     IF EventCreator(P2(j).receipts[i].tx, Fit(j), Body) \in j.es.validators
     THEN EventCreator(P2(j).receipts[i].tx, Fit(j), Body) ELSE 0]
Back(j, v) == NotUsedGas(Executed(j), P2(j).receipts, Originator(j), v)
Told(j) == OnNewLogs(j.l.bs, j.l.es.rules, P1(j).logs \o P2(j).logs)
Paid(j) == OnNewReceipts([j.l EXCEPT !.bs = Told(j)], Executed(j), P2(j).receipts, Originator(j))
BsOf(j) == [Paid(j) EXCEPT !.root = P2(j).world, !.idx = j.ctx.idx, !.time = j.ctx.time,
                           !.written = Len(Paid(j).cheaters)]
BlockOf(j) == [events |-> Fit(j), txs |-> P1(j).txs, skipped |-> P2(j).skipped,
               root |-> P2(j).world,
               ran |-> [i \in 1 .. Len(P2(j).receipts) |-> P2(j).receipts[i].tx]]
HistoryOf(j, hs) ==
  IF j.sealing THEN Append(hs, [rules |-> j.es.rules, first |-> j.ctx.idx + 1]) ELSE hs
DebtOf(j, dt) ==
  [v \in Validator |-> IF v \in j.es.validators
                       THEN dt[v] - (IF j.sealing THEN j.es.refund[v] ELSE 0) + Back(j, v) ELSE 0]

\* The worker is what it is.
LEMMA FinishIs ==
  ASSUME NEW j, Finish(j)
  PROVE  /\ bs' = BsOf(j) /\ es' = j.es /\ blocks' = Append(blocks, BlockOf(j))
         /\ history' = HistoryOf(j, history) /\ roots' = roots \cup {P2(j).world}
         /\ debt' = DebtOf(j, debt) /\ job' = NoJob
  BY Zenon DEF Finish, P1, Fit, P2, Executed, Originator, Back, Told, Paid, BsOf, BlockOf,
            HistoryOf, DebtOf

\* What is known of the epoch's state.
LEMMA EpochTyped ==
  ASSUME es \in EpochStates(es.validators)
  PROVE  /\ es.epoch \in Nat /\ es.start \in Nat /\ es.rules \in Rules
         /\ es.refund \in [es.validators -> Nat] /\ es.prev \in [es.validators -> Accounts]
         /\ es.rules.price \in Nat /\ es.rules.maxBlockGas \in Nat
<1>1. /\ es.epoch \in Nat /\ es.start \in Nat /\ es.rules \in Rules
      /\ es.refund \in [es.validators -> Nat] /\ es.prev \in [es.validators -> Accounts]
  BY DEF EpochStates
<1>2. \A r \in Rules : r["price"] \in Nat /\ r["maxBlockGas"] \in Nat
  BY DEF Rules
<1>3. es.rules.price \in Nat /\ es.rules.maxBlockGas \in Nat
  BY <1>1, <1>2
<1>4. QED
  BY <1>1, <1>3

\* What is known of a job.
LEMMA JobTyped ==
  ASSUME es \in EpochStates(es.validators), NEW j \in Jobs(es)
  PROVE  /\ j.busy /\ j.es = es /\ j.ctx.idx \in Nat /\ j.ctx.time \in Nat
         /\ j.l.bs \in BlockStates(es.validators) /\ j.l.es = es /\ j.p \in Processors
         /\ j.sealing \in BOOLEAN /\ j.events \in Seq(Event)
         /\ \A h : [j.l EXCEPT !.bs = h].bs = h /\ [j.l EXCEPT !.bs = h].es = es
<1>1. /\ j.busy = TRUE /\ j.es = es /\ j.ctx \in [idx : Nat, time : Nat]
      /\ j.l \in [bs : BlockStates(es.validators), es : {es}] /\ j.p \in Processors
      /\ j.sealing \in BOOLEAN /\ j.events \in Seq(Event)
  BY DEF Jobs
<1>2. QED
  BY <1>1

\* The driver's transactions after the seal do not deactivate.
LEMMA PostTyped ==
  ASSUME es.validators \subseteq Validator, NEW sealing \in BOOLEAN
  PROVE  /\ PostInternalTxs(es, sealing) \in Seq(DriverTx)
         /\ \A i \in 1 .. Len(PostInternalTxs(es, sealing)) :
              PostInternalTxs(es, sealing)[i].call # "deactivate"
         /\ \A i \in 1 .. Len(PostInternalTxs(es, sealing)) :
              PostInternalTxs(es, sealing)[i] \in DriverTx
<1> DEFINE x == SealEpochValidators(es.validators)
           t == PostInternalTxs(es, sealing)
<1>1. x \in DriverTx /\ x.call # "deactivate"
  BY DEF DriverTx, SealEpochValidators
<1> HIDE DEF x
<1>2. t = <<x>> \/ t = <<>>
  BY DEF PostInternalTxs, x
<1>3. <<x>> \in Seq(DriverTx) /\ \A i \in 1 .. Len(<<x>>) : <<x>>[i] = x
  BY <1>1
<1>4. <<>> \in Seq(DriverTx) /\ \A i \in 1 .. Len(<<>>) : FALSE
  OBVIOUS
<1> HIDE DEF t
<1>5. /\ t \in Seq(DriverTx)
      /\ \A i \in 1 .. Len(t) : t[i].call # "deactivate" /\ t[i] \in DriverTx
  <2>1. CASE t = <<x>>
    BY <1>1, <1>3, <2>1
  <2>2. CASE t = <<>>
    BY <1>4, <2>2
  <2>3. QED
    BY <1>2, <2>1, <2>2
<1>6. QED
  BY <1>5 DEF t

\* Transactions that do not deactivate anybody.
LEMMA NoneDead ==
  ASSUME NEW p \in Processors, NEW txs \in Seq(AnyTx),
         \A i \in 1 .. Len(txs) : ~(txs[i] \in DriverTx /\ txs[i].call = "deactivate")
  PROVE  Execute(p, txs).world.dead = p.world.dead
<1> DEFINE d == Execute(p, txs).world.dead
<1>1. /\ p.world.dead \subseteq d
      /\ \A v \in d : v \in p.world.dead
                      \/ \E i \in 1 .. Len(txs) : txs[i] \in DriverTx /\ txs[i].call = "deactivate"
                                                   /\ v = txs[i].validator
  BY ExecuteTyped, Zenon
<1> HIDE DEF d
<1>2. d = p.world.dead
  BY <1>1
<1>3. QED
  BY <1>2 DEF d

\* What the worker executes, and what it does to the world and to the next group.
LEMMA WorkTyped ==
  ASSUME es.validators \subseteq Validator, es \in EpochStates(es.validators), NEW j \in Jobs(es),
         NEW v
  PROVE  /\ P1(j) \in Processors /\ P2(j) \in Processors
         /\ P1(j).price = j.p.price /\ P2(j).price = j.p.price
         /\ P1(j).txs = j.p.txs \o PostInternalTxs(es, j.sealing)
         /\ PostInternalTxs(es, j.sealing) \in Seq(DriverTx)
         /\ Fit(j) \in Seq(Event) /\ TxsOf(Fit(j), Body) \in Seq(Tx)
         /\ P2(j).txs = P1(j).txs \o TxsOf(Fit(j), Body)
         /\ P1(j).world.dead = j.p.world.dead /\ P2(j).world.dead = j.p.world.dead
         /\ Told(j) \in BlockStates(es.validators) /\ Untold(Told(j), j.l.bs)
         /\ j.l.bs.next \cap j.p.world.dead = {} =>
              /\ Told(j).next \cap P2(j).world.dead = {}
              /\ Stays(v) /\ v \in j.l.bs.next => v \in Told(j).next
<1> DEFINE post == PostInternalTxs(es, j.sealing)
           rest == TxsOf(Fit(j), Body)
           g == es.validators
<1>1. /\ j.es = es /\ j.l.bs \in BlockStates(g) /\ j.l.es = es /\ j.p \in Processors
      /\ j.sealing \in BOOLEAN /\ j.events \in Seq(Event) /\ es.rules \in Rules
  BY JobTyped, EpochTyped
<1>2. /\ post \in Seq(DriverTx)
      /\ \A i \in 1 .. Len(post) : post[i].call # "deactivate"
      /\ \A i \in 1 .. Len(post) : post[i] \in DriverTx
  BY <1>1, PostTyped
<1>3. post \in Seq(AnyTx)
  BY <1>2, SeqWithin DEF AnyTx
<1>4. P1(j) = Execute(j.p, post)
  BY <1>1 DEF P1
<1> HIDE DEF post
<1>5. P1(j) \in Processors /\ P1(j).price = j.p.price /\ P1(j).txs = j.p.txs \o post
  BY <1>1, <1>3, <1>4, ExecuteTyped
<1>6. P1(j).world.dead = j.p.world.dead
  <2>1. \A i \in 1 .. Len(post) : ~(post[i] \in DriverTx /\ post[i].call = "deactivate")
    BY <1>2
  <2>2. Execute(j.p, post).world.dead = j.p.world.dead
    BY <1>1, <1>3, <2>1, NoneDead
  <2>3. QED
    BY <1>4, <2>2
<1>7. Fit(j) \in Seq(Event)
  BY <1>1, SpillTyped DEF Fit
<1>8. \A e \in Event : Body[e].txs \in Seq(Tx)
  BY BodyTyped
<1>9. rest \in Seq(Tx)
  BY <1>7, <1>8, TxsOfTyped
<1>10. rest \in Seq(AnyTx) /\ \A i \in 1 .. Len(rest) : rest[i] \in Tx
  BY <1>9, SeqWithin DEF AnyTx
<1>11. P2(j) = Execute(P1(j), rest)
  BY DEF P2
<1> HIDE DEF rest
<1>12. P2(j) \in Processors /\ P2(j).price = P1(j).price /\ P2(j).txs = P1(j).txs \o rest
  <2>1. P1(j) \in Processors /\ rest \in Seq(AnyTx)
    BY <1>5, <1>10
  <2>2. /\ Execute(P1(j), rest) \in Processors /\ Execute(P1(j), rest).price = P1(j).price
        /\ Execute(P1(j), rest).txs = P1(j).txs \o rest
    BY <2>1, ExecuteTyped
  <2>3. QED
    BY <1>11, <2>2
<1>13. Tx \cap DriverTx = {}
  BY Senders
<1>14. P2(j).world.dead = P1(j).world.dead
  <2>1. \A i \in 1 .. Len(rest) : ~(rest[i] \in DriverTx /\ rest[i].call = "deactivate")
    BY <1>10, <1>13
  <2>2. Execute(P1(j), rest).world.dead = P1(j).world.dead
    BY <1>5, <1>10, <2>1, NoneDead
  <2>3. QED
    BY <1>11, <2>2
<1>15. P1(j).logs \in Seq(Log) /\ P2(j).logs \in Seq(Log) /\ P1(j).logs \o P2(j).logs \in Seq(Log)
  <2>1. P1(j).logs \in Seq(Log) /\ P2(j).logs \in Seq(Log)
    BY <1>5, <1>12 DEF Processors
  <2>2. QED
    BY <2>1
<1>16. Told(j) \in BlockStates(g) /\ Untold(Told(j), j.l.bs)
  BY <1>1, <1>15, HeardTyped DEF Told
<1>17. ASSUME j.l.bs.next \cap j.p.world.dead = {}
       PROVE  /\ Told(j).next \cap P2(j).world.dead = {}
              /\ Stays(v) /\ v \in j.l.bs.next => v \in Told(j).next
  <2> DEFINE b0 == j.l.bs
             rules == es.rules
             none == <<>>
             one == OnNewLogs(b0, rules, P1(j).logs)
  <2>1. OnNewLogs(b0, rules, none) = b0
    BY HeardIs DEF OnNewLogs
  <2>2. none \in Seq(Log) /\ none \o P1(j).logs = P1(j).logs
    BY <1>15
  <2>3. b0 \in BlockStates(g) /\ rules \in Rules
    BY <1>1
  <2> HIDE DEF none, b0, rules, one
  <2>4. b0.next \cap j.p.world.dead = {}
    BY <1>17 DEF b0
  <2>5. \A i \in 1 .. Len(post) : ~Leaves(post[i], v)
    BY <1>2, <1>13 DEF Leaves
  <2>6. /\ one.next \cap P1(j).world.dead = {}
        /\ v \in b0.next => v \in one.next
    <3>1. OnNewLogs(b0, rules, none).next \cap j.p.world.dead = {}
      BY <2>1, <2>4
    <3>2. /\ OnNewLogs(b0, rules, none \o Execute(j.p, post).logs).next
               \cap Execute(j.p, post).world.dead = {}
          /\ v \in OnNewLogs(b0, rules, none).next /\ (\A i \in 1 .. Len(post) : ~Leaves(post[i], v))
               => v \in OnNewLogs(b0, rules, none \o Execute(j.p, post).logs).next
      BY <1>1, <1>3, <2>2, <2>3, <3>1, HeardAfter
    <3>3. QED
      BY <1>4, <2>1, <2>2, <2>5, <3>2 DEF one
  <2>7. Stays(v) => \A i \in 1 .. Len(rest) : ~Leaves(rest[i], v)
    <3>1. SUFFICES ASSUME Stays(v)
                   PROVE  \A i \in 1 .. Len(rest) : ~Leaves(rest[i], v)
      OBVIOUS
    <3> DEFINE off == [kind |-> "weight", validator |-> v, on |-> FALSE]
               X == {tx \in Tx : tx.log # off}
    <3>2. \A e \in Event : \A i \in DOMAIN Body[e].txs : Body[e].txs[i].log # off
      BY <3>1 DEF Stays
    <3> HIDE DEF off
    <3>3. \A e \in Event : \A i \in DOMAIN Body[e].txs : Body[e].txs[i] \in X
      BY <1>8, <3>2
    <3>4. \A e \in Event : Body[e].txs \in Seq(X)
      <4> HIDE DEF X
      <4>1. QED
        BY <1>8, <3>3
    <3>5. rest \in Seq(X)
      <4> HIDE DEF X
      <4>1. QED
        BY <1>7, <3>4, TxsOfTyped DEF rest
    <3>6. \A i \in 1 .. Len(rest) : rest[i].log # off
      BY <3>5
    <3>7. QED
      BY <1>10, <1>13, <3>6 DEF Leaves, off
  <2>8. /\ Told(j).next \cap P2(j).world.dead = {}
        /\ v \in one.next /\ (\A i \in 1 .. Len(rest) : ~Leaves(rest[i], v)) => v \in Told(j).next
    <3>1. Told(j) = OnNewLogs(b0, rules, P1(j).logs \o Execute(P1(j), rest).logs)
      BY <1>1, <1>11 DEF Told, b0, rules
    <3>2. /\ OnNewLogs(b0, rules, P1(j).logs \o Execute(P1(j), rest).logs).next
               \cap Execute(P1(j), rest).world.dead = {}
          /\ v \in OnNewLogs(b0, rules, P1(j).logs).next
               /\ (\A i \in 1 .. Len(rest) : ~Leaves(rest[i], v))
               => v \in OnNewLogs(b0, rules, P1(j).logs \o Execute(P1(j), rest).logs).next
      BY <1>5, <1>10, <1>15, <2>3, <2>6, HeardAfter DEF one
    <3>3. QED
      BY <1>11, <3>1, <3>2 DEF one
  <2>9. QED
    BY <2>6, <2>7, <2>8 DEF b0
<1>18. QED
  BY <1>2, <1>5, <1>6, <1>7, <1>9, <1>12, <1>14, <1>16, <1>17 DEF post, rest

\* What a block in the making is, of what the invariant knows of it.
LEMMA BlockWork ==
  ASSUME es.validators \subseteq Validator, es \in EpochStates(es.validators), NEW j \in Jobs(es),
         NEW w \in Worlds, Sound(j.p, w), \A i \in DOMAIN j.p.txs : j.p.txs[i] \in DriverTx
  PROVE  /\ Sound(P2(j), w)
         /\ Executed(j) = [i \in DOMAIN P2(j).receipts |-> P2(j).receipts[i].tx]
         /\ BlockOf(j) \in Blocks
         /\ GetBlockTxs(BlockOf(j), Body) = BlockOf(j).ran
         /\ BlockOf(j).root = P2(j).world
         /\ \A rules : rules.price = j.p.price => Reexecute(w, BlockOf(j), Body, rules) = BlockOf(j).root
<1> DEFINE post == PostInternalTxs(es, j.sealing)
           rest == TxsOf(Fit(j), Body)
           ran == Executed(j)
<1>1. j.es = es /\ j.p \in Processors
  BY JobTyped
<1>2. /\ P1(j) \in Processors /\ P2(j) \in Processors /\ P2(j).price = j.p.price
      /\ P1(j).txs = j.p.txs \o post /\ P2(j).txs = P1(j).txs \o rest
      /\ post \in Seq(DriverTx) /\ rest \in Seq(Tx) /\ Fit(j) \in Seq(Event)
  BY WorkTyped
<1>3. post \in Seq(AnyTx) /\ rest \in Seq(AnyTx)
  BY <1>2, SeqWithin DEF AnyTx
<1>4. P1(j) = Execute(j.p, post) /\ P2(j) = Execute(P1(j), rest)
  BY <1>1 DEF P1, P2
<1> HIDE DEF post, rest
<1>5. Sound(P1(j), w)
  BY <1>1, <1>3, <1>4, ExecuteSound
<1>6. Sound(P2(j), w)
  <2>1. Sound(Execute(P1(j), rest), w)
    BY <1>2, <1>3, <1>5, ExecuteSound
  <2>2. QED
    BY <1>4, <2>1
<1>7. /\ ran = [i \in DOMAIN P2(j).receipts |-> P2(j).receipts[i].tx]
      /\ P2(j).world = Stages(NewProcessor(w, [price |-> P2(j).price]), ran)[Len(ran)].world
  BY <1>6 DEF Sound, Replays, Executed
<1>8. P2(j).receipts \in Seq(Receipts) /\ P2(j).skipped \in Seq(Nat) /\ P2(j).world \in Worlds
      /\ P2(j).price \in Nat /\ P2(j).txs \in Seq(AnyTx)
  BY <1>2 DEF Processors
<1>9. BlockOf(j).ran = ran
  BY <1>7, <1>8 DEF BlockOf
<1>10. ran \in Seq(AnyTx)
  BY <1>8, FilterIs DEF Executed
<1>11. P1(j).txs \in Seq(DriverTx)
  <2>1. j.p.txs \in Seq(AnyTx)
    BY <1>1 DEF Processors
  <2>2. j.p.txs \in Seq(DriverTx)
    BY <2>1
  <2>3. \A x, y \in Seq(DriverTx) : x \o y \in Seq(DriverTx)
    OBVIOUS
  <2>4. QED
    BY <1>2, <2>2, <2>3
<1> HIDE DEF ran
<1>12. BlockOf(j) \in Blocks /\ BlockOf(j).root = P2(j).world
  <2>1. BlockOf(j) = [events |-> Fit(j), txs |-> P1(j).txs, skipped |-> P2(j).skipped,
                      root |-> P2(j).world, ran |-> ran]
    BY <1>9 DEF BlockOf
  <2>2. BlockOf(j) \in Blocks
    BY <1>2, <1>8, <1>10, <1>11, <2>1 DEF Blocks
  <2>3. QED
    BY <2>1, <2>2
<1>13. GetBlockTxs(BlockOf(j), Body) = ran
  <2>1. /\ BlockOf(j).txs = P1(j).txs /\ BlockOf(j).events = Fit(j)
        /\ BlockOf(j).skipped = P2(j).skipped
    BY DEF BlockOf
  <2>2. GetBlockTxs(BlockOf(j), Body) = FilterSkippedTxs(P1(j).txs \o rest, P2(j).skipped)
    BY <2>1 DEF GetBlockTxs, rest
  <2>3. QED
    BY <1>2, <2>2 DEF ran, Executed
<1>14. ASSUME NEW rules, rules.price = j.p.price
       PROVE  Reexecute(w, BlockOf(j), Body, rules) = BlockOf(j).root
  <2> DEFINE p == NewProcessor(w, rules)
  <2>1. p = NewProcessor(w, [price |-> P2(j).price])
    BY <1>2, <1>14 DEF NewProcessor
  <2>2. p \in Processors
    BY <1>2, <1>8, <1>14, NewTyped
  <2> HIDE DEF p
  <2>3. Execute(p, ran).world = Stages(p, ran)[Len(ran)].world
    BY <1>10, <2>2, ExecuteTyped
  <2>4. Reexecute(w, BlockOf(j), Body, rules) = Execute(p, ran).world
    BY <1>13 DEF Reexecute, p
  <2>5. QED
    BY <1>7, <1>12, <2>1, <2>3, <2>4
<1>15. QED
  BY <1>6, <1>7, <1>9, <1>12, <1>13, <1>14 DEF ran

\* The states that the worker leaves.
LEMMA StatesWork ==
  ASSUME es.validators \subseteq Validator, es \in EpochStates(es.validators), NEW j \in Jobs(es),
         j.l.bs.cheaters = <<>>,
         Executed(j) = [i \in DOMAIN P2(j).receipts |-> P2(j).receipts[i].tx]
  PROVE  /\ \A v : Back(j, v) \in Nat
         /\ BsOf(j) \in BlockStates(es.validators)
         /\ BsOf(j).idx = j.ctx.idx /\ BsOf(j).time = j.ctx.time /\ BsOf(j).root = P2(j).world
         /\ BsOf(j).cheaters = <<>> /\ BsOf(j).next = Told(j).next
         /\ \A v \in es.validators :
              /\ BsOf(j).states[v].uptime = j.l.bs.states[v].uptime
              /\ BsOf(j).states[v].online = j.l.bs.states[v].online
              /\ BsOf(j).states[v].lastBlock = j.l.bs.states[v].lastBlock
              /\ BsOf(j).states[v].refund = j.l.bs.states[v].refund + Back(j, v)
              /\ BsOf(j).states[v].event = j.l.bs.states[v].event
<1> DEFINE g == es.validators
           b == Told(j)
           back == [v \in g |-> Back(j, v)]
           info(v) == [b.states[v] EXCEPT !.refund = @ + Back(j, v)]
           states == [v \in g |-> info(v)]
<1>1. /\ j.es = es /\ j.l.bs \in BlockStates(g) /\ j.p \in Processors /\ j.ctx.idx \in Nat
      /\ j.ctx.time \in Nat /\ [j.l EXCEPT !.bs = b].bs = b /\ [j.l EXCEPT !.bs = b].es = es
  BY JobTyped
<1>2. P2(j) \in Processors /\ b \in BlockStates(g) /\ Untold(b, j.l.bs)
  BY WorkTyped
<1>3. P2(j).receipts \in Seq(Receipts) /\ P2(j).world \in Worlds
  BY <1>2 DEF Processors
<1>4. \A v : Back(j, v) \in Nat
  BY <1>3, NotUsedNat DEF Back
<1>5. Paid(j) = [b EXCEPT !.states = states]
  <2> DEFINE l == [j.l EXCEPT !.bs = b]
  <2>1. l.bs = b /\ l.es = es
    BY <1>1
  <2>2. Paid(j) = OnNewReceipts(l, Executed(j), P2(j).receipts, Originator(j))
    BY DEF Paid
  <2> HIDE DEF l, b
  <2>3. OnNewReceipts(l, Executed(j), P2(j).receipts, Originator(j)) =
          [l.bs EXCEPT !.states = [v \in l.es.validators |->
             [l.bs.states[v] EXCEPT !.refund = @ + Back(j, v)]]]
    BY DEF OnNewReceipts, Back
  <2>4. QED
    BY <2>1, <2>2, <2>3
<1>6. b.states \in [g -> Infos] /\ b.cheaters = <<>> /\ Len(b.cheaters) = 0
      /\ b.states = j.l.bs.states
  BY <1>2 DEF BlockStates, Untold
<1> HIDE DEF b
<1>7. \A v \in g : /\ info(v) \in Infos
                   /\ info(v).uptime = b.states[v].uptime /\ info(v).online = b.states[v].online
                   /\ info(v).lastBlock = b.states[v].lastBlock
                   /\ info(v).refund = b.states[v].refund + Back(j, v)
                   /\ info(v).event = b.states[v].event
  <2>1. \A i \in Infos : \A n \in Nat :
          LET k == [i EXCEPT !.refund = @ + n]
          IN /\ k \in Infos
             /\ k.uptime = i.uptime /\ k.online = i.online /\ k.lastBlock = i.lastBlock
             /\ k.refund = i.refund + n /\ k.event = i.event
    BY DEF Infos
  <2>2. SUFFICES ASSUME NEW v \in g
                 PROVE  /\ info(v) \in Infos
                        /\ info(v).uptime = b.states[v].uptime /\ info(v).online = b.states[v].online
                        /\ info(v).lastBlock = b.states[v].lastBlock
                        /\ info(v).refund = b.states[v].refund + Back(j, v)
                        /\ info(v).event = b.states[v].event
    OBVIOUS
  <2>3. b.states[v] \in Infos
    BY <1>6
  <2>4. QED
    BY <1>4, <2>1, <2>3
<1> HIDE DEF info
<1>8. states \in [g -> Infos]
  BY <1>7
<1>9. \A v \in g : states[v] = info(v)
  OBVIOUS
<1> HIDE DEF states
<1>10. /\ b = [idx |-> b.idx, time |-> b.time, root |-> b.root, gas |-> b.gas, cheaters |-> b.cheaters,
               written |-> b.written, states |-> b.states, next |-> b.next, dirty |-> b.dirty,
               advance |-> b.advance]
       /\ b.gas \in Nat /\ b.next \in SUBSET Validator /\ b.dirty \in Rules \cup {NoRules}
       /\ b.advance \in 0 .. MaxAdvanceEpochs /\ b.cheaters \in Seq(Validator)
  BY <1>2 DEF BlockStates
<1>11. Paid(j) = [idx |-> b.idx, time |-> b.time, root |-> b.root, gas |-> b.gas,
         cheaters |-> b.cheaters,
                  written |-> b.written, states |-> states, next |-> b.next, dirty |-> b.dirty,
                  advance |-> b.advance]
  BY <1>5, <1>10
<1>12. BsOf(j) = [idx |-> j.ctx.idx, time |-> j.ctx.time, root |-> P2(j).world, gas |-> b.gas,
                  cheaters |-> b.cheaters, written |-> Len(b.cheaters), states |-> states,
                  next |-> b.next, dirty |-> b.dirty, advance |-> b.advance]
  <2> DEFINE n == Len(Paid(j).cheaters)
             a == Paid(j)
  <2>1. n = Len(b.cheaters)
    BY <1>11
  <2>2. BsOf(j) = [a EXCEPT !.root = P2(j).world, !.idx = j.ctx.idx, !.time = j.ctx.time,
                            !.written = n]
    BY DEF BsOf
  <2> HIDE DEF n, a
  <2>3. a = [idx |-> b.idx, time |-> b.time, root |-> b.root, gas |-> b.gas, cheaters |-> b.cheaters,
             written |-> b.written, states |-> states, next |-> b.next, dirty |-> b.dirty,
             advance |-> b.advance]
    BY <1>11 DEF a
  <2>4. QED
    BY <2>1, <2>2, <2>3
<1>13. BsOf(j) \in BlockStates(g)
  BY <1>1, <1>3, <1>6, <1>8, <1>10, <1>12 DEF BlockStates
<1>14. /\ BsOf(j).idx = j.ctx.idx /\ BsOf(j).time = j.ctx.time /\ BsOf(j).root = P2(j).world
       /\ BsOf(j).cheaters = <<>> /\ BsOf(j).next = b.next /\ BsOf(j).states = states
  BY <1>6, <1>12
<1>15. QED
  BY <1>4, <1>6, <1>7, <1>9, <1>13, <1>14 DEF b

----------------------------------------------------------------------------
(* The worker keeps the invariant *)

\* An element of a sequence.
LEMMA SeqElement == ASSUME NEW X, NEW s \in Seq(X) PROVE \A i \in DOMAIN s : s[i] \in X
  OBVIOUS

\* The rules of a block are those of the highest epoch that has begun; an epoch that begins after
\* it does not change them.
LEMMA RulesAt ==
  ASSUME NEW hs \in Seq([rules : Rules, first : Nat]), Len(hs) > 0, hs[1].first = 1,
         NEW n \in Nat \ {0}, NEW x \in [rules : Rules, first : Nat], n < x.first
  PROVE  /\ {e \in DOMAIN Append(hs, x) : Append(hs, x)[e].first <= n}
              = {e \in DOMAIN hs : hs[e].first <= n}
         /\ Max({e \in DOMAIN hs : hs[e].first <= n}) \in 1 .. Len(hs)
         /\ Append(hs, x)[Max({e \in DOMAIN hs : hs[e].first <= n})]
              = hs[Max({e \in DOMAIN hs : hs[e].first <= n})]
         /\ (\A i \in DOMAIN hs : hs[i].first <= n)
              => Max({e \in DOMAIN hs : hs[e].first <= n}) = Len(hs)
<1> DEFINE T == {e \in DOMAIN hs : hs[e].first <= n}
           more == Append(hs, x)
<1>1. /\ Len(hs) \in Nat /\ DOMAIN hs = 1 .. Len(hs) /\ DOMAIN more = 1 .. Len(hs) + 1
      /\ (\A i \in 1 .. Len(hs) : more[i] = hs[i]) /\ more[Len(hs) + 1] = x
  OBVIOUS
<1>2. x.first \in Nat
  OBVIOUS
<1>3. \A i \in 1 .. Len(hs) : i \in 1 .. Len(hs) + 1
  BY <1>1
<1>4. \A i \in 1 .. Len(hs) + 1 : i \in 1 .. Len(hs) \/ i = Len(hs) + 1
  BY <1>1
<1> HIDE DEF more
<1>5. {e \in DOMAIN more : more[e].first <= n} = T
  <2>1. ~(x.first <= n)
    BY <1>2
  <2>2. QED
    BY <1>1, <1>3, <1>4, <2>1
<1>6. T \in SUBSET (1 .. Len(hs)) /\ T # {}
  <2>1. 1 \in T
    BY <1>1
  <2>2. QED
    BY <1>1, <2>1
<1>7. Max(T) \in T /\ \A y \in T : y <= Max(T)
  BY <1>1, <1>6, MaxIs
<1>8. (\A i \in DOMAIN hs : hs[i].first <= n) => Max(T) = Len(hs)
  <2>1. SUFFICES ASSUME \A i \in DOMAIN hs : hs[i].first <= n
                 PROVE  Max(T) = Len(hs)
    OBVIOUS
  <2>2. Len(hs) \in T
    BY <1>1, <2>1
  <2>3. Max(T) \in 1 .. Len(hs) /\ Len(hs) <= Max(T)
    BY <1>6, <1>7, <2>2
  <2>4. QED
    BY <1>1, <2>3
<1>9. QED
  BY <1>1, <1>5, <1>6, <1>7, <1>8 DEF more

\* What the database has stays right.
LEMMA FinishStored ==
  ASSUME NEW b, NEW j, NEW bl, NEW hs, NEW rt, NEW dt,
         Inv(b, j, bl, hs, rt, dt), j \in Jobs(es)
  PROVE  Stored(BsOf(j), NoJob, Append(bl, BlockOf(j)), HistoryOf(j, hs))
<1> DEFINE B == BlockOf(j)
           more == Append(bl, B)
           begun == [rules |-> es.rules, first |-> j.ctx.idx + 1]
           later == HistoryOf(j, hs)
           N == b.idx + 1
<1>1. /\ es.validators \subseteq Validator /\ es \in EpochStates(es.validators)
      /\ b \in BlockStates(es.validators) /\ bl \in Seq(Blocks)
      /\ hs \in Seq([rules : Rules, first : Nat])
  BY DEF Inv, Typed
<1>2. j.busy /\ j.es = es /\ j.ctx.idx \in Nat /\ j.p \in Processors /\ j.sealing \in BOOLEAN
  BY <1>1, JobTyped
<1>3. /\ Len(bl) = b.idx /\ b.root = RootOf(bl, b.idx) /\ b.root \in Worlds /\ b.idx \in Nat
      /\ Len(hs) > 0 /\ hs[1].first = 1 /\ \A i \in DOMAIN hs : hs[i].first <= b.idx + 1
      /\ \A i \in DOMAIN j.p.txs : j.p.txs[i] \in DriverTx
      /\ j.p.price = hs[Len(hs)].rules.price
      /\ Sound(j.p, b.root)
      /\ ~j.sealing => es.rules = hs[Len(hs)].rules
      /\ \A n \in DOMAIN bl : GetBlockTxs(bl[n], Body) = bl[n].ran /\ Again(n, bl, hs) = bl[n].root
  BY <1>1, <1>2 DEF Inv, Stored, BlockStates
<1>4. j.ctx.idx = N
  BY <1>2 DEF Inv, InTime
<1>5. j.l.bs.cheaters = <<>>
  BY <1>2 DEF Inv, Punished
<1>6. /\ Executed(j) = [i \in DOMAIN P2(j).receipts |-> P2(j).receipts[i].tx]
      /\ B \in Blocks /\ GetBlockTxs(B, Body) = B.ran /\ B.root = P2(j).world
      /\ \A rules : rules.price = j.p.price => Reexecute(b.root, B, Body, rules) = B.root
  BY <1>1, <1>3, BlockWork
<1>7. BsOf(j).idx = N /\ BsOf(j).root = P2(j).world
  BY <1>1, <1>4, <1>5, <1>6, StatesWork
<1>8. es.rules \in Rules
  BY <1>1, EpochTyped
<1>9. begun \in [rules : Rules, first : Nat] /\ begun.first = N + 1 /\ begun.rules = es.rules
  BY <1>2, <1>4, <1>8
<1> HIDE DEF B, begun
<1>10. later = IF j.sealing THEN Append(hs, begun) ELSE hs
  BY <1>2 DEF HistoryOf, begun
<1> HIDE DEF later
<1>11. /\ more \in Seq(Blocks) /\ Len(more) = N /\ more[N] = B /\ DOMAIN more = 1 .. N
       /\ DOMAIN bl = 1 .. b.idx
       /\ \A n \in 1 .. b.idx : more[n] = bl[n]
  BY <1>1, <1>3, <1>6
<1> HIDE DEF more
<1>12. /\ Len(later) > 0 /\ later[1].first = 1 /\ \A i \in DOMAIN later : later[i].first <= N + 1
       /\ es.rules = later[Len(later)].rules
  <2>0. \A i \in DOMAIN hs : hs[i].first \in Nat
    <3>1. \A i \in DOMAIN hs : hs[i] \in [rules : Rules, first : Nat]
      BY <1>1, SeqElement
    <3>2. \A x \in [rules : Rules, first : Nat] : x.first \in Nat
      OBVIOUS
    <3>3. QED
      BY <3>1, <3>2
  <2>1. CASE j.sealing
    <3>1. /\ later = Append(hs, begun) /\ Len(hs) \in Nat /\ DOMAIN hs = 1 .. Len(hs)
          /\ DOMAIN later = 1 .. Len(hs) + 1 /\ Len(later) = Len(hs) + 1
          /\ later[Len(hs) + 1] = begun /\ \A i \in 1 .. Len(hs) : later[i] = hs[i]
      BY <1>1, <1>10, <2>1
    <3>2. \A i \in 1 .. Len(hs) + 1 : i \in 1 .. Len(hs) \/ i = Len(hs) + 1
      BY <3>1
    <3>3. \A i \in 1 .. Len(hs) : hs[i].first \in Nat
      BY <2>0, <3>1
    <3>4. QED
      BY <1>3, <1>9, <3>1, <3>2, <3>3
  <2>2. CASE ~j.sealing
    <3>1. \A i \in DOMAIN hs : hs[i].first \in Nat
      BY <2>0
    <3>2. QED
      BY <1>3, <1>10, <2>2, <3>1
  <2>3. QED
    BY <1>2, <2>1, <2>2
<1>13. \A n \in 1 .. N : later[Max({e \in DOMAIN later : later[e].first <= n})].rules
                         = hs[Max({e \in DOMAIN hs : hs[e].first <= n})].rules
  <2>1. SUFFICES ASSUME NEW n \in 1 .. N
                 PROVE  later[Max({e \in DOMAIN later : later[e].first <= n})].rules
                         = hs[Max({e \in DOMAIN hs : hs[e].first <= n})].rules
    OBVIOUS
  <2>2. CASE j.sealing
    <3>1. n \in Nat \ {0} /\ n < begun.first
      BY <1>3, <1>9
    <3>2. /\ {e \in DOMAIN Append(hs, begun) : Append(hs, begun)[e].first <= n}
                = {e \in DOMAIN hs : hs[e].first <= n}
          /\ Append(hs, begun)[Max({e \in DOMAIN hs : hs[e].first <= n})]
                = hs[Max({e \in DOMAIN hs : hs[e].first <= n})]
      BY <1>1, <1>3, <1>9, <3>1, RulesAt
    <3>3. later = Append(hs, begun)
      BY <1>10, <2>2
    <3>4. QED
      BY <3>2, <3>3, Zenon
  <2>3. CASE ~j.sealing
    BY <1>10, <2>3
  <2>4. QED
    BY <1>2, <2>2, <2>3
<1>14. hs[Max({e \in DOMAIN hs : hs[e].first <= N})].rules = hs[Len(hs)].rules
  <2>1. N \in Nat \ {0} /\ N < begun.first
    BY <1>3, <1>9
  <2>2. QED
    BY <1>1, <1>3, <1>9, <2>1, RulesAt
<1>15. \A n \in 0 .. b.idx : RootOf(more, n) = RootOf(bl, n)
  BY <1>3, <1>11 DEF RootOf
<1>16. \A n \in DOMAIN more : GetBlockTxs(more[n], Body) = more[n].ran
         /\ Again(n, more, later) = more[n].root
  <2>1. SUFFICES ASSUME NEW n \in 1 .. N
                 PROVE  GetBlockTxs(more[n], Body) = more[n].ran /\ Again(n, more, later) = more[n].root
    BY <1>11
  <2>2. n - 1 \in 0 .. b.idx
    BY <1>3
  <2>3. Again(n, more, later) = Reexecute(RootOf(bl, n - 1), more[n], Body,
                                          hs[Max({e \in DOMAIN hs : hs[e].first <= n})].rules)
    BY <1>13, <1>15, <2>2 DEF Again
  <2>4. CASE n \in 1 .. b.idx
    <3>1. Again(n, more, later) = Again(n, bl, hs)
      BY <1>11, <2>3, <2>4 DEF Again
    <3>2. QED
      BY <1>3, <1>11, <2>4, <3>1
  <2>5. CASE n = N
    <3>1. n - 1 = b.idx
      BY <1>3, <2>5
    <3>2. Again(n, more, later) = Reexecute(b.root, B, Body, hs[Len(hs)].rules)
      BY <1>3, <1>11, <1>14, <2>3, <2>5, <3>1
    <3>3. hs[Len(hs)].rules.price = j.p.price
      BY <1>3
    <3>4. QED
      BY <1>6, <1>11, <2>5, <3>2, <3>3
  <2>6. n \in 1 .. b.idx \/ n = N
    BY <1>3
  <2>7. QED
    BY <2>4, <2>5, <2>6
<1>17. RootOf(more, N) = P2(j).world
  BY <1>3, <1>6, <1>11 DEF RootOf
<1>18. NoJob.busy = FALSE
  BY DEF NoJob
<1>19. Stored(BsOf(j), NoJob, more, later)
  BY <1>7, <1>11, <1>12, <1>16, <1>17, <1>18 DEF Stored
<1>20. QED
  BY <1>19 DEF more, later, B

\* The worker's last step keeps everything that is known of the blocks before.
LEMMA FinishKeeps ==
  \A b, j, bl, hs, rt, dt :
    Inv(b, j, bl, hs, rt, dt) /\ j.busy
      => Inv(BsOf(j), NoJob, Append(bl, BlockOf(j)), HistoryOf(j, hs), rt \cup {P2(j).world},
             DebtOf(j, dt))
<1> SUFFICES ASSUME NEW b, NEW j, NEW bl, NEW hs, NEW rt, NEW dt,
                    Inv(b, j, bl, hs, rt, dt), j.busy
             PROVE  Inv(BsOf(j), NoJob, Append(bl, BlockOf(j)), HistoryOf(j, hs),
                        rt \cup {P2(j).world}, DebtOf(j, dt))
  OBVIOUS
<1> DEFINE g == es.validators
           c == BsOf(j)
           d == DebtOf(j, dt)
<1>1. ~NoJob.busy /\ j # NoJob
  BY DEF NoJob
<1>2. /\ g \subseteq Validator /\ es \in EpochStates(g) /\ b \in BlockStates(g) /\ j \in Jobs(es)
      /\ bl \in Seq(Blocks) /\ hs \in Seq([rules : Rules, first : Nat]) /\ rt \subseteq Worlds
      /\ dt \in [Validator -> Nat]
  BY <1>1 DEF Inv, Typed
<1>3. /\ j.es = es /\ j.ctx.idx \in Nat /\ j.ctx.time \in Nat /\ j.l.bs \in BlockStates(g)
      /\ j.p \in Processors /\ j.sealing \in BOOLEAN
  BY <1>2, JobTyped
<1>4. Latest(b, j) = j.l.bs /\ Latest(c, NoJob) = c /\ Dead(b, j) = j.p.world.dead
      /\ Dead(c, NoJob) = c.root.dead
  BY <1>1 DEF Latest, Dead
<1>5. InTime(b, j) /\ Punished(b, j) /\ InOrder /\ UpSince(b, j) /\ Owed(b, j, dt) /\ Covered(b, j)
      /\ Stored(b, j, bl, hs)
  BY DEF Inv
<1>6. j.l.bs.cheaters = <<>> /\ seen = {}
  BY <1>5 DEF Punished
<1>7. b.root \in Worlds /\ Sound(j.p, b.root) /\ \A i \in DOMAIN j.p.txs : j.p.txs[i] \in DriverTx
  BY <1>2, <1>5 DEF Stored, BlockStates
<1>8. /\ Executed(j) = [i \in DOMAIN P2(j).receipts |-> P2(j).receipts[i].tx]
      /\ BlockOf(j) \in Blocks
  BY <1>2, <1>7, BlockWork
<1>9. /\ \A v : Back(j, v) \in Nat
      /\ c \in BlockStates(g)
      /\ c.idx = j.ctx.idx /\ c.time = j.ctx.time /\ c.root = P2(j).world
      /\ c.cheaters = <<>> /\ c.next = Told(j).next
      /\ \A v \in g :
           /\ c.states[v].uptime = j.l.bs.states[v].uptime
           /\ c.states[v].online = j.l.bs.states[v].online
           /\ c.states[v].lastBlock = j.l.bs.states[v].lastBlock
           /\ c.states[v].refund = j.l.bs.states[v].refund + Back(j, v)
           /\ c.states[v].event = j.l.bs.states[v].event
  BY <1>2, <1>6, <1>8, StatesWork
<1>10. P2(j).world \in Worlds /\ P2(j).world.dead = j.p.world.dead
  <2>1. P2(j) \in Processors /\ P2(j).world.dead = j.p.world.dead
    BY <1>2, WorkTyped
  <2>2. QED
    BY <2>1 DEF Processors
<1>11. j.ctx.idx = b.idx + 1 /\ b.idx \in Nat
  BY <1>2, <1>5 DEF InTime, BlockStates
<1>12. \A v \in g : /\ j.l.bs.states[v].refund \in Nat /\ es.refund[v] \in Nat
                    /\ j.l.bs.states[v].lastBlock \in Nat
  <2>1. es.refund \in [g -> Nat] /\ j.l.bs.states \in [g -> Infos]
    BY <1>2, <1>3, EpochTyped DEF BlockStates
  <2>2. QED
    BY <2>1 DEF Infos
<1> HIDE DEF c
<1>13. \A v \in g : d[v] = c.states[v].refund
  <2>1. SUFFICES ASSUME NEW v \in g
                 PROVE  d[v] = c.states[v].refund
    OBVIOUS
  <2>2. dt[v] = j.l.bs.states[v].refund + (IF j.sealing THEN es.refund[v] ELSE 0)
    BY <1>4, <1>5, <2>1 DEF Owed
  <2>3. d[v] = dt[v] - (IF j.sealing THEN es.refund[v] ELSE 0) + Back(j, v)
    BY <1>2, <1>3 DEF DebtOf
  <2>4. QED
    BY <1>3, <1>9, <1>12, <2>2, <2>3
<1>14. \A v \in Validator \ g : d[v] = 0
  BY <1>3 DEF DebtOf
<1>15. d \in [Validator -> Nat]
  <2>1. \A v \in g : d[v] \in Nat
    BY <1>9, <1>12, <1>13
  <2>2. \A v \in Validator : d[v] \in Nat
    BY <1>14, <2>1
  <2>3. d = [v \in Validator |-> d[v]]
    BY DEF DebtOf
  <2> HIDE DEF d
  <2>4. QED
    BY <2>2, <2>3
<1> HIDE DEF d
<1>16. HistoryOf(j, hs) \in Seq([rules : Rules, first : Nat])
  <2>1. es.rules \in Rules
    BY <1>2, EpochTyped
  <2> DEFINE X == [rules : Rules, first : Nat]
             x == [rules |-> es.rules, first |-> j.ctx.idx + 1]
  <2>2. x \in X
    BY <1>3, <2>1
  <2>3. HistoryOf(j, hs) = IF j.sealing THEN Append(hs, x) ELSE hs
    BY <1>3 DEF HistoryOf
  <2> HIDE DEF x, X
  <2>4. hs \in Seq(X)
    BY <1>2 DEF X
  <2>5. Append(hs, x) \in Seq(X)
    BY <2>2, <2>4
  <2>6. HistoryOf(j, hs) \in Seq(X)
    BY <2>3, <2>4, <2>5
  <2>7. QED
    BY <2>6 DEF X
<1>17. Typed(c, NoJob, Append(bl, BlockOf(j)), HistoryOf(j, hs), rt \cup {P2(j).world}, d)
  <2>1. Append(bl, BlockOf(j)) \in Seq(Blocks)
    BY <1>2, <1>8
  <2>2. Typed(b, j, bl, hs, rt, dt)
    BY DEF Inv
  <2>3. rt \cup {P2(j).world} \subseteq Worlds
    BY <1>2, <1>10
  <2>4. QED
    BY <1>9, <1>15, <1>16, <2>1, <2>2, <2>3, Zenon DEF Typed
<1>18. InTime(c, NoJob)
  BY <1>1, <1>5, <1>9, <1>11, <1>12 DEF InTime
<1>19. Punished(c, NoJob)
  <2>1. /\ IsInjective(b.cheaters) /\ ToSet(b.cheaters) = seen
        /\ Range(told.deactivated) = told.seen /\ IsInjective(told.deactivated)
        /\ told.seen \subseteq j.p.world.dead
        /\ g \cap j.p.world.dead = {} /\ j.l.bs.next \cap j.p.world.dead = {}
        /\ \A v \in Validator : Stays(v) =>
             v \in g /\ v \in j.l.bs.next /\ v \notin seen /\ v \notin j.p.world.dead
    BY <1>4, <1>5 DEF Punished
  <2>2. c.root.dead = j.p.world.dead
    BY <1>9, <1>10
  <2>3. \A v : /\ c.next \cap c.root.dead = {}
               /\ Stays(v) /\ v \in j.l.bs.next => v \in c.next
    BY <1>2, <1>9, <2>1, WorkTyped
  <2>4. IsInjective(<<>>) /\ ToSet(<<>>) = {}
    BY DEF IsInjective, ToSet
  <2>5. IsInjective(c.cheaters) /\ ToSet(c.cheaters) = seen
    BY <1>6, <1>9, <2>4
  <2>6. QED
    BY <1>1, <1>4, <1>6, <2>1, <2>2, <2>3, <2>5 DEF Punished
<1>20. UpSince(c, NoJob)
  BY <1>4, <1>5, <1>9 DEF UpSince, Ups
<1>21. Owed(c, NoJob, d) /\ NotOwed(NoJob, d)
  <2>1. \A v \in g : c.states[v].refund \in Nat
    <3>1. c.states \in [g -> Infos]
      BY <1>9 DEF BlockStates
    <3>2. QED
      BY <3>1 DEF Infos
  <2>2. QED
    BY <1>1, <1>4, <1>13, <1>14, <2>1 DEF Owed, NotOwed
<1>22. Covered(c, NoJob)
  BY <1>4, <1>5, <1>9 DEF Covered
<1>23. Stored(c, NoJob, Append(bl, BlockOf(j)), HistoryOf(j, hs))
  BY <1>2, FinishStored DEF c
<1>24. QED
  BY <1>5, <1>17, <1>18, <1>19, <1>20, <1>21, <1>22, <1>23 DEF Inv, c, d

----------------------------------------------------------------------------
(* The events that validators make *)

\* The rate of a group is a natural number.
LEMMA RateTyped ==
  ASSUME NEW g \in SUBSET Validator, g # {}
  PROVE  PerSec(g) \in Nat /\ MaxGasPower(g) \in Nat /\ Startup(g) \in Nat
<1>1. IsFiniteSet(g)
  BY BlockPipelineAssumption, FS_Subset
<1>2. Cardinality(g) \in Nat /\ Cardinality(g) # 0
  BY <1>1, FS_CardinalityType, FS_EmptySet
<1>3. {AllocPerSec, MaxAllocPeriod, StartupAllocPeriod, MinStartupGas, MinEnsuredAlloc} \subseteq Nat
  BY GasPowerAssumption
<1>4. PerSec(g) \in Nat
  BY <1>2, <1>3 DEF PerSec
<1>5. PerSec(g) * MaxAllocPeriod \in Nat /\ PerSec(g) * StartupAllocPeriod \in Nat
  BY <1>3, <1>4, Product
<1>6. QED
  BY <1>3, <1>4, <1>5 DEF MaxGasPower, Startup, Larger

\* The power of a validator is a number.
LEMMA PowerTyped ==
  ASSUME NEW g \in SUBSET Validator, g # {}, NEW a \in Accounts, NEW time \in Nat, NEW first \in BOOLEAN
  PROVE  /\ CalcValidatorGasPower(g, a, time, first) \in Int
         /\ a.left \in Nat /\ a.time \in Int
         /\ CalcValidatorGasPower(g, a, time, first)
              <= (time - Smaller(a.time, time)) * PerSec(g)
                   + (IF first THEN Larger(a.left, Startup(g)) ELSE a.left)
<1> DEFINE had == IF first THEN Larger(a.left, Startup(g)) ELSE a.left
           allocated == (time - Smaller(a.time, time)) * PerSec(g)
<1>1. a.left \in Nat /\ a.time \in Int
  BY DEF Accounts
<1>2. PerSec(g) \in Nat /\ MaxGasPower(g) \in Nat /\ Startup(g) \in Nat
  BY RateTyped
<1>3. had \in Nat
  BY <1>1, <1>2 DEF Larger
<1>4. time - Smaller(a.time, time) \in Nat
  BY <1>1 DEF Smaller
<1>5. allocated \in Nat
  BY <1>2, <1>4, Product
<1>6. CalcValidatorGasPower(g, a, time, first) = Smaller(allocated + had, MaxGasPower(g))
  BY DEF CalcValidatorGasPower
<1> HIDE DEF had, allocated
<1>7. /\ Smaller(allocated + had, MaxGasPower(g)) \in Int
      /\ Smaller(allocated + had, MaxGasPower(g)) <= allocated + had
  BY <1>2, <1>3, <1>5 DEF Smaller
<1>8. QED
  BY <1>1, <1>6, <1>7 DEF had, allocated

\* Some validator is in every group; the times of events are times.
LEMMA TimeTyped ==
  ASSUME es \in EpochStates(es.validators), NEW e \in Event
  PROVE  MedianTime(e) \in Nat /\ es.start <= MedianTime(e) /\ Body[e].time <= MedianTime(e)
         /\ (MedianTime(e) = es.start \/ MedianTime(e) = Body[e].time)
<1>1. es.start \in Nat /\ Body[e].time \in Nat
  BY EpochTyped, BodyTyped
<1>2. QED
  BY <1>1 DEF MedianTime, Larger

\* What a validator has made by event n, if it is v's next
Gas(v, n) ==
  CalcValidatorGasPower(es.validators, Chain(v)[n - 1].account, MedianTime(n), Chain(v)[n - 1].made = {})

Fits(v, n) ==
  Body[n].epoch = es.epoch /\ Body[n].creator = v /\ Body[n].gas <= Gas(v, n)

\* A validator's events, one after the other.
LEMMA ChainTyped ==
  ASSUME es.validators \subseteq Validator, es.validators # {}, es \in EpochStates(es.validators),
         NEW v \in es.validators
  PROVE  /\ \A n \in 0 .. Len(Body) :
              /\ Chain(v)[n].account \in Accounts
              /\ Chain(v)[n].made
                   \subseteq {k \in 1 .. n : Body[k].epoch = es.epoch /\ Body[k].creator = v}
         /\ Chain(v)[0].made = {}
         /\ Chain(v)[0].account = EpochAccount(es.prev[v], es.start, es.refund[v])
         /\ \A n \in 1 .. Len(Body) :
              IF Fits(v, n)
              THEN /\ Chain(v)[n].account = [left |-> Gas(v, n) - Body[n].gas, time |-> MedianTime(n)]
                   /\ Chain(v)[n].made = Chain(v)[n - 1].made \cup {n}
              ELSE Chain(v)[n] = Chain(v)[n - 1]
<1> DEFINE Mine(n) == {k \in 1 .. n : Body[k].epoch = es.epoch /\ Body[k].creator = v}
           Good(n) == Chain(v)[n].account \in Accounts /\ Chain(v)[n].made \subseteq Mine(n)
           S == {n \in 0 .. Len(Body) : Good(n)}
<1>1. Len(Body) \in Nat /\ Event = 1 .. Len(Body)
  BY BodyTyped
<1>2. /\ Chain(v)[0] = [account |-> EpochAccount(es.prev[v], es.start, es.refund[v]), made |-> {}]
      /\ \A n \in 1 .. Len(Body) :
           Chain(v)[n] = (IF Body[n].epoch = es.epoch /\ Body[n].creator = v
                          THEN Build(Chain(v)[n - 1], n) ELSE Chain(v)[n - 1])
  BY <1>1, ChainIs
<1>3. es.prev[v] \in Accounts /\ es.refund[v] \in Nat /\ es.start \in Nat
  BY EpochTyped
<1>4. EpochAccount(es.prev[v], es.start, es.refund[v]) \in Accounts
  <2>1. es.prev[v] = [left |-> es.prev[v].left, time |-> es.prev[v].time]
        /\ es.prev[v].left \in Nat /\ es.prev[v].time \in Int
    BY <1>3 DEF Accounts
  <2>2. [es.prev[v] EXCEPT !.left = @ + es.refund[v]]
          = [left |-> es.prev[v].left + es.refund[v], time |-> es.prev[v].time]
    BY <2>1
  <2>3. QED
    BY <1>3, <2>1, <2>2 DEF EpochAccount, Accounts
<1>5. 0 \in S
  BY <1>1, <1>2, <1>4
<1>6. \A n \in 1 .. Len(Body) : n - 1 \in 0 .. Len(Body) /\ Body[n].gas \in Nat /\ Body[n].gas \in Int
  BY BodyTyped
<1>7. ASSUME NEW n \in 1 .. Len(Body), Good(n - 1)
      PROVE  IF Fits(v, n)
             THEN /\ Chain(v)[n].account = [left |-> Gas(v, n) - Body[n].gas, time |-> MedianTime(n)]
                  /\ Chain(v)[n].account \in Accounts
                  /\ Chain(v)[n].made = Chain(v)[n - 1].made \cup {n}
             ELSE Chain(v)[n] = Chain(v)[n - 1]
  <2> DEFINE a == Chain(v)[n - 1].account
             first == Chain(v)[n - 1].made = {}
  <2>1. MedianTime(n) \in Nat
    BY <1>1, TimeTyped
  <2>2. Gas(v, n) \in Int
    <3>1. a \in Accounts /\ first \in BOOLEAN
      BY <1>7
    <3> HIDE DEF a, first
    <3>2. CalcValidatorGasPower(es.validators, a, MedianTime(n), first) \in Int
      BY <2>1, <3>1, PowerTyped
    <3>3. QED
      BY <3>2 DEF a, first, Gas
  <2>3. Build(Chain(v)[n - 1], n) =
          IF Body[n].gas > Gas(v, n) THEN Chain(v)[n - 1]
          ELSE [account |-> [left |-> Gas(v, n) - Body[n].gas, time |-> MedianTime(n)],
                made |-> Chain(v)[n - 1].made \cup {n}]
    BY DEF Build, Gas
  <2>4. Chain(v)[n] = IF Body[n].epoch = es.epoch /\ Body[n].creator = v
                      THEN Build(Chain(v)[n - 1], n) ELSE Chain(v)[n - 1]
    BY <1>2
  <2>5. Body[n].gas \in Nat
    BY <1>6
  <2>6. CASE Fits(v, n)
    <3>1. ~(Body[n].gas > Gas(v, n)) /\ Gas(v, n) - Body[n].gas \in Nat
      BY <2>2, <2>5, <2>6 DEF Fits
    <3>2. Chain(v)[n] = [account |-> [left |-> Gas(v, n) - Body[n].gas, time |-> MedianTime(n)],
                         made |-> Chain(v)[n - 1].made \cup {n}]
      BY <2>3, <2>4, <2>6, <3>1 DEF Fits
    <3>3. QED
      BY <2>1, <2>6, <3>1, <3>2 DEF Accounts
  <2>7. CASE ~Fits(v, n)
    <3>1. ~(Body[n].epoch = es.epoch /\ Body[n].creator = v) \/ Body[n].gas > Gas(v, n)
      BY <2>2, <2>5, <2>7 DEF Fits
    <3>2. QED
      BY <2>3, <2>4, <2>7, <3>1
  <2>8. QED
    BY <2>6, <2>7
<1>8. ASSUME NEW n \in 0 .. Len(Body), n \in S, n < Len(Body)
      PROVE  n + 1 \in S
  <2>1. n + 1 \in 1 .. Len(Body) /\ n + 1 \in 0 .. Len(Body) /\ (n + 1) - 1 = n /\ Good(n)
    BY <1>1, <1>8
  <2>2. Mine(n) \subseteq Mine(n + 1)
    BY <2>1
  <2>3. IF Fits(v, n + 1)
        THEN /\ Chain(v)[n + 1].account \in Accounts
             /\ Chain(v)[n + 1].made = Chain(v)[n].made \cup {n + 1}
        ELSE Chain(v)[n + 1] = Chain(v)[n]
    BY <1>7, <2>1
  <2>4. Fits(v, n + 1) => n + 1 \in Mine(n + 1)
    BY <2>1 DEF Fits
  <2> HIDE DEF Mine
  <2>5. Good(n + 1)
    BY <2>1, <2>2, <2>3, <2>4
  <2>6. QED
    BY <2>1, <2>5
<1>9. \A n \in 0 .. Len(Body) : n \in S
  <2> HIDE DEF S
  <2>1. QED
    BY <1>1, <1>5, <1>8, UpTo
<1>10. \A n \in 0 .. Len(Body) : Good(n)
  BY <1>9
<1>11. \A n \in 1 .. Len(Body) :
         IF Fits(v, n)
         THEN /\ Chain(v)[n].account = [left |-> Gas(v, n) - Body[n].gas, time |-> MedianTime(n)]
              /\ Chain(v)[n].made = Chain(v)[n - 1].made \cup {n}
         ELSE Chain(v)[n] = Chain(v)[n - 1]
  BY <1>6, <1>7, <1>10
<1>12. QED
  BY <1>2, <1>10, <1>11

\* What has been made by event n is what is made of the events up to n.
LEMMA MadeBy ==
  ASSUME es.validators \subseteq Validator, es.validators # {}, es \in EpochStates(es.validators),
         NEW v \in es.validators
  PROVE  \A n \in 0 .. Len(Body) : Chain(v)[n].made = {k \in 1 .. n : Fits(v, k)}
<1> DEFINE S == {n \in 0 .. Len(Body) : Chain(v)[n].made = {k \in 1 .. n : Fits(v, k)}}
<1>1. Len(Body) \in Nat
  BY BodyTyped
<1>2. 0 \in S
  BY <1>1, ChainTyped
<1>3. ASSUME NEW n \in 0 .. Len(Body), n \in S, n < Len(Body)
      PROVE  n + 1 \in S
  <2>1. n + 1 \in 1 .. Len(Body) /\ n + 1 \in 0 .. Len(Body) /\ (n + 1) - 1 = n
    BY <1>1, <1>3
  <2>2. Chain(v)[n + 1].made = IF Fits(v, n + 1) THEN Chain(v)[n].made \cup {n + 1} ELSE Chain(v)[n].made
    <3> DEFINE m == n + 1
               step == /\ Chain(v)[m].account = [left |-> Gas(v, m) - Body[m].gas,
                            time |-> MedianTime(m)]
                       /\ Chain(v)[m].made = Chain(v)[m - 1].made \cup {m}
    <3>1. m \in 1 .. Len(Body) => IF Fits(v, m) THEN step ELSE Chain(v)[m] = Chain(v)[m - 1]
      <4> HIDE DEF m
      <4>1. QED
        BY ChainTyped
    <3>2. QED
      BY <2>1, <3>1
  <2>3. \A k : k \in 1 .. n + 1 <=> k \in 1 .. n \/ k = n + 1
    BY <2>1
  <2>4. Chain(v)[n].made = {k \in 1 .. n : Fits(v, k)}
    BY <1>3
  <2>5. {k \in 1 .. n + 1 : Fits(v, k)} =
          IF Fits(v, n + 1) THEN {k \in 1 .. n : Fits(v, k)} \cup {n + 1}
          ELSE {k \in 1 .. n : Fits(v, k)}
    BY <2>3
  <2>6. QED
    BY <2>1, <2>2, <2>4, <2>5
<1>4. \A n \in 0 .. Len(Body) : n \in S
  <2> HIDE DEF S
  <2>1. QED
    BY <1>1, <1>2, <1>3, UpTo
<1>5. QED
  BY <1>4

\* The events that are made.
LEMMA MadeIs ==
  ASSUME es.validators \subseteq Validator, es.validators # {}, es \in EpochStates(es.validators)
  PROVE  /\ Made \subseteq Event
         /\ \A e \in Made : /\ Body[e].epoch = es.epoch /\ Body[e].creator \in es.validators
                            /\ Fits(Body[e].creator, e)
         /\ \A v \in es.validators : \A e \in Event : Fits(v, e) => e \in Made
<1>1. Len(Body) \in Nat /\ Event = 1 .. Len(Body) /\ Len(Body) \in 0 .. Len(Body)
  BY BodyTyped
<1>2. Made = UNION {Chain(v)[Len(Body)].made : v \in es.validators}
  BY DEF Made
<1>3. \A v \in es.validators : Chain(v)[Len(Body)].made = {k \in 1 .. Len(Body) : Fits(v, k)}
  BY <1>1, MadeBy
<1>4. \A v, k : Fits(v, k) => Body[k].epoch = es.epoch /\ Body[k].creator = v
  BY DEF Fits
<1>5. \A e : e \in Made <=> e \in 1 .. Len(Body) /\ \E v \in es.validators : Fits(v, e)
  BY <1>2, <1>3
<1>6. QED
  BY <1>1, <1>4, <1>5

----------------------------------------------------------------------------
(* What the events of a block use, and what has been allotted *)

\* The gas of those events of A that are no later than n
GasUpTo(A, n) == Sums([e \in Event |-> IF e \in A THEN Body[e].gas ELSE 0])[n]

\* It is a sum.
LEMMA GasUpToIs ==
  \A A : /\ GasUpTo(A, 0) = 0
         /\ \A n \in 1 .. Len(Body) :
              GasUpTo(A, n) = GasUpTo(A, n - 1) + (IF n \in A THEN Body[n].gas ELSE 0)
         /\ GasOf(A) = GasUpTo(A, Len(Body))
<1> SUFFICES ASSUME NEW A
             PROVE  /\ GasUpTo(A, 0) = 0
                    /\ \A n \in 1 .. Len(Body) :
                         GasUpTo(A, n) = GasUpTo(A, n - 1) + (IF n \in A THEN Body[n].gas ELSE 0)
                    /\ GasOf(A) = GasUpTo(A, Len(Body))
  OBVIOUS
<1> DEFINE f == [e \in Event |-> IF e \in A THEN Body[e].gas ELSE 0]
<1>1. Len(Body) \in Nat /\ Event = 1 .. Len(Body)
  BY BodyTyped
<1>2. Len(f) = Len(Body)
  BY <1>1
<1>3. \A n \in 1 .. Len(Body) : f[n] = IF n \in A THEN Body[n].gas ELSE 0
  BY <1>1
<1>4. \A n : GasUpTo(A, n) = Sums(f)[n]
  BY DEF GasUpTo
<1>5. GasOf(A) = Sums(f)[Len(f)]
  BY DEF GasOf, Total
<1> HIDE DEF f
<1>6. Sums(f)[0] = 0 /\ \A n \in 1 .. Len(f) : Sums(f)[n] = Sums(f)[n - 1] + f[n]
  BY <1>1, <1>2, SumsIs
<1>7. QED
  BY <1>2, <1>3, <1>4, <1>5, <1>6

\* Nothing is used after the last.
LEMMA GasEnds ==
  ASSUME NEW A, NEW m \in 0 .. Len(Body), \A e \in A : e <= m
  PROVE  /\ GasOf(A) = GasUpTo(A, m)
         /\ \A n \in 0 .. Len(Body) : GasUpTo(A, n) \in Nat
<1>1. Len(Body) \in Nat /\ \A n \in 1 .. Len(Body) : Body[n].gas \in Nat
  BY BodyTyped
<1>2. /\ GasUpTo(A, 0) = 0
      /\ \A n \in 1 .. Len(Body) :
           GasUpTo(A, n) = GasUpTo(A, n - 1) + (IF n \in A THEN Body[n].gas ELSE 0)
      /\ GasOf(A) = GasUpTo(A, Len(Body))
  BY GasUpToIs
<1> DEFINE S == {n \in 0 .. Len(Body) :
                   GasUpTo(A, n) \in Nat /\ (n >= m => GasUpTo(A, n) = GasUpTo(A, m))}
<1>3. 0 \in S
  BY <1>1, <1>2
<1>4. ASSUME NEW n \in 0 .. Len(Body), n \in S, n < Len(Body)
      PROVE  n + 1 \in S
  <2>1. n + 1 \in 1 .. Len(Body) /\ (n + 1) - 1 = n /\ n + 1 \in 0 .. Len(Body) /\ GasUpTo(A, n) \in Nat
    BY <1>1, <1>4
  <2>2. GasUpTo(A, n + 1) = GasUpTo(A, n) + (IF n + 1 \in A THEN Body[n + 1].gas ELSE 0)
    BY <1>2, <2>1
  <2>3. GasUpTo(A, n + 1) \in Nat
    BY <1>1, <2>1, <2>2
  <2>4. n + 1 >= m => GasUpTo(A, n + 1) = GasUpTo(A, m)
    <3>1. CASE n + 1 = m
      BY <3>1
    <3>2. CASE n >= m
      <4>1. n + 1 \notin A
        BY <1>1, <2>1, <3>2
      <4>2. QED
        BY <1>4, <2>1, <2>2, <3>2, <4>1
    <3>3. QED
      BY <1>1, <2>1, <3>1, <3>2
  <2>5. QED
    BY <2>1, <2>3, <2>4
<1>5. \A n \in 0 .. Len(Body) : n \in S
  <2> HIDE DEF S
  <2>1. QED
    BY <1>1, <1>3, <1>4, UpTo
<1>6. QED
  BY <1>1, <1>2, <1>5

\* Time that is divided brings as much.
LEMMA Divided ==
  ASSUME NEW p \in Nat, NEW r \in Int, NEW s \in Int, NEW t \in Int, r <= s, s <= t
  PROVE  /\ (s - r) * p \in Int /\ (t - r) * p \in Int /\ (t - s) * p \in Nat
         /\ (t - r) * p = (s - r) * p + (t - s) * p
<1>1. (t - s) \in Nat
  OBVIOUS
<1>2. QED
  BY <1>1, Product

\* More time brings no less.
LEMMA Longer ==
  ASSUME NEW p \in Nat, NEW m \in Int, NEW n \in Int, m <= n
  PROVE  m * p \in Int /\ n * p \in Int /\ m * p <= n * p
<1>1. n - m \in Nat
  OBVIOUS
<1>2. (n - m) * p \in Nat
  BY <1>1, Product
<1>3. n * p = m * p + (n - m) * p
  OBVIOUS
<1>4. QED
  BY <1>2, <1>3

----------------------------------------------------------------------------
(* What a block confirms *)

Mine(c, v) == {e \in c.events : Body[e].creator = v}

\* The last event of a validator in a set of events.
LEMMA LastIs ==
  ASSUME NEW conf \in SUBSET Event, NEW v
  PROVE  /\ LastOf(conf, v) \in 0 .. Len(Body)
         /\ LastOf(conf, v) = 0 <=> \A e \in conf : Body[e].creator # v
         /\ LastOf(conf, v) # 0 => LastOf(conf, v) \in conf /\ Body[LastOf(conf, v)].creator = v
         /\ \A e \in conf : Body[e].creator = v => e <= LastOf(conf, v)
<1> DEFINE mine == {e \in conf : Body[e].creator = v}
<1>1. Len(Body) \in Nat /\ Event = 1 .. Len(Body) /\ mine \subseteq 1 .. Len(Body)
  BY BodyTyped
<1>2. LastOf(conf, v) = IF mine = {} THEN 0 ELSE Max(mine)
  BY DEF LastOf
<1>3. mine # {} => Max(mine) \in mine /\ \A y \in mine : y <= Max(mine)
  <2> HIDE DEF mine
  <2>1. QED
    BY <1>1, MaxIs
<1>4. CASE mine = {}
  BY <1>1, <1>2, <1>4
<1>5. CASE mine # {}
  BY <1>1, <1>2, <1>3, <1>5
<1>6. QED
  BY <1>4, <1>5

\* What a block confirms of a validator's events follows on what has been confirmed.
LEMMA MineIs ==
  ASSUME es.validators \subseteq Validator, es.validators # {}, es \in EpochStates(es.validators),
         Orderly(confirmed), NEW c \in Decided, NEW v \in es.validators, Mine(c, v) # {}
  PROVE  LET m == LastOf(confirmed, v)
             M == Max(Mine(c, v))
         IN /\ M \in Mine(c, v) /\ M \in Event /\ m \in 0 .. Len(Body) /\ m < M
            /\ \A e \in Mine(c, v) : m < e /\ e <= M
            /\ \A k \in Event : m < k /\ k <= M => (Fits(v, k) <=> k \in Mine(c, v))
            /\ LastOf(confirmed \cup c.events, v) = M
<1> DEFINE m == LastOf(confirmed, v)
           M == Max(Mine(c, v))
           mm == LastOf(confirmed \cup c.events, v)
<1>1. Len(Body) \in Nat /\ Event = 1 .. Len(Body)
  BY BodyTyped
<1>2. /\ Made \subseteq Event
      /\ \A e \in Made : Fits(Body[e].creator, e)
      /\ \A e \in Event : Fits(v, e) => e \in Made
  BY MadeIs
<1>3. c.events \subseteq Made /\ c.events \cap confirmed = {}
      /\ \A e \in c.events, f \in Made \ confirmed :
           f < e /\ Body[f].creator = Body[e].creator => f \in c.events
  BY DEF Decided, Pending
<1>4. /\ confirmed \subseteq Made
      /\ \A g \in confirmed, f \in Made : f < g /\ Body[f].creator = Body[g].creator => f \in confirmed
  BY DEF Orderly
<1>5. \A e : e \in Mine(c, v) <=> e \in c.events /\ Body[e].creator = v
  BY DEF Mine
<1>6. Mine(c, v) \subseteq 1 .. Len(Body)
  BY <1>1, <1>2, <1>3, <1>5
<1>7. M \in Mine(c, v) /\ \A y \in Mine(c, v) : y <= M
  BY <1>1, <1>6, MaxIs
<1>8. /\ m \in 0 .. Len(Body)
      /\ m # 0 => m \in confirmed /\ Body[m].creator = v
      /\ \A e \in confirmed : Body[e].creator = v => e <= m
  BY <1>2, <1>4, LastIs
<1>9. /\ mm \in 0 .. Len(Body)
      /\ mm = 0 <=> \A e \in confirmed \cup c.events : Body[e].creator # v
      /\ mm # 0 => mm \in confirmed \cup c.events /\ Body[mm].creator = v
      /\ \A e \in confirmed \cup c.events : Body[e].creator = v => e <= mm
  <2>1. confirmed \cup c.events \in SUBSET Event
    BY <1>2, <1>3, <1>4
  <2>2. QED
    BY <2>1, LastIs
<1> HIDE DEF m, M, mm
<1>10. \A e \in Mine(c, v) : m < e
  <2>1. SUFFICES ASSUME NEW e \in Mine(c, v), ~(m < e)
                 PROVE  FALSE
    OBVIOUS
  <2>2. e \in 1 .. Len(Body) /\ e \in c.events /\ Body[e].creator = v /\ e \in Made /\ e \notin confirmed
    BY <1>3, <1>5, <1>6
  <2>3. m # 0 /\ m # e
    BY <1>1, <1>8, <2>1, <2>2
  <2>4. e < m
    BY <1>1, <1>8, <2>1, <2>2, <2>3
  <2>5. QED
    BY <1>4, <1>8, <2>2, <2>3, <2>4
<1>11. \A k \in Event : m < k /\ k <= M => (Fits(v, k) <=> k \in Mine(c, v))
  <2>1. SUFFICES ASSUME NEW k \in Event, m < k, k <= M
                 PROVE  Fits(v, k) <=> k \in Mine(c, v)
    OBVIOUS
  <2>2. ASSUME Fits(v, k) PROVE k \in Mine(c, v)
    <3>1. k \in Made /\ Body[k].creator = v
      BY <1>2, <2>2 DEF Fits
    <3>2. k \notin confirmed
      BY <1>1, <1>8, <2>1, <3>1
    <3>3. CASE k = M
      BY <1>7, <3>3
    <3>4. CASE k < M
      BY <1>3, <1>5, <1>7, <3>1, <3>2, <3>4
    <3>5. QED
      BY <1>1, <1>6, <1>7, <2>1, <3>3, <3>4
  <2>3. ASSUME k \in Mine(c, v) PROVE Fits(v, k)
    BY <1>2, <1>3, <1>5, <2>3
  <2>4. QED
    BY <2>2, <2>3
<1>12. mm = M
  <2>1. M \in c.events /\ Body[M].creator = v /\ M \in 1 .. Len(Body)
    BY <1>5, <1>6, <1>7
  <2>2. M <= mm /\ mm # 0
    BY <1>9, <2>1
  <2>3. mm <= M
    <3>1. CASE mm \in c.events
      BY <1>5, <1>7, <1>9, <2>2, <3>1
    <3>2. CASE mm \in confirmed
      <4>1. mm <= m /\ m < M
        BY <1>7, <1>8, <1>9, <1>10, <2>2, <3>2
      <4>2. QED
        BY <1>1, <1>8, <1>9, <2>1, <4>1
    <3>3. QED
      BY <1>9, <2>2, <3>1, <3>2
  <2>4. QED
    BY <1>1, <1>9, <2>1, <2>2, <2>3
<1>13. m < M /\ M \in Event
  BY <1>1, <1>6, <1>7, <1>10
<1>14. QED
  BY <1>7, <1>8, <1>10, <1>11, <1>12, <1>13 DEF m, M, mm

----------------------------------------------------------------------------
(* What is left of what has been allotted *)

\* One more event: what it may use is no more than what has been allotted and not used.
LEMMA SpendOne ==
  ASSUME NEW p \in Nat, NEW s \in Int, NEW t \in Int, NEW until \in Int, NEW last \in Int,
         s <= t, t <= until, t <= last,
         NEW had \in Int, NEW credit \in Int, had <= credit + (t - s) * p,
         NEW power \in Int, power <= (until - Smaller(last, until)) * p + had, NEW gas \in Int
  PROVE  power - gas <= credit - gas + (until - s) * p
<1>1. Smaller(last, until) \in Int /\ until - Smaller(last, until) \in Int
      /\ until - Smaller(last, until) <= until - t
  BY DEF Smaller
<1>2. /\ (until - Smaller(last, until)) * p \in Int /\ (until - t) * p \in Int
      /\ (until - Smaller(last, until)) * p <= (until - t) * p
  BY <1>1, Longer
<1>3. (t - s) * p \in Int /\ (until - s) * p \in Int /\ (until - s) * p = (t - s) * p + (until - t) * p
  BY Divided
<1> DEFINE x == (until - Smaller(last, until)) * p
           y == (until - t) * p
           z == (t - s) * p
           u == (until - s) * p
<1> HIDE DEF x, y, z, u
<1>4. x \in Int /\ y \in Int /\ z \in Int /\ u \in Int /\ x <= y /\ u = z + y
  BY <1>2, <1>3 DEF x, y, z, u
<1>5. had <= credit + z /\ power <= x + had
  BY DEF x, z
<1>6. power - gas <= credit - gas + u
  BY <1>4, <1>5
<1>7. QED
  BY <1>6 DEF u

\* The times of events do not decrease; nothing was allotted to a validator later than an event
\* of it that is still to be confirmed.
LEMMA SinceBefore ==
  ASSUME es.validators \subseteq Validator, es \in EpochStates(es.validators),
         NEW v, NEW conf \in SUBSET Event, NEW since \in Nat,
         \/ since <= es.start
         \/ \E g \in Event : /\ since = Body[g].time
                             /\ \/ Body[g].epoch < es.epoch
                                \/ g \in conf /\ Body[g].creator = v,
         NEW k \in Event, LastOf(conf, v) < k, Fits(v, k)
  PROVE  since <= MedianTime(k)
<1>1. /\ Len(Body) \in Nat /\ Event = 1 .. Len(Body)
      /\ \A e \in Event : Body[e].time \in Nat /\ Body[e].epoch \in Nat
  BY BodyTyped
<1>2. es.start <= MedianTime(k) /\ Body[k].time <= MedianTime(k) /\ MedianTime(k) \in Nat
  BY TimeTyped
<1>3. es.start \in Nat /\ es.epoch \in Nat
  BY EpochTyped
<1>4. CASE since <= es.start
  BY <1>2, <1>3, <1>4
<1>5. ASSUME NEW g \in Event, since = Body[g].time,
             Body[g].epoch < es.epoch \/ (g \in conf /\ Body[g].creator = v)
      PROVE  since <= MedianTime(k)
  <2>1. Body[k].epoch = es.epoch
    BY DEF Fits
  <2>2. \A e, f \in Event : e < f => Body[e].time <= Body[f].time /\ Body[e].epoch <= Body[f].epoch
    BY BlockPipelineAssumption
  <2>3. g < k
    <3>1. CASE Body[g].epoch < es.epoch
      <4>1. g # k /\ ~(k < g)
        BY <1>1, <1>3, <2>1, <2>2, <3>1
      <4>2. QED
        BY <1>1, <4>1
    <3>2. CASE g \in conf /\ Body[g].creator = v
      <4>1. g <= LastOf(conf, v) /\ LastOf(conf, v) \in 0 .. Len(Body)
        BY <3>2, LastIs
      <4>2. QED
        BY <1>1, <4>1
    <3>3. QED
      BY <1>5, <3>1, <3>2
  <2>4. Body[g].time <= Body[k].time
    BY <2>2, <2>3
  <2>5. QED
    BY <1>1, <1>2, <1>5, <2>4
<1>6. QED
  BY <1>4, <1>5

\* The times of the events of an epoch do not decrease either.
LEMMA TimesGrow ==
  ASSUME es.validators \subseteq Validator, es \in EpochStates(es.validators),
         NEW e \in Event, NEW f \in Event, e < f
  PROVE  MedianTime(e) <= MedianTime(f)
<1>1. Body[e].time \in Nat /\ Body[f].time \in Nat /\ es.start \in Nat
  BY BodyTyped, EpochTyped
<1>2. Body[e].time <= Body[f].time
  BY BlockPipelineAssumption
<1>3. QED
  BY <1>1, <1>2 DEF MedianTime, Larger

\* One step of a validator's chain.
LEMMA ChainStep ==
  ASSUME es.validators \subseteq Validator, es.validators # {}, es \in EpochStates(es.validators),
         NEW v \in es.validators, NEW n \in 1 .. Len(Body)
  PROVE  /\ Fits(v, n) => /\ Chain(v)[n].account = [left |-> Gas(v, n) - Body[n].gas,
                               time |-> MedianTime(n)]
                          /\ Chain(v)[n].made = Chain(v)[n - 1].made \cup {n}
                          /\ Body[n].gas \in Nat /\ MedianTime(n) \in Nat
                          /\ Chain(v)[n - 1].account.left \in Nat
                          /\ Chain(v)[n - 1].account.time \in Int
                          /\ Gas(v, n) \in Int
                          /\ Gas(v, n) <=
                               (MedianTime(n) - Smaller(Chain(v)[n - 1].account.time, MedianTime(n)))
                                   * PerSec(es.validators)
                                 + (IF Chain(v)[n - 1].made = {}
                                    THEN Larger(Chain(v)[n - 1].account.left, Startup(es.validators))
                                    ELSE Chain(v)[n - 1].account.left)
         /\ ~Fits(v, n) => Chain(v)[n] = Chain(v)[n - 1]
<1>1. IF Fits(v, n)
      THEN /\ Chain(v)[n].account = [left |-> Gas(v, n) - Body[n].gas, time |-> MedianTime(n)]
           /\ Chain(v)[n].made = Chain(v)[n - 1].made \cup {n}
      ELSE Chain(v)[n] = Chain(v)[n - 1]
  BY ChainTyped
<1>2. n - 1 \in 0 .. Len(Body) /\ n \in Event
  BY BodyTyped
<1> DEFINE a == Chain(v)[n - 1].account
           first == Chain(v)[n - 1].made = {}
<1>3. a \in Accounts /\ first \in BOOLEAN
  BY <1>2, ChainTyped
<1>4. MedianTime(n) \in Nat /\ Body[n].gas \in Nat
  BY <1>2, TimeTyped, BodyTyped
<1>5. Gas(v, n) = CalcValidatorGasPower(es.validators, a, MedianTime(n), first)
  BY DEF Gas
<1> HIDE DEF a, first
<1>6. /\ CalcValidatorGasPower(es.validators, a, MedianTime(n), first) \in Int
      /\ a.left \in Nat /\ a.time \in Int
      /\ CalcValidatorGasPower(es.validators, a, MedianTime(n), first)
           <= (MedianTime(n) - Smaller(a.time, MedianTime(n))) * PerSec(es.validators)
                + (IF first THEN Larger(a.left, Startup(es.validators)) ELSE a.left)
  BY <1>3, <1>4, PowerTyped
<1>7. QED
  BY <1>1, <1>4, <1>5, <1>6 DEF a, first

\* What v has used of the events in A by n is not more than what it has been allotted until t.
Within(v, A, credit, since, n, t) ==
  /\ t \in Int /\ since <= t /\ t <= Chain(v)[n].account.time
  /\ \A k \in A : n < k => t <= MedianTime(k)
  /\ credit - GasUpTo(A, n) + (t - since) * PerSec(es.validators) >= Chain(v)[n].account.left
  /\ Chain(v)[n].made = {} =>
       credit - GasUpTo(A, n) + (t - since) * PerSec(es.validators) >= Startup(es.validators)
  /\ n \in A => t = MedianTime(n) /\ Chain(v)[n].account.time = t

\* The gas of one more of A.
LEMMA OneMore ==
  ASSUME es.validators \subseteq Validator, es.validators # {}, es \in EpochStates(es.validators),
         NEW v \in es.validators, NEW A \in SUBSET Event, NEW credit \in Int, NEW since \in Nat,
         NEW n \in 1 .. Len(Body), NEW t, Within(v, A, credit, since, n - 1, t),
         Fits(v, n) <=> n \in A
  PROVE  \E u : Within(v, A, credit, since, n, u)
<1> DEFINE p == PerSec(es.validators)
           was == Chain(v)[n - 1]
           used == GasUpTo(A, n - 1)
<1>1. Len(Body) \in Nat /\ Event = 1 .. Len(Body) /\ n - 1 \in 0 .. Len(Body)
  BY BodyTyped
<1>2. p \in Nat /\ Startup(es.validators) \in Nat
  BY RateTyped
<1>3. used \in Nat /\ GasUpTo(A, n) = used + (IF n \in A THEN Body[n].gas ELSE 0)
  <2>1. \A e \in A : e <= Len(Body)
    BY <1>1
  <2>2. Len(Body) \in 0 .. Len(Body)
    BY <1>1
  <2>3. QED
    BY <1>1, <2>1, <2>2, GasEnds, GasUpToIs
<1>4. /\ t \in Int /\ since <= t /\ t <= was.account.time
      /\ \A k \in A : n - 1 < k => t <= MedianTime(k)
      /\ credit - used + (t - since) * p >= was.account.left
      /\ was.made = {} => credit - used + (t - since) * p >= Startup(es.validators)
  BY DEF Within
<1>5. CASE n \in A
  <2>1. /\ Chain(v)[n].account = [left |-> Gas(v, n) - Body[n].gas, time |-> MedianTime(n)]
        /\ Chain(v)[n].made = was.made \cup {n}
        /\ Body[n].gas \in Nat /\ MedianTime(n) \in Nat
        /\ was.account.left \in Nat /\ was.account.time \in Int
        /\ Gas(v, n) \in Int
        /\ Gas(v, n) <= (MedianTime(n) - Smaller(was.account.time, MedianTime(n))) * p
                          + (IF was.made = {} THEN Larger(was.account.left, Startup(es.validators))
                             ELSE was.account.left)
    BY <1>5, ChainStep
  <2> DEFINE had == IF was.made = {} THEN Larger(was.account.left, Startup(es.validators))
                    ELSE was.account.left
             until == MedianTime(n)
  <2>2. t <= until
    BY <1>1, <1>4, <1>5
  <2>3. (t - since) * p \in Int
    BY <1>2, <1>4, Longer
  <2> DEFINE z == (t - since) * p
  <2> HIDE DEF was, used, p, z
  <2>4. z \in Int /\ credit - used + z >= was.account.left
        /\ (was.made = {} => credit - used + z >= Startup(es.validators))
    BY <1>4, <2>3 DEF z
  <2>5. had \in Int /\ had <= (credit - used) + z /\ credit - used \in Int
    BY <1>2, <1>3, <2>1, <2>4 DEF Larger
  <2>6. had <= (credit - used) + (t - since) * p
    BY <2>5 DEF z
  <2> HIDE DEF had, z
  <2>7. Gas(v, n) <= (until - Smaller(was.account.time, until)) * p + had
    BY <2>1 DEF had
  <2>8. /\ Gas(v, n) - Body[n].gas <= (credit - used) - Body[n].gas + (until - since) * p
        /\ (until - since) * p \in Int
    <3> DEFINE last == was.account.time
               power == Gas(v, n)
               gas == Body[n].gas
               money == credit - used
    <3>1. /\ since \in Int /\ t \in Int /\ until \in Int /\ last \in Int /\ since <= t /\ t <= until
               /\ t <= last
          /\ had \in Int /\ money \in Int /\ power \in Int /\ gas \in Int
          /\ had <= money + (t - since) * p
          /\ power <= (until - Smaller(last, until)) * p + had
      BY <1>4, <2>1, <2>2, <2>5, <2>6, <2>7
    <3>2. since <= until /\ until - since \in Int
      BY <3>1
    <3> HIDE DEF last, power, gas, money, until
    <3>3. power - gas <= money - gas + (until - since) * p
      BY <1>2, <3>1, SpendOne
    <3>4. (until - since) * p \in Int
      BY <1>2, <3>1, <3>2, Longer
    <3>5. QED
      BY <3>3, <3>4 DEF power, gas, money
  <2>9. GasUpTo(A, n) = used + Body[n].gas
    BY <1>3, <1>5
  <2>10. credit - GasUpTo(A, n) + (until - since) * p >= Gas(v, n) - Body[n].gas
    <3> DEFINE u == (until - since) * p
    <3> HIDE DEF u, until
    <3>1. u \in Int /\ Gas(v, n) - Body[n].gas <= (credit - used) - Body[n].gas + u
      BY <2>8 DEF u
    <3>2. credit - GasUpTo(A, n) + u >= Gas(v, n) - Body[n].gas
      BY <1>3, <2>1, <2>9, <3>1
    <3>3. QED
      BY <3>2 DEF u
  <2>11. \A k \in A : n < k => until <= MedianTime(k)
    BY <1>1, TimesGrow
  <2>12. since <= until /\ until \in Int
    BY <1>4, <2>1, <2>2
  <2>13. Chain(v)[n].made # {} /\ Chain(v)[n].account.left = Gas(v, n) - Body[n].gas
         /\ Chain(v)[n].account.time = until
    BY <2>1
  <2> HIDE DEF until
  <2>14. Within(v, A, credit, since, n, until)
    BY <2>10, <2>11, <2>12, <2>13 DEF Within, p, until
  <2>15. QED
    BY <2>14
<1>6. CASE n \notin A
  <2>1. Chain(v)[n] = was /\ GasUpTo(A, n) = used
    <3>1. ~Fits(v, n) => Chain(v)[n] = Chain(v)[n - 1]
      BY ChainStep
    <3>2. QED
      BY <1>3, <1>6, <3>1
  <2>2. \A k \in A : n < k => n - 1 < k
    BY <1>1
  <2> HIDE DEF was, used
  <2>3. Within(v, A, credit, since, n, t)
    BY <1>4, <1>6, <2>1, <2>2 DEF Within
  <2>4. QED
    BY <2>3
<1>7. QED
  BY <1>5, <1>6

\* Nothing is used before the first.
LEMMA GasStarts ==
  ASSUME NEW A, NEW m \in 0 .. Len(Body), \A e \in A : m < e
  PROVE  GasUpTo(A, m) = 0
<1>1. Len(Body) \in Nat
  BY BodyTyped
<1>2. /\ GasUpTo(A, 0) = 0
      /\ \A n \in 1 .. Len(Body) :
           GasUpTo(A, n) = GasUpTo(A, n - 1) + (IF n \in A THEN Body[n].gas ELSE 0)
  BY GasUpToIs
<1> DEFINE S == {n \in 0 .. Len(Body) : n <= m => GasUpTo(A, n) = 0}
<1>3. 0 \in S
  BY <1>1, <1>2
<1>4. ASSUME NEW n \in 0 .. Len(Body), n \in S, n < Len(Body)
      PROVE  n + 1 \in S
  <2>1. n + 1 \in 1 .. Len(Body) /\ (n + 1) - 1 = n /\ n + 1 \in 0 .. Len(Body)
    BY <1>1, <1>4
  <2>2. GasUpTo(A, n + 1) = GasUpTo(A, n) + (IF n + 1 \in A THEN Body[n + 1].gas ELSE 0)
    BY <1>2, <2>1
  <2>3. n + 1 <= m => n + 1 \notin A /\ n <= m
    BY <1>1, <2>1
  <2>4. n + 1 <= m => GasUpTo(A, n + 1) = 0
    BY <1>4, <2>2, <2>3
  <2>5. QED
    BY <2>1, <2>4
<1>5. \A n \in 0 .. Len(Body) : n \in S
  <2> HIDE DEF S
  <2>1. QED
    BY <1>1, <1>3, <1>4, UpTo
<1>6. QED
  BY <1>1, <1>5

\* With what was allotted until its last event of the block a validator has paid for its events.
LEMMA Spent ==
  ASSUME es.validators \subseteq Validator, es.validators # {}, es \in EpochStates(es.validators),
         Orderly(confirmed), NEW c \in Decided, NEW v \in es.validators, Mine(c, v) # {},
         NEW a, a.credit \in Int, a.since \in Nat,
         NEW stained, NEW kept, Covers(confirmed, v, a, stained, kept)
  PROVE  LET until == MedianTime(Max(Mine(c, v)))
             last == Chain(v)[Max(Mine(c, v))].account
             credit == a.credit - GasOf(Mine(c, v)) + (until - a.since) * PerSec(es.validators)
         IN /\ until \in Nat /\ last.time = until
            /\ credit \in Int /\ credit >= last.left
<1> DEFINE A == Mine(c, v)
           m == LastOf(confirmed, v)
           M == Max(Mine(c, v))
           p == PerSec(es.validators)
<1>1. Len(Body) \in Nat /\ Event = 1 .. Len(Body)
  BY BodyTyped
<1>2. /\ M \in A /\ M \in Event /\ m \in 0 .. Len(Body) /\ m < M
      /\ \A e \in A : m < e /\ e <= M
      /\ \A k \in Event : m < k /\ k <= M => (Fits(v, k) <=> k \in A)
  BY MineIs
<1>3. confirmed \in SUBSET Event /\ c.events \subseteq Event /\ confirmed \subseteq Made
  BY MadeIs DEF Orderly, Decided, Pending
<1>4. A \in SUBSET Event
  BY <1>3 DEF Mine
<1>5. /\ a.credit >= Chain(v)[m].account.left
      /\ m = 0 => a.credit >= Startup(es.validators)
      /\ a.since <= Chain(v)[m].account.time
      /\ \/ a.since <= es.start
         \/ \E g \in Event : /\ a.since = Body[g].time
                             /\ \/ Body[g].epoch < es.epoch
                                \/ g \in confirmed /\ Body[g].creator = v
  BY Zenon DEF Covers
<1>6. p \in Nat /\ Startup(es.validators) \in Nat
  BY RateTyped
<1> HIDE DEF A, m, M, p
<1>7. Within(v, A, a.credit, a.since, m, a.since)
  <2>1. \A k \in A : m < k => a.since <= MedianTime(k)
    <3>1. SUFFICES ASSUME NEW k \in A, m < k PROVE a.since <= MedianTime(k)
      OBVIOUS
    <3>2. k \in Event /\ Fits(v, k)
      BY <1>1, <1>2, <1>4, <3>1
    <3>3. LastOf(confirmed, v) < k
      BY <3>1 DEF m
    <3> DEFINE since == a.since
    <3>4. since \in Nat /\ \/ since <= es.start
                           \/ \E g \in Event : /\ since = Body[g].time
                                               /\ \/ Body[g].epoch < es.epoch
                                                  \/ g \in confirmed /\ Body[g].creator = v
      BY <1>5
    <3> HIDE DEF since
    <3>5. since <= MedianTime(k)
      BY <1>3, <3>2, <3>3, <3>4, SinceBefore
    <3>6. QED
      BY <3>5 DEF since
  <2>2. GasUpTo(A, m) = 0
    BY <1>2, GasStarts
  <2>3. (a.since - a.since) * p = 0
    BY <1>6
  <2>4. Chain(v)[m].made = {} => m = 0
    <3>1. SUFFICES ASSUME m # 0 PROVE m \in Chain(v)[m].made
      OBVIOUS
    <3>2. m \in Event /\ m \in 1 .. m
      BY <1>1, <1>2, <3>1
    <3>3. m \in confirmed /\ Body[m].creator = v
      BY <1>3, <3>1, LastIs DEF m
    <3>4. Fits(v, m)
      BY <1>3, <3>3, MadeIs
    <3>5. Chain(v)[m].made = {k \in 1 .. m : Fits(v, k)}
      BY <1>2, MadeBy
    <3>6. QED
      BY <3>2, <3>4, <3>5
  <2>5. m \notin A
    BY <1>1, <1>2
  <2>6. a.credit - GasUpTo(A, m) + (a.since - a.since) * p = a.credit
    BY <2>2, <2>3
  <2>7. QED
    BY <1>5, <2>1, <2>4, <2>5, <2>6 DEF Within, p
<1> DEFINE S == {n \in 0 .. Len(Body) :
                   m <= n /\ n <= M => \E t : Within(v, A, a.credit, a.since, n, t)}
<1>8. 0 \in S
  <2>1. m <= 0 => m = 0
    BY <1>1, <1>2
  <2>2. QED
    BY <1>1, <1>7, <2>1
<1>9. ASSUME NEW n \in 0 .. Len(Body), n \in S, n < Len(Body)
      PROVE  n + 1 \in S
  <2>1. n + 1 \in 1 .. Len(Body) /\ (n + 1) - 1 = n /\ n + 1 \in 0 .. Len(Body)
    BY <1>1, <1>9
  <2>2. ASSUME m <= n + 1, n + 1 <= M
        PROVE  \E t : Within(v, A, a.credit, a.since, n + 1, t)
    <3>1. CASE n + 1 = m
      BY <1>7, <3>1
    <3>2. CASE n + 1 # m
      <4>1. m <= n /\ n <= M /\ m < n + 1
        BY <1>1, <1>2, <1>9, <2>2, <3>2
      <4>2. PICK t : Within(v, A, a.credit, a.since, n, t)
        BY <1>9, <4>1
      <4>3. Fits(v, n + 1) <=> n + 1 \in A
        BY <1>1, <1>2, <2>1, <2>2, <4>1
      <4> DEFINE k == n + 1
                 credit == a.credit
                 since == a.since
      <4>4. k \in 1 .. Len(Body) /\ credit \in Int /\ since \in Nat /\ (Fits(v, k) <=> k \in A)
            /\ Within(v, A, credit, since, k - 1, t)
        BY <2>1, <4>2, <4>3
      <4> HIDE DEF k, credit, since
      <4>5. \E u : Within(v, A, credit, since, k, u)
        BY <1>4, <4>4, OneMore
      <4>6. QED
        BY <4>5 DEF k, credit, since
    <3>3. QED
      BY <3>1, <3>2
  <2>3. QED
    BY <2>1, <2>2
<1>10. \A n \in 0 .. Len(Body) : n \in S
  <2> HIDE DEF S
  <2>1. QED
    BY <1>1, <1>8, <1>9, UpTo
<1>11. M \in 0 .. Len(Body) /\ m <= M /\ M <= M
  BY <1>1, <1>2
<1>12. PICK t : Within(v, A, a.credit, a.since, M, t)
  BY <1>10, <1>11
<1>13. t = MedianTime(M) /\ Chain(v)[M].account.time = t
       /\ a.credit - GasUpTo(A, M) + (t - a.since) * p >= Chain(v)[M].account.left
       /\ a.since <= t /\ t \in Int
  BY <1>2, <1>12 DEF Within, p
<1>14. GasOf(A) = GasUpTo(A, M) /\ GasUpTo(A, M) \in Nat
  BY <1>2, <1>11, GasEnds
<1>15. MedianTime(M) \in Nat
  BY <1>2, TimeTyped
<1>16. (t - a.since) * p \in Int
  BY <1>6, <1>13, Longer
<1> DEFINE z == (t - a.since) * p
<1>17. z \in Int /\ a.credit - GasOf(A) + z >= Chain(v)[M].account.left
  BY <1>13, <1>14, <1>16
<1>18. a.credit - GasOf(A) + z \in Int
  <2> HIDE DEF z
  <2>1. QED
    BY <1>14, <1>17
<1>19. QED
  BY <1>13, <1>15, <1>17, <1>18 DEF A, M, p

----------------------------------------------------------------------------
(* The state that a block begins with *)

Ctx(c) ==
  [idx |-> bs.idx + 1,
   time |-> Larger(IF c.events = {} THEN 0 ELSE MedianTime(Max(c.events)), bs.time + 1)]

Begun(c) == [bs EXCEPT !.cheaters = MergeCheaters(@, c.cheaters)]

After(c) == [EventsFinalize(Begun(c), c, Ctx(c)) EXCEPT !.cheaters = MergeCheaters(@, Proven(c))]

All(c) == seen \cup c.cheaters \cup Proven(c)

Ignored(c) == {Indexed(v) : v \in ToSet(Begun(c).cheaters)}

\* A cheater is noted once.
LEMMA MergeIs ==
  ASSUME NEW a \in Seq(Validator), IsInjective(a), NEW new \in SUBSET Validator
  PROVE  /\ MergeCheaters(a, new) \in Seq(Validator) /\ IsInjective(MergeCheaters(a, new))
         /\ ToSet(MergeCheaters(a, new)) = ToSet(a) \cup new
<1> DEFINE S == new \ ToSet(a)
           s == Sorted(S)
           m == a \o s
<1>1. S \in SUBSET Nat /\ IsFiniteSet(S) /\ S \subseteq Validator
  <2>1. Validator \subseteq Nat \ {0} /\ IsFiniteSet(Validator)
    BY BlockPipelineAssumption
  <2>2. S \subseteq Validator
    OBVIOUS
  <2>3. QED
    BY <2>1, <2>2, FS_Subset
<1>2. s \in Seq(S) /\ ToSet(s) = S /\ IsInjective(s)
  <2> HIDE DEF S
  <2>1. QED
    BY <1>1, SortedIs
<1>3. MergeCheaters(a, new) = m
  BY DEF MergeCheaters
<1>4. s \in Seq(Validator)
  <2> HIDE DEF s, S
  <2>1. QED
    BY <1>1, <1>2, SeqWithin
<1> HIDE DEF s
<1>5. /\ m \in Seq(Validator) /\ Len(m) = Len(a) + Len(s) /\ Len(a) \in Nat /\ Len(s) \in Nat
      /\ DOMAIN m = 1 .. Len(m) /\ DOMAIN a = 1 .. Len(a) /\ DOMAIN s = 1 .. Len(s)
      /\ \A i \in 1 .. Len(a) : m[i] = a[i]
      /\ \A i \in 1 .. Len(s) : m[Len(a) + i] = s[i]
      /\ \A i \in 1 .. Len(m) :
           i \in 1 .. Len(a) \/ (i - Len(a) \in 1 .. Len(s) /\ Len(a) + (i - Len(a)) = i)
  BY <1>4
<1>6. /\ \A i \in 1 .. Len(a) : a[i] \in ToSet(a)
      /\ \A i \in 1 .. Len(s) : s[i] \in S
      /\ \A x \in ToSet(a) : \E i \in 1 .. Len(a) : a[i] = x
      /\ \A x \in S : \E i \in 1 .. Len(s) : s[i] = x
  <2> HIDE DEF S, m
  <2>1. ToSet(a) = {a[i] : i \in 1 .. Len(a)} /\ S = {s[i] : i \in 1 .. Len(s)}
    BY <1>2, <1>5 DEF ToSet
  <2>2. QED
    BY <2>1
<1> HIDE DEF m, S
<1>7. \A i \in 1 .. Len(m) : m[i] \in ToSet(a) \cup S
  <2>1. SUFFICES ASSUME NEW i \in 1 .. Len(m) PROVE m[i] \in ToSet(a) \cup S
    OBVIOUS
  <2>2. CASE i \in 1 .. Len(a)
    BY <1>5, <1>6, <2>2
  <2>3. CASE i - Len(a) \in 1 .. Len(s) /\ Len(a) + (i - Len(a)) = i
    <3>1. m[Len(a) + (i - Len(a))] = s[i - Len(a)]
      BY <1>5, <2>3
    <3>2. QED
      BY <1>6, <2>3, <3>1
  <2>4. QED
    BY <1>5, <2>1, <2>2, <2>3
<1>8. \A x \in ToSet(a) \cup S : \E i \in 1 .. Len(m) : m[i] = x
  <2>1. \A i \in 1 .. Len(s) : Len(a) + i \in 1 .. Len(m)
    BY <1>5
  <2>2. \A i \in 1 .. Len(a) : i \in 1 .. Len(m)
    BY <1>5
  <2>3. \A x \in ToSet(a) : \E i \in 1 .. Len(m) : m[i] = x
    BY <1>5, <1>6, <2>2
  <2>4. \A x \in S : \E i \in 1 .. Len(m) : m[i] = x
    BY <1>5, <1>6, <2>1
  <2>5. QED
    BY <2>3, <2>4
<1>9. ToSet(m) = ToSet(a) \cup S
  BY <1>5, <1>7, <1>8 DEF ToSet
<1>10. IsInjective(m)
  <2>1. SUFFICES ASSUME NEW i \in 1 .. Len(m), NEW k \in 1 .. Len(m), m[i] = m[k]
                 PROVE  i = k
    BY <1>5 DEF IsInjective
  <2>2. CASE i \in 1 .. Len(a) /\ k \in 1 .. Len(a)
    BY <1>5, <2>1, <2>2 DEF IsInjective
  <2>3. CASE i - Len(a) \in 1 .. Len(s) /\ Len(a) + (i - Len(a)) = i /\ k - Len(a) \in 1 .. Len(s)
             /\ Len(a) + (k - Len(a)) = k
    <3>1. m[i] = s[i - Len(a)] /\ m[k] = s[k - Len(a)]
      BY <1>5, <2>3
    <3>2. \A x, y \in 1 .. Len(s) : s[x] = s[y] => x = y
      BY <1>2, <1>5 DEF IsInjective
    <3>3. i - Len(a) = k - Len(a)
      BY <2>1, <2>3, <3>1, <3>2
    <3>4. QED
      BY <1>5, <3>3
  <2>4. ASSUME NEW x \in 1 .. Len(a), NEW y \in 1 .. Len(m), y - Len(a) \in 1 .. Len(s),
                 Len(a) + (y - Len(a)) = y
        PROVE  m[x] # m[y]
    <3>1. m[x] \in ToSet(a) /\ m[y] \in S
      BY <1>5, <1>6, <2>4
    <3>2. QED
      BY <3>1 DEF S
  <2>5. QED
    BY <1>5, <2>1, <2>2, <2>3, <2>4
<1>11. ToSet(a) \cup S = ToSet(a) \cup new
  BY DEF S
<1>12. QED
  BY <1>3, <1>5, <1>9, <1>10, <1>11

\* What an event changes in its creator's state.
LEMMA OnlineIs ==
  ASSUME es.validators \subseteq Validator, es.validators # {}, es \in EpochStates(es.validators),
         NEW v \in es.validators, NEW e \in Event, Body[e].creator = v,
         NEW info \in Infos, NEW ctx, ctx.idx \in Nat
  PROVE  LET o == Online(info, e, ctx)
         IN /\ o \in Infos
            /\ o.uptime = IF ctx.idx <= info.lastBlock + BlockMissedSlack
                          THEN info.uptime + Larger(0, MedianTime(e) - OnlineStart(info))
                          ELSE info.uptime
            /\ o.online = MedianTime(e) /\ o.lastBlock = ctx.idx /\ o.refund = info.refund
            /\ o.event = Chain(v)[e].account
<1>1. /\ info = [uptime |-> info.uptime, online |-> info.online, lastBlock |-> info.lastBlock,
                 refund |-> info.refund, event |-> info.event]
      /\ info.uptime \in Nat /\ info.online \in Nat /\ info.lastBlock \in Nat /\ info.refund \in Nat
      /\ info.event \in Accounts
  BY DEF Infos
<1> DEFINE uptime == IF ctx.idx <= info.lastBlock + BlockMissedSlack
                     THEN info.uptime + Larger(0, MedianTime(e) - OnlineStart(info))
                          ELSE info.uptime
           account1 == Chain(v)[e].account
           time == MedianTime(e)
<1>2. Online(info, e, ctx) =
        [uptime |-> uptime, online |-> time, lastBlock |-> ctx.idx, refund |-> info.refund,
         event |-> account1]
  <2>1. Online(info, e, ctx) =
          [info EXCEPT !.uptime = uptime, !.online = time, !.lastBlock = ctx.idx, !.event = account1]
    BY DEF Online
  <2> HIDE DEF uptime, time, account1
  <2>2. QED
    BY <1>1, <2>1
<1>3. time \in Nat /\ es.start \in Nat
  BY TimeTyped, EpochTyped
<1>4. account1 \in Accounts
  <2>1. e \in 0 .. Len(Body)
    BY BodyTyped
  <2>2. QED
    BY <2>1, ChainTyped
<1>5. uptime \in Nat
  BY <1>1, <1>3 DEF Larger, OnlineStart
<1> HIDE DEF uptime, account1, time
<1>6. Online(info, e, ctx) \in Infos
  BY <1>1, <1>2, <1>3, <1>4, <1>5 DEF Infos
<1>7. QED
  BY <1>2, <1>6 DEF uptime, account1, time

\* A validator that an event says was up has not been up for longer than the epoch by then.
LEMMA UpsOnline ==
  ASSUME es.validators \subseteq Validator, es.validators # {}, es \in EpochStates(es.validators),
         NEW v \in es.validators, NEW e \in Event, Body[e].creator = v,
         NEW info \in Infos, NEW ctx, ctx.idx \in Nat,
         \/ info.uptime = 0
         \/ /\ info.uptime <= info.online - es.start
            /\ \E g \in Event : g < e /\ info.online = MedianTime(g)
  PROVE  LET o == Online(info, e, ctx)
         IN o.uptime = 0 \/ o.uptime <= o.online - es.start
<1> DEFINE o == Online(info, e, ctx)
           time == MedianTime(e)
<1>1. /\ o.uptime = IF ctx.idx <= info.lastBlock + BlockMissedSlack
                    THEN info.uptime + Larger(0, time - OnlineStart(info)) ELSE info.uptime
      /\ o.online = time
  BY OnlineIs
<1>2. info.uptime \in Nat /\ info.online \in Nat
  BY DEF Infos
<1>3. time \in Nat /\ es.start \in Nat /\ es.start <= time
  BY TimeTyped, EpochTyped
<1> HIDE DEF o, time
<1>4. ASSUME info.uptime = 0
      PROVE  o.uptime = 0 \/ o.uptime <= o.online - es.start
  <2>1. OnlineStart(info) \in Nat /\ es.start <= OnlineStart(info)
    BY <1>2, <1>3 DEF OnlineStart, Larger
  <2>2. Larger(0, time - OnlineStart(info)) \in Nat
          /\ Larger(0, time - OnlineStart(info)) <= time - es.start
    BY <1>3, <2>1 DEF Larger
  <2>3. QED
    BY <1>1, <1>3, <1>4, <2>2
<1>5. ASSUME info.uptime <= info.online - es.start, NEW g \in Event, g < e, info.online = MedianTime(g)
      PROVE  o.uptime <= o.online - es.start
  <2>1. info.online <= time
    BY <1>5, TimesGrow DEF time
  <2>2. OnlineStart(info) = info.online
    BY <1>2, <1>3, <1>5 DEF OnlineStart, Larger
  <2>3. QED
    BY <1>1, <1>2, <1>3, <1>5, <2>1, <2>2 DEF Larger
<1>6. QED
  BY <1>4, <1>5 DEF o

\* The state that a block begins with, field by field.
LEMMA AfterFields ==
  ASSUME es.validators \subseteq Validator, es \in EpochStates(es.validators),
         bs \in BlockStates(es.validators), NEW c
  PROVE  After(c) =
           [idx |-> bs.idx, time |-> bs.time, root |-> bs.root, gas |-> bs.gas + GasOf(c.events),
            cheaters |-> MergeCheaters(MergeCheaters(bs.cheaters, c.cheaters), Proven(c)),
            written |-> bs.written,
            states |-> [v \in es.validators |->
                          IF v \in Ignored(c) \/ Mine(c, v) = {} THEN bs.states[v]
                          ELSE Online(bs.states[v], Max(Mine(c, v)), Ctx(c))],
            next |-> bs.next, dirty |-> bs.dirty, advance |-> bs.advance]
<1> DEFINE merged == MergeCheaters(bs.cheaters, c.cheaters)
           gas == bs.gas + GasOf(c.events)
           states == [v \in es.validators |->
                        IF v \in Ignored(c) \/ Mine(c, v) = {} THEN bs.states[v]
                        ELSE Online(bs.states[v], Max(Mine(c, v)), Ctx(c))]
<1>1. bs = [idx |-> bs.idx, time |-> bs.time, root |-> bs.root, gas |-> bs.gas,
            cheaters |-> bs.cheaters, written |-> bs.written, states |-> bs.states,
            next |-> bs.next, dirty |-> bs.dirty, advance |-> bs.advance]
  BY DEF BlockStates
<1>2. Begun(c) = [bs EXCEPT !.cheaters = merged]
  BY DEF Begun
<1> HIDE DEF merged
<1>3. Begun(c) = [idx |-> bs.idx, time |-> bs.time, root |-> bs.root, gas |-> bs.gas,
                  cheaters |-> merged, written |-> bs.written, states |-> bs.states,
                  next |-> bs.next, dirty |-> bs.dirty, advance |-> bs.advance]
  BY <1>1, <1>2
<1>4. Begun(c).states = bs.states /\ Begun(c).gas = bs.gas
  BY <1>3
<1>5. EventsFinalize(Begun(c), c, Ctx(c)) =
        [Begun(c) EXCEPT !.gas = Begun(c).gas + GasOf(c.events),
                         !.states = [v \in es.validators |->
                            IF v \in Ignored(c) \/ Mine(c, v) = {} THEN Begun(c).states[v]
                            ELSE Online(Begun(c).states[v], Max(Mine(c, v)), Ctx(c))]]
  BY Zenon DEF EventsFinalize, Ignored, Mine
<1>6. EventsFinalize(Begun(c), c, Ctx(c)) = [Begun(c) EXCEPT !.gas = gas, !.states = states]
  BY <1>4, <1>5
<1> HIDE DEF states, gas
<1>7. EventsFinalize(Begun(c), c, Ctx(c)) =
        [idx |-> bs.idx, time |-> bs.time, root |-> bs.root, gas |-> gas,
         cheaters |-> merged, written |-> bs.written, states |-> states,
         next |-> bs.next, dirty |-> bs.dirty, advance |-> bs.advance]
  <2> DEFINE r == Begun(c)
  <2>1. r = [idx |-> bs.idx, time |-> bs.time, root |-> bs.root, gas |-> bs.gas,
             cheaters |-> merged, written |-> bs.written, states |-> bs.states,
             next |-> bs.next, dirty |-> bs.dirty, advance |-> bs.advance]
    BY <1>3
  <2> HIDE DEF r
  <2>2. [r EXCEPT !.gas = gas, !.states = states] =
          [idx |-> bs.idx, time |-> bs.time, root |-> bs.root, gas |-> gas,
           cheaters |-> merged, written |-> bs.written, states |-> states,
           next |-> bs.next, dirty |-> bs.dirty, advance |-> bs.advance]
    <3>1. [r EXCEPT !.gas = gas] =
            [idx |-> bs.idx, time |-> bs.time, root |-> bs.root, gas |-> gas,
             cheaters |-> merged, written |-> bs.written, states |-> bs.states,
             next |-> bs.next, dirty |-> bs.dirty, advance |-> bs.advance]
      BY <2>1
    <3> DEFINE q == [r EXCEPT !.gas = gas]
    <3>2. [r EXCEPT !.gas = gas, !.states = states] = [q EXCEPT !.states = states]
      BY <2>1
    <3> HIDE DEF q
    <3>3. q = [idx |-> bs.idx, time |-> bs.time, root |-> bs.root, gas |-> gas,
             cheaters |-> merged, written |-> bs.written, states |-> bs.states,
             next |-> bs.next, dirty |-> bs.dirty, advance |-> bs.advance]
      BY <3>1 DEF q
    <3>4. QED
      BY <3>2, <3>3
  <2>3. QED
    BY <1>6, <2>2 DEF r
<1> DEFINE fin == EventsFinalize(Begun(c), c, Ctx(c))
<1>8. After(c) = [fin EXCEPT !.cheaters = MergeCheaters(fin.cheaters, Proven(c))]
  BY DEF After
<1> HIDE DEF fin
<1>9. After(c) =
        [idx |-> bs.idx, time |-> bs.time, root |-> bs.root, gas |-> gas,
         cheaters |-> MergeCheaters(merged, Proven(c)), written |-> bs.written, states |-> states,
         next |-> bs.next, dirty |-> bs.dirty, advance |-> bs.advance]
  BY <1>7, <1>8 DEF fin
<1>10. QED
  BY <1>9 DEF merged, states, gas

\* What is known before a block
Ready(c) == IInv /\ ~job.busy /\ c \in Decided

\* What is known of the epoch then.
LEMMA ReadyIs ==
  ASSUME NEW c, Ready(c)
  PROVE  /\ es.validators \subseteq Validator /\ es.validators # {} /\ es \in EpochStates(es.validators)
         /\ bs \in BlockStates(es.validators)
         /\ bs.idx \in Nat /\ bs.time \in Nat /\ bs.gas \in Nat /\ bs.root \in Worlds
         /\ bs.cheaters \in Seq(Validator) /\ bs.states \in [es.validators -> Infos]
         /\ bs.next \subseteq Validator /\ seen \subseteq Validator
         /\ Latest(bs, job) = bs /\ Dead(bs, job) = bs.root.dead
         /\ InTime(bs, job) /\ Punished(bs, job) /\ Orderly(confirmed) /\ UpSince(bs, job)
         /\ Owed(bs, job, debt) /\ NotOwed(job, debt) /\ Covered(bs, job)
         /\ Stored(bs, job, blocks, history) /\ Typed(bs, job, blocks, history, roots, debt)
         /\ c.events \subseteq Made /\ c.events \subseteq Event
         /\ confirmed \subseteq Event /\ confirmed \cup c.events \in SUBSET Event
         /\ c.cheaters \subseteq Validator /\ Proven(c) \subseteq Validator
         /\ \A v \in es.validators : Mine(c, v) \subseteq Event
         /\ es.start \in Nat /\ es.start <= bs.time
<1>1. IInv /\ ~job.busy /\ c \in Decided
  BY DEF Ready
<1>2. /\ InTime(bs, job) /\ Punished(bs, job) /\ InOrder /\ UpSince(bs, job)
      /\ Owed(bs, job, debt) /\ NotOwed(job, debt) /\ Covered(bs, job)
      /\ Stored(bs, job, blocks, history) /\ Typed(bs, job, blocks, history, roots, debt)
  BY <1>1 DEF IInv, Inv
<1>3. /\ es.validators \subseteq Validator /\ es \in EpochStates(es.validators)
      /\ bs \in BlockStates(es.validators) /\ confirmed \subseteq Event /\ seen \subseteq Validator
  BY <1>2 DEF Typed
<1>4. /\ bs.idx \in Nat /\ bs.time \in Nat /\ bs.gas \in Nat /\ bs.root \in Worlds
      /\ bs.cheaters \in Seq(Validator) /\ bs.states \in [es.validators -> Infos]
      /\ bs.next \subseteq Validator
  BY <1>3 DEF BlockStates
<1>5. es.validators # {}
  <2>1. PICK v \in Validator : Stays(v)
    BY BlockPipelineAssumption
  <2>2. v \in es.validators
    BY <1>2, <2>1 DEF Punished
  <2>3. QED
    BY <2>2
<1>6. Latest(bs, job) = bs /\ Dead(bs, job) = bs.root.dead
  BY <1>1 DEF Latest, Dead
<1>7. Made \subseteq Event
  BY <1>3, <1>5, MadeIs
<1>8. c.events \subseteq Made /\ c.cheaters \subseteq es.validators
  BY <1>1 DEF Decided, Pending
<1>9. Proven(c) \subseteq Validator
  <2>1. \A e \in c.events : Body[e].proven \subseteq Validator
    BY <1>7, <1>8, BodyTyped
  <2>2. QED
    BY <2>1 DEF Proven
<1>10. es.start \in Nat /\ es.start <= bs.time
  BY <1>1, <1>2, <1>3, EpochTyped DEF InTime
<1>11. QED
  BY <1>1, <1>2, <1>3, <1>4, <1>5, <1>6, <1>7, <1>8, <1>9, <1>10 DEF InOrder, Mine

\* The next block comes later.
LEMMA CtxIs ==
  ASSUME NEW c, Ready(c)
  PROVE  /\ Ctx(c).idx = bs.idx + 1 /\ Ctx(c).idx \in Nat /\ Ctx(c).time \in Nat
         /\ bs.time < Ctx(c).time /\ Ctx(c) \in [idx : Nat, time : Nat]
<1>1. bs.idx \in Nat /\ bs.time \in Nat /\ es.validators \subseteq Validator
      /\ es \in EpochStates(es.validators) /\ c.events \subseteq Event
  BY ReadyIs
<1> DEFINE atropos == IF c.events = {} THEN 0 ELSE MedianTime(Max(c.events))
<1>2. atropos \in Nat
  <2>1. Len(Body) \in Nat /\ Event = 1 .. Len(Body)
    BY BodyTyped
  <2>2. c.events # {} => Max(c.events) \in Event
    BY <1>1, <2>1, MaxIs
  <2>3. QED
    BY <1>1, <2>2, TimeTyped
<1>3. Ctx(c) = [idx |-> bs.idx + 1, time |-> Larger(atropos, bs.time + 1)]
  BY DEF Ctx
<1> HIDE DEF atropos
<1>4. Larger(atropos, bs.time + 1) \in Nat /\ bs.time < Larger(atropos, bs.time + 1)
  BY <1>1, <1>2 DEF Larger
<1>5. QED
  BY <1>1, <1>3, <1>4

\* What is known of the state that a block begins with.
LEMMA AfterIs ==
  ASSUME NEW c, Ready(c)
  PROVE  /\ After(c) \in BlockStates(es.validators)
         /\ After(c).idx = bs.idx /\ After(c).time = bs.time /\ After(c).root = bs.root
         /\ After(c).next = bs.next
         /\ IsInjective(After(c).cheaters) /\ ToSet(After(c).cheaters) = All(c)
         /\ ToSet(Begun(c).cheaters) = seen \cup c.cheaters
         /\ \A v \in es.validators :
              /\ After(c).states[v].refund = bs.states[v].refund
              /\ After(c).states[v].lastBlock <= bs.idx + 1
              /\ After(c).states[v].event =
                   IF v \in Ignored(c) \/ Mine(c, v) = {} THEN bs.states[v].event
                   ELSE Chain(v)[Max(Mine(c, v))].account
<1> DEFINE g == es.validators
           states == [v \in g |-> IF v \in Ignored(c) \/ Mine(c, v) = {} THEN bs.states[v]
                                  ELSE Online(bs.states[v], Max(Mine(c, v)), Ctx(c))]
           merged == MergeCheaters(bs.cheaters, c.cheaters)
           cheaters == MergeCheaters(merged, Proven(c))
           gas == bs.gas + GasOf(c.events)
<1>1. /\ g \subseteq Validator /\ g # {} /\ es \in EpochStates(g) /\ bs \in BlockStates(g)
      /\ bs.idx \in Nat /\ bs.gas \in Nat /\ bs.cheaters \in Seq(Validator) /\ bs.states \in [g -> Infos]
      /\ Punished(bs, job) /\ InTime(bs, job) /\ Orderly(confirmed) /\ c.events \subseteq Event
      /\ c.cheaters \subseteq Validator /\ Proven(c) \subseteq Validator /\ c \in Decided
  BY ReadyIs DEF Ready
<1>2. After(c) = [idx |-> bs.idx, time |-> bs.time, root |-> bs.root, gas |-> gas,
                  cheaters |-> cheaters, written |-> bs.written, states |-> states,
                  next |-> bs.next, dirty |-> bs.dirty, advance |-> bs.advance]
  BY <1>1, AfterFields
<1>3. /\ merged \in Seq(Validator) /\ IsInjective(merged) /\ ToSet(merged) = seen \cup c.cheaters
  BY <1>1, MergeIs DEF Punished
<1>4. Begun(c).cheaters = merged
  BY <1>1 DEF Begun, BlockStates
<1> HIDE DEF merged
<1>5. cheaters \in Seq(Validator) /\ IsInjective(cheaters) /\ ToSet(cheaters) = All(c)
  BY <1>1, <1>3, MergeIs DEF All
<1> HIDE DEF cheaters
<1>6. Ctx(c).idx = bs.idx + 1 /\ Ctx(c).idx \in Nat
  BY CtxIs
<1>7. ASSUME NEW v \in g
      PROVE  /\ states[v] \in Infos /\ states[v].refund = bs.states[v].refund
             /\ states[v].lastBlock <= bs.idx + 1
             /\ states[v].event = IF v \in Ignored(c) \/ Mine(c, v) = {} THEN bs.states[v].event
                                  ELSE Chain(v)[Max(Mine(c, v))].account
  <2>1. bs.states[v] \in Infos /\ bs.states[v].lastBlock <= bs.idx + 1
    BY <1>1 DEF InTime
  <2>2. CASE v \in Ignored(c) \/ Mine(c, v) = {}
    BY <2>1, <2>2
  <2>3. CASE ~(v \in Ignored(c) \/ Mine(c, v) = {})
    <3> DEFINE M == Max(Mine(c, v))
    <3>1. M \in Mine(c, v) /\ M \in Event
      BY <1>1, <2>3, MineIs
    <3>2. Body[M].creator = v
      BY <3>1 DEF Mine
    <3> DEFINE info == bs.states[v]
               ctx == Ctx(c)
    <3>3. states[v] = Online(info, M, ctx) /\ info \in Infos /\ ctx.idx \in Nat
      BY <1>6, <2>1, <2>3
    <3>4. ctx.idx = bs.idx + 1
      BY <1>6
    <3> HIDE DEF M, info, ctx
    <3>5. /\ Online(info, M, ctx) \in Infos /\ Online(info, M, ctx).lastBlock = ctx.idx
          /\ Online(info, M, ctx).refund = info.refund
               /\ Online(info, M, ctx).event = Chain(v)[M].account
      BY <1>1, <3>1, <3>2, <3>3, OnlineIs
    <3> DEFINE s == states[v]
    <3>6. s = Online(info, M, ctx)
      BY <3>3
    <3> HIDE DEF states, s
    <3>7. s \in Infos /\ s.lastBlock = bs.idx + 1 /\ s.refund = info.refund
            /\ s.event = Chain(v)[M].account
      BY <3>4, <3>5, <3>6
    <3>8. QED
      BY <1>1, <2>3, <3>7 DEF s, info, M
  <2>4. QED
    BY <2>2, <2>3
<1>8. states \in [g -> Infos]
  BY <1>7
<1>9. gas \in Nat
  <2>1. Len(Body) \in 0 .. Len(Body) /\ \A e \in c.events : e <= Len(Body)
    BY <1>1, BodyTyped
  <2>2. GasOf(c.events) = GasUpTo(c.events, Len(Body)) /\ GasUpTo(c.events, Len(Body)) \in Nat
    BY <2>1, GasEnds
  <2>3. QED
    BY <1>1, <2>2
<1> HIDE DEF states, gas
<1>10. After(c) \in BlockStates(g)
  BY <1>1, <1>2, <1>5, <1>8, <1>9 DEF BlockStates
<1>11. QED
  BY <1>2, <1>3, <1>4, <1>5, <1>7, <1>10

\* What blocks have confirmed of a validator's events stays a beginning of them.
LEMMA OrderlyAfter ==
  ASSUME NEW c, Ready(c)
  PROVE  Orderly(confirmed \cup c.events)
<1>1. c.events \subseteq Made /\ Orderly(confirmed)
      /\ \A e \in c.events, f \in Made \ confirmed :
           f < e /\ Body[f].creator = Body[e].creator => f \in c.events
  BY ReadyIs DEF Ready, Decided, Pending
<1>2. QED
  BY <1>1 DEF Orderly

\* No uptime is longer than the epoch.
LEMMA UpsAfter ==
  ASSUME NEW c, Ready(c)
  PROVE  Ups(confirmed \cup c.events, After(c).states)
<1> DEFINE g == es.validators
<1>1. /\ g \subseteq Validator /\ g # {} /\ es \in EpochStates(g) /\ bs \in BlockStates(g)
      /\ bs.states \in [g -> Infos] /\ confirmed \subseteq Event
      /\ UpSince(bs, job) /\ Latest(bs, job) = bs /\ Orderly(confirmed) /\ c \in Decided
  BY ReadyIs DEF Ready
<1>2. SUFFICES ASSUME NEW v \in g
               PROVE  \/ After(c).states[v].uptime = 0
                      \/ /\ After(c).states[v].uptime <= After(c).states[v].online - es.start
                         /\ \E e \in confirmed \cup c.events :
                              Body[e].creator = v /\ After(c).states[v].online = MedianTime(e)
  BY DEF Ups
<1> DEFINE info == bs.states[v]
           now == After(c).states[v]
<1>3. \/ info.uptime = 0
      \/ /\ info.uptime <= info.online - es.start
         /\ \E e \in confirmed : Body[e].creator = v /\ info.online = MedianTime(e)
  BY <1>1 DEF UpSince, Ups
<1>4. now = IF v \in Ignored(c) \/ Mine(c, v) = {} THEN info
            ELSE Online(info, Max(Mine(c, v)), Ctx(c))
  <2> DEFINE states == [x \in g |-> IF x \in Ignored(c) \/ Mine(c, x) = {} THEN bs.states[x]
                                   ELSE Online(bs.states[x], Max(Mine(c, x)), Ctx(c))]
  <2>1. states[v] = IF v \in Ignored(c) \/ Mine(c, v) = {} THEN info
                    ELSE Online(info, Max(Mine(c, v)), Ctx(c))
    BY <1>2
  <2>2. After(c).states = states
    <3> HIDE DEF states
    <3>1. After(c) =
            [idx |-> bs.idx, time |-> bs.time, root |-> bs.root, gas |-> bs.gas + GasOf(c.events),
             cheaters |-> MergeCheaters(MergeCheaters(bs.cheaters, c.cheaters), Proven(c)),
             written |-> bs.written, states |-> states, next |-> bs.next, dirty |-> bs.dirty,
             advance |-> bs.advance]
      BY <1>1, AfterFields DEF states
    <3>2. QED
      BY <3>1
  <2>3. QED
    BY <2>1, <2>2
<1>5. CASE v \in Ignored(c) \/ Mine(c, v) = {}
  BY <1>3, <1>4, <1>5
<1>6. CASE ~(v \in Ignored(c) \/ Mine(c, v) = {})
  <2> DEFINE M == Max(Mine(c, v))
             ctx == Ctx(c)
  <2>1. M \in Mine(c, v) /\ M \in Event /\ LastOf(confirmed, v) \in 0 .. Len(Body)
          /\ LastOf(confirmed, v) < M
    BY <1>1, <1>6, MineIs
  <2>2. Body[M].creator = v /\ M \in c.events
    BY <2>1 DEF Mine
  <2>3. info \in Infos /\ ctx.idx \in Nat /\ now = Online(info, M, ctx)
    BY <1>1, <1>4, <1>6, CtxIs
  <2>4. \/ info.uptime = 0
        \/ /\ info.uptime <= info.online - es.start
           /\ \E e \in Event : e < M /\ info.online = MedianTime(e)
    <3>1. \A e \in confirmed : Body[e].creator = v => e <= LastOf(confirmed, v)
      BY <1>1, LastIs
    <3>2. \A e \in confirmed : Body[e].creator = v => e < M
      <4>1. Len(Body) \in Nat /\ Event = 1 .. Len(Body)
        BY BodyTyped
      <4>2. QED
        BY <1>1, <2>1, <3>1, <4>1
    <3> HIDE DEF M
    <3>3. QED
      BY <1>1, <1>3, <3>2
  <2> HIDE DEF M, ctx, info, now
  <2>5. /\ Online(info, M, ctx).uptime = 0
             \/ Online(info, M, ctx).uptime <= Online(info, M, ctx).online - es.start
        /\ Online(info, M, ctx).online = MedianTime(M)
    BY <1>1, <2>1, <2>2, <2>3, <2>4, UpsOnline, OnlineIs
  <2>6. /\ now.uptime = 0 \/ now.uptime <= now.online - es.start
        /\ now.online = MedianTime(M)
    BY <2>3, <2>5
  <2>7. QED
    BY <2>2, <2>6 DEF now
<1>7. QED
  BY <1>5, <1>6

\* What validators have been allotted covers what they have confirmed, this block's events too.
LEMMA AllottedIs ==
  ASSUME NEW c, Ready(c)
  PROVE  /\ Allotted(Begun(c), c) \in [Validator -> [credit : Int, since : Nat, recorded : BOOLEAN]]
         /\ \A v \in es.validators : Allotted(Begun(c), c)[v].recorded =>
              Covers(confirmed \cup c.events, v, Allotted(Begun(c), c)[v], v \in All(c),
                     After(c).states[v].event)
<1> DEFINE g == es.validators
           taken == {Indexed(v) : v \in ToSet(Begun(c).cheaters) \ g}
           until(v) == MedianTime(Max(Mine(c, v)))
           allot(v) == [credit |-> account[v].credit - GasOf(Mine(c, v))
                                     + (until(v) - account[v].since) * PerSec(g),
                        since |-> until(v),
                        recorded |-> account[v].recorded /\ v \notin taken]
           al == Allotted(Begun(c), c)
           conf == confirmed \cup c.events
<1>1. /\ g \subseteq Validator /\ g # {} /\ es \in EpochStates(g) /\ bs \in BlockStates(g)
      /\ confirmed \subseteq Event /\ Covered(bs, job) /\ Latest(bs, job) = bs /\ Orderly(confirmed)
      /\ c \in Decided /\ c.events \subseteq Event
      /\ account \in [Validator -> [credit : Int, since : Nat, recorded : BOOLEAN]]
  BY ReadyIs DEF Ready, Typed
<1>2. al = [v \in Validator |-> IF Mine(c, v) = {} THEN account[v] ELSE allot(v)]
  BY DEF Allotted, Mine
<1>3. \A v \in Validator : account[v].credit \in Int /\ account[v].since \in Nat
        /\ account[v].recorded \in BOOLEAN
                           /\ account[v] \in [credit : Int, since : Nat, recorded : BOOLEAN]
  BY <1>1
<1>4. PerSec(g) \in Nat
  BY <1>1, RateTyped
<1>5. \A v \in Validator : Mine(c, v) # {} => Max(Mine(c, v)) \in Mine(c, v) /\ Max(Mine(c, v)) \in Event
  <2>1. SUFFICES ASSUME NEW v \in Validator, Mine(c, v) # {}
                 PROVE  Max(Mine(c, v)) \in Mine(c, v) /\ Max(Mine(c, v)) \in Event
    OBVIOUS
  <2>2. Len(Body) \in Nat /\ Event = 1 .. Len(Body) /\ Mine(c, v) \subseteq Event
    BY <1>1, BodyTyped DEF Mine
  <2>3. QED
    BY <2>1, <2>2, MaxIs
<1>6. \A v \in Validator : Mine(c, v) # {}
        => allot(v) \in [credit : Int, since : Nat, recorded : BOOLEAN]
  <2>1. SUFFICES ASSUME NEW v \in Validator, Mine(c, v) # {}
                 PROVE  allot(v) \in [credit : Int, since : Nat, recorded : BOOLEAN]
    OBVIOUS
  <2>2. until(v) \in Nat
    BY <1>1, <1>5, <2>1, TimeTyped
  <2>3. GasOf(Mine(c, v)) \in Int
    <3>1. Len(Body) \in 0 .. Len(Body) /\ \A e \in Mine(c, v) : e <= Len(Body)
      BY <1>1, BodyTyped DEF Mine
    <3>2. GasOf(Mine(c, v)) = GasUpTo(Mine(c, v), Len(Body)) /\ GasUpTo(Mine(c, v), Len(Body)) \in Nat
      BY <3>1, GasEnds
    <3>3. QED
      BY <3>2
  <2>4. (until(v) - account[v].since) \in Int
    BY <1>3, <2>2
  <2> DEFINE x == until(v) - account[v].since
             p == PerSec(g)
             z == x * p
  <2>5. z \in Int
    <3>1. x <= x /\ x \in Int /\ p \in Nat
      BY <1>4, <2>4
    <3> HIDE DEF x, p
    <3>2. QED
      BY <3>1, Longer
  <2> HIDE DEF z
  <2>6. account[v].credit - GasOf(Mine(c, v)) + z \in Int
    BY <1>3, <2>3, <2>5
  <2>7. (account[v].recorded /\ v \notin taken) \in BOOLEAN
    OBVIOUS
  <2> DEFINE n == account[v].credit - GasOf(Mine(c, v)) + z
             r == account[v].recorded /\ v \notin taken
             u == until(v)
  <2>8. allot(v) = [credit |-> n, since |-> u, recorded |-> r]
    BY DEF z
  <2> HIDE DEF n, r, u, allot
  <2>9. n \in Int /\ u \in Nat /\ r \in BOOLEAN
    BY <2>2, <2>6, <2>7 DEF n, u, r
  <2>10. QED
    BY <2>8, <2>9
<1>7. al \in [Validator -> [credit : Int, since : Nat, recorded : BOOLEAN]]
  <2> HIDE DEF al, allot
  <2>1. QED
    BY <1>2, <1>3, <1>6
<1>8. ASSUME NEW v \in g, al[v].recorded
      PROVE  Covers(conf, v, al[v], v \in All(c), After(c).states[v].event)
  <2>1. v \in Validator
    BY <1>1
  <2>2. After(c).states[v].event = IF v \in Ignored(c) \/ Mine(c, v) = {} THEN bs.states[v].event
                                   ELSE Chain(v)[Max(Mine(c, v))].account
    BY AfterIs
  <2>3. CASE Mine(c, v) = {}
    <3>1. al[v] = account[v] /\ After(c).states[v].event = bs.states[v].event
      BY <1>2, <2>1, <2>2, <2>3
    <3>2. Covers(confirmed, v, account[v], v \in seen, bs.states[v].event)
      BY <1>1, <1>8, <3>1 DEF Covered
    <3>3. LastOf(conf, v) = LastOf(confirmed, v)
      <4>1. {e \in conf : Body[e].creator = v} = {e \in confirmed : Body[e].creator = v}
        BY <2>3 DEF Mine
      <4>2. QED
        BY <4>1 DEF LastOf
    <3>4. v \notin All(c) => v \notin seen
      BY DEF All
    <3> DEFINE a == account[v]
               kept == bs.states[v].event
    <3> HIDE DEF a, kept, al
    <3>5. Covers(conf, v, a, v \in All(c), kept)
      BY <3>2, <3>3, <3>4 DEF Covers, a, kept
    <3>6. QED
      BY <3>1, <3>5 DEF a, kept
  <2>4. CASE Mine(c, v) # {}
    <3> DEFINE M == Max(Mine(c, v))
               a == account[v]
               now == After(c).states[v].event
               last == Chain(v)[M].account
    <3>1. al[v] = allot(v)
      BY <1>2, <2>1, <2>4
    <3>2. a.recorded /\ v \notin taken
      <4>1. allot(v).recorded = (a.recorded /\ v \notin taken)
        OBVIOUS
      <4> HIDE DEF al, allot, taken, a
      <4>2. QED
        BY <1>8, <3>1, <4>1
    <3>3. Covers(confirmed, v, a, v \in seen, bs.states[v].event)
      BY <1>1, <3>2 DEF Covered
    <3>4. M \in Mine(c, v) /\ M \in Event /\ LastOf(conf, v) = M
      BY <1>1, <2>4, MineIs
    <3>5. M \in c.events /\ Body[M].creator = v /\ M # 0
      BY <3>4, BodyTyped DEF Mine
    <3>6. /\ until(v) \in Nat /\ last.time = until(v)
          /\ al[v].credit \in Int /\ al[v].credit >= last.left /\ al[v].since = until(v)
      <4>1. a.credit \in Int /\ a.since \in Nat
        BY <1>3, <2>1
      <4> DEFINE stained == v \in seen
                 kept == bs.states[v].event
      <4>2. Covers(confirmed, v, a, stained, kept)
        BY <3>3
      <4> HIDE DEF a, stained, kept
      <4>3. LET credit == a.credit - GasOf(Mine(c, v)) + (until(v) - a.since) * PerSec(g)
            IN /\ until(v) \in Nat /\ last.time = until(v)
               /\ credit \in Int /\ credit >= last.left
        BY <1>1, <2>4, <4>1, <4>2, Spent
      <4>4. al[v].credit = a.credit - GasOf(Mine(c, v)) + (until(v) - a.since) * PerSec(g)
            /\ al[v].since = until(v)
        BY <3>1 DEF a
      <4>5. QED
        BY <4>3, <4>4
    <3>7. v \notin All(c) => now = last
      <4>1. SUFFICES ASSUME v \notin All(c) PROVE v \notin Ignored(c)
        BY <2>2, <2>4
      <4>2. SUFFICES ASSUME NEW x \in ToSet(Begun(c).cheaters), v = Indexed(x) PROVE FALSE
        BY DEF Ignored
      <4>3. ToSet(Begun(c).cheaters) \subseteq All(c)
        BY AfterIs DEF All
      <4>4. CASE x \in g
        BY <4>1, <4>2, <4>3, <4>4 DEF Indexed
      <4>5. CASE x \notin g
        BY <3>2, <4>2, <4>5
      <4>6. QED
        BY <4>4, <4>5
    <3>8. al[v].since <= es.start
            \/ \E e \in Event : /\ al[v].since = Body[e].time
                                /\ \/ Body[e].epoch < es.epoch
                                   \/ e \in conf /\ Body[e].creator = v
      <4>1. until(v) = es.start \/ until(v) = Body[M].time
        BY <1>1, <3>4, TimeTyped
      <4>2. es.start \in Nat
        BY <1>1, EpochTyped
      <4>3. QED
        BY <3>4, <3>5, <3>6, <4>1, <4>2
    <3>9. al[v].since = MedianTime(M) /\ al[v].since <= last.time
      BY <3>6
    <3> HIDE DEF M, last, now, al, conf
    <3>10. Covers(conf, v, al[v], v \in All(c), now)
      BY <3>4, <3>5, <3>6, <3>7, <3>8, <3>9 DEF Covers, last
    <3>11. QED
      BY <3>10 DEF now
  <2>5. QED
    BY <2>3, <2>4
<1>9. QED
  BY <1>7, <1>8

----------------------------------------------------------------------------
(* How a block begins *)

Pre(c) == PreInternalTxs(After(c), EpochSealing(After(c), Ctx(c)))

\* The driver is told of each cheater, and of nobody else.
LEMMA PreIs ==
  ASSUME NEW c, Ready(c)
  PROVE  /\ Pre(c) \in Seq(DriverTx)
         /\ EpochSealing(After(c), Ctx(c)) \in BOOLEAN
         /\ \A i \in DOMAIN Pre(c) : Pre(c)[i] \in DriverTx
         /\ Deactivations(Pre(c)) = DOMAIN After(c).cheaters
         /\ \A i \in DOMAIN After(c).cheaters : Pre(c)[i] = Deactivate(After(c).cheaters[i])
<1> DEFINE ch == After(c).cheaters
           n == Len(ch)
           sealing == EpochSealing(After(c), Ctx(c))
           first == [i \in 1 .. n |-> Deactivate(ch[i])]
           rest == IF sealing THEN <<SealEpochMetrics>> ELSE <<>>
           txs == Pre(c)
<1>1. ch \in Seq(Validator) /\ After(c).written = 0
  <2>1. After(c) \in BlockStates(es.validators)
    BY AfterIs
  <2>2. QED
    BY <2>1 DEF BlockStates
<1>2. sealing \in BOOLEAN
  BY DEF EpochSealing
<1>3. n \in Nat /\ DOMAIN ch = 1 .. n /\ \A i \in 1 .. n : ch[i] \in Validator
  BY <1>1
<1>4. SubSeq(ch, 0 + 1, n) = ch
  BY <1>1
<1>5. txs = first \o rest
  <2>1. SubSeq(ch, After(c).written + 1, Len(ch)) = ch
    BY <1>1, <1>4
  <2>2. PreInternalTxs(After(c), sealing) =
          [i \in 1 .. Len(SubSeq(ch, After(c).written + 1, Len(ch))) |->
             Deactivate(SubSeq(ch, After(c).written + 1, Len(ch))[i])] \o rest
    BY DEF PreInternalTxs
  <2>3. QED
    BY <2>1, <2>2 DEF Pre
<1> HIDE DEF ch, n, sealing, txs
<1>6. first \in Seq(DriverTx) /\ Len(first) = n /\ \A i \in 1 .. n : first[i] = Deactivate(ch[i])
  BY <1>3 DEF DriverTx
<1>7. rest \in Seq(DriverTx) /\ \A i \in 1 .. Len(rest) : rest[i] = SealEpochMetrics
  <2> DEFINE one == SealEpochMetrics
  <2>1. one \in DriverTx
    BY DEF DriverTx
  <2> HIDE DEF one
  <2>2. <<one>> \in Seq(DriverTx) /\ Len(<<one>>) = 1 /\ <<one>>[1] = one
    BY <2>1
  <2>3. rest = IF sealing THEN <<one>> ELSE <<>>
    BY DEF one
  <2> HIDE DEF rest
  <2>4. CASE sealing
    BY <2>2, <2>3, <2>4 DEF one
  <2>5. CASE ~sealing
    <3>1. rest = <<>>
      BY <2>3, <2>5
    <3>2. QED
      BY <3>1
  <2>6. QED
    BY <2>4, <2>5
<1> HIDE DEF first, rest
<1>8. /\ txs \in Seq(DriverTx) /\ Len(txs) = n + Len(rest) /\ DOMAIN txs = 1 .. Len(txs)
           /\ Len(rest) \in Nat
      /\ \A i \in 1 .. n : i \in 1 .. Len(txs) /\ txs[i] = first[i]
      /\ \A i \in 1 .. Len(txs) : i \notin 1 .. n => i - n \in 1 .. Len(rest) /\ txs[i] = rest[i - n]
  <2> HIDE DEF DriverTx
  <2>1. /\ Len(rest) \in Nat /\ txs \in Seq(DriverTx) /\ Len(txs) = n + Len(rest)
        /\ DOMAIN txs = 1 .. Len(txs)
        /\ \A i \in 1 .. Len(txs) : txs[i] = IF i <= n THEN first[i] ELSE rest[i - n]
    BY <1>3, <1>5, <1>6, <1>7
  <2>2. QED
    BY <1>3, <2>1
<1>9. \A i \in 1 .. n : txs[i] = Deactivate(ch[i]) /\ txs[i].call = "deactivate" /\ i \in 1 .. Len(txs)
  BY <1>6, <1>8 DEF Deactivate
<1>10. \A i \in 1 .. Len(txs) : i \notin 1 .. n => txs[i].call # "deactivate"
  BY <1>7, <1>8 DEF SealEpochMetrics
<1>11. Deactivations(txs) = 1 .. n
  BY <1>8, <1>9, <1>10 DEF Deactivations
<1>12. \A i \in DOMAIN txs : txs[i] \in DriverTx
  BY <1>8
<1>13. QED
  BY <1>2, <1>3, <1>8, <1>9, <1>11, <1>12 DEF ch, txs, sealing

\* What the driver has done of it, and what the listener has heard
Opening(c) == Execute(NewProcessor(After(c).root, es.rules), Pre(c))
Hears(c) == OnNewLogs(After(c), es.rules, Opening(c).logs)

\* Cheaters are dead then, and nobody else that was not before; none of them is in the next group.
LEMMA OpeningIs ==
  ASSUME NEW c, Ready(c)
  PROVE  /\ Opening(c) \in Processors /\ Opening(c).price = es.rules.price /\ Opening(c).txs = Pre(c)
         /\ Sound(Opening(c), bs.root)
         /\ Opening(c).world.dead = bs.root.dead \cup All(c)
         /\ Hears(c) \in BlockStates(es.validators) /\ Untold(Hears(c), After(c))
         /\ Hears(c).next \cap Opening(c).world.dead = {}
         /\ \A v \in Validator : Stays(v) =>
              /\ v \in es.validators /\ v \in Hears(c).next /\ v \notin All(c)
              /\ v \notin Opening(c).world.dead
<1> DEFINE g == es.validators
           b == After(c)
           w == bs.root
           txs == Pre(c)
           p0 == NewProcessor(w, es.rules)
           p == Execute(p0, txs)
<1>1. /\ w \in Worlds /\ es \in EpochStates(g) /\ Punished(bs, job) /\ Latest(bs, job) = bs
      /\ Dead(bs, job) = w.dead /\ c \in Decided /\ c.events \subseteq Event
  BY ReadyIs DEF Ready
<1>2. es.rules \in Rules /\ es.rules.price \in Nat
  BY <1>1, EpochTyped
<1>3. b \in BlockStates(g) /\ b.root = w /\ b.next = bs.next /\ ToSet(b.cheaters) = All(c)
  BY AfterIs
<1>4. /\ txs \in Seq(DriverTx) /\ \A i \in DOMAIN txs : txs[i] \in DriverTx
      /\ Deactivations(txs) = DOMAIN b.cheaters
      /\ \A i \in DOMAIN b.cheaters : txs[i] = Deactivate(b.cheaters[i])
  BY PreIs
<1>5. p0 \in Processors /\ p0.world = w /\ p0.price = es.rules.price /\ p0.txs = <<>> /\ p0.logs = <<>>
  BY <1>1, <1>2, NewTyped
<1>6. Sound(p0, w)
  BY <1>1, <1>2, ReplaysNew
<1> HIDE DEF p0, w, txs
<1>7. txs \in Seq(AnyTx) /\ DOMAIN txs = 1 .. Len(txs)
  <2>1. DriverTx \subseteq AnyTx
    BY DEF AnyTx
  <2> HIDE DEF b
  <2>2. QED
    BY <1>4, <2>1, SeqWithin
<1>8. /\ p \in Processors /\ p.price = p0.price /\ p.txs = p0.txs \o txs
      /\ p0.world.dead \subseteq p.world.dead
      /\ \A i \in 1 .. Len(txs) : txs[i] \in DriverTx /\ txs[i].call = "deactivate"
           => txs[i].validator \in p.world.dead
      /\ \A v \in p.world.dead :
           v \in p0.world.dead
             \/ \E i \in 1 .. Len(txs) : txs[i] \in DriverTx /\ txs[i].call = "deactivate"
                                          /\ v = txs[i].validator
  BY <1>5, <1>7, ExecuteTyped
<1>9. Sound(p, w)
  BY <1>1, <1>5, <1>6, <1>7, ExecuteSound
<1>10. Opening(c) = p
  BY <1>3 DEF Opening, p0, txs
<1>11. <<>> \o txs = txs
  BY <1>7
<1>12. /\ \A i \in 1 .. Len(txs) : txs[i].call = "deactivate" => txs[i].validator \in All(c)
       /\ All(c) \subseteq p.world.dead
  <2>1. \A i \in DOMAIN b.cheaters : txs[i].call = "deactivate" /\ txs[i].validator = b.cheaters[i]
                                     /\ i \in 1 .. Len(txs)
    <3>1. \A i \in DOMAIN b.cheaters : i \in 1 .. Len(txs)
      BY <1>4, <1>7 DEF Deactivations
    <3>2. \A x : Deactivate(x).call = "deactivate" /\ Deactivate(x).validator = x
      BY DEF Deactivate
    <3> HIDE DEF b
    <3>3. QED
      BY <1>4, <3>1, <3>2
  <2>2. \A i \in 1 .. Len(txs) : txs[i].call = "deactivate" => i \in DOMAIN b.cheaters
    BY <1>4, <1>7 DEF Deactivations
  <2>3. \A x : x \in All(c) <=> \E i \in DOMAIN b.cheaters : x = b.cheaters[i]
    BY <1>3 DEF ToSet
  <2>4. \A i \in 1 .. Len(txs) : txs[i] \in DriverTx
    BY <1>4, <1>7
  <2> HIDE DEF p, b
  <2>5. \A i \in 1 .. Len(txs) : txs[i].call = "deactivate" => txs[i].validator \in All(c)
    BY <2>1, <2>2, <2>3
  <2>6. All(c) \subseteq p.world.dead
    <3>1. SUFFICES ASSUME NEW x \in All(c) PROVE x \in p.world.dead
      OBVIOUS
    <3>2. PICK i \in DOMAIN b.cheaters : x = b.cheaters[i]
      BY <2>3, <3>1
    <3>3. QED
      BY <1>8, <2>1, <2>4, <3>2
  <2>7. QED
    BY <2>5, <2>6
<1>13. OnNewLogs(b, es.rules, <<>>) = b
  <2> DEFINE none == <<>>
  <2>1. Len(none) = 0
    OBVIOUS
  <2> HIDE DEF none, b
  <2>2. Heard(b, es.rules, none)[0] = b
    BY <2>1, HeardIs
  <2>3. OnNewLogs(b, es.rules, none) = b
    BY <2>1, <2>2 DEF OnNewLogs
  <2>4. QED
    BY <2>3 DEF none
<1>14. b.next \cap w.dead = {}
  BY <1>1, <1>3 DEF Punished
<1>15. ASSUME NEW v
       PROVE  /\ p.logs \in Seq(Log)
              /\ OnNewLogs(b, es.rules, p.logs).next \cap p.world.dead = {}
              /\ v \in b.next /\ (\A i \in 1 .. Len(txs) : ~Leaves(txs[i], v))
                   => v \in OnNewLogs(b, es.rules, p.logs).next
  <2> DEFINE none == <<>>
  <2>1. OnNewLogs(b, es.rules, none) = b /\ none \in Seq(Log)
    BY <1>13
  <2>2. p.logs \in Seq(Log)
    BY <1>8 DEF Processors
  <2>3. none \o p.logs = p.logs
    BY <2>2
  <2> HIDE DEF none, b
  <2>4. OnNewLogs(b, es.rules, none).next \cap p0.world.dead = {}
    BY <1>5, <1>14, <2>1
  <2>5. LET h == OnNewLogs(b, es.rules, none \o p.logs)
        IN /\ h.next \cap p.world.dead = {}
           /\ v \in OnNewLogs(b, es.rules, none).next /\ (\A i \in 1 .. Len(txs) : ~Leaves(txs[i], v))
                => v \in h.next
    BY <1>2, <1>3, <1>5, <1>7, <2>1, <2>4, HeardAfter
  <2>6. QED
    BY <2>1, <2>2, <2>3, <2>5
<1>16. Hears(c) = OnNewLogs(b, es.rules, p.logs)
  BY <1>10 DEF Hears
<1>17. Hears(c) \in BlockStates(g) /\ Untold(Hears(c), b)
  <2> HIDE DEF b, p
  <2>1. QED
    BY <1>2, <1>3, <1>15, <1>16, HeardTyped
<1>18. ASSUME NEW v \in Validator, Stays(v)
       PROVE  /\ v \in g /\ v \in Hears(c).next /\ v \notin All(c) /\ v \notin p.world.dead
  <2>1. v \in g /\ v \in bs.next /\ v \notin seen /\ v \notin w.dead
    BY <1>1, <1>18 DEF Punished
  <2>2. v \notin c.cheaters /\ v \notin Proven(c)
    BY <1>1, <1>18 DEF Stays, Decided, Proven
  <2>3. v \notin All(c)
    BY <2>1, <2>2 DEF All
  <2>4. \A i \in 1 .. Len(txs) : ~Leaves(txs[i], v)
    <3>1. SUFFICES ASSUME NEW i \in 1 .. Len(txs) PROVE ~Leaves(txs[i], v)
      OBVIOUS
    <3>2. txs[i] \in DriverTx /\ txs[i] \notin Tx
      BY <1>4, <1>7, Senders
    <3>3. QED
      BY <1>12, <2>3, <3>2 DEF Leaves
  <2> HIDE DEF b, p
  <2>5. v \in Hears(c).next
    BY <1>3, <1>15, <1>16, <2>1, <2>4
  <2>6. v \notin p.world.dead
    BY <1>5, <1>8, <1>12, <2>1, <2>3
  <2>7. QED
    BY <2>1, <2>3, <2>5, <2>6
<1> HIDE DEF p
<1>19. p.world.dead = w.dead \cup All(c)
  <2>1. w.dead \subseteq p.world.dead /\ All(c) \subseteq p.world.dead
    BY <1>5, <1>8, <1>12
  <2>2. \A v \in p.world.dead : v \in w.dead \/ v \in All(c)
    BY <1>5, <1>8, <1>12
  <2>3. QED
    BY <2>1, <2>2
<1>20. QED
  BY <1>5, <1>8, <1>9, <1>10, <1>11, <1>15, <1>16, <1>17, <1>18, <1>19 DEF txs, w

----------------------------------------------------------------------------
(* The epoch that begins *)

Sealing(c) == EpochSealing(After(c), Ctx(c))
Begin(c) == Start(After(c), c, Ctx(c))
Sealed(c) == SealEpoch(Hears(c), Ctx(c))

\* What a validator of the next group begins with
Starts(c, v) ==
  IF v \in es.validators THEN [Hears(c).states[v] EXCEPT !.refund = 0, !.uptime = 0]
  ELSE [NewState EXCEPT !.lastBlock = Ctx(c).idx, !.online = Ctx(c).time]

\* What the listener hears does not change the states.
LEMMA HearsIs ==
  ASSUME NEW c, Ready(c)
  PROVE  /\ Hears(c) \in BlockStates(es.validators)
         /\ Hears(c).idx = bs.idx /\ Hears(c).time = bs.time /\ Hears(c).root = bs.root
         /\ Hears(c).cheaters = After(c).cheaters /\ Hears(c).states = After(c).states
         /\ Hears(c).next \subseteq Validator /\ Hears(c).states \in [es.validators -> Infos]
<1>1. Hears(c) \in BlockStates(es.validators) /\ Untold(Hears(c), After(c))
  BY OpeningIs
<1>2. After(c).idx = bs.idx /\ After(c).time = bs.time /\ After(c).root = bs.root
  BY AfterIs
<1>3. Hears(c).next \subseteq Validator /\ Hears(c).states \in [es.validators -> Infos]
  BY <1>1 DEF BlockStates
<1>4. QED
  BY <1>1, <1>2, <1>3 DEF Untold

\* What a validator of the next group begins with is a state.
LEMMA StartsIs ==
  ASSUME NEW c, Ready(c), NEW v
  PROVE  /\ Starts(c, v) \in Infos
         /\ Starts(c, v).uptime = 0 /\ Starts(c, v).refund = 0
         /\ Starts(c, v).lastBlock <= bs.idx + 1
         /\ Starts(c, v).event = IF v \in es.validators THEN After(c).states[v].event ELSE NoEvent
<1>1. Ctx(c).idx = bs.idx + 1 /\ Ctx(c).idx \in Nat /\ Ctx(c).time \in Nat
  BY CtxIs
<1>2. CASE v \in es.validators
  <2> DEFINE info == Hears(c).states[v]
  <2>1. info \in Infos /\ info = After(c).states[v]
    BY <1>2, HearsIs
  <2>2. /\ info = [uptime |-> info.uptime, online |-> info.online, lastBlock |-> info.lastBlock,
                   refund |-> info.refund, event |-> info.event]
        /\ info.online \in Nat /\ info.lastBlock \in Nat /\ info.event \in Accounts
    BY <2>1 DEF Infos
  <2>3. info.lastBlock <= bs.idx + 1
    BY <1>2, <2>1, AfterIs
  <2>4. Starts(c, v) = [info EXCEPT !.refund = 0, !.uptime = 0]
    BY <1>2 DEF Starts
  <2> HIDE DEF info
  <2>5. Starts(c, v) = [uptime |-> 0, online |-> info.online, lastBlock |-> info.lastBlock,
                        refund |-> 0, event |-> info.event]
    BY <2>2, <2>4
  <2>6. Starts(c, v) \in Infos
    BY <2>2, <2>5 DEF Infos
  <2>7. QED
    BY <1>2, <2>1, <2>3, <2>5, <2>6
<1>3. CASE v \notin es.validators
  <2>1. Starts(c, v) = [uptime |-> 0, online |-> Ctx(c).time, lastBlock |-> Ctx(c).idx, refund |-> 0,
                        event |-> NoEvent]
    BY <1>3 DEF Starts, NewState
  <2>2. NoEvent \in Accounts
    BY DEF NoEvent, Accounts
  <2>3. Starts(c, v) \in Infos
    BY <1>1, <2>1, <2>2 DEF Infos
  <2>4. QED
    BY <1>1, <1>3, <2>1, <2>3
<1>4. QED
  BY <1>2, <1>3

\* The epoch that a sealed one is followed by.
LEMMA SealedIs ==
  ASSUME NEW c, Ready(c)
  PROVE  LET n == Hears(c).next
             b == Sealed(c).bs
             e == Sealed(c).es
         IN /\ b \in BlockStates(n) /\ e \in EpochStates(n) /\ e.validators = n
            /\ b.idx = bs.idx /\ b.time = bs.time /\ b.root = bs.root /\ b.cheaters = <<>> /\ b.next = n
            /\ \A v \in n : b.states[v] = Starts(c, v)
            /\ e.epoch = es.epoch + 1 /\ e.start = Ctx(c).time
            /\ \A v \in n : /\ e.refund[v] = IF v \in es.validators THEN bs.states[v].refund ELSE 0
                            /\ e.prev[v] = IF v \in es.validators
                                 THEN After(c).states[v].event ELSE NoEvent
<1> DEFINE h == Hears(c)
           n == h.next
           g == es.validators
           states == [v \in n |-> Starts(c, v)]
           refund == [v \in n |-> IF v \in g THEN h.states[v].refund ELSE 0]
           prev == [v \in n |-> IF v \in g THEN h.states[v].event ELSE NoEvent]
           rules == IF h.dirty = NoRules THEN es.rules ELSE h.dirty
           advance == Larger(h.advance, 1) - 1
<1>1. /\ h \in BlockStates(g) /\ h.idx = bs.idx /\ h.time = bs.time /\ h.root = bs.root
      /\ h.states = After(c).states /\ n \subseteq Validator /\ h.states \in [g -> Infos]
  BY HearsIs
<1>2. /\ h = [idx |-> h.idx, time |-> h.time, root |-> h.root, gas |-> h.gas,
              cheaters |-> h.cheaters, written |-> h.written, states |-> h.states,
              next |-> h.next, dirty |-> h.dirty, advance |-> h.advance]
      /\ h.idx \in Nat /\ h.time \in Nat /\ h.root \in Worlds /\ h.advance \in 0 .. MaxAdvanceEpochs
      /\ h.dirty \in Rules \cup {NoRules}
  BY <1>1 DEF BlockStates
<1>3. es.epoch \in Nat /\ es.rules \in Rules /\ Ctx(c).time \in Nat
  BY ReadyIs, EpochTyped, CtxIs
<1>4. \A v : Starts(c, v) \in Infos
  BY StartsIs
<1>5. states \in [n -> Infos]
  BY <1>4
<1>6. refund \in [n -> Nat] /\ prev \in [n -> Accounts]
  <2>1. \A v \in g : h.states[v].refund \in Nat /\ h.states[v].event \in Accounts
    BY <1>1 DEF Infos
  <2>2. NoEvent \in Accounts
    BY DEF NoEvent, Accounts
  <2> HIDE DEF h, n
  <2>3. QED
    BY <2>1, <2>2
<1>7. rules \in Rules
  BY <1>2, <1>3
<1>8. advance \in 0 .. MaxAdvanceEpochs
  <2>1. MaxAdvanceEpochs \in Nat
    BY BlockPipelineAssumption
  <2>2. QED
    BY <1>2, <2>1 DEF Larger
<1> DEFINE none == <<>>
<1>9. Sealed(c).bs = [h EXCEPT !.states = states, !.gas = 0, !.cheaters = none, !.written = 0,
                               !.dirty = NoRules, !.advance = advance]
  BY DEF Sealed, SealEpoch, Starts
<1>10. Sealed(c).es = [epoch |-> es.epoch + 1, start |-> Ctx(c).time, validators |-> n,
                       refund |-> refund, prev |-> prev, rules |-> rules]
  BY DEF Sealed, SealEpoch
<1>11. none \in Seq(Validator)
  OBVIOUS
<1>12. /\ \A v \in n : states[v] = Starts(c, v)
       /\ \A v \in n : /\ refund[v] = IF v \in g THEN h.states[v].refund ELSE 0
                       /\ prev[v] = IF v \in g THEN h.states[v].event ELSE NoEvent
  OBVIOUS
<1>13. \A v \in g : h.states[v].refund = bs.states[v].refund
         /\ h.states[v].event = After(c).states[v].event
  BY <1>1, AfterIs
<1> HIDE DEF h, n, states, refund, prev, rules, advance, none
<1>14. Sealed(c).bs =
         [idx |-> h.idx, time |-> h.time, root |-> h.root, gas |-> 0, cheaters |-> none, written |-> 0,
          states |-> states, next |-> h.next, dirty |-> NoRules, advance |-> advance]
  BY <1>2, <1>9
<1>15. Sealed(c).bs \in BlockStates(n)
  BY <1>1, <1>2, <1>5, <1>8, <1>11, <1>14 DEF BlockStates, n
<1>16. Sealed(c).es \in EpochStates(n)
  BY <1>3, <1>6, <1>7, <1>10 DEF EpochStates
<1>17. \A v \in n : Sealed(c).bs.states[v] = Starts(c, v)
  BY <1>12, <1>14
<1>18. \A v \in n : /\ Sealed(c).es.refund[v] = IF v \in g THEN bs.states[v].refund ELSE 0
                    /\ Sealed(c).es.prev[v] = IF v \in g THEN After(c).states[v].event ELSE NoEvent
  BY <1>10, <1>12, <1>13
<1>19. Sealed(c).es.validators = n /\ Sealed(c).es.epoch = es.epoch + 1
         /\ Sealed(c).es.start = Ctx(c).time
  BY <1>10
<1>20. /\ Sealed(c).bs.idx = bs.idx /\ Sealed(c).bs.time = bs.time /\ Sealed(c).bs.root = bs.root
       /\ Sealed(c).bs.cheaters = <<>> /\ Sealed(c).bs.next = n
  BY <1>1, <1>14 DEF none, n
<1>21. QED
  BY <1>15, <1>16, <1>17, <1>18, <1>19, <1>20 DEF n, h

\* The block that begins.
LEMMA BeginIs ==
  ASSUME NEW c, Ready(c)
  PROVE  LET j == Begin(c)
         IN /\ j.busy /\ j.ctx = Ctx(c) /\ j.p = Opening(c) /\ j.sealing = Sealing(c) /\ j \in Jobs(j.es)
            /\ Sealing(c) \in BOOLEAN
            /\ Sealing(c) => j.es = Sealed(c).es /\ j.l.bs = Sealed(c).bs
            /\ ~Sealing(c) => /\ j.es = es /\ j.l.bs = Hears(c)
                              /\ All(c) = {} /\ After(c).cheaters = <<>>
<1> DEFINE j == Begin(c)
           l == IF Sealing(c) THEN Sealed(c) ELSE [bs |-> Hears(c), es |-> es]
           todo == Sorted(WithTxs(c))
<1>1. j = [busy |-> TRUE, ctx |-> Ctx(c), es |-> l.es, l |-> l, p |-> Opening(c),
           sealing |-> Sealing(c), events |-> todo]
  BY Zenon DEF Begin, Start, Opening, Hears, Sealing, Sealed, Pre
<1>2. todo \in Seq(Event)
  <2>1. WithTxs(c) \subseteq Event
    BY ReadyIs DEF WithTxs
  <2>2. Event \subseteq Nat /\ IsFiniteSet(Event)
    <3>1. Len(Body) \in Nat /\ Event = 1 .. Len(Body)
      BY BodyTyped
    <3>2. IsFiniteSet(1 .. Len(Body))
      BY <3>1, FS_Interval
    <3>3. QED
      BY <3>1, <3>2
  <2> DEFINE S == WithTxs(c)
  <2> HIDE DEF S
  <2>3. S \in SUBSET Nat /\ IsFiniteSet(S) /\ S \subseteq Event
    BY <2>1, <2>2, FS_Subset DEF S
  <2>4. Sorted(S) \in Seq(S)
    BY <2>3, SortedIs
  <2>5. Sorted(S) \in Seq(Event)
    BY <2>3, <2>4, SeqWithin
  <2>6. QED
    BY <2>5 DEF S
<1>3. Sealing(c) \in BOOLEAN
  BY PreIs DEF Sealing
<1>4. Ctx(c) \in [idx : Nat, time : Nat] /\ Opening(c) \in Processors
  BY CtxIs, OpeningIs
<1>5. l \in [bs : BlockStates(l.es.validators), es : {l.es}]
  <2>1. CASE Sealing(c)
    <3>1. Sealed(c).bs \in BlockStates(Sealed(c).es.validators)
      BY SealedIs
    <3>2. Sealed(c) = [bs |-> Sealed(c).bs, es |-> Sealed(c).es]
      BY DEF Sealed, SealEpoch
    <3>3. l = Sealed(c)
      BY <2>1
    <3> HIDE DEF l
    <3>4. QED
      BY <3>1, <3>2, <3>3
  <2>2. CASE ~Sealing(c)
    <3>1. Hears(c) \in BlockStates(es.validators)
      BY HearsIs
    <3>2. l = [bs |-> Hears(c), es |-> es]
      BY <2>2
    <3> HIDE DEF l
    <3>3. QED
      BY <3>1, <3>2
  <2>3. QED
    BY <2>1, <2>2
<1>6. ~Sealing(c) => All(c) = {} /\ After(c).cheaters = <<>>
  <2>1. ~Sealing(c) => After(c).cheaters = <<>>
    BY DEF Sealing, EpochSealing
  <2>2. ToSet(After(c).cheaters) = All(c)
    BY AfterIs
  <2>3. ToSet(<<>>) = {}
    BY DEF ToSet
  <2>4. QED
    BY <2>1, <2>2, <2>3
<1>7. /\ Sealing(c) => l.es = Sealed(c).es /\ l.bs = Sealed(c).bs
      /\ ~Sealing(c) => l.es = es /\ l.bs = Hears(c)
  OBVIOUS
<1> HIDE DEF j, l, todo
<1>8. j.busy /\ j.ctx = Ctx(c) /\ j.p = Opening(c) /\ j.sealing = Sealing(c) /\ j.es = l.es /\ j.l = l
  BY <1>1
<1>9. j \in Jobs(j.es)
  BY <1>1, <1>2, <1>3, <1>4, <1>5, <1>8 DEF Jobs
<1>10. QED
  BY <1>3, <1>6, <1>7, <1>8, <1>9 DEF j

Skipping(c) ==
  \/ c.events = {}
  \/ /\ WithTxs(c) = {} /\ c.cheaters = {}
     /\ Ctx(c).time < bs.time + MaxEmptyBlockSkipPeriod

Seals(c) == ~Skipping(c) /\ Sealing(c)

\* What the driver is told
ToldOf(c) ==
  [deactivated |-> [i \in Deactivations(Begin(c).p.txs) |-> Begin(c).p.txs[i].validator],
   seen |-> All(c),
   length |-> [v \in es.validators |-> Larger(Ctx(c).time, After(c).states[v].online) - es.start],
   uptime |-> [v \in es.validators |-> EpochUptime(After(c), v, Ctx(c))]]

\* What a block changes whether it is skipped or not
Blocked(c) ==
  /\ left' = left - 1
  /\ confirmed' = IF Seals(c) THEN {} ELSE confirmed \cup c.events
  /\ seen' = IF Seals(c) THEN {} ELSE All(c)
  /\ told' = IF Seals(c) THEN ToldOf(c) ELSE told
  /\ account' = IF Seals(c) THEN Granted(Allotted(Begun(c), c), Begin(c).es)
                ELSE Allotted(Begun(c), c)
  /\ up' = up /\ restarts' = restarts

\* The step of a block.
LEMMA BlockIs ==
  ASSUME NEW c, Ready(c), Block(c)
  PROVE  /\ Blocked(c)
         /\ \/ /\ Skipping(c)
               /\ bs' = After(c) /\ es' = es /\ job' = job /\ blocks' = blocks /\ history' = history
               /\ roots' = roots /\ debt' = debt
            \/ ~Skipping(c) /\ Finish(Begin(c))
            \/ /\ ~Skipping(c)
               /\ job' = Begin(c)
               /\ bs' = IF Begin(c).sealing THEN Begin(c).l.bs ELSE bs
               /\ es' = Begin(c).es /\ blocks' = blocks /\ history' = history /\ roots' = roots
               /\ debt' = debt
<1> DEFINE atropos == IF c.events = {} THEN 0 ELSE MedianTime(Max(c.events))
           ctx == [idx |-> bs.idx + 1, time |-> Larger(atropos, bs.time + 1)]
           empty == WithTxs(c) = {} /\ c.cheaters = {}
           skip == c.events = {} \/ (empty /\ ctx.time < bs.time + MaxEmptyBlockSkipPeriod)
           begun == [bs EXCEPT !.cheaters = MergeCheaters(@, c.cheaters)]
           b == [EventsFinalize(begun, c, ctx) EXCEPT !.cheaters = MergeCheaters(@, Proven(c))]
           j == Start(b, c, ctx)
           all == seen \cup c.cheaters \cup Proven(c)
<1>1. ctx = Ctx(c) /\ begun = Begun(c) /\ all = All(c)
  BY Zenon DEF Ctx, Begun, All
<1>2. b = After(c)
  BY Zenon, <1>1 DEF After
<1>3. j = Begin(c) /\ skip = Skipping(c)
  BY Zenon, <1>1, <1>2 DEF Begin, Skipping
<1>4. Begin(c).sealing = Sealing(c)
  BY BeginIs
<1>5. /\ left' = left - 1
      /\ confirmed' = IF ~skip /\ j.sealing THEN {} ELSE confirmed \cup c.events
      /\ seen' = IF ~skip /\ j.sealing THEN {} ELSE all
      /\ told' = IF ~skip /\ j.sealing
                 THEN [deactivated |-> [i \in Deactivations(j.p.txs) |-> j.p.txs[i].validator],
                       seen |-> all,
                       length |-> [v \in es.validators |->
                                     Larger(ctx.time, b.states[v].online) - es.start],
                       uptime |-> [v \in es.validators |-> EpochUptime(b, v, ctx)]]
                 ELSE told
      /\ \/ /\ skip
            /\ bs' = Skipped(b)
            /\ UNCHANGED <<es, job, blocks, history, roots, debt>>
         \/ /\ ~skip /\ WithTxs(c) = {}
            /\ Finish(j)
         \/ /\ ~skip /\ WithTxs(c) # {}
            /\ job' = j
            /\ bs' = IF j.sealing THEN j.l.bs ELSE bs
            /\ es' = j.es
            /\ UNCHANGED <<blocks, history, roots, debt>>
      /\ account' = IF ~skip /\ j.sealing THEN Granted(Allotted(begun, c), j.es) ELSE Allotted(begun, c)
      /\ UNCHANGED <<up, restarts>>
  BY Zenon DEF Block
<1>6. (~skip /\ j.sealing) = Seals(c)
  BY <1>3, <1>4 DEF Seals
<1> HIDE DEF ctx, skip, begun, b, j, all
<1>7. Blocked(c)
  BY Zenon, <1>1, <1>2, <1>3, <1>5, <1>6 DEF Blocked, ToldOf
<1>8. QED
  BY Zenon, <1>2, <1>3, <1>5, <1>7 DEF Skipped

----------------------------------------------------------------------------
(* An epoch that goes on *)

\* The events of an epoch stay the same.
LEMMA ChainSame ==
  ASSUME es' = es
  PROVE  /\ \A v : Chain(v)' = Chain(v)
         /\ Made' = Made /\ \A e : MedianTime(e)' = MedianTime(e)
<1>1. \A e : MedianTime(e)' = MedianTime(e)
  BY DEF MedianTime
<1>2. \A acc, e : Build(acc, e)' = Build(acc, e)
  BY <1>1 DEF Build
<1>3. \A v : Chain(v)' = Chain(v)
  BY <1>1, <1>2 DEF Chain, Build, MedianTime
<1>4. Made' = Made
  BY <1>3 DEF Made
<1>5. QED
  BY <1>1, <1>3, <1>4

\* What is covered and who was up in an epoch that goes on.
LEMMA OnwardCovers ==
  ASSUME NEW c, Ready(c), Blocked(c), ~Seals(c), es' = es, NEW b, NEW j,
         \A v \in es.validators : /\ Latest(b, j).states[v].event = After(c).states[v].event
                                  /\ Latest(b, j).states[v].uptime = After(c).states[v].uptime
                                  /\ Latest(b, j).states[v].online = After(c).states[v].online
  PROVE  /\ Covered(b, j)' /\ InOrder' /\ UpSince(b, j)'
         /\ confirmed' \subseteq Event /\ seen' = All(c) /\ told' = told
         /\ account' \in [Validator -> [credit : Int, since : Nat, recorded : BOOLEAN]]
<1> DEFINE conf == confirmed \cup c.events
           al == Allotted(Begun(c), c)
<1>1. confirmed' = conf /\ seen' = All(c) /\ told' = told /\ account' = al
  BY DEF Blocked
<1>2. /\ al \in [Validator -> [credit : Int, since : Nat, recorded : BOOLEAN]]
      /\ \A v \in es.validators : al[v].recorded =>
           Covers(conf, v, al[v], v \in All(c), After(c).states[v].event)
  BY AllottedIs
<1>3. Orderly(conf) /\ Ups(conf, After(c).states) /\ conf \subseteq Event /\ UptimeWithinEpoch
  BY OrderlyAfter, UpsAfter, ReadyIs DEF UpSince
<1> HIDE DEF conf, al
<1>4. /\ \A v : Chain(v)' = Chain(v)
      /\ Made' = Made /\ \A e : MedianTime(e)' = MedianTime(e)
  BY ChainSame
<1>5. InOrder'
  BY <1>1, <1>3, <1>4 DEF InOrder, Orderly
<1>6. \A states : (\A v \in es.validators : states[v].uptime = After(c).states[v].uptime
                                           /\ states[v].online = After(c).states[v].online)
                  => Ups(confirmed, states)'
  BY <1>1, <1>3, <1>4 DEF Ups
<1>7. UpSince(b, j)'
  <2>1. UptimeWithinEpoch'
    BY <1>1, <1>3 DEF UptimeWithinEpoch
  <2>2. Ups(confirmed, Latest(b, j).states)'
    BY <1>6 DEF Latest
  <2>3. QED
    BY <2>1, <2>2 DEF UpSince
<1>8. Covered(b, j)'
  <2>1. \A d, v, a, s, kept : Covers(d, v, a, s, kept)' <=> Covers(d, v, a, s, kept)
    <3>1. SUFFICES ASSUME NEW d, NEW v, NEW a, NEW s, NEW kept
                   PROVE  Covers(d, v, a, s, kept)' <=> Covers(d, v, a, s, kept)
      OBVIOUS
    <3>2. LastOf(d, v)' = LastOf(d, v)
      BY DEF LastOf
    <3>3. QED
      BY <1>4, <3>2 DEF Covers
  <2>2. QED
    BY <1>1, <1>2, <2>1 DEF Covered, Latest
<1>9. QED
  BY <1>1, <1>2, <1>3, <1>5, <1>7, <1>8

\* A skipped block.
LEMMA SkipKeeps ==
  ASSUME NEW c, Ready(c), Blocked(c), ~Seals(c), es' = es, left > 0,
         NEW b, b = After(c), NEW j, j = job, NEW bl, bl = blocks, NEW hs, hs = history,
         NEW rt, rt = roots, NEW dt, dt = debt
  PROVE  Inv(b, j, bl, hs, rt, dt)'
<1> DEFINE g == es.validators
<1>1. /\ g \subseteq Validator /\ es \in EpochStates(g)
      /\ Latest(bs, job) = bs /\ Dead(bs, job) = bs.root.dead
      /\ InTime(bs, job) /\ Punished(bs, job) /\ Owed(bs, job, debt) /\ NotOwed(job, debt)
      /\ Stored(bs, job, blocks, history) /\ Typed(bs, job, blocks, history, roots, debt)
      /\ ~job.busy
  BY ReadyIs DEF Ready
<1>2. /\ b \in BlockStates(g) /\ b.idx = bs.idx /\ b.time = bs.time /\ b.root = bs.root
           /\ b.next = bs.next
      /\ IsInjective(b.cheaters) /\ ToSet(b.cheaters) = All(c)
      /\ \A v \in g : b.states[v].refund = bs.states[v].refund /\ b.states[v].lastBlock <= bs.idx + 1
  BY AfterIs
<1>3. ~j.busy /\ Latest(b, j) = b /\ Dead(b, j) = b.root.dead
  BY <1>1 DEF Latest, Dead
<1>4. /\ Covered(b, j)' /\ InOrder' /\ UpSince(b, j)'
      /\ confirmed' \subseteq Event /\ seen' = All(c) /\ told' = told
      /\ account' \in [Validator -> [credit : Int, since : Nat, recorded : BOOLEAN]]
  BY <1>3, OnwardCovers
<1>5. left' = left - 1 /\ up' = up /\ restarts' = restarts
  BY DEF Blocked
<1>6. /\ All(c) \subseteq Validator
      /\ \A v \in Validator : Stays(v) => v \notin All(c)
  BY OpeningIs, ReadyIs DEF All
<1>7. Typed(b, j, bl, hs, rt, dt)'
  <2>1. left - 1 \in 0 .. MaxBlocks
    <3>1. left \in 0 .. MaxBlocks
      BY <1>1 DEF Typed
    <3>2. MaxBlocks \in Nat
      BY BlockPipelineAssumption
    <3>3. QED
      BY <3>1, <3>2
  <2>2. QED
    BY <1>1, <1>2, <1>4, <1>5, <1>6, <2>1 DEF Typed
<1>8. InTime(b, j)'
  BY <1>1, <1>2, <1>3 DEF InTime
<1>9. Punished(b, j)'
  BY <1>1, <1>2, <1>3, <1>4, <1>6 DEF Punished, Latest, Dead
<1>10. Owed(b, j, dt)' /\ NotOwed(j, dt)'
  BY <1>1, <1>2, <1>3 DEF Owed, NotOwed, Latest
<1>11. Stored(b, j, bl, hs)'
  BY <1>1, <1>2, <1>3 DEF Stored
<1>12. QED
  BY <1>4, <1>7, <1>8, <1>9, <1>10, <1>11 DEF Inv

\* A block that does not seal the epoch.
LEMMA BeginKeeps ==
  ASSUME NEW c, Ready(c), Blocked(c), ~Sealing(c), es' = Begin(c).es, left > 0,
         NEW b, b = bs, NEW j, j = Begin(c), NEW bl, bl = blocks, NEW hs, hs = history,
         NEW rt, rt = roots, NEW dt, dt = debt
  PROVE  Inv(b, j, bl, hs, rt, dt)'
<1> DEFINE g == es.validators
<1>1. /\ g \subseteq Validator /\ es \in EpochStates(g) /\ bs \in BlockStates(g)
      /\ Latest(bs, job) = bs /\ Dead(bs, job) = bs.root.dead
      /\ InTime(bs, job) /\ Punished(bs, job) /\ Owed(bs, job, debt) /\ NotOwed(job, debt)
      /\ Stored(bs, job, blocks, history) /\ Typed(bs, job, blocks, history, roots, debt)
      /\ ~job.busy /\ es.start \in Nat /\ es.start <= bs.time /\ bs.time \in Nat /\ bs.idx \in Nat
  BY ReadyIs DEF Ready
<1>2. /\ j.busy /\ j.ctx = Ctx(c) /\ j.p = Opening(c) /\ ~j.sealing /\ j \in Jobs(j.es)
      /\ j.es = es /\ j.l.bs = Hears(c) /\ All(c) = {} /\ After(c).cheaters = <<>>
  BY BeginIs
<1>3. /\ \A v \in g : /\ After(c).states[v].refund = bs.states[v].refund
                      /\ After(c).states[v].lastBlock <= bs.idx + 1
  BY AfterIs
<1>4. /\ j.l.bs.idx = bs.idx /\ j.l.bs.root = bs.root
      /\ j.l.bs.cheaters = <<>> /\ j.l.bs.states = After(c).states
  BY <1>2, HearsIs
<1>5. Latest(b, j) = j.l.bs /\ Dead(b, j) = j.p.world.dead
  BY <1>2 DEF Latest, Dead
<1>6. es' = es /\ ~Seals(c)
  BY <1>2 DEF Seals
<1>7. /\ Covered(b, j)' /\ InOrder' /\ UpSince(b, j)'
      /\ confirmed' \subseteq Event /\ seen' = All(c) /\ told' = told
      /\ account' \in [Validator -> [credit : Int, since : Nat, recorded : BOOLEAN]]
  BY <1>4, <1>5, <1>6, OnwardCovers
<1>8. left' = left - 1 /\ up' = up /\ restarts' = restarts
  BY DEF Blocked
<1>9. /\ j.p.txs = Pre(c) /\ j.p.price = es.rules.price /\ Sound(j.p, bs.root)
      /\ j.p.world.dead = bs.root.dead
      /\ j.l.bs.next \cap j.p.world.dead = {}
      /\ \A v \in Validator : Stays(v) => v \in g /\ v \in j.l.bs.next /\ v \notin j.p.world.dead
  BY <1>2, OpeningIs
<1>10. \A i \in DOMAIN j.p.txs : j.p.txs[i] \in DriverTx
  BY <1>9, PreIs
<1>11. j.ctx.idx = bs.idx + 1 /\ bs.time < j.ctx.time /\ j.ctx.time \in Nat
  BY <1>2, CtxIs
<1>12. Typed(b, j, bl, hs, rt, dt)'
  <2>1. left - 1 \in 0 .. MaxBlocks
    <3>1. left \in 0 .. MaxBlocks
      BY <1>1 DEF Typed
    <3>2. MaxBlocks \in Nat
      BY BlockPipelineAssumption
    <3>3. QED
      BY <3>1, <3>2
  <2>2. j \in Jobs(es)
    BY <1>2
  <2>3. QED
    BY <1>1, <1>2, <1>6, <1>7, <1>8, <2>1, <2>2 DEF Typed
<1>13. InTime(b, j)'
  BY <1>1, <1>2, <1>3, <1>4, <1>6, <1>11 DEF InTime
<1>14. Punished(b, j)'
  <2>1. /\ IsInjective(bs.cheaters) /\ ToSet(bs.cheaters) = seen
        /\ Range(told.deactivated) = told.seen /\ IsInjective(told.deactivated)
        /\ told.seen \subseteq bs.root.dead /\ g \cap bs.root.dead = {}
    BY <1>1 DEF Punished
  <2>2. seen = {}
    BY <1>2 DEF All
  <2>3. QED
    BY <1>2, <1>4, <1>5, <1>6, <1>7, <1>9, <2>1, <2>2 DEF Punished, Latest, Dead
<1>15. Owed(b, j, dt)' /\ NotOwed(j, dt)'
  BY <1>1, <1>2, <1>3, <1>4, <1>6 DEF Owed, NotOwed, Latest
<1>16. Stored(b, j, bl, hs)'
  BY <1>1, <1>2, <1>6, <1>9, <1>10 DEF Stored
<1>17. QED
  BY <1>7, <1>12, <1>13, <1>14, <1>15, <1>16 DEF Inv

----------------------------------------------------------------------------
(* An epoch that is sealed *)

\* What an epoch begins with
LEMMA EpochAccountIs ==
  ASSUME NEW p \in Accounts, NEW s, NEW r \in Nat
  PROVE  /\ p.left \in Nat /\ p.time \in Int
         /\ EpochAccount(p, s, r).left = IF p = NoEvent THEN r ELSE p.left + r
         /\ EpochAccount(p, s, r).time = IF p = NoEvent THEN s ELSE p.time
         /\ p = NoEvent => p.left = 0
<1>1. p = [left |-> p.left, time |-> p.time] /\ p.left \in Nat /\ p.time \in Int
  BY DEF Accounts
<1>2. [p EXCEPT !.left = @ + r] = [left |-> p.left + r, time |-> p.time]
  BY <1>1
<1>3. QED
  BY <1>1, <1>2 DEF EpochAccount, NoEvent

\* A validator's first account of an epoch.
LEMMA ChainBegins ==
  \A v : Chain(v)[0].account = EpochAccount(es.prev[v], es.start, es.refund[v])
<1>1. Len(Body) \in Nat
  BY BodyTyped
<1>2. SUFFICES ASSUME NEW v
               PROVE  Chain(v)[0].account = EpochAccount(es.prev[v], es.start, es.refund[v])
  OBVIOUS
<1>3. Chain(v)[0] = [account |-> EpochAccount(es.prev[v], es.start, es.refund[v]), made |-> {}]
  BY <1>1, ChainIs
<1>4. QED
  BY <1>3

\* What a validator is granted with the next epoch covers what it begins with.
LEMMA GrantedIs ==
  ASSUME NEW c, Ready(c), Sealing(c), NEW e, e = Sealed(c).es,
         NEW granted, granted = Granted(Allotted(Begun(c), c), e)
  PROVE  /\ granted \in [Validator -> [credit : Int, since : Nat, recorded : BOOLEAN]]
         /\ \A v \in e.validators : granted[v].recorded =>
              /\ granted[v].credit >= EpochAccount(e.prev[v], e.start, e.refund[v]).left
              /\ granted[v].credit >= Startup(e.validators)
              /\ granted[v].since <= EpochAccount(e.prev[v], e.start, e.refund[v]).time
              /\ \/ granted[v].since <= e.start
                 \/ \E g \in Event : granted[v].since = Body[g].time /\ Body[g].epoch < e.epoch
              /\ Starts(c, v).event = e.prev[v]
<1> DEFINE al == Allotted(Begun(c), c)
           g == es.validators
           n == e.validators
           conf == confirmed \cup c.events
           grown(v) == [al[v] EXCEPT !.credit = IF @ < 0 THEN @ ELSE Larger(@ + e.refund[v], Startup(n))]
           X == [credit : Int, since : Nat, recorded : BOOLEAN]
<1>1. /\ g \subseteq Validator /\ g # {} /\ es \in EpochStates(g) /\ conf \subseteq Event
      /\ es.start \in Nat /\ es.start <= bs.time /\ es.epoch \in Nat /\ bs.time \in Nat
      /\ \A v \in g : es.prev[v] \in Accounts /\ es.refund[v] \in Nat
  BY ReadyIs, EpochTyped
<1>2. bs.time < Ctx(c).time /\ Ctx(c).time \in Nat
  BY CtxIs
<1>3. /\ n = Hears(c).next /\ e \in EpochStates(n)
      /\ e.epoch = es.epoch + 1 /\ e.start = Ctx(c).time
      /\ \A v \in n : /\ e.refund[v] = IF v \in g THEN bs.states[v].refund ELSE 0
                      /\ e.prev[v] = IF v \in g THEN After(c).states[v].event ELSE NoEvent
  BY SealedIs
<1>4. /\ n \cap All(c) = {} /\ n \subseteq Validator /\ n # {}
  <2>1. n \cap All(c) = {}
    BY <1>3, OpeningIs
  <2>2. n \subseteq Validator
    BY <1>3, HearsIs
  <2>3. PICK v \in Validator : Stays(v)
    BY BlockPipelineAssumption
  <2>4. v \in n
    BY <1>3, <2>3, OpeningIs
  <2>5. QED
    BY <2>1, <2>2, <2>4
<1>5. /\ al \in [Validator -> X]
      /\ \A v \in g : al[v].recorded =>
           Covers(conf, v, al[v], v \in All(c), After(c).states[v].event)
  BY AllottedIs
<1>6. Startup(n) \in Nat
  BY <1>4, RateTyped
<1>7. \A v \in n : e.refund[v] \in Nat /\ e.prev[v] \in Accounts
  BY <1>3 DEF EpochStates
<1>8. granted = [v \in Validator |->
                   IF v \notin n THEN NoneOpened
                   ELSE IF v \notin g THEN Opened(n, e.start) ELSE grown(v)]
  BY DEF Granted
<1>9. ASSUME NEW v \in n
      PROVE  /\ grown(v) \in X
             /\ grown(v).credit = IF al[v].credit < 0 THEN al[v].credit
                                  ELSE Larger(al[v].credit + e.refund[v], Startup(n))
             /\ grown(v).since = al[v].since /\ grown(v).recorded = al[v].recorded
             /\ al[v].credit \in Int /\ al[v].since \in Nat
  <2> DEFINE a == al[v]
             credit == IF a.credit < 0 THEN a.credit ELSE Larger(a.credit + e.refund[v], Startup(n))
  <2>1. a \in X
    BY <1>4, <1>5
  <2>2. grown(v) = [a EXCEPT !.credit = credit]
    OBVIOUS
  <2> HIDE DEF a, grown, al
  <2>3. /\ a = [credit |-> a.credit, since |-> a.since, recorded |-> a.recorded]
        /\ a.credit \in Int /\ a.since \in Nat /\ a.recorded \in BOOLEAN
    BY <2>1
  <2>4. credit \in Int
    BY <1>6, <1>7, <2>3 DEF Larger
  <2> HIDE DEF credit
  <2>5. grown(v) = [credit |-> credit, since |-> a.since, recorded |-> a.recorded]
    BY <2>2, <2>3
  <2>6. grown(v) \in X
    BY <2>3, <2>4, <2>5
  <2>7. QED
    BY <2>3, <2>5, <2>6 DEF a, credit
<1>10. NoneOpened \in X /\ Opened(n, e.start) \in X
  BY <1>2, <1>3, <1>6 DEF NoneOpened, Opened
<1> HIDE DEF grown, al, X
<1>11. granted \in [Validator -> X]
  BY <1>8, <1>9, <1>10
<1>12. ASSUME NEW v \in n, granted[v].recorded
       PROVE  /\ granted[v].credit >= EpochAccount(e.prev[v], e.start, e.refund[v]).left
              /\ granted[v].credit >= Startup(n)
              /\ granted[v].since <= EpochAccount(e.prev[v], e.start, e.refund[v]).time
              /\ \/ granted[v].since <= e.start
                 \/ \E h \in Event : granted[v].since = Body[h].time /\ Body[h].epoch < e.epoch
              /\ Starts(c, v).event = e.prev[v]
  <2> DEFINE first == EpochAccount(e.prev[v], e.start, e.refund[v])
             p == e.prev[v]
             r == e.refund[v]
  <2>1. /\ p.left \in Nat /\ p.time \in Int /\ r \in Nat
        /\ first.left = IF p = NoEvent THEN r ELSE p.left + r
        /\ first.time = IF p = NoEvent THEN e.start ELSE p.time
    BY <1>7, EpochAccountIs
  <2>2. Starts(c, v).event = p
    BY <1>3, StartsIs
  <2>3. CASE v \notin g
    <3>1. granted[v] = Opened(n, e.start) /\ p = NoEvent /\ r = 0
      BY <1>3, <1>4, <1>8, <2>3
    <3>2. granted[v].credit = Startup(n) /\ granted[v].since = e.start
      BY <3>1 DEF Opened
    <3>3. first.left = 0 /\ first.time = e.start
      BY <2>1, <3>1
    <3> HIDE DEF first, p, r
    <3>4. QED
      BY <1>2, <1>3, <1>6, <2>2, <3>2, <3>3 DEF first, p
  <2>4. CASE v \in g
    <3> DEFINE a == al[v]
               m == LastOf(conf, v)
               last == Chain(v)[m].account
    <3>1. granted[v] = grown(v)
      BY <1>4, <1>8, <2>4
    <3>2. Covers(conf, v, a, v \in All(c), After(c).states[v].event)
      BY <1>5, <1>9, <1>12, <2>4, <3>1
    <3>3. p = After(c).states[v].event /\ v \notin All(c)
      BY <1>3, <1>4, <2>4
    <3>4. /\ a.credit >= last.left
          /\ a.since <= last.time
          /\ m # 0 => a.since = MedianTime(m)
          /\ \/ a.since <= es.start
             \/ \E h \in Event : /\ a.since = Body[h].time
                                 /\ \/ Body[h].epoch < es.epoch
                                    \/ h \in conf /\ Body[h].creator = v
          /\ p = IF m = 0 THEN es.prev[v] ELSE last
      BY <3>2, <3>3 DEF Covers
    <3>5. m \in 0 .. Len(Body)
      BY <1>1, LastIs
    <3>6. last \in Accounts /\ last.left \in Nat /\ last.time \in Int
      <4>1. Chain(v)[m].account \in Accounts
        BY <1>1, <2>4, <3>5, ChainTyped
      <4>2. QED
        BY <4>1 DEF Accounts
    <3>7. a.credit \in Int /\ a.since \in Nat
      BY <1>9
    <3>8. granted[v].credit = Larger(a.credit + r, Startup(n)) /\ granted[v].since = a.since
      BY <1>9, <3>1, <3>4, <3>6, <3>7
    <3>9. granted[v].credit \in Int /\ granted[v].credit >= a.credit + r
            /\ granted[v].credit >= Startup(n)
      BY <1>6, <2>1, <3>7, <3>8 DEF Larger
    <3>10. a.since <= e.start \/ \E h \in Event : a.since = Body[h].time /\ Body[h].epoch < e.epoch
      <4>1. \A h \in conf : Body[h].epoch = es.epoch
        BY <1>1, OrderlyAfter, MadeIs DEF Orderly
      <4>2. \A h \in Event : Body[h].epoch \in Nat
        BY BodyTyped
      <4>3. CASE a.since <= es.start
        BY <1>1, <1>2, <1>3, <3>7, <4>3
      <4>4. ASSUME NEW h \in Event, a.since = Body[h].time, Body[h].epoch < es.epoch \/ h \in conf
            PROVE  Body[h].epoch < e.epoch
        BY <1>1, <1>3, <4>1, <4>2, <4>4
      <4>5. QED
        BY <3>4, <4>3, <4>4
    <3>11. first.left <= a.credit + r /\ a.since <= first.time
      <4>1. CASE m = 0
        <5>1. p = es.prev[v] /\ last = EpochAccount(es.prev[v], es.start, es.refund[v])
          BY <3>4, <4>1, ChainBegins
        <5>2. /\ last.left = IF p = NoEvent THEN es.refund[v] ELSE p.left + es.refund[v]
              /\ last.time = IF p = NoEvent THEN es.start ELSE p.time
          BY <1>1, <2>4, <5>1, EpochAccountIs
        <5>3. es.refund[v] \in Nat /\ es.start <= e.start /\ e.start \in Nat
          BY <1>1, <1>2, <1>3, <2>4
        <5> HIDE DEF first, p, r, a, last
        <5>4. QED
          BY <1>1, <2>1, <3>4, <3>6, <3>7, <5>2, <5>3
      <4>2. CASE m # 0
        <5>1. p = last
          BY <3>4, <4>2
        <5>2. last.time # -1
          BY <3>4, <3>6, <3>7
        <5>3. p # NoEvent
          BY <5>1, <5>2 DEF NoEvent
        <5> HIDE DEF first, p, r, a, last
        <5>4. QED
          BY <2>1, <3>4, <3>6, <3>7, <5>1, <5>3
      <4>3. QED
        BY <4>1, <4>2
    <3> HIDE DEF first, p, r, a, last
    <3>12. granted[v].credit >= first.left
      BY <2>1, <3>7, <3>9, <3>11
    <3>13. QED
      BY <2>2, <3>8, <3>9, <3>10, <3>11, <3>12 DEF first, p
  <2>5. QED
    BY <2>3, <2>4
<1>13. QED
  BY <1>11, <1>12 DEF X

\* What the driver was told of the epoch.
LEMMA ToldIs ==
  ASSUME NEW c, Ready(c), NEW t, t = ToldOf(c)
  PROVE  /\ t.seen = All(c) /\ Range(t.deactivated) = t.seen /\ IsInjective(t.deactivated)
         /\ \A v \in DOMAIN t.uptime : t.uptime[v] <= t.length[v]
<1> DEFINE ch == After(c).cheaters
           g == es.validators
<1>1. Begin(c).p.txs = Pre(c)
  BY BeginIs, OpeningIs
<1>2. /\ Deactivations(Pre(c)) = DOMAIN ch
      /\ \A i \in DOMAIN ch : Pre(c)[i] = Deactivate(ch[i])
  BY PreIs
<1>3. IsInjective(ch) /\ ToSet(ch) = All(c)
  BY AfterIs
<1>4. t.deactivated = [i \in DOMAIN ch |-> Pre(c)[i].validator]
  BY <1>1, <1>2 DEF ToldOf
<1>5. \A i \in DOMAIN ch : Pre(c)[i].validator = ch[i]
  <2>1. \A x : Deactivate(x).validator = x
    BY DEF Deactivate
  <2> HIDE DEF ch
  <2>2. QED
    BY <1>2, <2>1
<1>6. t.seen = All(c)
  BY DEF ToldOf
<1> HIDE DEF ch
<1>7. DOMAIN t.deactivated = DOMAIN ch /\ \A i \in DOMAIN ch : t.deactivated[i] = ch[i]
  BY <1>4, <1>5
<1>8. IsInjective(t.deactivated)
  BY <1>3, <1>7 DEF IsInjective
<1>9. Range(t.deactivated) = All(c)
  BY <1>3, <1>7 DEF Range, ToSet
<1>10. ASSUME NEW v \in g
       PROVE  EpochUptime(After(c), v, Ctx(c))
                <= Larger(Ctx(c).time, After(c).states[v].online) - es.start
  <2> DEFINE info == After(c).states[v]
             time == Ctx(c).time
             since == Larger(info.online, es.start)
  <2>1. es.start \in Nat /\ es.start <= bs.time /\ bs.time < time /\ time \in Nat /\ bs.time \in Nat
    BY ReadyIs, CtxIs
  <2>2. info \in Infos
    <3>1. After(c) \in BlockStates(g)
      BY AfterIs
    <3>2. After(c).states \in [g -> Infos]
      BY <3>1 DEF BlockStates
    <3>3. QED
      BY <3>2
  <2>3. info.uptime \in Nat /\ info.online \in Nat
    BY <2>2 DEF Infos
  <2>4. info.uptime = 0 \/ info.uptime <= info.online - es.start
    BY UpsAfter DEF Ups
  <2>5. EpochUptime(After(c), v, Ctx(c)) \in {info.uptime, info.uptime + Larger(time, since) - since}
    BY DEF EpochUptime
  <2> DEFINE claimed == EpochUptime(After(c), v, Ctx(c))
             until == Larger(time, info.online)
  <2> HIDE DEF info, time, claimed
  <2>6. /\ since \in Nat /\ until \in Nat /\ es.start <= since /\ es.start <= until
        /\ Larger(time, since) \in Nat /\ since <= Larger(time, since)
        /\ info.uptime # 0 => since = info.online /\ Larger(time, since) = until
        /\ Larger(time, since) - since <= until - es.start
    BY <2>1, <2>3, <2>4 DEF Larger
  <2>7. claimed = info.uptime \/ claimed = info.uptime + Larger(time, since) - since
    BY <2>5 DEF claimed
  <2> DEFINE reached == Larger(time, since)
  <2>8. info.uptime # 0 => info.online <= until
    BY <2>1, <2>3 DEF Larger
  <2> HIDE DEF since, until, reached
  <2>9. ASSUME info.uptime = 0 PROVE claimed <= until - es.start
    BY <2>1, <2>6, <2>7, <2>9 DEF reached
  <2>10. ASSUME info.uptime # 0 PROVE claimed <= until - es.start
    <3>1. info.uptime <= info.online - es.start /\ since = info.online /\ reached = until
      BY <2>4, <2>6, <2>10 DEF reached
    <3>2. claimed = info.uptime \/ claimed = info.uptime + reached - since
      BY <2>7 DEF reached
    <3>3. claimed <= until - es.start
      BY <2>1, <2>3, <2>6, <2>8, <2>10, <3>1, <3>2
    <3>4. QED
      BY <3>3
  <2>11. claimed <= until - es.start
    BY <2>9, <2>10
  <2>12. QED
    BY <2>11 DEF info, time, claimed, until
<1>11. /\ DOMAIN t.uptime = g
       /\ \A v \in g : /\ t.uptime[v] = EpochUptime(After(c), v, Ctx(c))
                       /\ t.length[v] = Larger(Ctx(c).time, After(c).states[v].online) - es.start
  BY DEF ToldOf
<1>12. QED
  BY <1>6, <1>8, <1>9, <1>10, <1>11

\* A block that seals the epoch.
LEMMA SealKeeps ==
  ASSUME NEW c, Ready(c), Blocked(c), Seals(c), es' = Begin(c).es, left > 0,
         NEW j, j = Begin(c), NEW b, b = j.l.bs, NEW bl, bl = blocks, NEW hs, hs = history,
         NEW rt, rt = roots, NEW dt, dt = debt
  PROVE  Inv(b, j, bl, hs, rt, dt)'
<1> DEFINE g == es.validators
           n == Hears(c).next
<1>1. /\ g \subseteq Validator /\ es \in EpochStates(g) /\ bs \in BlockStates(g)
      /\ Latest(bs, job) = bs /\ Dead(bs, job) = bs.root.dead
      /\ InTime(bs, job) /\ Punished(bs, job) /\ Owed(bs, job, debt) /\ NotOwed(job, debt)
      /\ Stored(bs, job, blocks, history) /\ Typed(bs, job, blocks, history, roots, debt)
      /\ ~job.busy /\ bs.time \in Nat /\ bs.idx \in Nat
  BY ReadyIs DEF Ready
<1>2. /\ j.busy /\ j.ctx = Ctx(c) /\ j.p = Opening(c) /\ j.sealing /\ j \in Jobs(j.es)
      /\ j.es = Sealed(c).es /\ b = Sealed(c).bs
  BY BeginIs DEF Seals
<1>3. /\ b \in BlockStates(n) /\ es' \in EpochStates(n) /\ es'.validators = n
      /\ b.idx = bs.idx /\ b.time = bs.time /\ b.root = bs.root /\ b.cheaters = <<>> /\ b.next = n
      /\ \A v \in n : b.states[v] = Starts(c, v)
      /\ es'.start = Ctx(c).time
      /\ \A v \in n : es'.refund[v] = IF v \in g THEN bs.states[v].refund ELSE 0
  BY <1>2, SealedIs
<1>4. \A v : /\ Starts(c, v).uptime = 0 /\ Starts(c, v).refund = 0
             /\ Starts(c, v).lastBlock <= bs.idx + 1
  BY StartsIs
<1>5. Latest(b, j) = b /\ Dead(b, j) = j.p.world.dead /\ j.l.bs = b
  BY <1>2 DEF Latest, Dead
<1>6. /\ left' = left - 1 /\ up' = up /\ restarts' = restarts /\ confirmed' = {} /\ seen' = {}
      /\ told' = ToldOf(c) /\ account' = Granted(Allotted(Begun(c), c), es')
  BY DEF Blocked
<1>7. /\ told'.seen = All(c) /\ Range(told'.deactivated) = told'.seen /\ IsInjective(told'.deactivated)
      /\ \A v \in DOMAIN told'.uptime : told'.uptime[v] <= told'.length[v]
  BY <1>6, ToldIs
<1>8. /\ j.p.txs = Pre(c) /\ j.p.price = es.rules.price /\ Sound(j.p, bs.root)
      /\ j.p.world.dead = bs.root.dead \cup All(c)
      /\ n \cap j.p.world.dead = {}
      /\ \A v \in Validator : Stays(v) => v \in g /\ v \in n /\ v \notin j.p.world.dead
  BY <1>2, OpeningIs
<1>9. \A i \in DOMAIN j.p.txs : j.p.txs[i] \in DriverTx
  BY <1>8, PreIs
<1>10. j.ctx.idx = bs.idx + 1 /\ j.ctx.time \in Nat /\ j.ctx.time = es'.start
  BY <1>2, <1>3, CtxIs
<1>11. n \subseteq Validator
  BY HearsIs
<1>12. /\ account' \in [Validator -> [credit : Int, since : Nat, recorded : BOOLEAN]]
       /\ \A v \in n : account'[v].recorded =>
            /\ account'[v].credit >= EpochAccount(es'.prev[v], es'.start, es'.refund[v]).left
            /\ account'[v].credit >= Startup(n)
            /\ account'[v].since <= EpochAccount(es'.prev[v], es'.start, es'.refund[v]).time
            /\ \/ account'[v].since <= es'.start
               \/ \E h \in Event : account'[v].since = Body[h].time /\ Body[h].epoch < es'.epoch
            /\ Starts(c, v).event = es'.prev[v]
  <2>1. PICK e : e = es'
    OBVIOUS
  <2>2. PICK granted : granted = account'
    OBVIOUS
  <2>3. e = Sealed(c).es /\ granted = Granted(Allotted(Begun(c), c), e) /\ Sealing(c) /\ e.validators = n
    BY <1>2, <1>3, <1>6, <2>1, <2>2 DEF Seals
  <2>4. /\ granted \in [Validator -> [credit : Int, since : Nat, recorded : BOOLEAN]]
        /\ \A v \in e.validators : granted[v].recorded =>
              /\ granted[v].credit >= EpochAccount(e.prev[v], e.start, e.refund[v]).left
              /\ granted[v].credit >= Startup(e.validators)
              /\ granted[v].since <= EpochAccount(e.prev[v], e.start, e.refund[v]).time
              /\ \/ granted[v].since <= e.start
                 \/ \E h \in Event : granted[v].since = Body[h].time /\ Body[h].epoch < e.epoch
              /\ Starts(c, v).event = e.prev[v]
    BY <2>3, GrantedIs
  <2>5. QED
    BY <2>1, <2>2, <2>3, <2>4
<1>13. \A v : (Chain(v)[0].account)' = EpochAccount(es'.prev[v], es'.start, es'.refund[v])
  <2>1. (\A v : Chain(v)[0].account = EpochAccount(es.prev[v], es.start, es.refund[v]))'
    BY ChainBegins, PTL
  <2>2. \A v, p, s, r : EpochAccount(p, s, r)' = EpochAccount(p, s, r)
    OBVIOUS
  <2>3. QED
    BY <2>1, <2>2
<1> HIDE DEF n
<1>14. Covered(b, j)'
  <2>1. \A v : LastOf({}, v) = 0
    BY DEF LastOf
  <2>2. ASSUME NEW v, NEW a, NEW kept,
               a.credit >= EpochAccount(es'.prev[v], es'.start, es'.refund[v]).left,
               a.credit >= Startup(n),
               a.since <= EpochAccount(es'.prev[v], es'.start, es'.refund[v]).time,
               \/ a.since <= es'.start
               \/ \E h \in Event : a.since = Body[h].time /\ Body[h].epoch < es'.epoch,
               kept = es'.prev[v]
        PROVE  Covers({}, v, a, FALSE, kept)'
    BY <1>3, <1>13, <2>1, <2>2 DEF Covers
  <2>3. \A v \in n : b.states[v].event = Starts(c, v).event
    BY <1>3
  <2>4. \A v \in n : v \notin seen'
    BY <1>6
  <2>5. SUFFICES ASSUME NEW v \in n, account'[v].recorded
                 PROVE  Covers(confirmed, v, account[v], v \in seen, b.states[v].event)'
    BY <1>3, <1>5 DEF Covered, Latest
  <2>6. PICK a : a = account'[v]
    OBVIOUS
  <2>7. Covers({}, v, a, FALSE, b.states[v].event)'
    BY <1>12, <2>2, <2>3, <2>5, <2>6
  <2>8. QED
    BY <1>6, <2>6, <2>7 DEF Covers
<1>15. Typed(b, j, bl, hs, rt, dt)'
  <2>1. left - 1 \in 0 .. MaxBlocks
    <3>1. left \in 0 .. MaxBlocks
      BY <1>1 DEF Typed
    <3>2. MaxBlocks \in Nat
      BY BlockPipelineAssumption
    <3>3. QED
      BY <3>1, <3>2
  <2>2. j \in Jobs(es')
    BY <1>2
  <2>3. QED
    BY <1>1, <1>3, <1>6, <1>11, <1>12, <2>1, <2>2 DEF Typed
<1>16. InTime(b, j)'
  BY <1>2, <1>3, <1>4, <1>5, <1>10 DEF InTime
<1>17. Punished(b, j)'
  <2>1. IsInjective(<<>>) /\ ToSet(<<>>) = {}
    BY DEF IsInjective, ToSet
  <2>2. QED
    BY <1>3, <1>5, <1>6, <1>7, <1>8, <2>1 DEF Punished, Latest, Dead
<1>18. InOrder'
  BY <1>6 DEF InOrder, Orderly
<1>19. UpSince(b, j)'
  <2>1. UptimeWithinEpoch'
    BY <1>7 DEF UptimeWithinEpoch
  <2>2. Ups(confirmed, Latest(b, j).states)'
    BY <1>3, <1>4, <1>5 DEF Ups, Latest
  <2>3. QED
    BY <2>1, <2>2 DEF UpSince
<1>20. Owed(b, j, dt)' /\ NotOwed(j, dt)'
  <2>1. \A v \in n : dt[v] = es'.refund[v]
    <3>1. \A v \in g : bs.states[v].refund \in Nat
      BY ReadyIs DEF Infos
    <3>2. \A v \in g : dt[v] = bs.states[v].refund
      BY <1>1, <3>1 DEF Owed
    <3>3. \A v \in Validator \ g : dt[v] = 0
      BY <1>1 DEF NotOwed
    <3>4. QED
      BY <1>3, <1>11, <3>2, <3>3
  <2>2. \A v \in n : es'.refund[v] \in Nat /\ b.states[v].refund = 0
    BY <1>3, <1>4 DEF EpochStates
  <2>3. QED
    BY <1>2, <1>3, <1>5, <2>1, <2>2 DEF Owed, NotOwed, Latest
<1>21. Stored(b, j, bl, hs)'
  BY <1>1, <1>2, <1>3, <1>8, <1>9 DEF Stored
<1>22. QED
  BY <1>14, <1>15, <1>16, <1>17, <1>18, <1>19, <1>20, <1>21 DEF Inv

----------------------------------------------------------------------------
(* Steps *)

\* The worker keeps the invariant, whatever it is at.
FinishKeepsInv ==
  \A b, j, bl, hs, rt, dt :
    Inv(b, j, bl, hs, rt, dt) /\ j.busy
      => Inv(BsOf(j), NoJob, Append(bl, BlockOf(j)), HistoryOf(j, hs), rt \cup {P2(j).world},
             DebtOf(j, dt))

\* It does, in every state.
LEMMA FinishKeepsAlways == FinishKeepsInv
  BY FinishKeeps DEF FinishKeepsInv

\* The worker's last step, in the state that it leads to.
LEMMA FinishKeepsNext ==
  ASSUME NEW b1, NEW j1, NEW bl1, NEW hs1, NEW rt1, NEW dt1, Inv(b1, j1, bl1, hs1, rt1, dt1)', j1.busy,
         bs' = BsOf(j1), job' = NoJob, blocks' = Append(bl1, BlockOf(j1)),
         history' = HistoryOf(j1, hs1), roots' = rt1 \cup {P2(j1).world}, debt' = DebtOf(j1, dt1)
  PROVE  IInv'
<1>1. FinishKeepsInv'
  BY FinishKeepsAlways, PTL
<1>2. Inv(BsOf(j1), NoJob, Append(bl1, BlockOf(j1)), HistoryOf(j1, hs1), rt1 \cup {P2(j1).world},
          DebtOf(j1, dt1))'
  BY <1>1 DEF FinishKeepsInv
<1>3. QED
  BY <1>2 DEF IInv

\* A block.
LEMMA BlockKeeps ==
  ASSUME NEW c, Ready(c), Block(c), left > 0
  PROVE  IInv'
<1> DEFINE j == Begin(c)
           b == IF Sealing(c) THEN j.l.bs ELSE bs
<1>1. Blocked(c) /\ j.sealing = Sealing(c) /\ j.busy
  BY BlockIs, BeginIs
<1>2. CASE /\ Skipping(c)
           /\ bs' = After(c) /\ es' = es /\ job' = job /\ blocks' = blocks /\ history' = history
           /\ roots' = roots /\ debt' = debt
  <2>1. PICK b0, j0, bl0, hs0, rt0, dt0 :
          /\ b0 = After(c) /\ j0 = job /\ bl0 = blocks /\ hs0 = history /\ rt0 = roots /\ dt0 = debt
    OBVIOUS
  <2>2. ~Seals(c)
    BY <1>2 DEF Seals
  <2>3. Inv(b0, j0, bl0, hs0, rt0, dt0)'
    BY <1>1, <1>2, <2>1, <2>2, SkipKeeps
  <2>4. QED
    BY <1>2, <2>1, <2>3 DEF IInv
<1>3. ASSUME ~Skipping(c), es' = j.es, NEW b0, NEW j0, NEW bl0, NEW hs0, NEW rt0, NEW dt0,
             b0 = b, j0 = j, bl0 = blocks, hs0 = history, rt0 = roots, dt0 = debt
      PROVE  Inv(b0, j0, bl0, hs0, rt0, dt0)'
  <2>1. CASE Sealing(c)
    <3>1. Seals(c) /\ b0 = j0.l.bs
      BY <1>3, <2>1 DEF Seals
    <3>2. QED
      BY <1>1, <1>3, <3>1, SealKeeps
  <2>2. CASE ~Sealing(c)
    BY <1>1, <1>3, <2>2, BeginKeeps
  <2>3. QED
    BY <2>1, <2>2
<1>4. PICK b0, j0, bl0, hs0, rt0, dt0 :
        b0 = b /\ j0 = j /\ bl0 = blocks /\ hs0 = history /\ rt0 = roots /\ dt0 = debt
  OBVIOUS
<1>5. CASE ~Skipping(c) /\ Finish(j)
  <2>1. /\ bs' = BsOf(j) /\ es' = j.es /\ blocks' = Append(blocks, BlockOf(j))
        /\ history' = HistoryOf(j, history) /\ roots' = roots \cup {P2(j).world}
        /\ debt' = DebtOf(j, debt) /\ job' = NoJob
    BY <1>5, FinishIs
  <2>2. Inv(b0, j0, bl0, hs0, rt0, dt0)'
    BY <1>3, <1>4, <1>5, <2>1
  <2> HIDE DEF j
  <2>3. QED
    BY <1>1, <1>4, <2>1, <2>2, FinishKeepsNext
<1>6. CASE /\ ~Skipping(c)
           /\ job' = j
           /\ bs' = IF j.sealing THEN j.l.bs ELSE bs
           /\ es' = j.es /\ blocks' = blocks /\ history' = history /\ roots' = roots
           /\ debt' = debt
  <2>1. Inv(b0, j0, bl0, hs0, rt0, dt0)'
    BY <1>3, <1>4, <1>6
  <2>2. bs' = b0 /\ job' = j0 /\ blocks' = bl0 /\ history' = hs0 /\ roots' = rt0 /\ debt' = dt0
    BY <1>1, <1>4, <1>6
  <2>3. QED
    BY <2>1, <2>2 DEF IInv
<1>7. QED
  BY <1>2, <1>5, <1>6, BlockIs

\* What is known depends on these variables.
LEMMA InvSame ==
  ASSUME es' = es, confirmed' = confirmed, left' = left, restarts' \in 0 .. MaxRestarts,
         up' \in BOOLEAN, seen' = seen, told' = told, account' = account, NEW b, NEW j, NEW bl, NEW hs,
           NEW rt, NEW dt,
         Inv(b, j, bl, hs, rt, dt)
  PROVE  Inv(b, j, bl, hs, rt, dt)'
<1>1. /\ \A v : Chain(v)' = Chain(v)
      /\ Made' = Made /\ \A e : MedianTime(e)' = MedianTime(e)
  BY ChainSame
<1>2. Typed(b, j, bl, hs, rt, dt)'
  BY DEF Inv, Typed
<1>3. InTime(b, j)' /\ Punished(b, j)' /\ Owed(b, j, dt)' /\ NotOwed(j, dt)' /\ Stored(b, j, bl, hs)'
  BY DEF Inv, InTime, Punished, Owed, NotOwed, Stored, Latest, Dead
<1>4. InOrder'
  BY <1>1 DEF Inv, InOrder, Orderly
<1>5. UpSince(b, j)'
  <2>1. \A states : Ups(confirmed, states) <=> Ups(confirmed, states)'
    BY <1>1 DEF Ups
  <2>2. UptimeWithinEpoch <=> UptimeWithinEpoch'
    BY DEF UptimeWithinEpoch
  <2>3. QED
    BY <2>1, <2>2 DEF Inv, UpSince, Latest
<1>6. Covered(b, j)'
  <2>1. \A d, v, a, s, kept : Covers(d, v, a, s, kept)' <=> Covers(d, v, a, s, kept)
    <3>1. SUFFICES ASSUME NEW d, NEW v, NEW a, NEW s, NEW kept
                   PROVE  Covers(d, v, a, s, kept)' <=> Covers(d, v, a, s, kept)
      OBVIOUS
    <3>2. LastOf(d, v)' = LastOf(d, v)
      BY DEF LastOf
    <3>3. QED
      BY <1>1, <3>2 DEF Covers
  <2>2. QED
    BY <2>1 DEF Inv, Covered, Latest
<1>7. QED
  BY <1>2, <1>3, <1>4, <1>5, <1>6 DEF Inv

\* The worker.
LEMMA WorkerKeeps ==
  ASSUME IInv, Worker
  PROVE  IInv'
<1>1. PICK b0, j0, bl0, hs0, rt0, dt0 :
        b0 = bs /\ j0 = job /\ bl0 = blocks /\ hs0 = history /\ rt0 = roots /\ dt0 = debt
  OBVIOUS
<1>2. /\ job.busy /\ Finish(job) /\ confirmed' = confirmed /\ left' = left /\ up' = up
      /\ restarts' = restarts /\ seen' = seen /\ told' = told /\ account' = account
  BY DEF Worker
<1>3. Inv(b0, j0, bl0, hs0, rt0, dt0)
  BY <1>1 DEF IInv
<1>4. job.es = es
  <2>1. job = NoJob \/ job \in Jobs(es)
    BY DEF IInv, Inv, Typed
  <2>2. job # NoJob
    BY <1>2 DEF NoJob
  <2>3. job \in Jobs(es)
    BY <2>1, <2>2
  <2>4. QED
    BY <2>3 DEF Jobs
<1>5. /\ bs' = BsOf(j0) /\ es' = es /\ blocks' = Append(bl0, BlockOf(j0))
      /\ history' = HistoryOf(j0, hs0) /\ roots' = rt0 \cup {P2(j0).world}
      /\ debt' = DebtOf(j0, dt0) /\ job' = NoJob
  BY <1>1, <1>2, <1>4, FinishIs
<1>6. PICK b1, j1, bl1, hs1, rt1, dt1 :
        /\ b1 = BsOf(j0) /\ j1 = NoJob /\ bl1 = Append(bl0, BlockOf(j0))
        /\ hs1 = HistoryOf(j0, hs0) /\ rt1 = rt0 \cup {P2(j0).world} /\ dt1 = DebtOf(j0, dt0)
  OBVIOUS
<1>7. Inv(b1, j1, bl1, hs1, rt1, dt1)
  BY <1>1, <1>2, <1>3, <1>6, FinishKeeps
<1>8. Inv(b1, j1, bl1, hs1, rt1, dt1)'
  <2>1. up' \in BOOLEAN /\ restarts' \in 0 .. MaxRestarts
    BY <1>2, <1>7 DEF Inv, Typed
  <2>2. QED
    BY <1>2, <1>5, <1>7, <2>1, InvSame
<1>9. QED
  BY <1>5, <1>6, <1>8 DEF IInv

\* A block is decided.
LEMMA EndBlockKeeps ==
  ASSUME IInv, EndBlock
  PROVE  IInv'
<1>1. PICK c \in Decided : Block(c)
  BY DEF EndBlock
<1>2. Ready(c) /\ left > 0
  BY DEF EndBlock, Ready
<1>3. QED
  BY <1>1, <1>2, BlockKeeps

\* What is executed again after a restart is a state of the EVM.
LEMMA ReexecutedIs ==
  ASSUME Stored(bs, job, blocks, history), blocks \in Seq(Blocks), bs.idx \in Nat
  PROVE  /\ \A n \in DOMAIN blocks : /\ GetBlockTxs(blocks[n], Body) = blocks[n].ran
                                     /\ ReexecutedAt(n) = blocks[n].root
         /\ \A kept : Reexecuted(kept) \subseteq Worlds
         /\ DOMAIN blocks = 1 .. bs.idx
<1>1. DOMAIN blocks = 1 .. bs.idx
  BY DEF Stored
<1>2. \A n \in DOMAIN blocks : blocks[n].root \in Worlds
  <2>1. \A x \in Blocks : x.root \in Worlds
    BY DEF Blocks
  <2>2. QED
    BY <2>1
<1>3. ASSUME NEW n \in DOMAIN blocks
      PROVE  ReexecutedAt(n) = blocks[n].root
  <2>1. RootOf(blocks, n - 1) = IF n = 1 THEN World ELSE blocks[n - 1].root
    BY <1>1 DEF RootOf
  <2>2. Again(n, blocks, history) = ReexecutedAt(n)
    BY <2>1 DEF Again, ReexecutedAt, FindBlockEpoch
  <2>3. QED
    BY <2>2 DEF Stored
<1>4. ASSUME NEW kept
      PROVE  Reexecuted(kept) \subseteq Worlds
  <2>1. CASE Recoverable(kept) = {}
    BY <2>1 DEF Reexecuted
  <2>2. CASE Recoverable(kept) # {}
    <3>1. Recoverable(kept) \subseteq 1 .. bs.idx
      BY DEF Recoverable
    <3>2. Max(Recoverable(kept)) \in 1 .. bs.idx
      BY <2>2, <3>1, MaxIs
    <3>3. \A n \in Max(Recoverable(kept)) + 1 .. bs.idx : n \in DOMAIN blocks
      BY <1>1, <3>2
    <3>4. Reexecuted(kept) = {ReexecutedAt(n) : n \in Max(Recoverable(kept)) + 1 .. bs.idx}
      BY <2>2 DEF Reexecuted
    <3>5. QED
      BY <1>2, <1>3, <3>3, <3>4
  <2>3. QED
    BY <2>1, <2>2
<1>5. QED
  BY <1>1, <1>3, <1>4 DEF Stored

\* A restart.
LEMMA RestartKeeps ==
  ASSUME IInv, Restart
  PROVE  IInv'
<1>1. PICK b0, j0, bl0, hs0, rt0, dt0 :
        b0 = bs /\ j0 = job /\ bl0 = blocks /\ hs0 = history /\ rt0 = roots' /\ dt0 = debt
  OBVIOUS
<1>2. /\ bs' = bs /\ es' = es /\ job' = job /\ confirmed' = confirmed /\ left' = left
      /\ blocks' = blocks /\ history' = history /\ seen' = seen /\ told' = told
      /\ debt' = debt /\ account' = account
      /\ up' \in BOOLEAN /\ restarts < MaxRestarts /\ restarts' = restarts + 1
  BY DEF Restart
<1>3. Typed(bs, job, blocks, history, roots, debt) /\ Stored(bs, job, blocks, history)
  BY DEF IInv, Inv
<1>4. /\ bs \in BlockStates(es.validators) /\ blocks \in Seq(Blocks) /\ roots \subseteq Worlds
      /\ restarts \in 0 .. MaxRestarts
  BY <1>3 DEF Typed
<1>5. bs.idx \in Nat
  BY <1>4 DEF BlockStates
<1>6. PICK kept \in SUBSET roots : roots' = kept \cup Reexecuted(kept)
  BY DEF Restart
<1>7. roots' \subseteq Worlds
  BY <1>3, <1>4, <1>5, <1>6, ReexecutedIs
<1>8. restarts' \in 0 .. MaxRestarts
  BY <1>2, <1>4, BlockPipelineAssumption
<1>9. Inv(b0, j0, bl0, hs0, rt0, dt0)
  <2>1. Typed(b0, j0, bl0, hs0, rt0, dt0)
    BY <1>1, <1>3, <1>7 DEF Typed
  <2>2. QED
    BY <1>1, <2>1 DEF IInv, Inv
<1>10. Inv(b0, j0, bl0, hs0, rt0, dt0)'
  BY <1>2, <1>8, <1>9, InvSame
<1>11. QED
  BY <1>1, <1>2, <1>10 DEF IInv

\* A step of something else.
LEMMA StutterKeeps ==
  ASSUME IInv, UNCHANGED vars
  PROVE  IInv'
<1>1. PICK b0, j0, bl0, hs0, rt0, dt0 :
        b0 = bs /\ j0 = job /\ bl0 = blocks /\ hs0 = history /\ rt0 = roots /\ dt0 = debt
  OBVIOUS
<1>2. /\ bs' = bs /\ es' = es /\ job' = job /\ confirmed' = confirmed /\ left' = left
      /\ blocks' = blocks /\ history' = history /\ roots' = roots /\ seen' = seen /\ told' = told
      /\ debt' = debt /\ account' = account /\ up' = up /\ restarts' = restarts
  BY DEF vars
<1>3. Inv(b0, j0, bl0, hs0, rt0, dt0)
  BY <1>1 DEF IInv
<1>4. up' \in BOOLEAN /\ restarts' \in 0 .. MaxRestarts
  BY <1>2, <1>3 DEF Inv, Typed
<1>5. Inv(b0, j0, bl0, hs0, rt0, dt0)'
  BY <1>2, <1>3, <1>4, InvSame
<1>6. QED
  BY <1>1, <1>2, <1>5 DEF IInv

\* Every step keeps the invariant.
LEMMA NextKeeps ==
  ASSUME IInv, [Next]_vars
  PROVE  IInv'
BY EndBlockKeeps, WorkerKeeps, RestartKeeps, StutterKeeps DEF Next

----------------------------------------------------------------------------
(* The beginning *)

\* A node's first state.
LEMMA InitIs ==
  ASSUME Init
  PROVE  /\ bs = [idx |-> 0, time |-> 0, root |-> World, gas |-> 0, cheaters |-> <<>>, written |-> 0,
                  states |-> [v \in Genesis |-> NewState], next |-> Genesis, dirty |-> NoRules,
                  advance |-> 0]
         /\ es = [epoch |-> 1, start |-> 0, validators |-> Genesis,
                  refund |-> [v \in Genesis |-> 0], prev |-> [v \in Genesis |-> NoEvent],
                  rules |-> InitialRules]
         /\ ~job.busy /\ job = NoJob /\ Genesis \subseteq Validator /\ Genesis # {}
         /\ World \in Worlds /\ NewState \in Infos /\ NoEvent \in Accounts
         /\ \A v \in Validator : Stays(v) => v \in Genesis
<1>1. NoEvent \in Accounts
  BY DEF NoEvent, Accounts
<1>2. NewState \in Infos
  BY <1>1 DEF NewState, Infos
<1>3. World \in Worlds
  BY BlockPipelineAssumption DEF World, Worlds
<1>4. \A v \in Validator : Stays(v) => v \in Genesis
  BY DEF Stays
<1>5. QED
  BY <1>1, <1>2, <1>3, <1>4, BlockPipelineAssumption DEF Init, NoJob

\* Types, at the beginning.
LEMMA InitTyped ==
  ASSUME Init
  PROVE  Typed(bs, job, blocks, history, roots, debt)
<1>1. /\ Genesis \subseteq Validator /\ es.validators = Genesis /\ MaxAdvanceEpochs \in Nat
      /\ MaxBlocks \in Nat /\ MaxRestarts \in Nat /\ InitialRules \in Rules /\ Genesis # {}
  BY InitIs, BlockPipelineAssumption
<1>2. es \in EpochStates(Genesis)
  BY <1>1, InitIs DEF EpochStates
<1>3. bs \in BlockStates(Genesis)
  <2> DEFINE states == [v \in Genesis |-> NewState]
             none == <<>>
  <2>1. /\ World \in Worlds /\ none \in Seq(Validator) /\ states \in [Genesis -> Infos]
        /\ Genesis \in SUBSET Validator /\ NoRules \in Rules \cup {NoRules}
             /\ 0 \in 0 .. MaxAdvanceEpochs
    BY <1>1, InitIs
  <2>2. bs = [idx |-> 0, time |-> 0, root |-> World, gas |-> 0, cheaters |-> none, written |-> 0,
              states |-> states, next |-> Genesis, dirty |-> NoRules, advance |-> 0]
    BY InitIs
  <2> HIDE DEF states, none
  <2>3. QED
    BY <2>1, <2>2 DEF BlockStates
<1>4. /\ blocks \in Seq(Blocks) /\ roots \subseteq Worlds /\ debt \in [Validator -> Nat]
      /\ confirmed \subseteq Event /\ left \in 0 .. MaxBlocks /\ restarts \in 0 .. MaxRestarts
      /\ up \in BOOLEAN /\ seen \subseteq Validator
  BY <1>1, InitIs DEF Init
<1>5. history \in Seq([rules : Rules, first : Nat])
  BY <1>1 DEF Init
<1>6. account \in [Validator -> [credit : Int, since : Nat, recorded : BOOLEAN]]
  <2>1. Startup(Genesis) \in Nat
    BY <1>1, RateTyped
  <2>2. QED
    BY <2>1 DEF Init, Opened, NoneOpened
<1>7. QED
  BY <1>1, <1>2, <1>3, <1>4, <1>5, <1>6, InitIs DEF Typed

\* The invariant holds at the beginning.
LEMMA InitKeeps ==
  ASSUME Init
  PROVE  IInv
<1>1. /\ es.validators = Genesis /\ es.start = 0 /\ bs.time = 0 /\ bs.idx = 0 /\ bs.root = World
      /\ bs.cheaters = <<>> /\ bs.next = Genesis /\ bs.states = [v \in Genesis |-> NewState]
      /\ es.refund = [v \in Genesis |-> 0] /\ es.prev = [v \in Genesis |-> NoEvent]
      /\ es.rules = InitialRules /\ ~job.busy /\ World.dead = {}
      /\ NewState.lastBlock = 0 /\ NewState.uptime = 0 /\ NewState.refund = 0 /\ NewState.event = NoEvent
  BY InitIs DEF World, NewState
<1>2. Latest(bs, job) = bs /\ Dead(bs, job) = {}
  BY <1>1 DEF Latest, Dead
<1>3. /\ confirmed = {} /\ seen = {} /\ told = NotTold /\ blocks = <<>>
      /\ history = <<[rules |-> InitialRules, first |-> 1]>> /\ debt = [v \in Validator |-> 0]
      /\ account = [v \in Validator |-> IF v \in Genesis THEN Opened(Genesis, 0) ELSE NoneOpened]
  BY DEF Init
<1>4. InTime(bs, job)
  BY <1>1 DEF InTime
<1>5. Punished(bs, job)
  <2>1. IsInjective(<<>>) /\ ToSet(<<>>) = {} /\ Range(<<>>) = {}
    BY DEF IsInjective, ToSet, Range
  <2>2. QED
    BY <1>1, <1>2, <1>3, <2>1, InitIs DEF Punished, NotTold, Stays
<1>6. InOrder
  BY <1>3 DEF InOrder, Orderly
<1>7. UpSince(bs, job)
  BY <1>1, <1>2, <1>3 DEF UpSince, Ups, UptimeWithinEpoch, NotTold
<1>8. Owed(bs, job, debt) /\ NotOwed(job, debt)
  BY <1>1, <1>2, <1>3, InitIs DEF Owed, NotOwed
<1>9. Covered(bs, job)
  <2>1. SUFFICES ASSUME NEW v \in Genesis
                 PROVE  Covers({}, v, Opened(Genesis, 0), v \in seen, NoEvent)
    BY <1>1, <1>2, <1>3, InitIs DEF Covered
  <2>2. LastOf({}, v) = 0
    BY DEF LastOf
  <2>3. Startup(Genesis) \in Nat
    BY InitIs, RateTyped
  <2>4. EpochAccount(NoEvent, 0, 0).left = 0 /\ EpochAccount(NoEvent, 0, 0).time = 0
    BY InitIs, EpochAccountIs
  <2>5. Chain(v)[0].account = EpochAccount(NoEvent, 0, 0)
    BY <1>1, ChainBegins
  <2>6. Opened(Genesis, 0).credit = Startup(Genesis) /\ Opened(Genesis, 0).since = 0
    BY DEF Opened
  <2>7. QED
    BY <1>1, <2>2, <2>3, <2>4, <2>5, <2>6 DEF Covers
<1>10. Stored(bs, job, blocks, history)
  BY <1>1, <1>3 DEF Stored, RootOf
<1>11. QED
  BY <1>4, <1>5, <1>6, <1>7, <1>8, <1>9, <1>10, InitTyped DEF IInv, Inv

----------------------------------------------------------------------------
(* Theorems *)

\* What is known of the blocks and of validators holds in every state that the node can reach.
THEOREM PipelineInvariant == Spec => []IInv
<1>1. Init => IInv
  BY InitKeeps
<1>2. IInv /\ [Next]_vars => IInv'
  BY NextKeeps
<1>3. QED
  BY <1>1, <1>2, PTL DEF Spec

\* What the invariant says of a state by itself.
LEMMA InvIs ==
  ASSUME IInv
  PROVE  /\ es.validators \subseteq Validator /\ es.validators # {} /\ es \in EpochStates(es.validators)
         /\ bs \in BlockStates(es.validators) /\ blocks \in Seq(Blocks) /\ roots \subseteq Worlds
         /\ debt \in [Validator -> Nat] /\ confirmed \subseteq Event
         /\ left \in 0 .. MaxBlocks /\ restarts \in 0 .. MaxRestarts
         /\ job.busy => job \in Jobs(es)
         /\ account \in [Validator -> [credit : Int, since : Nat, recorded : BOOLEAN]]
         /\ InTime(bs, job) /\ Punished(bs, job) /\ UpSince(bs, job) /\ Owed(bs, job, debt)
         /\ Covered(bs, job) /\ Stored(bs, job, blocks, history)
<1>1. /\ Typed(bs, job, blocks, history, roots, debt)
      /\ InTime(bs, job) /\ Punished(bs, job) /\ UpSince(bs, job) /\ Owed(bs, job, debt)
      /\ Covered(bs, job) /\ Stored(bs, job, blocks, history)
  BY DEF IInv, Inv
<1>2. es.validators # {}
  <2>1. PICK v \in Validator : Stays(v)
    BY BlockPipelineAssumption
  <2>2. QED
    BY <1>1, <2>1 DEF Punished
<1>3. job.busy => job \in Jobs(es)
  BY <1>1 DEF Typed, NoJob
<1>4. QED
  BY <1>1, <1>2, <1>3 DEF Typed

\* A block state and an epoch state of a group go together.
LEMMA StateIs ==
  ASSUME NEW e, NEW b, e \in EpochStates(e.validators), b \in BlockStates(e.validators),
         e.validators # {}, \A v \in e.validators : b.states[v].lastBlock <= b.idx + 1
  PROVE  StateOf(b, e)
<1>1. /\ e.refund \in [e.validators -> Nat] /\ e.prev \in [e.validators -> Accounts]
  BY DEF EpochStates
<1>2. /\ b.states \in [e.validators -> Infos] /\ b.next \subseteq Validator
      /\ b.written = 0 /\ b.cheaters \in Seq(Validator) /\ b.advance \in 0 .. MaxAdvanceEpochs
      /\ b.idx \in Nat
  BY DEF BlockStates
<1>3. \A v \in e.validators : b.states[v].lastBlock \in Nat
  BY <1>2 DEF Infos
<1>4. QED
  BY <1>1, <1>2, <1>3 DEF StateOf

\* Types: each validator of the epoch, and no other, has a block state and an epoch state, of the
\* store and of the worker; the blocks stored are those up to the last one; and no account of the
\* EVM is overdrawn.
THEOREM PipelineTyped == Spec => []TypeOK
<1>1. IInv => TypeOK
  <2>1. SUFFICES ASSUME IInv
                 PROVE  TypeOK
    OBVIOUS
  <2>2. StateOf(bs, es)
    BY <2>1, InvIs, StateIs DEF InTime
  <2>3. job.busy => StateOf(job.l.bs, job.es)
    <3>1. SUFFICES ASSUME job.busy
                   PROVE  StateOf(job.l.bs, job.es)
      OBVIOUS
    <3>2. job.es = es /\ job.l.bs \in BlockStates(es.validators)
      BY <2>1, <3>1, InvIs, JobTyped
    <3>3. job.l.bs.idx = bs.idx /\ \A v \in es.validators : job.l.bs.states[v].lastBlock <= bs.idx + 1
      BY <2>1, <3>1, InvIs DEF InTime
    <3>4. QED
      BY <2>1, <3>2, <3>3, InvIs, StateIs
  <2>4. Len(blocks) = bs.idx
    BY <2>1, InvIs DEF Stored
  <2>5. \A w \in Worlds : \A a \in Account : w.nonce[a] \in Nat /\ w.balance[a] \in Nat
    BY DEF Worlds
  <2>6. QED
    BY <2>1, <2>2, <2>3, <2>4, <2>5, InvIs DEF TypeOK
<1>2. QED
  BY <1>1, PipelineInvariant, PTL

\* Cheaters: who was seen to fork or was proven to is remembered while the epoch lasts, whether or
\* not the block is skipped; the driver is told of each of them once, when the epoch is sealed, and
\* no group has one of them, this epoch's or the next.
THEOREM PipelinePunishes == Spec => []CheatersPunished
<1>1. IInv => CheatersPunished
  <2>1. SUFFICES ASSUME IInv
                 PROVE  CheatersPunished
    OBVIOUS
  <2>2. Punished(bs, job)
    BY <2>1, InvIs
  <2>3. QED
    BY <2>2 DEF CheatersPunished, Punished, Dead
<1>2. QED
  BY <1>1, PipelineInvariant, PTL

\* The metrics of an epoch never claim that a validator was up for longer than the epoch took.
THEOREM PipelineUptime == Spec => []UptimeWithinEpoch
<1>1. IInv => UptimeWithinEpoch
  BY InvIs DEF UpSince
<1>2. QED
  BY <1>1, PipelineInvariant, PTL

\* Gas: a refund is owed until an epoch grants it, and once only; and the events of a validator that
\* blocks confirmed used no more than it was allotted.
THEOREM PipelineGas == Spec => []GasPowerConserved
<1>1. IInv => GasPowerConserved
  <2>1. SUFFICES ASSUME IInv
                 PROVE  GasPowerConserved
    OBVIOUS
  <2>2. RefundsConserved
    <3>1. SUFFICES ASSUME ~job.busy, NEW v \in es.validators
                   PROVE  bs.states[v].refund = debt[v]
      BY DEF RefundsConserved
    <3>2. bs.states[v] \in Infos
      BY <2>1, InvIs DEF BlockStates
    <3>3. bs.states[v].refund \in Nat
      BY <3>2 DEF Infos
    <3>4. Owed(bs, job, debt)
      BY <2>1, InvIs
    <3>5. QED
      BY <3>1, <3>3, <3>4 DEF Owed, Latest
  <2>3. NothingUsedTwice
    <3>1. SUFFICES ASSUME NEW v \in es.validators, account[v].recorded
                   PROVE  account[v].credit >= 0
      BY DEF NothingUsedTwice
    <3>2. PICK m \in 0 .. Len(Body) : m = LastOf(confirmed, v)
      BY <2>1, InvIs, LastIs
    <3>3. account[v].credit >= Chain(v)[m].account.left
      BY <2>1, <3>1, <3>2, InvIs DEF Covered, Covers
    <3>4. Chain(v)[m].account \in Accounts
      BY <2>1, <3>2, InvIs, ChainTyped
    <3>5. Chain(v)[m].account.left \in Nat
      BY <3>4 DEF Accounts
    <3>6. account[v].credit \in Int
      BY <2>1, InvIs
    <3>7. QED
      BY <3>3, <3>5, <3>6
  <2>4. QED
    BY <2>2, <2>3 DEF GasPowerConserved
<1>2. QED
  BY <1>1, PipelineInvariant, PTL

\* Blocks: what is read of a stored block is what was executed, and executing it again, on the state
\* of the one before and by the rules of its epoch, gives its state.
THEOREM PipelineReplays == Spec => []BlocksReplay
<1>1. IInv => BlocksReplay
  <2>1. SUFFICES ASSUME IInv
                 PROVE  BlocksReplay
    OBVIOUS
  <2>2. bs.idx \in Nat
    BY <2>1, InvIs DEF BlockStates
  <2>3. QED
    BY <2>1, <2>2, InvIs, ReexecutedIs DEF BlocksReplay
<1>2. QED
  BY <1>1, PipelineInvariant, PTL

----------------------------------------------------------------------------
(* Recovery *)

\* Consensus decides MaxBlocks blocks: RecoverEVM's number does not overflow.
Bounded == Len(blocks) + left + (IF job.busy THEN 1 ELSE 0) <= MaxBlocks

\* Each block is counted once.
LEMMA BoundedKeeps ==
  ASSUME IInv, Bounded, [Next]_vars
  PROVE  Bounded'
<1>1. blocks \in Seq(Blocks) /\ left \in Nat /\ Len(blocks) \in Nat /\ MaxBlocks \in Nat
  BY InvIs, BlockPipelineAssumption
<1>2. \A x : Len(Append(blocks, x)) = Len(blocks) + 1
  BY <1>1
<1>3. ~NoJob.busy
  BY DEF NoJob
<1>4. CASE EndBlock
  <2>1. PICK c \in Decided : Block(c)
    BY <1>4 DEF EndBlock
  <2>2. Ready(c) /\ ~job.busy
    BY <1>4 DEF EndBlock, Ready
  <2>3. left' = left - 1
    BY <2>1, <2>2, BlockIs DEF Blocked
  <2>4. \/ job' = job /\ blocks' = blocks
        \/ job' = NoJob /\ \E x : blocks' = Append(blocks, x)
        \/ blocks' = blocks
    BY <2>1, <2>2, BlockIs, FinishIs
  <2>5. Len(blocks') \in {Len(blocks), Len(blocks) + 1} /\ (job'.busy => blocks' = blocks)
    BY <1>2, <1>3, <2>2, <2>4
  <2>6. QED
    BY <1>1, <2>2, <2>3, <2>5 DEF Bounded
<1>5. CASE Worker
  <2>1. job.busy /\ left' = left /\ job' = NoJob /\ \E x : blocks' = Append(blocks, x)
    BY <1>5, FinishIs DEF Worker
  <2>2. QED
    BY <1>1, <1>2, <1>3, <2>1 DEF Bounded
<1>6. CASE Restart \/ UNCHANGED vars
  <2>1. job' = job /\ left' = left /\ blocks' = blocks
    BY <1>6 DEF Restart, vars
  <2>2. QED
    BY <2>1 DEF Bounded
<1>7. QED
  BY <1>4, <1>5, <1>6 DEF Next

\* So the number that RecoverEVM begins with is what it ought to be.
LEMMA LowestIs ==
  ASSUME NEW R \in Nat, NEW i \in Nat, NEW d \in Nat, d <= i, i < R
  PROVE  (i + R - d) % R = i - d
OBVIOUS

\* If the state of one of the last blocks is there, the last one's is there after the restart.
LEMMA RestartRecovers ==
  ASSUME IInv, Bounded, Restart, bs.idx >= RecoverDepth,
         NEW n \in 1 .. bs.idx, n + RecoverDepth > bs.idx, blocks[n].root \in roots'
  PROVE  up'
<1>1. /\ bs.idx \in Nat /\ blocks \in Seq(Blocks) /\ Len(blocks) = bs.idx
      /\ Stored(bs, job, blocks, history) /\ left \in Nat
  BY InvIs DEF BlockStates, Stored
<1>2. {MaxBlocks, BlockRange, RecoverDepth} \subseteq Nat /\ MaxBlocks < BlockRange
  BY BlockPipelineAssumption
<1>3. bs.idx < BlockRange
  BY <1>1, <1>2 DEF Bounded
<1>4. (bs.idx + BlockRange - RecoverDepth) % BlockRange = bs.idx - RecoverDepth
  BY <1>1, <1>2, <1>3, LowestIs
<1>5. bs.root = blocks[bs.idx].root
  BY <1>1 DEF Stored, RootOf
<1>6. PICK kept \in SUBSET roots : roots' = kept \cup Reexecuted(kept)
  BY DEF Restart
<1>7. up' = (bs.root \in roots')
  BY DEF Restart
<1> DEFINE R == Recoverable(kept)
<1>8. R = {m \in 1 .. bs.idx : m > bs.idx - RecoverDepth /\ blocks[m].root \in kept}
  BY <1>4 DEF Recoverable
<1>9. R # {}
  <2>1. CASE blocks[n].root \in kept
    BY <1>1, <1>2, <1>8, <2>1
  <2>2. CASE blocks[n].root \in Reexecuted(kept)
    BY <2>2 DEF Reexecuted
  <2>3. QED
    BY <1>6, <2>1, <2>2
<1>10. Max(R) \in R /\ Max(R) \in 1 .. bs.idx
  <2>1. R \subseteq 1 .. bs.idx
    BY <1>8
  <2> HIDE DEF R
  <2>2. QED
    BY <1>1, <1>9, <2>1, MaxIs
<1>11. CASE Max(R) = bs.idx
  <2>1. bs.root \in kept
    BY <1>5, <1>8, <1>10, <1>11
  <2>2. QED
    BY <1>6, <1>7, <2>1
<1>12. CASE Max(R) # bs.idx
  <2>1. bs.idx \in Max(R) + 1 .. bs.idx
    BY <1>1, <1>10, <1>12
  <2>2. ReexecutedAt(bs.idx) = bs.root
    BY <1>1, <1>5, ReexecutedIs
  <2>3. bs.root \in Reexecuted(kept)
    BY <1>9, <2>1, <2>2 DEF Reexecuted
  <2>4. QED
    BY <1>6, <1>7, <2>3
<1>13. QED
  BY <1>11, <1>12

\* RecoverEVM: when the chain is longer than it looks back and the state of one of the last blocks is
\* in the database, the last one's is there after the restart and the node starts.
THEOREM PipelineRecovers == Spec => Recovers
<1> DEFINE Lost == restarts' # restarts /\ bs.idx >= RecoverDepth
                     /\ (\E n \in 1 .. bs.idx : n + RecoverDepth > bs.idx /\ blocks[n].root \in roots')
                   => up'
<1>1. Init => Bounded
  <2>1. SUFFICES ASSUME Init
                 PROVE  Bounded
    OBVIOUS
  <2>2. blocks = <<>> /\ left = MaxBlocks /\ ~job.busy /\ MaxBlocks \in Nat
    BY <2>1, InitIs, BlockPipelineAssumption DEF Init
  <2>3. QED
    BY <2>2 DEF Bounded
<1>2. IInv /\ Bounded /\ [Next]_vars => Bounded'
  BY BoundedKeeps
<1>3. IInv /\ Bounded /\ [Next]_vars => [Lost]_vars
  <2>1. SUFFICES ASSUME IInv, Bounded, Next, restarts' # restarts, bs.idx >= RecoverDepth,
                        NEW n \in 1 .. bs.idx, n + RecoverDepth > bs.idx, blocks[n].root \in roots'
                 PROVE  up'
    OBVIOUS
  <2>2. Restart
    <3>1. \A c : Block(c) => restarts' = restarts
      BY DEF Block
    <3>2. QED
      BY <2>1, <3>1 DEF Next, EndBlock, Worker
  <2>3. QED
    BY <2>1, <2>2, RestartRecovers
<1>4. Spec => []Bounded
  BY <1>1, <1>2, PipelineInvariant, PTL DEF Spec
<1>5. QED
  BY <1>3, <1>4, PipelineInvariant, PTL DEF Spec, Recovers
=============================================================================
