-------------------------- MODULE LlrRecordsProofs --------------------------
(***************************************************************************)
(* Proofs about LlrRecords, for every chain: types, that nothing is        *)
(* missing from the store that what is there builds on, that no lowest     *)
(* index to fill stays behind, and that a block is judged and executed by  *)
(* its own epoch.                                                          *)
(***************************************************************************)
EXTENDS LlrRecords, FiniteSetTheorems, SequenceTheorems, WellFoundedInduction, TLAPS

----------------------------------------------------------------------------
(* The invariant *)

\* What holds of the store in memory and of the flushed one alike. Every epoch below a
\* stored one is known; the epoch of a stored block is stored; the head's block is one
\* before the first block of its epoch, or one of its epoch that does not seal it.
Sound(d) ==
  /\ 1 .. d.fill.block - 1 \subseteq d.blocks
  /\ 1 .. d.fill.epoch - 1 \subseteq d.history
  /\ 1 .. d.head.block \subseteq d.blocks
  /\ \A e \in d.history : \A n \in 1 .. e - 1 : KnownEpoch(d, n)
  /\ \A b \in d.blocks : EpochOf(b) \in d.history
  /\ d.head.epoch + 1 \in Epoch => d.head.block + 1 < FirstBlock[d.head.epoch + 1]

\* The epochs up to the head are stored, but for the one whose block the worker is about to
\* record; the flushed store is never at such a point.
HeadStored ==
  /\ 1 .. db.head.epoch - 1 \subseteq db.history
  /\ worker.step = "epoch" \/ db.head.epoch \in db.history
  /\ 1 .. disk.head.epoch \subseteq disk.history
  /\ FirstBlock[db.head.epoch] <= Next1 + 1
  /\ worker.step \in {"epoch", "block"} \/ FirstBlock[db.head.epoch] <= Next1
  /\ FirstBlock[disk.head.epoch] <= disk.head.block + 1

\* What each writer has between two of its steps still holds when it goes on.
Working ==
  /\ worker.step \in {"epoch", "block"} =>
       /\ worker.block = Next1
       /\ db.head.epoch + 1 \in Epoch => Next1 + 1 < FirstBlock[db.head.epoch + 1]
  /\ worker.step = "epoch" => engine.step = "commit"
  /\ worker.step = "fill" => worker.block \in db.blocks
  /\ engine.step = "seal" => worker = Idle /\ Next1 \in Block /\ Seals(Next1)
  /\ br.step = "fill" => br.block \in db.blocks
  /\ br # Idle => EpochOf(br.block) \in db.history
  /\ er # Idle => er.epoch > 1 /\ KnownEpoch(db, er.epoch - 1)
  /\ er.step \in {"mark", "height", "fill"} => er.epoch \in db.history

\* A lowest index is at a stored number only while somebody is about to raise it.
Raised ==
  crashes = 0 =>
    /\ db.fill.block \in db.blocks =>
         \/ br.step = "fill" /\ br.block = db.fill.block
         \/ worker.step = "fill" /\ worker.block = db.fill.block
    /\ db.fill.epoch \in db.history =>
         \/ er.step \in {"mark", "height", "fill"} /\ er.epoch = db.fill.epoch
         \/ worker.step \in {"block", "fill"} /\ db.head.epoch = db.fill.epoch

\* Every stored epoch has its mark, but the one whose record is being written.
Marked ==
  crashes = 0 =>
    \A e \in db.history : e \in db.marks \/ (er.step = "mark" /\ er.epoch = e)

\* Before the switch consensus has not begun, and the record that is being written is above
\* all that the switch may go to, and no epoch above it is stored.
Waiting ==
  crashes = 0 /\ syncing =>
    /\ worker = Idle /\ engine = Idle
    /\ er.step \in {"state", "mark", "height"} =>
         /\ er.epoch >= db.fill.epoch
         /\ \A e \in db.history : e <= er.epoch

\* The record that is being written is not below the head.
Ahead ==
  crashes = 0 /\ ~SlowWriter /\ er.step \in {"state", "mark", "height"} =>
    /\ er.epoch >= db.head.epoch
    /\ engine.step = "seal" => er.epoch > db.head.epoch

----------------------------------------------------------------------------
(* The heights *)

Change(e) == e \in Epoch \ {1} /\ UpgradesDiffer(e)

FirstChange(g) == Change(g) /\ \A e \in Epoch : Change(e) => g <= e

LastChange(c) == Change(c) /\ \A e \in Epoch : Change(e) => e <= c

\* The heights begin with epoch 1 and go on with changes.
Changes(hs) ==
  /\ hs # <<>> /\ hs[1] = 1
  /\ \A i \in 2 .. Len(hs) : Change(hs[i])

\* The first change follows on epoch 1.
Begun(hs, g) == Len(hs) >= 2 /\ hs[2] = g

Ended(hs, c) == hs # <<>> /\ hs[Len(hs)] = c

\* The record of epoch e is between the write of its state and that of its height.
Holds(e) == er.step \in {"mark", "height"} /\ er.epoch = e

\* The heights in the store and those that a writer has read: what may follow on epoch 1 is
\* the first change, and if it is known, and not just being written, it does.
FirstKept ==
  \A g \in Epoch : FirstChange(g) =>
    /\ db.heights = <<1>> \/ Begun(db.heights, g)
    /\ engine.step = "seal" =>
         /\ engine.heights = <<1>> \/ Begun(engine.heights, g)
         /\ g <= db.head.epoch => Begun(engine.heights, g)
    /\ er.step = "height" =>
         /\ er.heights = <<1>> \/ Begun(er.heights, g)
         /\ er.epoch # g => Begun(er.heights, g)
    /\ g <= db.head.epoch \/ (g \in db.history /\ ~Holds(g)) => Begun(db.heights, g)

\* Once the head has reached the last change, it is the last one in the heights; and so it
\* is, before the switch, once its record is there.
LastKept ==
  \A c \in Epoch : LastChange(c) =>
    /\ c <= db.head.epoch => Ended(db.heights, c)
    /\ syncing /\ c \in db.history /\ ~Holds(c) => Ended(db.heights, c)

Heights ==
  crashes = 0 /\ ~SlowWriter =>
    /\ Changes(db.heights)
    /\ engine.step = "seal" => Changes(engine.heights)
    /\ er.step = "height" => Changes(er.heights) /\ Change(er.epoch)
    /\ FirstKept
    /\ LastKept

\* The inductive invariant.
IInv ==
  /\ TypeOK
  /\ Sound(db) /\ Sound(disk)
  /\ HeadStored /\ Working /\ Raised /\ Marked /\ Waiting /\ Ahead /\ Heights

----------------------------------------------------------------------------
(* Numbers *)

\* A set of numbers has a least one (WFMin over the well-founded order of Nat).
LEMMA LeastNat ==
  ASSUME NEW T \in SUBSET Nat, T # {}
  PROVE  \E x \in T : \A y \in T : x <= y
<1> DEFINE R == OpToRel(<, Nat)
<1>1. IsWellFoundedOn(R, Nat)
  BY NatLessThanWellFounded
<1>2. \A x, y \in Nat : y < x => <<y, x>> \in R
  BY DEF OpToRel
<1> HIDE DEF R
<1>3. \E x \in T : \A y \in T : ~(<<y, x>> \in R)
  BY <1>1, WFMin
<1>4. PICK x \in T : \A y \in T : ~(<<y, x>> \in R)
  BY <1>3
<1>5. ASSUME NEW y \in T
      PROVE  ~(y < x)
  <2>1. x \in Nat /\ y \in Nat /\ ~(<<y, x>> \in R)
    BY <1>4
  <2>2. QED
    BY <1>2, <2>1, Zenon
<1>6. \A y \in T : x <= y
  BY <1>5
<1>7. QED
  BY <1>6

----------------------------------------------------------------------------
(* The chain *)

\* What ChainAssumption says, in the form in which it is used.
LEMMA Chain ==
  /\ Top \in Nat \ {0}
  /\ Len(FirstBlock) \in Nat \ {0}
  /\ Epoch = 1 .. Len(FirstBlock) /\ Epoch \subseteq Nat /\ 1 \in Epoch
  /\ Block = 1 .. Top /\ Block \subseteq Nat
  /\ \A e \in Epoch : FirstBlock[e] \in Block
  /\ FirstBlock[1] = 1
  /\ \A e \in Epoch : e + 1 \in Epoch => FirstBlock[e] < FirstBlock[e + 1]
  /\ Upgrades \in [Epoch -> SUBSET Feature]
<1>1. /\ Top \in Nat \ {0}
      /\ FirstBlock \in Seq(Block) /\ FirstBlock # <<>> /\ FirstBlock[1] = 1
      /\ \A e \in Epoch : e + 1 \in Epoch => FirstBlock[e] < FirstBlock[e + 1]
      /\ Upgrades \in [Epoch -> SUBSET Feature]
  BY ChainAssumption
<1>2. Len(FirstBlock) \in Nat /\ Len(FirstBlock) # 0
  BY <1>1, LenProperties, EmptySeq
<1>3. Epoch = 1 .. Len(FirstBlock) /\ Block = 1 .. Top
  BY DEF Epoch, Block
<1>4. Epoch \subseteq Nat /\ 1 \in Epoch /\ Block \subseteq Nat
  BY <1>1, <1>2, <1>3
<1>5. \A e \in Epoch : FirstBlock[e] \in Block
  BY <1>1, <1>3, ElementOfSeq
<1>6. QED
  BY <1>1, <1>2, <1>3, <1>4, <1>5

\* Epochs begin one after the other.
LEMMA FirstBlockIncreases ==
  ASSUME NEW e \in Epoch, NEW x \in Epoch, e < x
  PROVE  FirstBlock[e] < FirstBlock[x]
<1> DEFINE T == {n \in Epoch : e < n /\ ~(FirstBlock[e] < FirstBlock[n])}
<1>1. SUFFICES ASSUME x \in T
               PROVE  FALSE
  OBVIOUS
<1>2. T \subseteq Nat /\ T # {}
  BY <1>1, Chain
<1>3. PICK n \in T : \A y \in T : n <= y
  BY <1>2, LeastNat
<1>4. /\ n \in Epoch /\ n \in Nat /\ e \in Nat /\ e < n /\ ~(FirstBlock[e] < FirstBlock[n])
      /\ n - 1 \in Epoch /\ FirstBlock[n - 1] < FirstBlock[(n - 1) + 1] /\ (n - 1) + 1 = n
  BY <1>3, Chain
<1>5. FirstBlock[e] \in Nat /\ FirstBlock[n] \in Nat /\ FirstBlock[n - 1] \in Nat
  BY <1>4, Chain
<1>6. e # n - 1
  BY <1>4, <1>5
<1>7. n - 1 \in T
  BY <1>4, <1>5, <1>6
<1>8. QED
  BY <1>3, <1>4, <1>7

\* EpochOf: the last epoch that begins at b or below.
LEMMA EpochOfIs ==
  ASSUME NEW b \in Block
  PROVE  /\ EpochOf(b) \in Epoch
         /\ FirstBlock[EpochOf(b)] <= b
         /\ \A e \in Epoch : FirstBlock[e] <= b <=> e <= EpochOf(b)
<1> DEFINE T == {e \in Epoch : b < FirstBlock[e]}
           Is(e) == FirstBlock[e] <= b /\ (e + 1 \in Epoch => b < FirstBlock[e + 1])
<1> DEFINE n == Len(FirstBlock)
<1>0. b \in Nat /\ n \in Nat /\ n >= 1 /\ Epoch = 1 .. n
  BY Chain
<1> HIDE DEF n
<1>1. \E e \in Epoch : Is(e)
  <2>1. CASE T = {}
    <3>1. n \in Epoch /\ n + 1 \notin Epoch
      BY <1>0
    <3>2. FirstBlock[n] \in Nat /\ ~(b < FirstBlock[n])
      BY <2>1, <3>1, Chain
    <3>3. QED
      BY <1>0, <3>1, <3>2
  <2>2. CASE T # {}
    <3>1. T \subseteq Nat
      BY Chain
    <3>2. PICK x \in T : \A y \in T : x <= y
      BY <2>2, <3>1, LeastNat
    <3>3. x \in Nat /\ x \in Epoch /\ b < FirstBlock[x] /\ x # 1 /\ b >= 1
      BY <1>0, <3>2, Chain
    <3>4. x - 1 \in Epoch /\ (x - 1) + 1 = x /\ x - 1 \notin T
      BY <1>0, <3>2, <3>3
    <3>5. FirstBlock[x - 1] \in Nat /\ ~(b < FirstBlock[x - 1])
      BY <3>4, Chain
    <3>6. Is(x - 1)
      BY <1>0, <3>3, <3>4, <3>5
    <3>7. QED
      BY <3>4, <3>6
  <2>3. QED
    BY <2>1, <2>2
<1>2. EpochOf(b) = CHOOSE e \in Epoch : Is(e)
  BY DEF EpochOf
<1> DEFINE o == EpochOf(b)
<1>3. o \in Epoch /\ Is(o)
  BY <1>1, <1>2
<1> HIDE DEF o
<1>4. ASSUME NEW e \in Epoch
      PROVE  FirstBlock[e] <= b <=> e <= o
  <2>1. e \in Nat /\ o \in Nat /\ FirstBlock[e] \in Nat /\ FirstBlock[o] \in Nat
    BY <1>3, Chain
  <2>2. CASE e < o
    BY <1>0, <1>3, <2>1, <2>2, FirstBlockIncreases
  <2>3. CASE e = o
    BY <1>0, <1>3, <2>1, <2>3
  <2>4. CASE e > o
    <3>1. o + 1 \in Epoch /\ FirstBlock[o + 1] \in Nat /\ b < FirstBlock[o + 1]
      BY <1>0, <1>3, <2>1, <2>4, Chain
    <3>2. e = o + 1 \/ o + 1 < e
      BY <2>1, <2>4
    <3>3. FirstBlock[o + 1] <= FirstBlock[e]
      BY <2>1, <3>1, <3>2, FirstBlockIncreases
    <3>4. QED
      BY <1>0, <2>1, <2>4, <3>1, <3>3
  <2>5. QED
    BY <2>1, <2>2, <2>3, <2>4
<1>5. QED
  BY <1>3, <1>4 DEF o

\* Upgrades that are not revoked stay on.
LEMMA StaysOn ==
  ASSUME NoneRevoked, NEW e \in Epoch, NEW x \in Epoch, e <= x
  PROVE  Upgrades[e] \subseteq Upgrades[x]
<1> DEFINE T == {n \in Epoch : e <= n /\ ~(Upgrades[e] \subseteq Upgrades[n])}
<1>1. SUFFICES ASSUME x \in T
               PROVE  FALSE
  OBVIOUS
<1>2. T \subseteq Nat /\ T # {}
  BY <1>1, Chain
<1>3. PICK n \in T : \A y \in T : n <= y
  BY <1>2, LeastNat
<1>4. n \in Epoch /\ n \in Nat /\ e \in Nat /\ e < n /\ ~(Upgrades[e] \subseteq Upgrades[n])
  BY <1>3, Chain
<1>5. n - 1 \in Epoch /\ e <= n - 1 /\ (n - 1) + 1 = n /\ n - 1 \notin T
  <2>1. n - 1 \in Epoch /\ e <= n - 1 /\ (n - 1) + 1 = n /\ ~(n <= n - 1)
    BY <1>4, Chain
  <2>2. QED
    BY <1>3, <2>1
<1>6. Upgrades[n - 1] \subseteq Upgrades[n]
  BY <1>4, <1>5 DEF NoneRevoked
<1>7. QED
  BY <1>4, <1>5, <1>6

----------------------------------------------------------------------------
(* actualizeLowestIndex *)

\* It stays where it is unless it is the index to update; then it goes to the next number
\* that is missing.
LEMMA ActualizedIs ==
  ASSUME NEW n \in Nat, NEW current \in 1 .. n + 1, NEW upd \in 1 .. n,
         NEW present \in SUBSET (1 .. n)
  PROVE  LET u == Actualized(current, upd, present)
         IN /\ u \in 1 .. n + 1
            /\ current # upd => u = current
            /\ current = upd => /\ u > current /\ u \notin present
                                /\ current + 1 .. u - 1 \subseteq present
<1> DEFINE c == Cardinality(present)
           I == current + 1 .. current + 1 + c
           Is(u) == u \notin present /\ \A k \in current + 1 .. u - 1 : k \in present
           a == Actualized(current, upd, present)
<1>1. IsFiniteSet(present) /\ c \in Nat
  <2>1. IsFiniteSet(1 .. n)
    BY FS_Interval
  <2>2. QED
    BY <2>1, FS_Subset, FS_CardinalityType
<1>2. CASE current # upd
  BY <1>2 DEF Actualized
<1>3. CASE current = upd
  <2>1. IsFiniteSet(I) /\ Cardinality(I) = c + 1
    <3> HIDE DEF c
    <3>1. /\ IsFiniteSet(I)
          /\ Cardinality(I) = IF current + 1 > current + 1 + c THEN 0
                              ELSE (current + 1 + c) - (current + 1) + 1
      BY <1>1, FS_Interval
    <3>2. QED
      BY <1>1, <3>1
  <2>2. ~(I \subseteq present)
    <3>1. I \subseteq present => Cardinality(I) <= c
      BY <1>1, FS_Subset
    <3> HIDE DEF I, c
    <3>2. QED
      BY <1>1, <2>1, <3>1
  <2> DEFINE T == I \ present
  <2> HIDE DEF c
  <2>3. T \subseteq Nat /\ T # {}
    BY <1>1, <2>2
  <2>4. PICK x \in T : \A y \in T : x <= y
    BY <2>3, LeastNat
  <2>5. x \in I /\ Is(x)
    BY <1>1, <2>4
  <2>6. a = CHOOSE u \in I : Is(u)
    BY <1>3 DEF Actualized, c
  <2>7. a \in I /\ Is(a)
    <3> HIDE DEF I, a, Is
    <3>1. QED
      BY <2>5, <2>6
  <2> HIDE DEF a
  <2>8. a \in Nat /\ a > current /\ a \notin present /\ current + 1 .. a - 1 \subseteq present
    BY <1>1, <2>7
  <2>9. a <= n + 1
    <3>1. CASE a = current + 1
      BY <1>3, <3>1
    <3>2. CASE a # current + 1
      <4>1. a - 1 \in present
        BY <2>8, <3>2
      <4>2. QED
        BY <2>8, <4>1
    <3>3. QED
      BY <3>1, <3>2
  <2>10. QED
    BY <1>3, <2>8, <2>9 DEF a
<1>4. QED
  BY <1>2, <1>3

----------------------------------------------------------------------------
(* The parts of the state *)

\* The parts of a store.
LEMMA StoreParts ==
  ASSUME NEW d \in Store
  PROVE  /\ d.blocks \subseteq Block /\ d.history \subseteq Epoch /\ d.marks \subseteq Epoch
         /\ d.heights \in Seq(Epoch)
         /\ d.fill.block \in 1 .. Top + 1 /\ d.fill.epoch \in 1 .. Len(FirstBlock) + 1
         /\ d.head.block \in 0 .. Top /\ d.head.epoch \in Epoch
         /\ d.fill = [block |-> d.fill.block, epoch |-> d.fill.epoch]
         /\ d.head = [block |-> d.head.block, epoch |-> d.head.epoch]
         /\ d = [blocks |-> d.blocks, history |-> d.history, marks |-> d.marks,
                 heights |-> d.heights, fill |-> d.fill, head |-> d.head]
  BY DEF Store

\* Who runs is idle or has the fields of its step.
LEMMA WriterParts ==
  ASSUME TypeOK
  PROVE  /\ db \in Store /\ disk \in Store
         /\ engine.step \in {"idle", "seal", "commit"}
         /\ engine.step = "idle" <=> EngineFree
         /\ engine.step = "seal" => engine = [step |-> "seal", heights |-> engine.heights]
                                   /\ engine.heights \in Seq(Epoch)
         /\ worker.step \in {"idle", "epoch", "block", "fill"}
         /\ worker.step = "idle" <=> worker = Idle
         /\ worker # Idle => worker = [step |-> worker.step, block |-> worker.block]
                            /\ worker.block \in Block
         /\ br.step \in {"idle", "write", "fill"}
         /\ br.step = "idle" <=> br = Idle
         /\ br # Idle => br = [step |-> br.step, block |-> br.block] /\ br.block \in Block
         /\ er.step \in {"idle", "state", "mark", "height", "fill"}
         /\ er.step = "idle" <=> er = Idle
         /\ er # Idle => er = [step |-> er.step, epoch |-> er.epoch, heights |-> er.heights]
                        /\ er.epoch \in Epoch /\ er.heights \in Seq(Epoch)
         /\ syncing \in BOOLEAN /\ crashes \in 0 .. MaxCrashes
<1>1. /\ db \in Store /\ disk \in Store
      /\ syncing \in BOOLEAN /\ crashes \in 0 .. MaxCrashes
  BY DEF TypeOK
<1>2. /\ engine.step \in {"idle", "seal", "commit"}
      /\ engine.step = "idle" <=> EngineFree
      /\ engine.step = "seal" => engine = [step |-> "seal", heights |-> engine.heights]
                                /\ engine.heights \in Seq(Epoch)
  BY DEF TypeOK, Idle, EngineFree
<1>3. /\ worker.step \in {"idle", "epoch", "block", "fill"}
      /\ worker.step = "idle" <=> worker = Idle
      /\ worker # Idle => worker = [step |-> worker.step, block |-> worker.block]
                         /\ worker.block \in Block
  BY DEF TypeOK, Idle
<1>4. /\ br.step \in {"idle", "write", "fill"}
      /\ br.step = "idle" <=> br = Idle
      /\ br # Idle => br = [step |-> br.step, block |-> br.block] /\ br.block \in Block
  BY DEF TypeOK, Idle
<1>5. /\ er.step \in {"idle", "state", "mark", "height", "fill"}
      /\ er.step = "idle" <=> er = Idle
      /\ er # Idle => er = [step |-> er.step, epoch |-> er.epoch, heights |-> er.heights]
                     /\ er.epoch \in Epoch /\ er.heights \in Seq(Epoch)
  BY DEF TypeOK, Idle
<1>6. QED
  BY <1>1, <1>2, <1>3, <1>4, <1>5

\* The next block is one of the chain, or the one after the last.
LEMMA NextBlock ==
  ASSUME TypeOK
  PROVE  /\ Next1 = db.head.block + 1 /\ Next1 \in 1 .. Top + 1
         /\ db.head.block \in Nat /\ db.head.epoch \in Nat
         /\ db.head.epoch \in Epoch
         /\ FirstBlock[db.head.epoch] \in Nat
         /\ db.head.epoch + 1 \in Epoch => FirstBlock[db.head.epoch + 1] \in Nat
<1>1. db.head.block \in 0 .. Top /\ db.head.epoch \in Epoch
  BY WriterParts, StoreParts
<1>2. Top \in Nat /\ Epoch \subseteq Nat /\ Block \subseteq Nat
      /\ \A e \in Epoch : FirstBlock[e] \in Block
  BY Chain
<1>3. /\ FirstBlock[db.head.epoch] \in Nat /\ db.head.epoch \in Nat
      /\ db.head.epoch + 1 \in Epoch => FirstBlock[db.head.epoch + 1] \in Nat
  BY <1>1, <1>2
<1>4. Next1 = db.head.block + 1
  BY DEF Next1
<1>5. QED
  BY <1>1, <1>2, <1>3, <1>4

----------------------------------------------------------------------------
(* The steps *)

\* The head is below the first block of the next epoch.
LEMMA HeadBelow ==
  ASSUME TypeOK, Sound(db), db.head.epoch + 1 \in Epoch
  PROVE  Next1 < FirstBlock[db.head.epoch + 1]
<1>1. db.head.block + 1 < FirstBlock[db.head.epoch + 1]
  BY DEF Sound
<1>2. QED
  BY <1>1, NextBlock

\* Up to the head every epoch is stored, unless one is being recorded.
LEMMA UpToHead ==
  ASSUME TypeOK, HeadStored, worker.step # "epoch"
  PROVE  1 .. db.head.epoch \subseteq db.history
<1> DEFINE h == db.head.epoch
<1>1. h \in Nat /\ h \in db.history /\ 1 .. h - 1 \subseteq db.history
  BY NextBlock DEF HeadStored
<1> HIDE DEF h
<1>2. 1 .. h \subseteq db.history
  BY <1>1
<1>3. QED
  BY <1>2 DEF h

LEMMA BeginBlockStep ==
  ASSUME IInv, BeginBlock
  PROVE  IInv'
<1> USE DEF IInv
<1>1. /\ ~syncing /\ EngineFree /\ worker = Idle /\ Next1 <= Top /\ ~Seals(Next1)
      /\ worker' = [step |-> "block", block |-> Next1]
      /\ UNCHANGED <<db, disk, engine, br, er, syncing, crashes>>
      /\ Next1' = Next1
  BY DEF BeginBlock, MayBegin, Next1
<1>2. Next1 \in Block /\ worker.step = "idle" /\ engine.step = "idle"
  BY <1>1, Chain, NextBlock, WriterParts
<1>3. TypeOK'
  BY <1>1, <1>2 DEF TypeOK
<1>4. Sound(db)' /\ Sound(disk)'
  BY <1>1 DEF Sound, KnownEpoch
<1>5. HeadStored'
  BY <1>1, <1>2, NextBlock DEF HeadStored
<1>6. Working'
  <2>1. ASSUME db.head.epoch + 1 \in Epoch
        PROVE  Next1 + 1 < FirstBlock[db.head.epoch + 1]
    <3>1. FirstBlock[db.head.epoch + 1] # Next1 + 1
      BY <1>1, <2>1 DEF Seals
    <3>2. QED
      BY <2>1, <3>1, HeadBelow, NextBlock
  <2>2. QED
    BY <1>1, <1>2, <2>1 DEF Working, Idle
<1>7. Raised'
  BY <1>1 DEF Raised, Idle
<1>8. Marked'
  BY <1>1 DEF Marked
<1>9. Waiting'
  BY <1>1 DEF Waiting
<1>10. Ahead'
  BY <1>1 DEF Ahead
<1>11. Heights'
  BY <1>1 DEF Heights, FirstKept, LastKept, Holds
<1>12. QED
  BY <1>3, <1>4, <1>5, <1>6, <1>7, <1>8, <1>9, <1>10, <1>11

LEMMA BeginSealingStep ==
  ASSUME IInv, BeginSealing
  PROVE  IInv'
<1> USE DEF IInv
<1>1. /\ ~syncing /\ EngineFree /\ worker = Idle /\ Next1 <= Top /\ Seals(Next1)
      /\ ~SlowWriter /\ er.step \in {"state", "mark", "height"} => er.epoch > db.head.epoch
      /\ engine' = [step |-> "seal", heights |-> db.heights]
      /\ UNCHANGED <<db, disk, worker, br, er, syncing, crashes>>
      /\ Next1' = Next1
  BY DEF BeginSealing, MayBegin, Next1
<1>2. Next1 \in Block /\ worker.step = "idle" /\ engine.step = "idle"
  BY <1>1, Chain, NextBlock, WriterParts
<1>3. TypeOK'
  <2>1. db.heights \in Seq(Epoch)
    BY WriterParts, StoreParts
  <2>2. QED
    BY <1>1, <2>1 DEF TypeOK
<1>4. Sound(db)' /\ Sound(disk)'
  BY <1>1 DEF Sound, KnownEpoch
<1>5. HeadStored'
  BY <1>1, <1>2 DEF HeadStored
<1>6. Working'
  BY <1>1, <1>2 DEF Working, Seals
<1>7. Raised'
  BY <1>1 DEF Raised
<1>8. Marked'
  BY <1>1 DEF Marked
<1>9. Waiting'
  BY <1>1 DEF Waiting
<1>10. Ahead'
  BY <1>1 DEF Ahead
<1>11. Heights'
  BY <1>1 DEF Heights, FirstKept, LastKept, Holds
<1>12. QED
  BY <1>3, <1>4, <1>5, <1>6, <1>7, <1>8, <1>9, <1>10, <1>11

\* Changes may be added to heights, and they keep their first change.
LEMMA AddChange ==
  ASSUME NEW hs \in Seq(Epoch), Changes(hs), NEW e, Change(e)
  PROVE  /\ Append(hs, e) \in Seq(Epoch)
         /\ Changes(Append(hs, e))
         /\ Ended(Append(hs, e), e)
         /\ \A g : Begun(hs, g) => Begun(Append(hs, e), g)
         /\ hs = <<1>> => Begun(Append(hs, e), e)
<1> DEFINE n == Len(hs)
           as == Append(hs, e)
<1>1. n \in Nat
  BY LenProperties
<1>2. as \in Seq(Epoch) /\ Len(as) = n + 1 /\ as[n + 1] = e
  BY AppendProperties DEF Change
<1>3. \A i \in 1 .. n : as[i] = hs[i]
  BY AppendProperties DEF Change
<1>4. hs # <<>> /\ hs[1] = 1 /\ \A i \in 2 .. n : Change(hs[i])
  BY DEF Changes
<1>5. n # 0
  BY <1>4, EmptySeq
<1>6. hs = <<1>> => n = 1
  OBVIOUS
<1>7. as # <<>>
  BY <1>1, <1>2
<1> HIDE DEF n, as
<1>8. n >= 1
  BY <1>1, <1>5
<1>9. as[1] = hs[1]
  <2>1. 1 \in 1 .. n
    BY <1>1, <1>8
  <2>2. QED
    BY <1>3, <2>1, Zenon
<1>10. \A i \in 2 .. n + 1 : Change(as[i])
  <2>1. TAKE i \in 2 .. n + 1
  <2>2. CASE i = n + 1
    BY <1>2, <2>2
  <2>3. CASE i # n + 1
    <3>1. i \in 1 .. n /\ i \in 2 .. n
      BY <1>1, <2>3
    <3>2. as[i] = hs[i] /\ Change(hs[i])
      BY <1>3, <1>4, <3>1
    <3>3. QED
      BY <3>2
  <2>4. QED
    BY <2>2, <2>3
<1>11. Changes(as)
  BY <1>2, <1>4, <1>7, <1>9, <1>10 DEF Changes
<1>12. Ended(as, e)
  BY <1>2, <1>7 DEF Ended
<1>13. ASSUME NEW g, Begun(hs, g)
       PROVE  Begun(as, g)
  <2>1. n >= 2 /\ hs[2] = g
    BY <1>13 DEF Begun, n
  <2>2. 2 \in 1 .. n /\ Len(as) >= 2
    BY <1>1, <1>2, <2>1
  <2>3. as[2] = hs[2]
    BY <1>3, <2>2, Zenon
  <2>4. QED
    BY <2>1, <2>2, <2>3 DEF Begun
<1>14. ASSUME hs = << 1 >>
       PROVE  Begun(as, e)
  <2>1. n + 1 = 2 /\ Len(as) >= 2
    BY <1>1, <1>2, <1>6, <1>14
  <2>2. as[2] = e
    BY <1>2, <2>1, Zenon
  <2>3. QED
    BY <2>1, <2>2 DEF Begun
<1>15. QED
  BY <1>2, <1>11, <1>12, <1>13, <1>14 DEF as

LEMMA SealEpochStep ==
  ASSUME IInv, SealEpoch
  PROVE  IInv'
<1> USE DEF IInv
<1> DEFINE h == db.head.epoch
           e == h + 1
           hs == IF UpgradesDiffer(e) THEN Append(engine.heights, e) ELSE db.heights
<1>1. /\ engine.step = "seal" /\ engine' = [step |-> "commit"]
      /\ db' = [db EXCEPT !.head.epoch = e, !.heights = hs]
      /\ worker' = [step |-> "epoch", block |-> Next1]
      /\ UNCHANGED <<disk, br, er, syncing, crashes>>
  BY DEF SealEpoch
<1>2. /\ worker = Idle /\ worker.step = "idle" /\ Next1 \in Block
      /\ e \in Epoch /\ FirstBlock[e] = Next1 + 1
      /\ engine.heights \in Seq(Epoch) /\ engine # Idle
  BY <1>1, WriterParts DEF Working, Seals, Idle
<1>3. /\ h \in Epoch /\ h \in Nat /\ h >= 1 /\ db.heights \in Seq(Epoch) /\ hs \in Seq(Epoch)
      /\ db \in Store
  <2>1. h \in Epoch /\ db.heights \in Seq(Epoch) /\ db \in Store
    BY WriterParts, StoreParts
  <2> HIDE DEF h
  <2>2. h \in Nat /\ h >= 1
    BY <2>1, Chain
  <2>3. Append(engine.heights, e) \in Seq(Epoch)
    BY <1>2, AppendProperties
  <2>4. QED
    BY <2>1, <2>2, <2>3
<1> HIDE DEF hs
<1>4. /\ db'.blocks = db.blocks /\ db'.history = db.history /\ db'.marks = db.marks
      /\ db'.fill = db.fill /\ db'.heights = hs
      /\ db'.head.block = db.head.block /\ db'.head.epoch = e
      /\ db' \in Store /\ Next1' = Next1
  <2>1. db' = [db EXCEPT !.head = [block |-> db.head.block, epoch |-> e], !.heights = hs]
    <3>1. [db.head EXCEPT !.epoch = e] = [block |-> db.head.block, epoch |-> e]
      BY <1>3 DEF Store
    <3>2. db' = [db EXCEPT !.head = [db.head EXCEPT !.epoch = e], !.heights = hs]
      BY <1>1
    <3>3. QED
      BY <3>1, <3>2
  <2> HIDE DEF e
  <2>2. /\ db'.blocks = db.blocks /\ db'.history = db.history /\ db'.marks = db.marks
        /\ db'.fill = db.fill /\ db'.heights = hs
        /\ db'.head.block = db.head.block /\ db'.head.epoch = e
    BY <1>3, <2>1 DEF Store
  <2>3. db' \in Store
    BY <1>2, <1>3, <2>1 DEF Store
  <2>4. QED
    BY <2>2, <2>3 DEF Next1
<1>5. 1 .. h \subseteq db.history
  BY <1>2, UpToHead
<1>6. \A n : KnownEpoch(db, n) => n \in db.history
  BY <1>3, <1>5 DEF KnownEpoch
<1>7. e + 1 \in Epoch => Next1 + 1 < FirstBlock[e + 1]
  BY <1>2, Chain
<1>8. TypeOK'
  BY <1>1, <1>2, <1>4 DEF TypeOK
<1>9. Sound(db)' /\ Sound(disk)'
  <2>1. e + 1 \in Epoch => db.head.block + 1 < FirstBlock[e + 1]
    <3>1. Next1 = db.head.block + 1 /\ Next1 \in Nat
      BY NextBlock, Chain
    <3>2. ASSUME e + 1 \in Epoch
          PROVE  FirstBlock[e + 1] \in Nat
      BY <3>2, Chain
    <3>3. QED
      BY <1>7, <3>1, <3>2
  <2>2. Sound(db)'
    BY <1>4, <1>6, <2>1 DEF Sound, KnownEpoch
  <2>3. QED
    BY <1>1, <2>2 DEF Sound, KnownEpoch
<1>10. HeadStored'
  <2>1. 1 .. e - 1 \subseteq db.history
    BY <1>3, <1>5
  <2>2. FirstBlock[e] <= Next1 + 1
    BY <1>2, Chain
  <2>3. QED
    BY <1>1, <1>4, <2>1, <2>2 DEF HeadStored
<1>11. Working'
  BY <1>1, <1>2, <1>4, <1>6, <1>7 DEF Working, KnownEpoch, Idle
<1>12. Raised'
  BY <1>1, <1>2, <1>4 DEF Raised
<1>13. Marked'
  BY <1>1, <1>4 DEF Marked
<1>14. Waiting'
  BY <1>1, <1>2 DEF Waiting
<1>15. Ahead'
  <2>1. ASSUME er.step \in {"state", "mark", "height"}
        PROVE  er.epoch \in Nat
    BY <2>1, WriterParts, Chain
  <2>2. QED
    BY <1>1, <1>3, <1>4, <2>1 DEF Ahead
<1>16. Heights'
  <2>1. SUFFICES ASSUME crashes = 0, ~SlowWriter
                 PROVE  Changes(hs) /\ FirstKept' /\ LastKept'
    BY <1>1, <1>4 DEF Heights
  <2>2. Changes(db.heights) /\ Changes(engine.heights) /\ FirstKept /\ LastKept
    BY <1>1, <2>1 DEF Heights
  <2>3. UpgradesDiffer(e) => Change(e) /\ hs = Append(engine.heights, e)
    <3>1. e # 1
      BY <1>3, Chain
    <3>2. QED
      BY <1>2, <3>1 DEF Change, hs
  <2>4. ~UpgradesDiffer(e) => ~Change(e) /\ hs = db.heights
    BY DEF Change, hs
  <2>5. Changes(hs)
    BY <1>2, <2>2, <2>3, <2>4, AddChange
  <2>6. FirstKept'
    <3>1. SUFFICES ASSUME NEW g \in Epoch, FirstChange(g)
                   PROVE  /\ hs = <<1>> \/ Begun(hs, g)
                          /\ g <= e \/ (g \in db.history /\ ~Holds(g)) => Begun(hs, g)
      BY <1>1, <1>4, <2>2 DEF FirstKept, Holds
    <3>2. g \in Nat /\ Change(g)
      BY <3>1, Chain DEF FirstChange
    <3>3. CASE UpgradesDiffer(e)
      <4>1. Change(e) /\ g <= e
        BY <1>2, <2>3, <3>1, <3>3 DEF FirstChange
      <4>2. g = e \/ g <= h
        BY <1>3, <3>2, <4>1
      <4>3. g <= h => Begun(engine.heights, g)
        BY <1>1, <2>2, <3>1 DEF FirstKept
      <4>4. engine.heights = <<1>> \/ Begun(engine.heights, g)
        BY <1>1, <2>2, <3>1 DEF FirstKept
      <4>5. Begun(hs, g)
        BY <1>2, <2>2, <2>3, <3>3, <4>1, <4>2, <4>3, <4>4, AddChange
      <4>6. QED
        BY <4>5
    <3>4. CASE ~UpgradesDiffer(e)
      <4>1. g # e
        BY <2>4, <3>2, <3>4
      <4>2. g <= e => g <= h
        BY <1>3, <3>2, <4>1
      <4>3. /\ db.heights = <<1>> \/ Begun(db.heights, g)
            /\ g <= h \/ (g \in db.history /\ ~Holds(g)) => Begun(db.heights, g)
        BY <2>2, <3>1 DEF FirstKept
      <4>4. QED
        BY <2>4, <3>4, <4>2, <4>3
    <3>5. QED
      BY <3>3, <3>4
  <2>7. LastKept'
    <3>1. ~syncing
      BY <1>2, <2>1 DEF Waiting
    <3>2. SUFFICES ASSUME NEW c \in Epoch, LastChange(c), c <= e
                   PROVE  Ended(hs, c)
      BY <1>1, <1>4, <3>1 DEF LastKept
    <3>3. c \in Nat /\ Change(c)
      BY <3>2, Chain DEF LastChange
    <3>4. CASE UpgradesDiffer(e)
      <4>1. Change(e) /\ e <= c
        BY <1>2, <2>3, <3>2, <3>4 DEF LastChange
      <4>2. c = e
        BY <1>3, <3>2, <3>3, <4>1
      <4>3. QED
        BY <1>2, <2>2, <2>3, <3>4, <4>1, <4>2, AddChange
    <3>5. CASE ~UpgradesDiffer(e)
      <4>1. c # e
        BY <2>4, <3>3, <3>5
      <4>2. c <= h
        BY <1>3, <3>2, <3>3, <4>1
      <4>3. QED
        BY <2>2, <2>4, <3>2, <3>5, <4>2 DEF LastKept
    <3>6. QED
      BY <3>4, <3>5
  <2>8. QED
    BY <2>5, <2>6, <2>7
<1>17. QED
  BY <1>8, <1>9, <1>10, <1>11, <1>12, <1>13, <1>14, <1>15, <1>16

LEMMA RecordEpochStep ==
  ASSUME IInv, RecordEpoch
  PROVE  IInv'
<1> USE DEF IInv
<1> DEFINE h == db.head.epoch
<1>1. /\ worker.step = "epoch"
      /\ db' = [db EXCEPT !.history = @ \cup {h}, !.marks = @ \cup {h}]
      /\ worker' = [worker EXCEPT !.step = "block"]
      /\ UNCHANGED <<disk, engine, br, er, syncing, crashes>>
  BY DEF RecordEpoch
<1>2. /\ db \in Store /\ h \in Epoch /\ h \in Nat /\ h >= 1
      /\ worker # Idle /\ worker = [step |-> "epoch", block |-> worker.block]
      /\ worker.block \in Block /\ engine.step = "commit"
  <2>1. db \in Store /\ h \in Epoch /\ engine.step = "commit"
    BY <1>1, WriterParts, StoreParts DEF Working
  <2>2. /\ worker # Idle /\ worker = [step |-> "epoch", block |-> worker.block]
        /\ worker.block \in Block
    BY <1>1, WriterParts DEF Idle
  <2> HIDE DEF h
  <2>3. h \in Nat /\ h >= 1
    BY <2>1, Chain
  <2>4. QED
    BY <2>1, <2>2, <2>3
<1>3. /\ db'.blocks = db.blocks /\ db'.history = db.history \cup {h}
      /\ db'.marks = db.marks \cup {h} /\ db'.heights = db.heights
      /\ db'.fill = db.fill /\ db'.head = db.head
      /\ db' \in Store /\ Next1' = Next1
      /\ worker' = [step |-> "block", block |-> worker.block]
  BY <1>1, <1>2 DEF Store, Next1
<1>4. 1 .. h - 1 \subseteq db.history
  BY <1>1 DEF HeadStored
<1>5. 1 .. h \subseteq db'.history
  BY <1>2, <1>3, <1>4
<1>6. \A n : KnownEpoch(db, n) => KnownEpoch(db, n)'
  BY <1>3 DEF KnownEpoch
<1>7. TypeOK'
  BY <1>1, <1>2, <1>3 DEF TypeOK
<1>8. Sound(db)' /\ Sound(disk)'
  <2>1. ASSUME NEW e \in db'.history, NEW n \in 1 .. e - 1
        PROVE  KnownEpoch(db', n)
    <3>1. CASE e = h
      BY <1>3, <1>4, <2>1, <3>1 DEF KnownEpoch
    <3>2. CASE e # h
      <4>1. KnownEpoch(db, n)
        BY <1>3, <2>1, <3>2 DEF Sound
      <4>2. QED
        BY <1>3, <4>1 DEF KnownEpoch
    <3>3. QED
      BY <3>1, <3>2
  <2>2. Sound(db)'
    BY <1>3, <2>1 DEF Sound
  <2>3. QED
    BY <1>1, <2>2 DEF Sound, KnownEpoch
<1>9. HeadStored'
  BY <1>1, <1>2, <1>3 DEF HeadStored
<1>10. Working'
  BY <1>1, <1>2, <1>3, <1>6 DEF Working
<1>11. Raised'
  BY <1>1, <1>3 DEF Raised
<1>12. Marked'
  BY <1>1, <1>3 DEF Marked
<1>13. Waiting'
  BY <1>1, <1>2 DEF Waiting
<1>14. Ahead'
  BY <1>1, <1>3 DEF Ahead
<1>15. Heights'
  <2>1. SUFFICES ASSUME crashes = 0, ~SlowWriter
                 PROVE  Changes(db.heights) /\ FirstKept' /\ LastKept'
    BY <1>1, <1>2, <1>3 DEF Heights
  <2>2. Changes(db.heights) /\ FirstKept /\ LastKept /\ ~syncing
    BY <1>2, <2>1 DEF Heights, Waiting
  <2>3. FirstKept'
    <3>1. ASSUME NEW g \in Epoch, g \in db'.history
          PROVE  g <= h \/ g \in db.history
      BY <1>2, <1>3, <3>1
    <3>2. QED
      BY <1>1, <1>2, <1>3, <2>2, <3>1 DEF FirstKept, Holds
  <2>4. LastKept'
    BY <1>1, <1>3, <2>2 DEF LastKept
  <2>5. QED
    BY <2>2, <2>3, <2>4
<1>16. QED
  BY <1>7, <1>8, <1>9, <1>10, <1>11, <1>12, <1>13, <1>14, <1>15

\* Stored blocks do not matter to the heights.
LEMMA HeightsKept ==
  ASSUME Heights,
         UNCHANGED <<engine, er, syncing, crashes>>,
         db'.heights = db.heights, db'.head.epoch = db.head.epoch, db'.history = db.history
  PROVE  Heights'
  BY DEF Heights, FirstKept, LastKept, Holds

LEMMA RecordBlockStep ==
  ASSUME IInv, RecordBlock
  PROVE  IInv'
<1> USE DEF IInv
<1> DEFINE h == db.head.epoch
           b == worker.block
<1>1. /\ worker.step = "block"
      /\ db' = [db EXCEPT !.blocks = @ \cup {b}, !.head.block = b]
      /\ worker' = [worker EXCEPT !.step = "fill"]
      /\ UNCHANGED <<disk, engine, br, er, syncing, crashes>>
  BY DEF RecordBlock
<1>2. /\ db \in Store /\ h \in Epoch
      /\ worker # Idle /\ worker = [step |-> "block", block |-> b]
      /\ b \in Block /\ b = Next1
      /\ h + 1 \in Epoch => Next1 + 1 < FirstBlock[h + 1]
  <2>1. db \in Store /\ h \in Epoch
    BY WriterParts, StoreParts
  <2>2. /\ worker # Idle /\ worker = [step |-> "block", block |-> b]
        /\ b \in Block
    BY <1>1, WriterParts DEF Idle
  <2>3. /\ b = Next1
        /\ h + 1 \in Epoch => Next1 + 1 < FirstBlock[h + 1]
    BY <1>1 DEF Working
  <2>4. QED
    BY <2>1, <2>2, <2>3
<1> HIDE DEF b
<1>3. /\ db'.blocks = db.blocks \cup {b} /\ db'.history = db.history
      /\ db'.marks = db.marks /\ db'.heights = db.heights /\ db'.fill = db.fill
      /\ db'.head.block = b /\ db'.head.epoch = h
      /\ db' \in Store /\ Next1' = b + 1
      /\ worker' = [step |-> "fill", block |-> b]
  <2>1. db' = [db EXCEPT !.blocks = db.blocks \cup {b}, !.head = [block |-> b, epoch |-> h]]
    <3>1. [db.head EXCEPT !.block = b] = [block |-> b, epoch |-> h]
      BY <1>2 DEF Store
    <3>2. db' = [db EXCEPT !.blocks = db.blocks \cup {b}, !.head = [db.head EXCEPT !.block = b]]
      BY <1>1
    <3>3. QED
      BY <3>1, <3>2
  <2>2. /\ db'.blocks = db.blocks \cup {b} /\ db'.history = db.history
        /\ db'.marks = db.marks /\ db'.heights = db.heights /\ db'.fill = db.fill
        /\ db'.head.block = b /\ db'.head.epoch = h
    BY <1>2, <2>1 DEF Store
  <2>3. b \in 0 .. Top
    BY <1>2, Chain
  <2>4. db' \in Store
    BY <1>2, <2>1, <2>3 DEF Store
  <2>5. worker' = [step |-> "fill", block |-> b]
    BY <1>1, <1>2
  <2>6. Next1' = b + 1
    BY <2>2 DEF Next1
  <2>7. QED
    BY <2>2, <2>4, <2>5, <2>6
<1>4. 1 .. h \subseteq db.history
  BY <1>1, UpToHead
<1>5. EpochOf(b) \in db.history
  <2> DEFINE o == EpochOf(b)
  <2>1. o \in Epoch /\ \A e \in Epoch : FirstBlock[e] <= b <=> e <= o
    BY <1>2, EpochOfIs
  <2> HIDE DEF o
  <2> HIDE DEF h
  <2>2. o \in Nat /\ o >= 1 /\ h \in Nat /\ b \in Nat
    BY <1>2, <2>1, Chain
  <2>3. CASE o <= h
    BY <1>4, <2>2, <2>3 DEF o
  <2>4. CASE o > h
    <3>1. h + 1 \in Epoch /\ h + 1 <= o
      BY <1>2, <2>1, <2>2, <2>4, Chain
    <3>2. FirstBlock[h + 1] <= b /\ b + 1 < FirstBlock[h + 1] /\ FirstBlock[h + 1] \in Nat
      BY <1>2, <2>1, <3>1, Chain
    <3>3. QED
      BY <2>2, <3>2
  <2>5. QED
    BY <2>2, <2>3, <2>4
<1>6. \A n : KnownEpoch(db, n) => KnownEpoch(db, n)'
  BY <1>3 DEF KnownEpoch
<1>7. TypeOK'
  BY <1>1, <1>2, <1>3 DEF TypeOK
<1>8. Sound(db)' /\ Sound(disk)'
  <2>1. 1 .. b \subseteq db'.blocks
    <3>1. 1 .. db.head.block \subseteq db.blocks /\ b = db.head.block + 1 /\ db.head.block \in Nat
      BY <1>2, NextBlock DEF Sound
    <3>2. QED
      BY <1>3, <3>1
  <2>2. \A e \in db'.history : \A n \in 1 .. e - 1 : KnownEpoch(db', n)
    BY <1>3, <1>6 DEF Sound
  <2>3. \A x \in db'.blocks : EpochOf(x) \in db'.history
    BY <1>3, <1>5 DEF Sound
  <2>4. Sound(db)'
    BY <1>2, <1>3, <2>1, <2>2, <2>3 DEF Sound
  <2>5. QED
    BY <1>1, <2>4 DEF Sound, KnownEpoch
<1>9. HeadStored'
  <2>1. /\ 1 .. h - 1 \subseteq db.history /\ h \in db.history
        /\ FirstBlock[h] <= Next1 + 1 /\ FirstBlock[h] \in Nat /\ Next1 \in Nat
    BY <1>1, NextBlock, Chain DEF HeadStored
  <2>2. FirstBlock[h] <= Next1' /\ FirstBlock[h] <= Next1' + 1
    BY <1>2, <1>3, <2>1
  <2>3. QED
    BY <1>1, <1>3, <2>1, <2>2 DEF HeadStored
<1>10. Working'
  <2>1. engine.step # "seal"
    BY <1>2 DEF Working
  <2>2. QED
    BY <1>1, <1>2, <1>3, <1>6, <2>1 DEF Working
<1>11. Raised'
  BY <1>1, <1>3 DEF Raised
<1>12. Marked'
  BY <1>1, <1>3 DEF Marked
<1>13. Waiting'
  BY <1>1, <1>2 DEF Waiting
<1>14. Ahead'
  BY <1>1, <1>3 DEF Ahead
<1>15. Heights'
  BY <1>1, <1>3, HeightsKept
<1>16. QED
  BY <1>7, <1>8, <1>9, <1>10, <1>11, <1>12, <1>13, <1>14, <1>15

\* updateLowestBlockToFill for a stored block.
LEMMA FillBlockIs ==
  ASSUME NEW d \in Store, NEW b \in d.blocks, 1 .. d.fill.block - 1 \subseteq d.blocks
  PROVE  LET f == FillBlock(d, b)
         IN /\ f \in Store
            /\ f.blocks = d.blocks /\ f.history = d.history /\ f.marks = d.marks
            /\ f.heights = d.heights /\ f.head = d.head /\ f.fill.epoch = d.fill.epoch
            /\ 1 .. f.fill.block - 1 \subseteq d.blocks
            /\ f.fill.block \in d.blocks => f.fill.block = d.fill.block /\ f.fill.block # b
<1> DEFINE c == d.fill.block
           u == Actualized(c, b, d.blocks)
           f == FillBlock(d, b)
<1>1. d.blocks \subseteq 1 .. Top /\ c \in 1 .. Top + 1 /\ b \in 1 .. Top /\ Top \in Nat
  BY StoreParts, Chain
<1>2. /\ u \in 1 .. Top + 1
      /\ c # b => u = c
      /\ c = b => u > c /\ u \notin d.blocks /\ c + 1 .. u - 1 \subseteq d.blocks
  BY <1>1, ActualizedIs
<1>3. f = [d EXCEPT !.fill.block = u]
  BY DEF FillBlock
<1> HIDE DEF u, f
<1>4. f = [d EXCEPT !.fill = [block |-> u, epoch |-> d.fill.epoch]]
  <2>1. [d.fill EXCEPT !.block = u] = [block |-> u, epoch |-> d.fill.epoch]
    BY DEF Store
  <2>2. f = [d EXCEPT !.fill = [d.fill EXCEPT !.block = u]]
    BY <1>3
  <2>3. QED
    BY <2>1, <2>2
<1>5. /\ f.blocks = d.blocks /\ f.history = d.history /\ f.marks = d.marks
      /\ f.heights = d.heights /\ f.head = d.head /\ f.fill.epoch = d.fill.epoch
      /\ f.fill.block = u
  BY <1>4 DEF Store
<1>6. f \in Store
  BY <1>2, <1>4 DEF Store
<1>7. 1 .. u - 1 \subseteq d.blocks
  <2>1. CASE c # b
    BY <1>2, <2>1
  <2>2. CASE c = b
    <3> HIDE DEF c
    <3>1. 1 .. c - 1 \subseteq d.blocks
      BY DEF c
    <3>2. ASSUME NEW n \in 1 .. u - 1
          PROVE  n \in 1 .. c - 1 \/ n = b \/ n \in c + 1 .. u - 1
      BY <1>1, <1>2, <2>2, <3>2
    <3>3. QED
      BY <1>2, <2>2, <3>1, <3>2
  <2>3. QED
    BY <2>1, <2>2
<1>8. u \in d.blocks => u = c /\ u # b
  BY <1>2
<1>9. QED
  BY <1>5, <1>6, <1>7, <1>8 DEF f

\* updateLowestEpochToFill for a stored epoch.
LEMMA FillEpochIs ==
  ASSUME NEW d \in Store, NEW e \in d.history, 1 .. d.fill.epoch - 1 \subseteq d.history
  PROVE  LET f == FillEpoch(d, e)
         IN /\ f \in Store
            /\ f.blocks = d.blocks /\ f.history = d.history /\ f.marks = d.marks
            /\ f.heights = d.heights /\ f.head = d.head /\ f.fill.block = d.fill.block
            /\ 1 .. f.fill.epoch - 1 \subseteq d.history
            /\ f.fill.epoch \in d.history => f.fill.epoch = d.fill.epoch /\ f.fill.epoch # e
<1> DEFINE c == d.fill.epoch
           m == Len(FirstBlock)
           u == Actualized(c, e, d.history)
           f == FillEpoch(d, e)
<1>1. d.history \subseteq 1 .. m /\ c \in 1 .. m + 1 /\ e \in 1 .. m /\ m \in Nat
  BY StoreParts, Chain
<1>2. /\ u \in 1 .. m + 1
      /\ c # e => u = c
      /\ c = e => u > c /\ u \notin d.history /\ c + 1 .. u - 1 \subseteq d.history
  BY <1>1, ActualizedIs
<1>3. f = [d EXCEPT !.fill.epoch = u]
  BY DEF FillEpoch
<1> HIDE DEF u, f
<1>4. f = [d EXCEPT !.fill = [block |-> d.fill.block, epoch |-> u]]
  <2>1. [d.fill EXCEPT !.epoch = u] = [block |-> d.fill.block, epoch |-> u]
    BY DEF Store
  <2>2. f = [d EXCEPT !.fill = [d.fill EXCEPT !.epoch = u]]
    BY <1>3
  <2>3. QED
    BY <2>1, <2>2
<1>5. /\ f.blocks = d.blocks /\ f.history = d.history /\ f.marks = d.marks
      /\ f.heights = d.heights /\ f.head = d.head /\ f.fill.block = d.fill.block
      /\ f.fill.epoch = u
  BY <1>4 DEF Store
<1>6. f \in Store
  BY <1>2, <1>4 DEF Store
<1>7. 1 .. u - 1 \subseteq d.history
  <2>1. CASE c # e
    BY <1>2, <2>1
  <2>2. CASE c = e
    <3> HIDE DEF c, m
    <3>1. 1 .. c - 1 \subseteq d.history
      BY DEF c
    <3>2. ASSUME NEW n \in 1 .. u - 1
          PROVE  n \in 1 .. c - 1 \/ n = e \/ n \in c + 1 .. u - 1
      BY <1>1, <1>2, <2>2, <3>2
    <3>3. QED
      BY <1>2, <2>2, <3>1, <3>2
  <2>3. QED
    BY <2>1, <2>2
<1>8. u \in d.history => u = c /\ u # e
  BY <1>2
<1>9. QED
  BY <1>5, <1>6, <1>7, <1>8 DEF f

LEMMA EndBlockFnStep ==
  ASSUME IInv, EndBlockFn
  PROVE  IInv'
<1> USE DEF IInv
<1> DEFINE h == db.head.epoch
           b == worker.block
           d == FillBlock(db, b)
<1>1. /\ worker.step = "fill" /\ worker' = Idle
      /\ db' = FillEpoch(d, h)
      /\ UNCHANGED <<disk, engine, br, er, syncing, crashes>>
  BY DEF EndBlockFn
<1>2. /\ db \in Store /\ worker # Idle /\ b \in db.blocks /\ h \in db.history
      /\ 1 .. db.fill.block - 1 \subseteq db.blocks /\ 1 .. db.fill.epoch - 1 \subseteq db.history
      /\ engine.step # "seal"
  BY <1>1, WriterParts DEF Working, Sound, HeadStored, Idle
<1>3. /\ d \in Store
      /\ d.blocks = db.blocks /\ d.history = db.history /\ d.marks = db.marks
      /\ d.heights = db.heights /\ d.head = db.head /\ d.fill.epoch = db.fill.epoch
      /\ 1 .. d.fill.block - 1 \subseteq db.blocks
      /\ d.fill.block \in db.blocks => d.fill.block = db.fill.block /\ d.fill.block # b
  BY <1>2, FillBlockIs
<1> HIDE DEF d
<1>4. /\ db' \in Store
      /\ db'.blocks = d.blocks /\ db'.history = d.history /\ db'.marks = d.marks
      /\ db'.heights = d.heights /\ db'.head = d.head /\ db'.fill.block = d.fill.block
      /\ 1 .. db'.fill.epoch - 1 \subseteq d.history
      /\ db'.fill.epoch \in d.history => db'.fill.epoch = d.fill.epoch /\ db'.fill.epoch # h
  BY <1>1, <1>2, <1>3, FillEpochIs
<1>5. /\ db'.blocks = db.blocks /\ db'.history = db.history /\ db'.marks = db.marks
      /\ db'.heights = db.heights /\ db'.head = db.head /\ Next1' = Next1
      /\ worker'.step = "idle"
  BY <1>1, <1>3, <1>4 DEF Next1, Idle
<1>6. TypeOK'
  BY <1>1, <1>4 DEF TypeOK
<1>7. Sound(db)' /\ Sound(disk)'
  BY <1>1, <1>3, <1>4, <1>5 DEF Sound, KnownEpoch
<1>8. HeadStored'
  BY <1>1, <1>5 DEF HeadStored
<1>9. Working'
  BY <1>1, <1>2, <1>5 DEF Working, KnownEpoch
<1>10. Raised'
  <2>1. SUFFICES ASSUME crashes = 0
                 PROVE  /\ db'.fill.block \in db'.blocks =>
                             br.step = "fill" /\ br.block = db'.fill.block
                        /\ db'.fill.epoch \in db'.history =>
                             /\ er.step \in {"mark", "height", "fill"}
                             /\ er.epoch = db'.fill.epoch
    BY <1>1 DEF Raised
  <2>2. QED
    BY <1>1, <1>3, <1>4, <1>5, <2>1 DEF Raised
<1>11. Marked'
  BY <1>1, <1>5 DEF Marked
<1>12. Waiting'
  BY <1>1, <1>2 DEF Waiting
<1>13. Ahead'
  BY <1>1, <1>5 DEF Ahead
<1>14. Heights'
  BY <1>1, <1>5, HeightsKept
<1>15. QED
  BY <1>6, <1>7, <1>8, <1>9, <1>10, <1>11, <1>12, <1>13, <1>14

LEMMA CommitStep ==
  ASSUME IInv, Commit
  PROVE  IInv'
<1> USE DEF IInv
<1>1. /\ engine.step \in {"idle", "commit"} /\ worker = Idle /\ disk' = db /\ engine' = Idle
      /\ UNCHANGED <<db, worker, br, er, syncing, crashes>>
      /\ Next1' = Next1
  BY DEF Commit, Next1
<1>2. worker.step = "idle" /\ engine'.step = "idle" /\ engine.step # "seal"
  BY <1>1 DEF Idle
<1>3. TypeOK'
  BY <1>1 DEF TypeOK
<1>4. Sound(db)' /\ Sound(disk)'
  BY <1>1 DEF Sound, KnownEpoch
<1>5. HeadStored'
  BY <1>1, <1>2, UpToHead DEF HeadStored, Next1
<1>6. Working'
  BY <1>1, <1>2 DEF Working
<1>7. Raised'
  BY <1>1 DEF Raised
<1>8. Marked'
  BY <1>1 DEF Marked
<1>9. Waiting'
  BY <1>1 DEF Waiting
<1>10. Ahead'
  BY <1>1, <1>2 DEF Ahead
<1>11. Heights'
  BY <1>1, <1>2 DEF Heights, FirstKept, LastKept, Holds
<1>12. QED
  BY <1>3, <1>4, <1>5, <1>6, <1>7, <1>8, <1>9, <1>10, <1>11

LEMMA CheckBlockRecordStep ==
  ASSUME IInv, NEW b \in Block, CheckBlockRecord(b)
  PROVE  IInv'
<1> USE DEF IInv
<1>1. /\ br = Idle /\ EngineFree /\ b \notin db.blocks /\ MayDecideBlock(b)
      /\ br' = [step |-> "write", block |-> b]
      /\ UNCHANGED <<db, disk, engine, worker, er, syncing, crashes>>
      /\ Next1' = Next1
  BY DEF CheckBlockRecord, Next1
<1>2. br.step = "idle" /\ worker.step # "epoch"
  BY <1>1, WriterParts DEF Working
<1>3. EpochOf(b) \in db.history
  <2> DEFINE o == EpochOf(b)
             h == db.head.epoch
  <2>1. PICK e \in Epoch : e >= o /\ KnownEpoch(db, e)
    BY <1>1 DEF MayDecideBlock
  <2>2. o \in Epoch /\ o \in Nat /\ o >= 1 /\ e \in Nat /\ h \in Nat
    <3>1. o \in Epoch
      BY EpochOfIs
    <3> HIDE DEF o
    <3>2. QED
      BY <3>1, <2>1, Chain, NextBlock
  <2>3. 1 .. h \subseteq db.history
    BY <1>2, UpToHead
  <2>4. \A n \in Nat \ {0} : KnownEpoch(db, n) => n \in db.history
    <3>1. \A n \in Nat \ {0} : n = h => n \in 1 .. h
      BY <2>2
    <3>2. QED
      BY <2>3, <3>1 DEF KnownEpoch
  <2> HIDE DEF o, h
  <2>5. e \in db.history
    BY <2>1, <2>2, <2>4
  <2>6. CASE o = e
    BY <2>5, <2>6 DEF o
  <2>7. CASE o # e
    <3>1. o \in 1 .. e - 1
      BY <2>1, <2>2, <2>7
    <3>2. KnownEpoch(db, o)
      BY <2>5, <3>1 DEF Sound
    <3>3. QED
      BY <2>2, <2>4, <3>2 DEF o
  <2>8. QED
    BY <2>6, <2>7
<1>4. TypeOK'
  BY <1>1 DEF TypeOK
<1>5. Sound(db)' /\ Sound(disk)'
  BY <1>1 DEF Sound, KnownEpoch
<1>6. HeadStored'
  BY <1>1 DEF HeadStored
<1>7. Working'
  BY <1>1, <1>3 DEF Working, Seals
<1>8. Raised'
  BY <1>1, <1>2 DEF Raised
<1>9. Marked' /\ Waiting' /\ Ahead'
  BY <1>1 DEF Marked, Waiting, Ahead
<1>10. Heights'
  BY <1>1, HeightsKept
<1>11. QED
  BY <1>4, <1>5, <1>6, <1>7, <1>8, <1>9, <1>10

LEMMA WriteBlockRecordStep ==
  ASSUME IInv, WriteBlockRecord
  PROVE  IInv'
<1> USE DEF IInv
<1> DEFINE b == br.block
<1>1. /\ br.step = "write"
      /\ db' = [db EXCEPT !.blocks = @ \cup {b}]
      /\ br' = [br EXCEPT !.step = "fill"]
      /\ UNCHANGED <<disk, engine, worker, er, syncing, crashes>>
  BY DEF WriteBlockRecord
<1>2. /\ db \in Store /\ br # Idle /\ br = [step |-> "write", block |-> b] /\ b \in Block
      /\ EpochOf(b) \in db.history
  BY <1>1, WriterParts DEF Idle, Working
<1> HIDE DEF b
<1>3. /\ db'.blocks = db.blocks \cup {b} /\ db'.history = db.history
      /\ db'.marks = db.marks /\ db'.heights = db.heights /\ db'.fill = db.fill
      /\ db'.head = db.head
      /\ db' \in Store /\ Next1' = Next1
      /\ br' = [step |-> "fill", block |-> b]
  BY <1>1, <1>2 DEF Store, Next1
<1>4. TypeOK'
  BY <1>1, <1>2, <1>3 DEF TypeOK
<1>5. Sound(db)' /\ Sound(disk)'
  BY <1>1, <1>2, <1>3 DEF Sound, KnownEpoch
<1>6. HeadStored'
  BY <1>1, <1>3 DEF HeadStored
<1>7. Working'
  BY <1>1, <1>2, <1>3 DEF Working, KnownEpoch, Seals
<1>8. Raised'
  BY <1>1, <1>2, <1>3 DEF Raised
<1>9. Marked' /\ Waiting' /\ Ahead'
  BY <1>1, <1>3 DEF Marked, Waiting, Ahead
<1>10. Heights'
  BY <1>1, <1>3, HeightsKept
<1>11. QED
  BY <1>4, <1>5, <1>6, <1>7, <1>8, <1>9, <1>10

LEMMA FillBlockRecordStep ==
  ASSUME IInv, FillBlockRecord
  PROVE  IInv'
<1> USE DEF IInv
<1> DEFINE b == br.block
<1>1. /\ br.step = "fill" /\ EngineFree
      /\ db' = FillBlock(db, b) /\ br' = Idle
      /\ UNCHANGED <<disk, engine, worker, er, syncing, crashes>>
  BY DEF FillBlockRecord
<1>2. db \in Store /\ b \in db.blocks /\ 1 .. db.fill.block - 1 \subseteq db.blocks
  BY <1>1, WriterParts DEF Working, Sound
<1>3. /\ db' \in Store
      /\ db'.blocks = db.blocks /\ db'.history = db.history /\ db'.marks = db.marks
      /\ db'.heights = db.heights /\ db'.head = db.head /\ db'.fill.epoch = db.fill.epoch
      /\ 1 .. db'.fill.block - 1 \subseteq db.blocks
      /\ db'.fill.block \in db.blocks => db'.fill.block = db.fill.block /\ db'.fill.block # b
  BY <1>1, <1>2, FillBlockIs
<1>4. Next1' = Next1 /\ br'.step = "idle"
  BY <1>1, <1>3 DEF Next1, Idle
<1>5. TypeOK'
  BY <1>1, <1>3 DEF TypeOK
<1>6. Sound(db)' /\ Sound(disk)'
  BY <1>1, <1>3 DEF Sound, KnownEpoch
<1>7. HeadStored'
  BY <1>1, <1>3, <1>4 DEF HeadStored
<1>8. Working'
  BY <1>1, <1>3, <1>4 DEF Working, KnownEpoch, Seals
<1>9. Raised'
  BY <1>1, <1>3, <1>4 DEF Raised
<1>10. Marked' /\ Waiting' /\ Ahead'
  BY <1>1, <1>3 DEF Marked, Waiting, Ahead
<1>11. Heights'
  BY <1>1, <1>3, HeightsKept
<1>12. QED
  BY <1>5, <1>6, <1>7, <1>8, <1>9, <1>10, <1>11

LEMMA CheckEpochRecordStep ==
  ASSUME IInv, NEW e \in Epoch, CheckEpochRecord(e)
  PROVE  IInv'
<1> USE DEF IInv
<1> DEFINE h == db.head.epoch
<1>1. /\ er = Idle /\ EngineFree /\ e \notin db.history /\ e > 1 /\ KnownEpoch(db, e - 1)
      /\ er' = [step |-> "state", epoch |-> e, heights |-> <<>>]
      /\ UNCHANGED <<db, disk, engine, worker, br, syncing, crashes>>
      /\ Next1' = Next1
  BY DEF CheckEpochRecord, MayDecideEpoch, Next1
<1>2. er.step = "idle" /\ worker.step # "epoch" /\ engine.step = "idle"
  BY <1>1, WriterParts DEF Working
<1>3. h \in Nat /\ e \in Nat /\ 1 .. h \subseteq db.history /\ db.history \subseteq Nat
  BY <1>2, UpToHead, NextBlock, WriterParts, StoreParts, Chain
<1>4. e > h
  <2> HIDE DEF h
  <2>1. ASSUME e <= h
        PROVE  e \in 1 .. h
    BY <1>1, <1>3, <2>1
  <2>2. QED
    BY <1>1, <1>3, <2>1
<1>5. TypeOK'
  BY <1>1 DEF TypeOK
<1>6. Sound(db)' /\ Sound(disk)'
  BY <1>1 DEF Sound, KnownEpoch
<1>7. HeadStored'
  BY <1>1 DEF HeadStored
<1>8. Working'
  BY <1>1 DEF Working, Seals, KnownEpoch
<1>9. Raised'
  BY <1>1, <1>2 DEF Raised
<1>10. Marked'
  BY <1>1, <1>2 DEF Marked
<1>11. Waiting'
  <2>1. e >= db.fill.epoch
    <3> DEFINE c == db.fill.epoch
    <3>0. c \in 1 .. Len(FirstBlock) + 1 /\ 1 .. c - 1 \subseteq db.history
      BY WriterParts, StoreParts DEF Sound
    <3> HIDE DEF c
    <3>1. c \in Nat /\ c >= 1 /\ 1 .. c - 1 \subseteq db.history
      BY <3>0, Chain
    <3>2. ASSUME e < c
          PROVE  e \in 1 .. c - 1
      BY <1>1, <1>3, <3>1, <3>2
    <3>3. e >= c
      BY <1>1, <1>3, <3>1, <3>2
    <3>4. QED
      BY <3>3 DEF c
  <2>2. ASSUME NEW x \in db.history
        PROVE  x <= e
    <3>1. x \in Nat
      BY <1>3
    <3>2. ASSUME x > e
          PROVE  e \in 1 .. x - 1
      BY <1>1, <1>3, <3>1, <3>2
    <3>3. ASSUME x > e
          PROVE  KnownEpoch(db, e)
      BY <3>2, <3>3 DEF Sound
    <3>4. ~KnownEpoch(db, e)
      BY <1>1, <1>3, <1>4 DEF KnownEpoch
    <3>5. QED
      BY <1>3, <3>1, <3>3, <3>4
  <2>3. QED
    BY <1>1, <2>1, <2>2 DEF Waiting
<1>12. Ahead'
  BY <1>1, <1>2, <1>3, <1>4 DEF Ahead
<1>13. Heights'
  BY <1>1, <1>2 DEF Heights, FirstKept, LastKept, Holds
<1>14. QED
  BY <1>5, <1>6, <1>7, <1>8, <1>9, <1>10, <1>11, <1>12, <1>13

LEMMA WriteEpochStateStep ==
  ASSUME IInv, WriteEpochState
  PROVE  IInv'
<1> USE DEF IInv
<1> DEFINE e == er.epoch
<1>1. /\ er.step = "state"
      /\ db' = [db EXCEPT !.history = @ \cup {e}]
      /\ er' = [er EXCEPT !.step = "mark"]
      /\ UNCHANGED <<disk, engine, worker, br, syncing, crashes>>
  BY DEF WriteEpochState
<1>2. /\ db \in Store /\ er # Idle
      /\ er = [step |-> "state", epoch |-> e, heights |-> er.heights]
      /\ e \in Epoch /\ er.heights \in Seq(Epoch)
      /\ e > 1 /\ KnownEpoch(db, e - 1)
  BY <1>1, WriterParts DEF Idle, Working
<1> HIDE DEF e
<1>3. /\ db'.blocks = db.blocks /\ db'.history = db.history \cup {e}
      /\ db'.marks = db.marks /\ db'.heights = db.heights /\ db'.fill = db.fill
      /\ db'.head = db.head
      /\ db' \in Store /\ Next1' = Next1
      /\ er' = [step |-> "mark", epoch |-> e, heights |-> er.heights]
      /\ er'.step = "mark" /\ er'.epoch = e /\ er' # Idle
  <2>1. db' = [db EXCEPT !.history = @ \cup {e}] /\ db \in Store /\ e \in Epoch
    BY <1>1, <1>2
  <2>2. /\ db'.blocks = db.blocks /\ db'.history = db.history \cup {e}
        /\ db'.marks = db.marks /\ db'.heights = db.heights /\ db'.fill = db.fill
        /\ db'.head = db.head /\ db' \in Store /\ Next1' = Next1
    BY <2>1 DEF Store, Next1
  <2>3. er' = [er EXCEPT !.step = "mark"]
        /\ er = [step |-> "state", epoch |-> e, heights |-> er.heights]
    BY <1>1, <1>2
  <2>4. er' = [step |-> "mark", epoch |-> e, heights |-> er.heights]
    BY <2>3
  <2>5. er'.step = "mark" /\ er'.epoch = e /\ er' # Idle
    BY <2>4 DEF Idle
  <2>6. QED
    BY <2>2, <2>4, <2>5
<1>4. \A n : KnownEpoch(db, n) => KnownEpoch(db, n)'
  BY <1>3 DEF KnownEpoch
<1>5. TypeOK'
  BY <1>1, <1>2, <1>3 DEF TypeOK
<1>6. Sound(db)' /\ Sound(disk)'
  <2>1. ASSUME NEW n \in 1 .. e - 1
        PROVE  KnownEpoch(db, n)
    <3> DEFINE h == db.head.epoch
    <3>1. e \in Nat /\ h \in Nat
      BY <1>2, Chain, NextBlock
    <3>2. CASE n = e - 1
      BY <1>2, <3>2
    <3>3. CASE n # e - 1 /\ e - 1 \in db.history
      <4>1. n \in 1 .. (e - 1) - 1
        BY <3>1, <3>3
      <4>2. QED
        BY <3>3, <4>1 DEF Sound
    <3>4. CASE n # e - 1 /\ e - 1 = h
      <4>1. n \in 1 .. h - 1
        BY <3>1, <3>4
      <4>2. QED
        BY <4>1 DEF HeadStored, KnownEpoch
    <3>5. QED
      BY <1>2, <3>2, <3>3, <3>4 DEF KnownEpoch
  <2>2. \A x \in db'.history : \A n \in 1 .. x - 1 : KnownEpoch(db', n)
    BY <1>3, <1>4, <2>1 DEF Sound
  <2>3. Sound(db)'
    BY <1>3, <2>2 DEF Sound
  <2>4. QED
    BY <1>1, <2>3 DEF Sound, KnownEpoch
<1>7. HeadStored'
  BY <1>1, <1>3 DEF HeadStored
<1>8. Working'
  BY <1>1, <1>2, <1>3, <1>4 DEF Working, Seals
<1>9. Raised'
  BY <1>1, <1>3 DEF Raised
<1>10. Marked'
  BY <1>1, <1>3 DEF Marked
<1>11. Waiting'
  <2>1. e <= e
    BY <1>2, Chain
  <2>2. QED
    BY <1>1, <1>2, <1>3, <2>1 DEF Waiting
<1>12. Ahead'
  BY <1>1, <1>2, <1>3 DEF Ahead
<1>13. Heights'
  BY <1>1, <1>2, <1>3 DEF Heights, FirstKept, LastKept, Holds
<1>14. QED
  BY <1>5, <1>6, <1>7, <1>8, <1>9, <1>10, <1>11, <1>12, <1>13

LEMMA WriteEpochMarkStep ==
  ASSUME IInv, WriteEpochMark
  PROVE  IInv'
<1> USE DEF IInv
<1> DEFINE e == er.epoch
<1>1. /\ er.step = "mark"
      /\ db' = [db EXCEPT !.marks = @ \cup {e}]
      /\ er' = IF ~KnownEpoch(db, e - 1) \/ UpgradesDiffer(e)
                 THEN [er EXCEPT !.step = "height", !.heights = db.heights]
                 ELSE [er EXCEPT !.step = "fill"]
      /\ UNCHANGED <<disk, engine, worker, br, syncing, crashes>>
  BY DEF WriteEpochMark
<1>2. /\ db \in Store /\ er # Idle
      /\ er = [step |-> "mark", epoch |-> e, heights |-> er.heights]
      /\ e \in Epoch /\ er.heights \in Seq(Epoch) /\ db.heights \in Seq(Epoch)
      /\ e > 1 /\ KnownEpoch(db, e - 1) /\ e \in db.history
  BY <1>1, WriterParts, StoreParts DEF Idle, Working
<1> HIDE DEF e
<1>3. /\ db'.blocks = db.blocks /\ db'.history = db.history
      /\ db'.marks = db.marks \cup {e} /\ db'.heights = db.heights /\ db'.fill = db.fill
      /\ db'.head = db.head
      /\ db' \in Store /\ Next1' = Next1
  <2>1. db' = [db EXCEPT !.marks = @ \cup {e}] /\ db \in Store /\ e \in Epoch
    BY <1>1, <1>2
  <2>2. QED
    BY <2>1 DEF Store, Next1
<1>4. /\ UpgradesDiffer(e) => er' = [step |-> "height", epoch |-> e, heights |-> db.heights]
      /\ ~UpgradesDiffer(e) => er' = [step |-> "fill", epoch |-> e, heights |-> er.heights]
  <2>1. /\ UpgradesDiffer(e) => er' = [er EXCEPT !.step = "height", !.heights = db.heights]
        /\ ~UpgradesDiffer(e) => er' = [er EXCEPT !.step = "fill"]
    BY <1>1, <1>2, Zenon
  <2>2. er = [step |-> "mark", epoch |-> e, heights |-> er.heights]
    BY <1>2
  <2>3. /\ [er EXCEPT !.step = "height", !.heights = db.heights]
             = [step |-> "height", epoch |-> e, heights |-> db.heights]
        /\ [er EXCEPT !.step = "fill"] = [step |-> "fill", epoch |-> e, heights |-> er.heights]
    <3> DEFINE hh == er.heights
               dh == db.heights
    <3>1. er = [step |-> "mark", epoch |-> e, heights |-> hh]
      BY <2>2
    <3> HIDE DEF hh, dh
    <3>2. [er EXCEPT !.step = "height", !.heights = dh]
            = [step |-> "height", epoch |-> e, heights |-> dh]
      <4>1. er \in [step : {"mark"}, epoch : {e}, heights : {hh}]
        BY <3>1
      <4> DEFINE x == [er EXCEPT !.step = "height", !.heights = dh]
      <4>2. x \in [step : {"height"}, epoch : {e}, heights : {dh}]
        BY <4>1
      <4> HIDE DEF x
      <4>3. x = [step |-> "height", epoch |-> e, heights |-> dh]
        BY <4>2
      <4>4. QED
        BY <4>3 DEF x
    <3>3. [er EXCEPT !.step = "fill"] = [step |-> "fill", epoch |-> e, heights |-> hh]
      BY <3>1
    <3>4. QED
      BY <3>2, <3>3 DEF hh, dh
  <2>4. QED
    BY <2>1, <2>3, Zenon
<1>5. er'.step \in {"height", "fill"} /\ er'.epoch = e /\ er' # Idle
  BY <1>4 DEF Idle
<1>6. TypeOK'
  <2>1. er' \in [step : {"state", "mark", "height", "fill"}, epoch : Epoch, heights : Seq(Epoch)]
    BY <1>2, <1>4
  <2>2. QED
    BY <1>1, <1>3, <2>1 DEF TypeOK
<1>7. Sound(db)' /\ Sound(disk)'
  BY <1>1, <1>3 DEF Sound, KnownEpoch
<1>8. HeadStored'
  BY <1>1, <1>3 DEF HeadStored
<1>9. Working'
  BY <1>1, <1>2, <1>3, <1>5 DEF Working, Seals, KnownEpoch
<1>10. Raised'
  BY <1>1, <1>2, <1>3, <1>5 DEF Raised
<1>11. Marked'
  BY <1>1, <1>2, <1>3 DEF Marked
<1>12. Waiting'
  BY <1>1, <1>2, <1>3, <1>5 DEF Waiting
<1>13. Ahead'
  BY <1>1, <1>2, <1>3, <1>5 DEF Ahead
<1>14. Heights'
  <2>1. SUFFICES ASSUME crashes = 0, ~SlowWriter
                 PROVE  /\ er'.step = "height" => Changes(er'.heights) /\ Change(e)
                        /\ FirstKept' /\ LastKept'
    BY <1>1, <1>3, <1>5 DEF Heights
  <2>2. Changes(db.heights) /\ FirstKept /\ LastKept
    BY <1>1, <2>1 DEF Heights
  <2>3. e # 1
    BY <1>2, Chain
  <2>4. /\ UpgradesDiffer(e) => Change(e)
        /\ Change(e) => er'.step = "height" /\ er'.heights = db.heights
        /\ er'.step = "height" => er'.heights = db.heights /\ UpgradesDiffer(e)
    BY <1>2, <1>4, <2>3 DEF Change
  <2>5. \A g \in Epoch : Change(g) => (Holds(g)' <=> Holds(g))
    BY <1>1, <1>5, <2>4 DEF Holds
  <2>6. FirstKept'
    <3>1. SUFFICES ASSUME NEW g \in Epoch, FirstChange(g)
                   PROVE  /\ er'.step = "height" =>
                              /\ db.heights = <<1>> \/ Begun(db.heights, g)
                              /\ e # g => Begun(db.heights, g)
      BY <1>1, <1>3, <1>5, <2>2, <2>4, <2>5 DEF FirstKept, FirstChange
    <3>2. /\ db.heights = <<1>> \/ Begun(db.heights, g)
          /\ g <= db.head.epoch \/ (g \in db.history /\ ~Holds(g)) => Begun(db.heights, g)
      BY <2>2, <3>1 DEF FirstKept
    <3>3. ASSUME er'.step = "height", e # g
          PROVE  Begun(db.heights, g)
      <4>1. g \in Nat /\ e \in Nat /\ g >= 1 /\ db.head.epoch \in Nat
        BY <1>2, <3>1, Chain, NextBlock
      <4>2. g <= e
        BY <1>2, <2>4, <3>1, <3>3 DEF FirstChange
      <4>3. g \in 1 .. e - 1
        BY <3>3, <4>1, <4>2
      <4>4. KnownEpoch(db, g)
        BY <1>2, <4>3 DEF Sound
      <4>5. ~Holds(g)
        BY <3>3 DEF Holds, e
      <4>6. QED
        BY <3>2, <4>1, <4>4, <4>5 DEF KnownEpoch
    <3>4. QED
      BY <3>2, <3>3
  <2>7. LastKept'
    BY <1>1, <1>3, <2>2, <2>5 DEF LastKept, LastChange
  <2>8. QED
    BY <2>2, <2>4, <2>6, <2>7
<1>15. QED
  BY <1>6, <1>7, <1>8, <1>9, <1>10, <1>11, <1>12, <1>13, <1>14

LEMMA WriteHeightStep ==
  ASSUME IInv, WriteHeight
  PROVE  IInv'
<1> USE DEF IInv
<1> DEFINE e == er.epoch
           hs == Append(er.heights, e)
<1>1. /\ er.step = "height"
      /\ db' = [db EXCEPT !.heights = hs]
      /\ er' = [er EXCEPT !.step = "fill"]
      /\ UNCHANGED <<disk, engine, worker, br, syncing, crashes>>
  BY DEF WriteHeight
<1>2. /\ db \in Store /\ er # Idle
      /\ er = [step |-> "height", epoch |-> e, heights |-> er.heights]
      /\ e \in Epoch /\ er.heights \in Seq(Epoch)
      /\ e \in db.history
  BY <1>1, WriterParts DEF Idle, Working
<1>3. hs \in Seq(Epoch)
  BY <1>2, AppendProperties
<1> HIDE DEF e, hs
<1>4. /\ db'.blocks = db.blocks /\ db'.history = db.history
      /\ db'.marks = db.marks /\ db'.heights = hs /\ db'.fill = db.fill
      /\ db'.head = db.head
      /\ db' \in Store /\ Next1' = Next1
      /\ er' = [step |-> "fill", epoch |-> e, heights |-> er.heights]
  <2>1. db' = [db EXCEPT !.heights = hs] /\ db \in Store
    BY <1>1, <1>2
  <2>2. /\ db'.blocks = db.blocks /\ db'.history = db.history
        /\ db'.marks = db.marks /\ db'.heights = hs /\ db'.fill = db.fill
        /\ db'.head = db.head /\ db' \in Store /\ Next1' = Next1
    BY <1>3, <2>1 DEF Store, Next1
  <2>3. er' = [er EXCEPT !.step = "fill"]
        /\ er = [step |-> "height", epoch |-> e, heights |-> er.heights]
    BY <1>1, <1>2
  <2>4. er' = [step |-> "fill", epoch |-> e, heights |-> er.heights]
    BY <2>3
  <2>5. QED
    BY <2>2, <2>4
<1>5. er'.step = "fill" /\ er'.epoch = e /\ er' # Idle
  BY <1>4 DEF Idle
<1>6. TypeOK'
  BY <1>1, <1>2, <1>4 DEF TypeOK
<1>7. Sound(db)' /\ Sound(disk)'
  BY <1>1, <1>4 DEF Sound, KnownEpoch
<1>8. HeadStored'
  BY <1>1, <1>4 DEF HeadStored
<1>9. Working'
  BY <1>1, <1>2, <1>4, <1>5 DEF Working, Seals, KnownEpoch
<1>10. Raised'
  BY <1>1, <1>2, <1>4, <1>5 DEF Raised
<1>11. Marked'
  BY <1>1, <1>4 DEF Marked
<1>12. Waiting'
  BY <1>1, <1>4, <1>5 DEF Waiting
<1>13. Ahead'
  BY <1>1, <1>4, <1>5 DEF Ahead
<1>14. Heights'
  <2>1. SUFFICES ASSUME crashes = 0, ~SlowWriter
                 PROVE  Changes(hs) /\ FirstKept' /\ LastKept'
    BY <1>1, <1>4, <1>5 DEF Heights
  <2>2. Changes(er.heights) /\ Change(e) /\ FirstKept /\ LastKept
    BY <1>1, <2>1 DEF Heights, e
  <2>3. /\ Changes(hs) /\ Ended(hs, e)
        /\ \A g : Begun(er.heights, g) => Begun(hs, g)
        /\ er.heights = <<1>> => Begun(hs, e)
    BY <1>2, <2>2, AddChange DEF hs
  <2>4. FirstKept'
    <3>1. ASSUME NEW g \in Epoch, FirstChange(g)
          PROVE  Begun(hs, g)
      <4>1. /\ er.heights = <<1>> \/ Begun(er.heights, g)
            /\ e # g => Begun(er.heights, g)
        BY <1>1, <2>2, <3>1 DEF FirstKept, e
      <4>2. QED
        BY <2>3, <4>1
    <3>2. QED
      BY <1>1, <1>4, <1>5, <2>2, <3>1 DEF FirstKept
  <2>5. LastKept'
    <3>1. SUFFICES ASSUME NEW c \in Epoch, LastChange(c),
                          c <= db.head.epoch \/ (syncing /\ c \in db.history)
                   PROVE  c = e
      BY <1>1, <1>4, <2>3 DEF LastKept
    <3>2. e <= c /\ c \in Nat /\ e \in Nat /\ db.head.epoch \in Nat
      BY <1>2, <2>2, <3>1, Chain, NextBlock DEF LastChange
    <3>3. e >= db.head.epoch
      BY <1>1, <2>1 DEF Ahead, e
    <3>4. syncing /\ c \in db.history => c <= e
      BY <1>1, <2>1 DEF Waiting, e
    <3>5. QED
      BY <3>1, <3>2, <3>3, <3>4
  <2>6. QED
    BY <2>3, <2>4, <2>5
<1>15. QED
  BY <1>6, <1>7, <1>8, <1>9, <1>10, <1>11, <1>12, <1>13, <1>14

LEMMA FillEpochRecordStep ==
  ASSUME IInv, FillEpochRecord
  PROVE  IInv'
<1> USE DEF IInv
<1> DEFINE e == er.epoch
<1>1. /\ er.step = "fill" /\ EngineFree
      /\ db' = FillEpoch(db, e) /\ er' = Idle
      /\ UNCHANGED <<disk, engine, worker, br, syncing, crashes>>
  BY DEF FillEpochRecord
<1>2. db \in Store /\ e \in db.history /\ 1 .. db.fill.epoch - 1 \subseteq db.history
  BY <1>1, WriterParts DEF Working, Sound
<1>3. /\ db' \in Store
      /\ db'.blocks = db.blocks /\ db'.history = db.history /\ db'.marks = db.marks
      /\ db'.heights = db.heights /\ db'.head = db.head /\ db'.fill.block = db.fill.block
      /\ 1 .. db'.fill.epoch - 1 \subseteq db.history
      /\ db'.fill.epoch \in db.history => db'.fill.epoch = db.fill.epoch /\ db'.fill.epoch # e
  BY <1>1, <1>2, FillEpochIs
<1>4. Next1' = Next1 /\ er'.step = "idle"
  BY <1>1, <1>3 DEF Next1, Idle
<1>5. TypeOK'
  BY <1>1, <1>3 DEF TypeOK
<1>6. Sound(db)' /\ Sound(disk)'
  BY <1>1, <1>3 DEF Sound, KnownEpoch
<1>7. HeadStored'
  BY <1>1, <1>3, <1>4 DEF HeadStored
<1>8. Working'
  BY <1>1, <1>3, <1>4 DEF Working, KnownEpoch, Seals
<1>9. Raised'
  BY <1>1, <1>3, <1>4 DEF Raised
<1>10. Marked'
  BY <1>1, <1>3 DEF Marked
<1>11. Waiting' /\ Ahead'
  BY <1>1, <1>3, <1>4 DEF Waiting, Ahead
<1>12. Heights'
  BY <1>1, <1>3, <1>4 DEF Heights, FirstKept, LastKept, Holds
<1>13. QED
  BY <1>5, <1>6, <1>7, <1>8, <1>9, <1>10, <1>11, <1>12

LEMMA SwitchEpochToStep ==
  ASSUME IInv, NEW e \in Epoch, SwitchEpochTo(e)
  PROVE  IInv'
<1> USE DEF IInv
<1> DEFINE b == FirstBlock[e] - 1
           c == db.fill.epoch
<1>1. /\ syncing /\ EngineFree /\ worker = Idle
      /\ e \in c - SwitchSpan .. c - 1
      /\ e > db.head.epoch /\ e \in db.history /\ db.fill.block > b
      /\ db' = [db EXCEPT !.head = [block |-> b, epoch |-> e]]
      /\ disk' = db' /\ syncing' = FALSE
      /\ UNCHANGED <<engine, worker, br, er, crashes>>
  BY DEF SwitchEpochTo, BlocksFilled
<1>2. /\ db \in Store /\ engine.step = "idle" /\ worker.step = "idle"
      /\ db.fill.block \in 1 .. Top + 1 /\ c \in 1 .. Len(FirstBlock) + 1
  BY <1>1, WriterParts, StoreParts
<1>3. /\ FirstBlock[e] \in Nat /\ b \in 0 .. Top /\ b + 1 = FirstBlock[e]
      /\ e \in Nat /\ e >= 1 /\ e <= c - 1 /\ c \in Nat
      /\ Top \in Nat /\ db.fill.block \in Nat
  <2>1. /\ FirstBlock[e] \in 1 .. Top /\ Top \in Nat /\ e \in Nat /\ e >= 1
        /\ Len(FirstBlock) \in Nat /\ SwitchSpan \in Nat
    BY Chain, ChainAssumption
  <2> HIDE DEF c
  <2>2. c \in Nat /\ e <= c - 1 /\ db.fill.block \in Nat
    BY <1>1, <1>2, <2>1
  <2>3. QED
    BY <2>1, <2>2
<1> HIDE DEF b, c
<1>4. /\ db'.blocks = db.blocks /\ db'.history = db.history /\ db'.marks = db.marks
      /\ db'.heights = db.heights /\ db'.fill = db.fill
      /\ db'.head.block = b /\ db'.head.epoch = e
      /\ db' \in Store
  BY <1>1, <1>2, <1>3 DEF Store
<1>5. Next1' = FirstBlock[e]
  BY <1>3, <1>4 DEF Next1
<1>6. 1 .. e \subseteq db.history
  <2>1. 1 .. c - 1 \subseteq db.history
    BY DEF Sound, c
  <2>2. QED
    BY <1>3, <2>1
<1>7. \A n : KnownEpoch(db, n) => n \in db.history
  <2>1. db.head.epoch \in db.history
    BY <1>2 DEF HeadStored
  <2>2. QED
    BY <2>1 DEF KnownEpoch
<1>8. TypeOK'
  BY <1>1, <1>4 DEF TypeOK
<1>9. Sound(db)' /\ Sound(disk)'
  <2>1. 1 .. b \subseteq db.blocks
    <3>1. 1 .. db.fill.block - 1 \subseteq db.blocks
      BY DEF Sound
    <3>2. \A n \in 1 .. b : n \in 1 .. db.fill.block - 1
      BY <1>1, <1>3
    <3>3. QED
      BY <3>1, <3>2
  <2>2. e + 1 \in Epoch => b + 1 < FirstBlock[e + 1]
    BY <1>3, Chain
  <2>3. Sound(db)'
    BY <1>4, <1>7, <2>1, <2>2 DEF Sound, KnownEpoch
  <2>4. QED
    BY <1>1, <2>3 DEF Sound, KnownEpoch
<1>10. HeadStored'
  <2>1. /\ 1 .. e - 1 \subseteq db.history /\ e \in db.history
        /\ FirstBlock[e] <= b + 1 /\ FirstBlock[e] <= FirstBlock[e]
        /\ FirstBlock[e] <= FirstBlock[e] + 1
    BY <1>1, <1>3, <1>6
  <2>2. QED
    BY <1>1, <1>4, <1>5, <1>6, <2>1 DEF HeadStored
<1>11. Working'
  BY <1>1, <1>2, <1>4, <1>7 DEF Working, KnownEpoch
<1>12. Raised'
  BY <1>1, <1>2, <1>4 DEF Raised
<1>13. Marked'
  BY <1>1, <1>4 DEF Marked
<1>14. Waiting'
  BY <1>1 DEF Waiting
<1>15. ASSUME crashes = 0, er.step \in {"state", "mark", "height"}
       PROVE  er.epoch \in Nat /\ er.epoch > e
  <2>1. er.epoch \in Nat
    BY <1>15, WriterParts, Chain
  <2>2. er.epoch >= c
    BY <1>1, <1>15 DEF Waiting, c
  <2>3. QED
    BY <1>3, <2>1, <2>2
<1>16. Ahead'
  <2>1. ASSUME crashes = 0, er.step \in {"state", "mark", "height"}
        PROVE  er.epoch >= e /\ er.epoch > e
    BY <1>3, <1>15, <2>1
  <2>2. QED
    BY <1>1, <1>4, <2>1 DEF Ahead
<1>17. Heights'
  <2>1. SUFFICES ASSUME crashes = 0, ~SlowWriter
                 PROVE  Changes(db.heights) /\ FirstKept' /\ LastKept'
    BY <1>1, <1>4 DEF Heights
  <2>2. Changes(db.heights) /\ FirstKept /\ LastKept
    BY <1>1, <2>1 DEF Heights
  <2>3. ASSUME NEW g \in Epoch, g <= e
        PROVE  g \in db.history /\ ~Holds(g)
    <3>1. g \in 1 .. e /\ g \in Nat
      BY <1>3, <2>3, Chain
    <3>2. ~Holds(g)
      <4>1. SUFFICES ASSUME er.step \in {"mark", "height"}, er.epoch = g
                     PROVE  FALSE
        BY DEF Holds
      <4>2. er.epoch > e
        BY <1>15, <2>1, <4>1
      <4>3. QED
        BY <1>3, <2>3, <3>1, <4>1, <4>2
    <3>3. QED
      BY <1>6, <3>1, <3>2
  <2>4. FirstKept'
    BY <1>1, <1>2, <1>4, <2>2, <2>3 DEF FirstKept, Holds
  <2>5. LastKept'
    BY <1>1, <1>4, <2>2, <2>3 DEF LastKept, Holds
  <2>6. QED
    BY <2>2, <2>4, <2>5
<1>18. QED
  BY <1>8, <1>9, <1>10, <1>11, <1>12, <1>13, <1>14, <1>16, <1>17

LEMMA CrashStep ==
  ASSUME IInv, Crash
  PROVE  IInv'
<1> USE DEF IInv
<1>1. /\ crashes < MaxCrashes /\ crashes' = crashes + 1 /\ db' = disk
      /\ engine' = Idle /\ worker' = Idle /\ br' = Idle /\ er' = Idle
      /\ syncing' \in BOOLEAN /\ disk' = disk
  BY DEF Crash
<1>2. disk \in Store /\ crashes \in 0 .. MaxCrashes /\ MaxCrashes \in Nat
  BY WriterParts, ChainAssumption
<1>3. crashes' \in 0 .. MaxCrashes /\ crashes' # 0
  BY <1>1, <1>2
<1>4. TypeOK'
  BY <1>1, <1>2, <1>3 DEF TypeOK
<1>5. Sound(db)' /\ Sound(disk)'
  BY <1>1 DEF Sound, KnownEpoch
<1>6. HeadStored'
  <2> DEFINE h == disk.head.epoch
  <2>1. /\ h \in Nat /\ h >= 1 /\ 1 .. h \subseteq disk.history
        /\ FirstBlock[h] \in Nat /\ disk.head.block \in Nat
        /\ FirstBlock[h] <= disk.head.block + 1
    <3>1. h \in Epoch /\ disk.head.block \in 0 .. Top
      BY <1>2, StoreParts
    <3>2. 1 .. h \subseteq disk.history /\ FirstBlock[h] <= disk.head.block + 1
      BY DEF HeadStored
    <3> HIDE DEF h
    <3>3. QED
      BY <3>1, <3>2, Chain
  <2> HIDE DEF h
  <2>2. 1 .. h - 1 \subseteq disk.history /\ h \in disk.history
    BY <2>1
  <2>3. FirstBlock[h] <= (disk.head.block + 1) + 1
    BY <2>1
  <2>4. QED
    BY <1>1, <2>1, <2>2, <2>3 DEF HeadStored, Next1, h
<1>7. Working'
  BY <1>1 DEF Working, Idle
<1>8. Raised' /\ Marked' /\ Waiting' /\ Ahead' /\ Heights'
  BY <1>3 DEF Raised, Marked, Waiting, Ahead, Heights
<1>9. QED
  BY <1>4, <1>5, <1>6, <1>7, <1>8

LEMMA InitIs ==
  ASSUME Init
  PROVE  IInv
<1>1. /\ db = Genesis /\ disk = Genesis /\ engine = Idle /\ worker = Idle /\ br = Idle
      /\ er = Idle /\ syncing \in BOOLEAN /\ crashes = 0
  BY DEF Init
<1>2. /\ Genesis.blocks = {} /\ Genesis.history = {1} /\ Genesis.marks = {1}
      /\ Genesis.heights = <<1>> /\ Genesis.fill = [block |-> 1, epoch |-> 2]
      /\ Genesis.fill.block = 1 /\ Genesis.fill.epoch = 2
      /\ Genesis.head.block = 0 /\ Genesis.head.epoch = 1
  BY DEF Genesis
<1>3. Genesis \in Store
  BY Chain DEF Genesis, Store
<1>4. Idle.step = "idle"
  BY DEF Idle
<1>5. TypeOK
  BY <1>1, <1>3, ChainAssumption DEF TypeOK
<1>6. Sound(Genesis)
  <2>1. 2 \in Epoch => 1 < FirstBlock[2]
    BY Chain
  <2>2. QED
    BY <1>2, <2>1 DEF Sound
<1>7. HeadStored
  BY <1>1, <1>2, <1>4, Chain DEF HeadStored, Next1
<1>8. Working /\ Raised /\ Marked /\ Waiting /\ Ahead
  BY <1>1, <1>2, <1>4 DEF Working, Raised, Marked, Waiting, Ahead
<1>9. Heights
  <2>1. Changes(<<1>>)
    BY DEF Changes
  <2>2. ASSUME NEW g \in Epoch, Change(g)
        PROVE  ~(g <= 1) /\ g \notin {1}
    BY <2>2, Chain DEF Change
  <2>3. FirstKept /\ LastKept
    BY <1>1, <1>2, <1>4, <2>2 DEF FirstKept, LastKept, FirstChange, LastChange
  <2>4. QED
    BY <1>1, <1>2, <1>4, <2>1, <2>3 DEF Heights
<1>10. QED
  BY <1>1, <1>5, <1>6, <1>7, <1>8, <1>9 DEF IInv

----------------------------------------------------------------------------
(* The theorems *)

LEMMA NextIs ==
  ASSUME IInv, [Next]_vars
  PROVE  IInv'
<1>1. CASE Consensus
  BY <1>1, BeginBlockStep, BeginSealingStep, SealEpochStep DEF Consensus
<1>2. CASE BlockFn
  BY <1>2, RecordEpochStep, RecordBlockStep, EndBlockFnStep DEF BlockFn
<1>3. CASE BlockRecord
  BY <1>3, CheckBlockRecordStep, WriteBlockRecordStep, FillBlockRecordStep DEF BlockRecord
<1>4. CASE EpochRecord
  BY <1>4, CheckEpochRecordStep, WriteEpochStateStep, WriteEpochMarkStep, WriteHeightStep,
     FillEpochRecordStep DEF EpochRecord
<1>5. CASE EndSync
  BY <1>5, SwitchEpochToStep DEF EndSync
<1>6. CASE Commit
  BY <1>6, CommitStep
<1>7. CASE Crash
  BY <1>7, CrashStep
<1>8. CASE UNCHANGED vars
  <2> USE DEF IInv
  <2>1. UNCHANGED <<db, disk, engine, worker, br, er, syncing, crashes>> /\ Next1' = Next1
    BY <1>8 DEF vars, Next1
  <2>2. TypeOK'
    BY <2>1 DEF TypeOK
  <2>3. Sound(db)' /\ Sound(disk)'
    BY <2>1 DEF Sound, KnownEpoch
  <2>4. HeadStored' /\ Working'
    BY <2>1 DEF HeadStored, Working, Seals, KnownEpoch
  <2>5. Raised' /\ Marked' /\ Waiting' /\ Ahead'
    BY <2>1 DEF Raised, Marked, Waiting, Ahead
  <2>6. Heights'
    BY <2>1, HeightsKept
  <2>7. QED
    BY <2>2, <2>3, <2>4, <2>5, <2>6
<1>9. QED
  BY <1>1, <1>2, <1>3, <1>4, <1>5, <1>6, <1>7, <1>8 DEF Next

\* The inductive invariant holds in every reachable state.
THEOREM Invariance == Spec => []IInv
<1>1. Init => IInv
  BY InitIs
<1>2. IInv /\ [Next]_vars => IInv'
  BY NextIs
<1>3. QED
  BY <1>1, <1>2, PTL DEF Spec

\* Every variable has its type; in particular a lowest index is at most one above the chain.
THEOREM Typing == Spec => []TypeOK
<1>1. IInv => TypeOK
  BY DEF IInv
<1>2. QED
  BY <1>1, Invariance, PTL

\* Nothing is missing from the store, in memory or flushed, that what is there builds on.
THEOREM Complete == Spec => []NothingMissing
<1>1. ASSUME IInv
      PROVE  NothingMissing
  <2> USE <1>1 DEF IInv
  <2>1. FilledBelow
    BY DEF FilledBelow, Sound
  <2>2. NoGapBelowHead
    <3>1. worker.step = "epoch" <=> worker.step = "epoch" /\ Sealing
      BY WriterParts DEF Sealing, Working, Idle
    <3>2. worker.step # "epoch" => 1 .. db.head.epoch \subseteq db.history
      BY UpToHead
    <3>3. 1 .. db.head.epoch - 1 \subseteq db.history
      BY DEF HeadStored
    <3>4. ~Sealing => 1 .. db.head.epoch - 0 \subseteq db.history
      <4>1. db.head.epoch - 0 = db.head.epoch
        BY NextBlock
      <4>2. QED
        BY <3>1, <3>2, <4>1
    <3>5. QED
      BY <3>3, <3>4 DEF NoGapBelowHead, Sound, HeadStored
  <2>3. RecordsHaveParents
    <3>1. SUFFICES ASSUME NEW d \in {db, disk}, NEW e \in d.history, e > 1
                   PROVE  KnownEpoch(d, e - 1)
      BY DEF RecordsHaveParents
    <3>2. e \in Nat
      BY <3>1, WriterParts, StoreParts, Chain
    <3>3. e - 1 \in 1 .. e - 1
      BY <3>1, <3>2
    <3>4. QED
      BY <3>1, <3>3 DEF Sound
  <2>4. QED
    BY <2>1, <2>2, <2>3 DEF NothingMissing
<1>2. QED
  BY <1>1, Invariance, PTL

\* Without a crash no lowest index to fill stays behind on a stored number.
THEOREM NotStuck == Spec => []FillNotStuck
<1>1. ASSUME IInv
      PROVE  FillNotStuck
  <2>1. Raised /\ (er.step = "idle" <=> er = Idle) /\ (worker.step = "idle" <=> worker = Idle)
    BY <1>1, WriterParts DEF IInv
  <2>2. QED
    BY <2>1 DEF Raised, FillNotStuck, Idle
<1>2. QED
  BY <1>1, Invariance, PTL

\* FindBlockEpoch gives the epoch of every stored block.
LEMMA FindBlockEpochIs ==
  ASSUME IInv
  PROVE  FindBlockEpochRight
<1> USE DEF IInv
<1>1. SUFFICES ASSUME crashes = 0, er.step # "mark", NEW b \in db.blocks
               PROVE  FindBlockEpoch(db, b) = EpochOf(b)
  BY DEF FindBlockEpochRight
<1> DEFINE o == EpochOf(b)
           below == {e \in db.marks : FirstBlock[e] <= b}
<1>2. b \in Block /\ db.marks \subseteq Epoch
  BY <1>1, WriterParts, StoreParts
<1>3. o \in Epoch /\ \A e \in Epoch : FirstBlock[e] <= b <=> e <= o
  BY <1>2, EpochOfIs
<1>4. o \in db.marks
  BY <1>1 DEF Sound, Marked
<1> HIDE DEF o
<1>5. o \in below /\ (\A x \in below : x <= o) /\ below \subseteq Nat /\ o \in Nat
  BY <1>2, <1>3, <1>4, Chain
<1>6. FindBlockEpoch(db, b) = CHOOSE e \in below : \A x \in below : x <= e
  BY <1>5 DEF FindBlockEpoch
<1> HIDE DEF below
<1>7. ASSUME NEW e \in below, \A x \in below : x <= e
      PROVE  e = o
  <2>1. e \in Nat /\ o <= e /\ e <= o
    BY <1>5, <1>7
  <2>2. QED
    BY <1>5, <2>1
<1>8. (CHOOSE e \in below : \A x \in below : x <= e) = o
  BY <1>5, <1>7
<1>9. QED
  BY <1>6, <1>8 DEF o

\* A block is begun at or above the first block of the head's epoch and below the next.
LEMMA Begins ==
  ASSUME IInv, MayBegin
  PROVE  /\ Next1 \in Block /\ Next1 \in Nat
         /\ FirstBlock[db.head.epoch] <= Next1
         /\ db.head.epoch + 1 \in Epoch => Next1 < FirstBlock[db.head.epoch + 1]
<1>1. Next1 \in Block /\ Next1 \in Nat
  BY NextBlock, Chain DEF IInv, MayBegin
<1>2. FirstBlock[db.head.epoch] <= Next1
  BY DEF IInv, MayBegin, HeadStored, Idle
<1>3. db.head.epoch + 1 \in Epoch => Next1 < FirstBlock[db.head.epoch + 1]
  BY HeadBelow DEF IInv
<1>4. QED
  BY <1>1, <1>2, <1>3

\* A set of numbers up to n that is not empty has a greatest one.
LEMMA Greatest ==
  ASSUME NEW n \in Nat, NEW S \in SUBSET (1 .. n), S # {}
  PROVE  \E x \in S : \A y \in S : y <= x
<1> DEFINE T == {k \in 0 .. n : n - k \in S}
<1>1. T \subseteq Nat /\ T # {}
  <2>1. PICK y \in S : TRUE
    OBVIOUS
  <2>2. n - y \in 0 .. n /\ n - (n - y) = y
    OBVIOUS
  <2>3. n - y \in T
    BY <2>1, <2>2
  <2>4. T \subseteq Nat
    OBVIOUS
  <2> HIDE DEF T
  <2>5. QED
    BY <2>3, <2>4
<1>2. PICK k \in T : \A y \in T : k <= y
  BY <1>1, LeastNat
<1>3. ASSUME NEW y \in S
      PROVE  y <= n - k
  <2>1. n - y \in 0 .. n /\ n - (n - y) = y /\ k \in 0 .. n
    BY <1>2
  <2>2. n - y \in T
    BY <2>1
  <2>3. k <= n - y
    BY <1>2, <2>2
  <2>4. QED
    BY <2>1, <2>3
<1>4. QED
  BY <1>2, <1>3

\* EvmChainConfig: a feature that is off in the last entry is not active, one that is never
\* off is active from the beginning, and any other from the entry that follows on the last
\* one which has it off.
LEMMA ActiveFromIs ==
  ASSUME NEW hs \in Seq(Epoch), Changes(hs), NEW f
  PROVE  \/ /\ f \notin Upgrades[hs[Len(hs)]]
            /\ ActiveFrom(hs, f) = Top + 1
         \/ /\ \A i \in 1 .. Len(hs) : f \in Upgrades[hs[i]]
            /\ ActiveFrom(hs, f) = 0
         \/ \E i \in 1 .. Len(hs) - 1 :
              /\ f \notin Upgrades[hs[i]]
              /\ \A j \in i + 1 .. Len(hs) : f \in Upgrades[hs[j]]
              /\ ActiveFrom(hs, f) = FirstBlock[hs[i + 1]]
<1> DEFINE n == Len(hs)
           off == {i \in 1 .. n : f \notin Upgrades[hs[i]]}
           lastOff == IF off = {} THEN 0 ELSE CHOOSE i \in off : \A x \in off : x <= i
<1>1. n \in Nat /\ n # 0
  BY LenProperties, EmptySeq DEF Changes
<1>2. ActiveFrom(hs, f) = CASE lastOff = n -> Top + 1
                            [] lastOff = 0 -> 0
                            [] OTHER -> FirstBlock[hs[lastOff + 1]]
  BY DEF ActiveFrom
<1> HIDE DEF n
<1>3. off = {} => lastOff = 0
  OBVIOUS
<1>4. off # {} => lastOff \in off /\ \A x \in off : x <= lastOff
  <2>1. ASSUME off # {}
        PROVE  \E i \in off : \A x \in off : x <= i
    BY <1>1, <2>1, Greatest
  <2> HIDE DEF off
  <2>2. QED
    BY <2>1
<1> HIDE DEF lastOff
<1>5. CASE off = {}
  <2>1. lastOff = 0 /\ ActiveFrom(hs, f) = 0
    BY <1>1, <1>2, <1>3, <1>5
  <2>2. \A i \in 1 .. n : f \in Upgrades[hs[i]]
    BY <1>5
  <2>3. QED
    BY <2>1, <2>2 DEF n
<1>6. CASE off # {} /\ lastOff = n
  <2>1. f \notin Upgrades[hs[n]] /\ ActiveFrom(hs, f) = Top + 1
    BY <1>2, <1>4, <1>6
  <2>2. QED
    BY <2>1 DEF n
<1>7. CASE off # {} /\ lastOff # n
  <2>1. lastOff \in 1 .. n /\ f \notin Upgrades[hs[lastOff]] /\ \A x \in off : x <= lastOff
    BY <1>4, <1>7
  <2>2. lastOff \in 1 .. n - 1
    BY <1>1, <1>7, <2>1
  <2>3. ActiveFrom(hs, f) = FirstBlock[hs[lastOff + 1]]
    BY <1>1, <1>2, <1>7, <2>2
  <2>4. ASSUME NEW j \in lastOff + 1 .. n
        PROVE  f \in Upgrades[hs[j]]
    <3>1. j \in 1 .. n /\ ~(j <= lastOff)
      BY <1>1, <2>1, <2>4
    <3>2. QED
      BY <2>1, <3>1
  <2>5. QED
    BY <2>2, <2>1, <2>3, <2>4 DEF n
<1>8. QED
  BY <1>5, <1>6, <1>7

\* A block is begun under the upgrades of its epoch.
LEMMA ConfigIs ==
  ASSUME IInv
  PROVE  ConfigRight
<1> USE DEF IInv
<1> DEFINE h == db.head.epoch
           hs == db.heights
           n == Len(hs)
<1>1. SUFFICES ASSUME NoneRevoked, AtMostTwoChanges, ~SlowWriter, crashes = 0, MayBegin,
                      NEW f \in Feature
               PROVE  (ActiveFrom(hs, f) <= Next1) <=> (f \in Upgrades[h])
  BY DEF ConfigRight
<1>2. /\ Next1 \in Nat /\ Next1 <= Top /\ Top \in Nat
      /\ FirstBlock[h] <= Next1
      /\ h + 1 \in Epoch => Next1 < FirstBlock[h + 1]
  BY <1>1, Begins, Chain DEF MayBegin
<1>3. /\ h \in Epoch /\ h \in Nat /\ hs \in Seq(Epoch) /\ Changes(hs) /\ FirstKept /\ LastKept
      /\ hs[1] = 1
  BY <1>1, NextBlock, WriterParts, StoreParts DEF Heights, Changes
<1>4. n \in Nat /\ n >= 1 /\ \A i \in 1 .. n : hs[i] \in Epoch
  <2>1. n \in Nat /\ n # 0 /\ \A i \in 1 .. n : hs[i] \in Epoch
    BY <1>3, LenProperties, ElementOfSeq, EmptySeq DEF Changes
  <2> HIDE DEF n
  <2>2. QED
    BY <2>1
<1>5. CASE f \notin Upgrades[h]
  <2>1. f \notin Upgrades[1]
    <3>1. 1 <= h /\ 1 \in Epoch
      BY <1>3, Chain
    <3>2. QED
      BY <1>1, <1>3, <1>5, <3>1, StaysOn
  <2>2. CASE ActiveFrom(hs, f) = Top + 1
    BY <1>2, <1>5, <2>2
  <2>3. CASE \A i \in 1 .. n : f \in Upgrades[hs[i]]
    <3>1. 1 \in 1 .. n
      BY <1>4
    <3>2. QED
      BY <1>3, <2>1, <2>3, <3>1
  <2>4. CASE \E i \in 1 .. n - 1 :
               /\ \A j \in i + 1 .. n : f \in Upgrades[hs[j]]
               /\ ActiveFrom(hs, f) = FirstBlock[hs[i + 1]]
    <3>1. PICK i \in 1 .. n - 1 :
                 /\ \A j \in i + 1 .. n : f \in Upgrades[hs[j]]
                 /\ ActiveFrom(hs, f) = FirstBlock[hs[i + 1]]
      BY <2>4
    <3> HIDE DEF n
    <3>2. i + 1 \in i + 1 .. n /\ i + 1 \in 1 .. n
      BY <1>4
    <3> DEFINE x == hs[i + 1]
    <3>3. x \in Epoch /\ f \in Upgrades[x] /\ ActiveFrom(hs, f) = FirstBlock[x]
      BY <1>4, <3>1, <3>2
    <3> HIDE DEF x, hs, h
    <3>4. ~(x <= h)
      BY <1>1, <1>3, <1>5, <3>3, StaysOn
    <3>5. x \in Nat /\ h + 1 \in Epoch /\ h + 1 <= x
      BY <1>3, <3>3, <3>4, Chain
    <3>6. FirstBlock[x] \in Nat /\ FirstBlock[h + 1] \in Nat
      BY <3>3, <3>5, Chain
    <3>7. FirstBlock[h + 1] <= FirstBlock[x]
      <4>1. CASE h + 1 = x
        BY <3>6, <4>1
      <4>2. CASE h + 1 # x
        <5>1. h + 1 < x
          BY <1>3, <3>5, <4>2
        <5>2. FirstBlock[h + 1] < FirstBlock[x]
          BY <3>3, <3>5, <5>1, FirstBlockIncreases
        <5>3. QED
          BY <3>6, <5>2
      <4>3. QED
        BY <4>1, <4>2
    <3>8. QED
      BY <1>2, <1>5, <3>3, <3>5, <3>6, <3>7
  <2>5. QED
    BY <1>3, <2>2, <2>3, <2>4, ActiveFromIs
<1>6. CASE f \in Upgrades[h]
  <2>1. SUFFICES ActiveFrom(hs, f) <= Next1
    BY <1>6
  <2>2. CASE ActiveFrom(hs, f) = 0
    BY <1>2, <2>2
  <2>3. CASE f \notin Upgrades[1]
    <3> DEFINE T == {e \in Epoch : f \in Upgrades[e]}
    <3>1. T \subseteq Nat /\ T # {}
      BY <1>3, <1>6, Chain
    <3>2. PICK g \in T : \A y \in T : g <= y
      BY <3>1, LeastNat
    <3>3. g \in Epoch /\ f \in Upgrades[g] /\ g # 1 /\ g \in Nat /\ g <= h
      BY <1>3, <1>6, <2>3, <3>2, Chain
    <3>4. g - 1 \in Epoch /\ g - 1 \notin T
      <4>1. g - 1 \in Epoch /\ ~(g <= g - 1)
        BY <3>3, Chain
      <4>2. QED
        BY <3>2, <4>1
    <3>5. Change(g)
      BY <3>3, <3>4 DEF Change, UpgradesDiffer
    <3>6. \A e \in Epoch : f \in Upgrades[e] <=> g <= e
      BY <1>1, <3>2, <3>3, StaysOn
    <3>7. FirstBlock[g] <= Next1
      <4>1. FirstBlock[g] \in Nat /\ FirstBlock[h] \in Nat
        BY <1>3, <3>3, Chain
      <4>2. FirstBlock[g] <= FirstBlock[h]
        <5>1. CASE g = h
          BY <4>1, <5>1
        <5>2. CASE g # h
          BY <1>3, <3>3, <4>1, <5>2, FirstBlockIncreases
        <5>3. QED
          BY <5>1, <5>2
      <4> HIDE DEF h
      <4>3. QED
        BY <1>2, <4>1, <4>2
    <3>8. FirstChange(g) \/ LastChange(g)
      <4>1. \A a, c \in Epoch : Change(a) /\ Change(c) /\ ~(g <= a) => c <= g
        <5>1. SUFFICES ASSUME NEW a \in Epoch, NEW c \in Epoch, Change(a), Change(c), ~(g <= a),
                              ~(c <= g)
                       PROVE  FALSE
          OBVIOUS
        <5>2. a \in Nat /\ c \in Nat
          BY Chain
        <5>3. a < g /\ g < c
          BY <3>3, <5>1, <5>2
        <5>4. QED
          BY <1>1, <3>5, <5>1, <5>3 DEF AtMostTwoChanges, Change
      <4>2. QED
        BY <3>3, <3>5, <4>1 DEF FirstChange, LastChange
    <3>9. \A j \in 2 .. n : Change(hs[j])
      BY <1>3 DEF Changes
    <3>10. CASE LastChange(g)
      <4>1. hs[n] = g
        BY <1>3, <3>3, <3>10 DEF LastKept, Ended
      <4> HIDE DEF n
      <4>2. n \in 1 .. n /\ f \in Upgrades[hs[n]]
        BY <1>4, <3>3, <4>1
      <4>3. CASE \E i \in 1 .. n - 1 :
                   /\ \A j \in i + 1 .. n : f \in Upgrades[hs[j]]
                   /\ ActiveFrom(hs, f) = FirstBlock[hs[i + 1]]
        <5>1. PICK i \in 1 .. n - 1 :
                     /\ \A j \in i + 1 .. n : f \in Upgrades[hs[j]]
                     /\ ActiveFrom(hs, f) = FirstBlock[hs[i + 1]]
          BY <4>3
        <5>2. i + 1 \in i + 1 .. n /\ i + 1 \in 2 .. n /\ i + 1 \in 1 .. n
          BY <1>4
        <5> DEFINE x == hs[i + 1]
        <5>3. x \in Epoch /\ f \in Upgrades[x] /\ Change(x) /\ ActiveFrom(hs, f) = FirstBlock[x]
          BY <1>4, <3>9, <5>1, <5>2
        <5> HIDE DEF x, hs
        <5>4. g <= x /\ x <= g /\ x \in Nat
          BY <3>6, <3>10, <5>3, Chain DEF LastChange
        <5>5. x = g
          BY <3>3, <5>4
        <5>6. QED
          BY <3>7, <5>3, <5>5
      <4>4. QED
        BY <1>3, <2>2, <4>2, <4>3, ActiveFromIs DEF n
    <3>11. CASE FirstChange(g)
      <4>1. n >= 2 /\ hs[2] = g
        BY <1>3, <3>3, <3>11 DEF FirstKept, Begun
      <4> HIDE DEF n
      <4>2. ASSUME NEW j \in 2 .. n
            PROVE  f \in Upgrades[hs[j]]
        <5> DEFINE x == hs[j]
        <5>1. j \in 1 .. n
          BY <1>4, <4>2
        <5>2. x \in Epoch /\ Change(x)
          BY <1>4, <3>9, <4>2, <5>1
        <5> HIDE DEF x
        <5>3. g <= x
          BY <3>11, <5>2 DEF FirstChange
        <5>4. f \in Upgrades[x]
          BY <3>6, <5>2, <5>3
        <5>5. QED
          BY <5>4 DEF x
      <4>3. n \in 2 .. n
        BY <1>4, <4>1
      <4>4. f \in Upgrades[hs[n]]
        BY <4>2, <4>3
      <4>5. CASE \E i \in 1 .. n - 1 :
                   /\ f \notin Upgrades[hs[i]]
                   /\ ActiveFrom(hs, f) = FirstBlock[hs[i + 1]]
        <5>1. PICK i \in 1 .. n - 1 :
                     /\ f \notin Upgrades[hs[i]]
                     /\ ActiveFrom(hs, f) = FirstBlock[hs[i + 1]]
          BY <4>5
        <5>2. i \notin 2 .. n
          BY <4>2, <5>1
        <5>3. i + 1 = 2
          BY <1>4, <5>2
        <5>4. ActiveFrom(hs, f) = FirstBlock[g]
          BY <4>1, <5>1, <5>3
        <5>5. QED
          BY <3>7, <5>4
      <4>6. QED
        BY <1>3, <2>2, <4>4, <4>5, ActiveFromIs DEF n
    <3>12. QED
      BY <3>8, <3>10, <3>11
  <2>4. CASE f \in Upgrades[1]
    <3>1. ASSUME NEW e \in Epoch
          PROVE  f \in Upgrades[e]
      <4>1. 1 \in Epoch /\ 1 <= e
        BY Chain
      <4>2. QED
        BY <1>1, <2>4, <4>1, StaysOn
    <3> HIDE DEF n
    <3>2. \A i \in 1 .. n : f \in Upgrades[hs[i]]
      BY <1>4, <3>1
    <3>3. n \in 1 .. n /\ \A i \in 1 .. n - 1 : i \in 1 .. n
      BY <1>4
    <3>4. QED
      BY <1>3, <2>2, <3>2, <3>3, ActiveFromIs DEF n
  <2>5. QED
    BY <2>3, <2>4
<1>7. QED
  BY <1>5, <1>6

\* FindBlockEpoch gives a stored block its own epoch, and consensus executes a block under
\* the upgrades of its epoch.
THEOREM OwnEpoch == Spec => []BlockEpochRight
<1>1. IInv => BlockEpochRight
  BY FindBlockEpochIs, ConfigIs DEF BlockEpochRight
<1>2. QED
  BY <1>1, Invariance, PTL
=============================================================================
