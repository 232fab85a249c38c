-------------------------- MODULE DagEventsProofs --------------------------
(***************************************************************************)
(* Proofs about DagEvents, for any events, peers, epochs and limits: the   *)
(* types, that only peers with faulty events are removed, and that the     *)
(* epoch's index is that of its events whenever nobody is in processEvent, *)
(* after a restart as well.                                                *)
(***************************************************************************)
EXTENDS DagEvents, FiniteSetTheorems, WellFoundedInduction, TLAPS

----------------------------------------------------------------------------
(* The inductive invariant *)

Tasks == [event : Event, peer : Peer]

Errs == {"none", "irrelevant", "connected", "duplicate", "invalid"}

Stores == [epoch : Nat, saved : SUBSET Event, lamport : Nat, upgrade : BOOLEAN]

Types ==
  /\ store \in Stores /\ disk \in Stores
  /\ IsFiniteSet(store.saved) /\ IsFiniteSet(disk.saved)
  /\ index = [epoch |-> index.epoch, heads |-> index.heads, lasts |-> index.lasts]
  /\ queue \in Seq([event : Event, peer : Peer, err : Errs, heavy : BOOLEAN])
  /\ Len(queue) <= QueueLimit
  /\ buffer \subseteq Tasks
  /\ task \in {Idle} \cup [step : {"process"}, x : Tasks, done : SUBSET Event]
                     \cup [step : {"children"}, done : SUBSET Event]
  /\ job \in {Idle} \cup [step : {"engine", "index", "switch", "keys", "commit"}, event : Event,
                          by : {"inserter", "emitter"}, old : Nat]
  /\ clears \in Nat /\ sent \subseteq Own /\ dropped \subseteq Peer /\ crashes \in 0 .. MaxCrashes

\* Who is in processEvent
Workers ==
  job # Idle => /\ job.by = "inserter" => task.step = "process" /\ task.x.event = job.event
                /\ job.by = "emitter" => job.event \in Own

\* Where an event is on its way, its faults come from a faulty peer, and it has passed the checks
\* that lie behind it.
From(x) == Valid(x.event) <=> x.peer \in Honest

Sound(x) ==
  /\ From(x)
  /\ x.err = "invalid" => ~Valid(x.event)
  /\ x.err = "none" => Body[x.event].bad # "light"
  /\ x.err = "none" /\ ~x.heavy => Body[x.event].bad # "heavy"
  /\ x.heavy => x.err = "none"

Checked ==
  /\ \A i \in DOMAIN queue : Sound(queue[i])
  /\ \A x \in buffer : From(x) /\ Body[x.event].bad \notin {"light", "heavy"}
  /\ task.step = "process" =>
       From(task.x) /\ Body[task.x.event].bad \in {"none", "engine"} /\ Complete(task.x.event)

Blamed == store.upgrade \/ dropped \subseteq Faulty

\* What a set of events makes of the index. A creator that has not forked has a chain of events.
Heads(S) == {e \in S : \A f \in S : e \notin Body[f].parents}

By(S, c) == {e \in S : Body[e].creator = c}

Forked(of) == \E e, f \in of : e # f /\ Body[e].parents \cap of = Body[f].parents \cap of

Chain(last, of) ==
  /\ \A e \in of : e <= last
  /\ \E e \in of : Body[e].parents \cap of = {}
  /\ \A e \in of \ {last} : \E f \in of : Body[f].parents \cap of = {e}

Lasts(lasts, S) ==
  /\ DOMAIN lasts = {Body[e].creator : e \in S}
  /\ lasts = [c \in DOMAIN lasts |-> lasts[c]]
  /\ \A c \in DOMAIN lasts :
       lasts[c] \in By(S, c) /\ (Forked(By(S, c)) \/ Chain(lasts[c], By(S, c)))

Indexes(i, S) == i.heads = Heads(S) /\ Lasts(i.lasts, S)

Height(h, S) ==
  h \in {0} \cup {Body[e].lamport : e \in S} /\ \A e \in S : Body[e].lamport <= h

Closed(S) == \A e \in S : Valid(e) /\ Body[e].parents \subseteq S

\* What is committed: the events of an epoch that is not sealed.
Kept(saved, epoch, lamport) ==
  /\ \A e \in saved : Body[e].epoch <= epoch
  /\ Closed(saved)
  /\ Height(lamport, InEpoch(saved, epoch))
  /\ ~Seals(InEpoch(saved, epoch))

Followed(saved, epoch) ==
  /\ engine = InEpoch(saved, epoch)
  /\ index.epoch = epoch /\ ctx = [gas |-> epoch, keys |-> epoch]
  /\ Indexes(index, InEpoch(saved, epoch))

Settled ==
  job.step \in {"idle", "commit"} =>
    Kept(store.saved, store.epoch, store.lamport) /\ Followed(store.saved, store.epoch)

AtEngine ==
  job.step = "engine" =>
    /\ job.event \in store.saved /\ Body[job.event].epoch = store.epoch
    /\ Body[job.event].bad \in {"none", "engine"} /\ store.epoch = job.old
    /\ Body[job.event].parents \subseteq store.saved \ {job.event}
    /\ Kept(store.saved \ {job.event}, store.epoch, store.lamport)
    /\ Followed(store.saved \ {job.event}, store.epoch)

AtIndex ==
  job.step = "index" =>
    /\ job.event \in store.saved /\ Body[job.event].epoch = job.old
    /\ Closed(store.saved) /\ Closed(store.saved \ {job.event})
    /\ engine = InEpoch(store.saved, job.old)
    /\ store.epoch = job.old => ~Seals(engine)
    /\ index.epoch = job.old /\ ctx = [gas |-> job.old, keys |-> job.old]
    /\ Indexes(index, engine \ {job.event}) /\ Height(store.lamport, engine \ {job.event})

AtSwitch ==
  /\ job.step \in {"index", "switch", "keys"} =>
       Closed(store.saved) /\ \A e \in store.saved : Body[e].epoch <= job.old
  /\ job.step \in {"switch", "keys"} => store.epoch = job.old + 1
  /\ job.step = "switch" =>
       index.epoch = job.old /\ ctx = [gas |-> job.old, keys |-> job.old] /\ engine \subseteq store.saved
  /\ job.step = "keys" =>
       /\ index = NoIndex(store.epoch) /\ engine = {} /\ store.lamport = 0
       /\ ctx = [gas |-> store.epoch, keys |-> job.old]

OnDisk ==
  /\ Kept(disk.saved, disk.epoch, disk.lamport)
  /\ job = Idle => disk.epoch = store.epoch
  /\ job # Idle => disk.epoch = job.old /\ store.epoch \in {job.old, job.old + 1}

IInv ==
  /\ Types /\ Workers /\ Checked /\ Blamed
  /\ Settled /\ AtEngine /\ AtIndex /\ AtSwitch /\ OnDisk

----------------------------------------------------------------------------
(* Numbers and finite sets *)

\* A set of numbers has a least one (WFMin over the well-founded order of Nat).
LEMMA LeastNat ==
  ASSUME NEW T \in SUBSET Nat, T # {}
  PROVE  \E x \in T : \A y \in T : x <= y
<1> DEFINE R == OpToRel(<, Nat)
<1>1. IsWellFoundedOn(R, Nat)
  BY NatLessThanWellFounded
<1>2. \A x, y \in Nat : y < x => <<y, x>> \in R
  BY DEF OpToRel
<1> HIDE DEF R
<1>3. PICK x \in T : \A y \in T : ~(<<y, x>> \in R)
  BY <1>1, WFMin
<1>4. ASSUME NEW y \in T
      PROVE  x <= y
  <2>1. x \in Nat /\ y \in Nat /\ ~(<<y, x>> \in R)
    BY <1>3
  <2>2. ~(y < x)
    BY <1>2, <2>1, Zenon
  <2>3. QED
    BY <2>1, <2>2
<1>5. QED
  BY <1>4

\* A finite set of numbers that is not empty has a greatest one: take a smallest set that has
\* none, and remove an element.
LEMMA Greatest ==
  ASSUME NEW S \in SUBSET Nat, IsFiniteSet(S), S # {}
  PROVE  \E x \in S : \A y \in S : x >= y
<1> DEFINE Without(U) == \A x \in U : \E y \in U : ~(x >= y)
           T == {n \in Nat : \E U \in SUBSET Nat : /\ IsFiniteSet(U) /\ U # {}
                                                  /\ Without(U) /\ Cardinality(U) = n}
<1>1. SUFFICES ASSUME Without(S)
               PROVE  FALSE
  OBVIOUS
<1>2. Cardinality(S) \in T
  BY <1>1, FS_CardinalityType
<1>3. PICK n \in T : \A k \in T : n <= k
  BY <1>2, LeastNat
<1>4. PICK U \in SUBSET Nat : /\ IsFiniteSet(U) /\ U # {}
                              /\ Without(U) /\ Cardinality(U) = n
  BY <1>3
<1>5. PICK x \in U : TRUE
  BY <1>4
<1>6. /\ IsFiniteSet(U \ {x}) /\ Cardinality(U \ {x}) = n - 1
      /\ Cardinality(U \ {x}) \in Nat
  BY <1>4, <1>5, FS_RemoveElement, FS_CardinalityType
<1>7. U \ {x} # {}
  <2>1. x >= x
    BY <1>4, <1>5
  <2>2. \E y \in U : ~(x >= y)
    BY <1>4, <1>5
  <2>3. QED
    BY <2>1, <2>2
<1>8. ~Without(U \ {x})
  <2>1. SUFFICES ASSUME Without(U \ {x})
                 PROVE  FALSE
    OBVIOUS
  <2>2. n - 1 \in T
    BY <1>4, <1>6, <1>7, <2>1
  <2>3. n \in Nat /\ n <= n - 1
    BY <1>3, <2>2
  <2>4. QED
    BY <2>3
<1>9. PICK m \in U \ {x} : \A y \in U \ {x} : m >= y
  BY <1>8
<1>10. x \in Nat /\ m \in Nat /\ \A y \in U : y \in Nat
  BY <1>4, <1>5, <1>9
<1>11. CASE x >= m
  <2>1. \A y \in U : x >= y
    BY <1>9, <1>10, <1>11
  <2>2. QED
    BY <1>4, <1>5, <2>1
<1>12. CASE m >= x
  <2>1. \A y \in U : m >= y
    BY <1>9, <1>10, <1>12
  <2>2. QED
    BY <1>4, <1>9, <2>1
<1>13. QED
  BY <1>10, <1>11, <1>12

\* So Max is what it says.
LEMMA MaxIs ==
  ASSUME NEW S \in SUBSET Nat, IsFiniteSet(S), S # {}
  PROVE  Max(S) \in S /\ \A y \in S : Max(S) >= y
BY Greatest, Zenon DEF Max

\* A greatest element is the only one.
LEMMA MaxUnique ==
  ASSUME NEW S \in SUBSET Nat, NEW m \in S, \A y \in S : y <= m
  PROVE  Max(S) = m
<1>1. \A y \in S : m >= y
  OBVIOUS
<1>2. Max(S) \in S /\ \A y \in S : Max(S) >= y
  BY <1>1, Zenon DEF Max
<1>3. Max(S) >= m /\ m >= Max(S) /\ m \in Nat /\ Max(S) \in Nat
  BY <1>1, <1>2
<1>4. QED
  BY <1>3

----------------------------------------------------------------------------
(* The reprocessing of an epoch's events *)

Base(d) == [index |-> NoIndex(d.epoch), lamport |-> d.lamport]

Step(d, e, r) == Indexed(r.lamport, r.index, e, d.epoch)

\* One step of the fold, with what it has made of smaller sets
Folded(d, g, s) == IF s = {} THEN Base(d) ELSE Step(d, Max(s), g[s \ {Max(s)}])

Fold(d) == CHOOSE g : g = [s \in SUBSET InEpoch(d.saved, d.epoch) |-> Folded(d, g, s)]

\* What Reprocessed is, without the folding operator.
LEMMA ReprocessedIs ==
  ASSUME NEW d
  PROVE  Reprocessed(d) = Fold(d)[InEpoch(d.saved, d.epoch)]
BY Zenon DEF Reprocessed, MapThenFoldSet, Fold, Folded, Base, Step

\* There is a function that makes each of its values from those of smaller sets: for sets of up to
\* n events, by one more each time.
LEMMA FoldDefined ==
  ASSUME NEW d, NEW D, D = InEpoch(d.saved, d.epoch), D \subseteq Nat, IsFiniteSet(D)
  PROVE  \A s \in SUBSET D : Fold(d)[s] = Folded(d, Fold(d), s)
<1> DEFINE Small(n) == {s \in SUBSET D : Cardinality(s) <= n}
           Exists(n) == \E g : g = [s \in Small(n) |-> Folded(d, g, s)]
           T == {n \in Nat : ~Exists(n)}
<1>1. \A s \in SUBSET D : /\ IsFiniteSet(s) /\ s \in SUBSET Nat
                          /\ Cardinality(s) \in Nat /\ Cardinality(s) <= Cardinality(D)
  BY FS_Subset, FS_CardinalityType
<1>2. \A s \in SUBSET D : s # {} =>
        /\ Max(s) \in s
        /\ s \ {Max(s)} \in SUBSET D
        /\ Cardinality(s \ {Max(s)}) = Cardinality(s) - 1
  <2>1. SUFFICES ASSUME NEW s \in SUBSET D, s # {}
                 PROVE  /\ Max(s) \in s
                        /\ s \ {Max(s)} \in SUBSET D
                        /\ Cardinality(s \ {Max(s)}) = Cardinality(s) - 1
    OBVIOUS
  <2>2. IsFiniteSet(s) /\ s \in SUBSET Nat
    BY <1>1
  <2>3. Max(s) \in s
    BY <2>1, <2>2, MaxIs
  <2>4. QED
    BY <2>2, <2>3, FS_RemoveElement
<1>3. Exists(0)
  <2>1. \A s \in Small(0) : s = {}
    BY <1>1, FS_EmptySet
  <2> DEFINE g == [s \in Small(0) |-> Base(d)]
  <2>2. \A s \in Small(0) : Base(d) = Folded(d, g, s)
    BY <2>1 DEF Folded
  <2>3. g = [s \in Small(0) |-> Folded(d, g, s)]
    BY <2>2, Zenon
  <2>4. QED
    BY <2>3, Zenon
<1>4. ASSUME NEW n \in Nat, Exists(n)
      PROVE  Exists(n + 1)
  <2>1. PICK g : g = [s \in Small(n) |-> Folded(d, g, s)]
    BY <1>4, Zenon
  <2> DEFINE h == [s \in Small(n + 1) |-> Folded(d, g, s)]
  <2>2. \A s \in Small(n) : s \in Small(n + 1)
    BY <1>1
  <2>3. \A s \in Small(n) : h[s] = g[s]
    <3>1. SUFFICES ASSUME NEW s \in Small(n)
                   PROVE  h[s] = g[s]
      OBVIOUS
    <3>2. g[s] = Folded(d, g, s)
      <4> HIDE DEF Small, h
      <4>1. DOMAIN g = Small(n)
        BY <2>1, Zenon
      <4>2. QED
        BY <2>1, <3>1, Zenon
    <3>3. s \in Small(n + 1)
      BY <2>2
    <3>4. QED
      BY <3>2, <3>3, Zenon
  <2>4. \A s \in Small(n + 1) : s # {} => s \ {Max(s)} \in Small(n)
    BY <1>1, <1>2
  <2>5. \A s \in Small(n + 1) : Folded(d, g, s) = Folded(d, h, s)
    <3> HIDE DEF h, Small
    <3>1. QED
      BY <2>3, <2>4, Zenon DEF Folded
  <2>6. h = [s \in Small(n + 1) |-> Folded(d, h, s)]
    BY <2>5, Zenon
  <2>7. QED
    BY <2>6, Zenon
<1> HIDE DEF Exists, Small
<1>5. T = {}
  <2>1. SUFFICES ASSUME T # {}
                 PROVE  FALSE
    OBVIOUS
  <2>2. PICK n \in T : \A k \in T : n <= k
    BY <2>1, LeastNat
  <2>3. n \in Nat /\ ~Exists(n)
    BY <2>2
  <2>4. CASE n = 0
    BY <1>3, <2>3, <2>4
  <2>5. CASE n # 0
    <3>1. n - 1 \in Nat /\ (n - 1) + 1 = n
      BY <2>3, <2>5
    <3>2. ~Exists(n - 1)
      BY <1>4, <2>3, <3>1
    <3>3. n - 1 \in T
      BY <3>1, <3>2
    <3>4. QED
      BY <2>2, <2>3, <3>3
  <2>6. QED
    BY <2>4, <2>5
<1>6. Exists(Cardinality(D))
  BY <1>5, FS_CardinalityType
<1>7. Small(Cardinality(D)) = SUBSET D
  BY <1>1 DEF Small
<1>8. \E g : g = [s \in SUBSET D |-> Folded(d, g, s)]
  BY <1>6, <1>7, Zenon DEF Exists
<1>9. Fold(d) = [s \in SUBSET D |-> Folded(d, Fold(d), s)]
  BY <1>8, Zenon DEF Fold
<1> DEFINE F == Fold(d)
<1>10. F = [s \in SUBSET D |-> Folded(d, F, s)]
  BY <1>9
<1> HIDE DEF F
<1>11. \A s \in SUBSET D : F[s] = Folded(d, F, s)
  <2>1. DOMAIN F = SUBSET D
    BY <1>10, Zenon
  <2>2. QED
    BY <1>10, <2>1, Zenon
<1>12. QED
  BY <1>11 DEF F

----------------------------------------------------------------------------
(* An event is added to the index *)

\* What DagEventsAssumption says, in the form in which it is used.
LEMMA Bodies ==
  /\ Event \subseteq Nat /\ Own \subseteq Event
  /\ \A e \in Event : /\ Body[e].parents \subseteq Event
                      /\ Body[e].bad \in {"none", "light", "heavy", "parents", "engine"}
                      /\ Body[e].epoch \in Nat /\ Body[e].lamport \in Nat
  /\ \A e \in Event : \A p \in Body[e].parents : p < e /\ Body[p].epoch = Body[e].epoch
  /\ \A e \in Event : Valid(e) =>
       \A p, q \in Body[e].parents :
         Body[p].creator = Body[e].creator /\ Body[q].creator = Body[e].creator => p = q
  /\ \A e \in Own : Valid(e)
  /\ \A s \in Sealing : s # {}
  /\ MaxLamportDiff \in Nat /\ UpgradeEpoch \in Nat /\ MaxCrashes \in Nat
  /\ QueueLimit \in Nat \ {0}
BY DagEventsAssumption, Zenon DEF Valid

\* An event can be added to a set that has its parents.
Fits(S, e) ==
  S \subseteq Event /\ Closed(S) /\ e \in Event \ S /\ Valid(e) /\ Body[e].parents \subseteq S

\* It becomes a head, and its parents are none any more.
LEMMA AddHead ==
  ASSUME NEW S, NEW e, Fits(S, e)
  PROVE  ProcessEventHeads(Heads(S), e) = Heads(S \cup {e})
<1>1. \A f \in S : e \notin Body[f].parents
  BY DEF Fits, Closed
<1>2. e \notin Body[e].parents
  BY DEF Fits
<1>3. QED
  BY <1>1, <1>2 DEF Fits, ProcessEventHeads, Heads

\* It is the last one of its creator: of a chain it is the new end, unless there is another child of
\* its self-parent, or another first event, which makes it a fork.
LEMMA AddOwn ==
  ASSUME NEW S, NEW e, Fits(S, e), NEW l, l \in By(S, Body[e].creator),
         Forked(By(S, Body[e].creator)) \/ Chain(l, By(S, Body[e].creator))
  PROVE  \/ Forked(By(S \cup {e}, Body[e].creator))
         \/ Chain(e, By(S \cup {e}, Body[e].creator))
<1> DEFINE c == Body[e].creator
           of == By(S, c)
           new == By(S \cup {e}, c)
<1>1. new = of \cup {e} /\ e \notin of
  BY DEF By, Fits
<1>2. \A f \in of : Body[f].parents \cap new = Body[f].parents \cap of
  <2>1. \A f \in of : f \in S /\ Body[f].parents \subseteq S
    BY DEF By, Fits, Closed
  <2>2. e \notin S
    BY DEF Fits
  <2> HIDE DEF of, new
  <2>3. QED
    BY <1>1, <2>1, <2>2
<1>3. Body[e].parents \cap new = Body[e].parents \cap of
  <2>1. e \notin Body[e].parents
    BY DEF Fits
  <2> HIDE DEF of, new
  <2>2. QED
    BY <1>1, <2>1
<1>4. \A p, q \in Body[e].parents \cap of : p = q
  BY Bodies DEF By, Fits
<1>5. of \subseteq Nat /\ e \in Nat /\ \A p \in Body[e].parents \cap of : p < e
  BY Bodies DEF By, Fits
<1>6. l \in of /\ (Forked(of) \/ Chain(l, of))
  OBVIOUS
<1> HIDE DEF of, new, c
<1>7. CASE Forked(of)
  <2>1. Forked(new)
    BY <1>1, <1>2, <1>7 DEF Forked
  <2>2. QED
    BY <2>1 DEF new, c
<1>8. CASE Chain(l, of)
  <2>1. CASE Body[e].parents \cap of = {}
    <3>1. PICK r \in of : Body[r].parents \cap of = {}
      BY <1>8 DEF Chain
    <3>2. r \in new /\ e \in new /\ r # e /\ Body[r].parents \cap new = Body[e].parents \cap new
      BY <1>1, <1>2, <1>3, <2>1, <3>1
    <3>3. Forked(new)
      BY <3>2 DEF Forked
    <3>4. QED
      BY <3>3 DEF new, c
  <2>2. CASE Body[e].parents \cap of # {}
    <3>1. PICK p \in of : Body[e].parents \cap of = {p}
      BY <1>4, <2>2
    <3>2. CASE p = l
      <4>1. \A f \in new : f <= e
        <5>1. \A f \in of : f <= l
          BY <1>8 DEF Chain
        <5>2. l < e
          BY <1>5, <3>1, <3>2
        <5>3. QED
          BY <1>1, <1>5, <1>6, <5>1, <5>2
      <4>2. \E f \in new : Body[f].parents \cap new = {}
        BY <1>1, <1>2, <1>8 DEF Chain
      <4>3. ASSUME NEW x \in new \ {e}
            PROVE  \E f \in new : Body[f].parents \cap new = {x}
        <5>1. CASE x = l
          BY <1>1, <1>3, <3>1, <3>2, <5>1
        <5>2. CASE x # l
          <6>1. x \in of \ {l}
            BY <1>1, <5>2
          <6>2. PICK f \in of : Body[f].parents \cap of = {x}
            BY <1>8, <6>1 DEF Chain
          <6>3. QED
            BY <1>1, <1>2, <6>2
        <5>3. QED
          BY <5>1, <5>2
      <4>4. Chain(e, new)
        BY <4>1, <4>2, <4>3 DEF Chain
      <4>5. QED
        BY <4>4 DEF new, c
    <3>3. CASE p # l
      <4>1. PICK f \in of : Body[f].parents \cap of = {p}
        BY <1>8, <3>1, <3>3 DEF Chain
      <4>2. f \in new /\ e \in new /\ f # e /\ Body[f].parents \cap new = Body[e].parents \cap new
        BY <1>1, <1>2, <1>3, <3>1, <4>1
      <4>3. Forked(new)
        BY <4>2 DEF Forked
      <4>4. QED
        BY <4>3 DEF new, c
    <3>4. QED
      BY <3>2, <3>3
  <2>3. QED
    BY <2>1, <2>2
<1>9. QED
  BY <1>6, <1>7, <1>8

\* A creator's first event is its last one.
LEMMA AddFirst ==
  ASSUME NEW S, NEW e, Fits(S, e), By(S, Body[e].creator) = {}
  PROVE  Chain(e, By(S \cup {e}, Body[e].creator))
<1> DEFINE new == By(S \cup {e}, Body[e].creator)
<1>1. new = {e}
  BY DEF By, Fits
<1>2. e \in Nat /\ Body[e].parents \cap new = {}
  <2>1. e \notin Body[e].parents
    BY DEF Fits
  <2>2. QED
    BY <1>1, <2>1, Bodies DEF Fits
<1> HIDE DEF new
<1>3. Chain(e, new)
  BY <1>1, <1>2 DEF Chain
<1>4. QED
  BY <1>3 DEF new

\* The last events of all creators: that of the event's own changes, and no other.
LEMMA AddLast ==
  ASSUME NEW S, NEW e, Fits(S, e), NEW lasts, Lasts(lasts, S)
  PROVE  Lasts(ProcessLastEvent(lasts, e), S \cup {e})
<1> DEFINE c == Body[e].creator
           new == ProcessLastEvent(lasts, e)
<1>1. /\ DOMAIN new = DOMAIN lasts \cup {c}
      /\ new = [a \in DOMAIN new |-> new[a]]
      /\ \A a \in DOMAIN new : new[a] = IF a = c THEN e ELSE lasts[a]
  BY DEF ProcessLastEvent
<1>2. DOMAIN lasts = {Body[f].creator : f \in S}
  BY DEF Lasts
<1>3. DOMAIN new = {Body[f].creator : f \in S \cup {e}}
  <2>1. {Body[f].creator : f \in S \cup {e}} = {Body[f].creator : f \in S} \cup {c}
    BY Zenon
  <2>2. QED
    BY <1>1, <1>2, <2>1
<1>4. e \in By(S \cup {e}, c)
  BY DEF By
<1>5. ASSUME NEW a \in DOMAIN new
      PROVE  /\ new[a] \in By(S \cup {e}, a)
             /\ Forked(By(S \cup {e}, a)) \/ Chain(new[a], By(S \cup {e}, a))
  <2>1. CASE a # c
    <3>1. a \in DOMAIN lasts /\ new[a] = lasts[a]
      BY <1>1, <2>1
    <3>2. By(S \cup {e}, a) = By(S, a)
      BY <2>1 DEF By
    <3>3. QED
      BY <3>1, <3>2 DEF Lasts
  <2>2. CASE a = c /\ c \in DOMAIN lasts
    <3>1. /\ lasts[c] \in By(S, c)
          /\ Forked(By(S, c)) \/ Chain(lasts[c], By(S, c))
      BY <2>2 DEF Lasts
    <3>2. new[a] = e
      BY <1>1, <2>2
    <3>3. QED
      BY <1>4, <2>2, <3>1, <3>2, AddOwn
  <2>3. CASE a = c /\ c \notin DOMAIN lasts
    <3>1. By(S, c) = {}
      BY <1>2, <2>3 DEF By
    <3>2. new[a] = e
      BY <1>1, <2>3
    <3>3. QED
      BY <1>4, <2>3, <3>1, <3>2, AddFirst
  <2>4. QED
    BY <2>1, <2>2, <2>3
<1> HIDE DEF new, c
<1>6. Lasts(new, S \cup {e})
  BY <1>1, <1>3, <1>5 DEF Lasts
<1>7. QED
  BY <1>6 DEF new

\* The highest Lamport time of the epoch
LEMMA AddHeight ==
  ASSUME NEW S \in SUBSET Event, NEW e \in Event, NEW h \in Nat, Height(h, S)
  PROVE  Height(IF Body[e].lamport > h THEN Body[e].lamport ELSE h, S \cup {e})
<1>1. Body[e].lamport \in Nat /\ \A f \in S : Body[f].lamport \in Nat
  BY Bodies
<1>2. CASE Body[e].lamport > h
  <2>1. \A f \in S \cup {e} : Body[f].lamport <= Body[e].lamport
    BY <1>1, <1>2 DEF Height
  <2>2. QED
    BY <1>2, <2>1 DEF Height
<1>3. CASE ~(Body[e].lamport > h)
  <2>1. \A f \in S \cup {e} : Body[f].lamport <= h
    BY <1>1, <1>3 DEF Height
  <2>2. h \in {0} \cup {Body[f].lamport : f \in S \cup {e}}
    BY DEF Height
  <2>3. QED
    BY <1>3, <2>1, <2>2 DEF Height
<1>4. QED
  BY <1>2, <1>3

IsIndex(i) == i = [epoch |-> i.epoch, heads |-> i.heads, lasts |-> i.lasts]

\* The highest Lamport time after event e, in epoch n
Reached(h, e, n) ==
  IF n # Body[e].epoch THEN 0 ELSE IF Body[e].lamport > h THEN Body[e].lamport ELSE h

\* processEventEpochIndex, whatever the epoch has become
LEMMA IndexedForm ==
  ASSUME NEW e, NEW h, NEW i, IsIndex(i), NEW n
  PROVE  /\ Indexed(h, i, e, n).index =
              [epoch |-> i.epoch, heads |-> ProcessEventHeads(i.heads, e),
               lasts |-> ProcessLastEvent(i.lasts, e)]
         /\ Indexed(h, i, e, n).lamport = Reached(h, e, n)
<1>1. /\ Indexed(h, i, e, n).index = [i EXCEPT !.heads = ProcessEventHeads(i.heads, e),
                                               !.lasts = ProcessLastEvent(i.lasts, e)]
      /\ Indexed(h, i, e, n).lamport = Reached(h, e, n)
  BY DEF Indexed, Reached
<1>2. QED
  BY <1>1 DEF IsIndex

\* Its index is that of one event more.
LEMMA IndexedIs ==
  ASSUME NEW S, NEW e, Fits(S, e), NEW h, NEW i, IsIndex(i), Indexes(i, S), NEW n
  PROVE  /\ IsIndex(Indexed(h, i, e, n).index)
         /\ Indexes(Indexed(h, i, e, n).index, S \cup {e})
<1>1. Indexed(h, i, e, n).index =
        [epoch |-> i.epoch, heads |-> ProcessEventHeads(i.heads, e),
         lasts |-> ProcessLastEvent(i.lasts, e)]
  BY IndexedForm
<1>2. QED
  BY <1>1, AddHead, AddLast DEF Indexes, IsIndex

\* A new epoch's index is that of no events.
LEMMA NothingIndexed ==
  ASSUME NEW n
  PROVE  IsIndex(NoIndex(n)) /\ NoIndex(n).epoch = n /\ Indexes(NoIndex(n), {})
BY DEF IsIndex, NoIndex, Indexes, Heads, Lasts

\* ReprocessEpochEvents rebuilds the index of the epoch's committed events, whatever order they
\* were connected in before: events that are lower come before, so that parents do.
LEMMA ReprocessedRight ==
  ASSUME NEW d \in Stores, IsFiniteSet(d.saved), Kept(d.saved, d.epoch, d.lamport)
  PROVE  /\ IsIndex(Reprocessed(d).index) /\ Reprocessed(d).index.epoch = d.epoch
         /\ Indexes(Reprocessed(d).index, InEpoch(d.saved, d.epoch))
         /\ Reprocessed(d).lamport = d.lamport
<1> DEFINE D == InEpoch(d.saved, d.epoch)
           F == Fold(d)
           Right1(s) == /\ IsIndex(F[s].index) /\ F[s].index.epoch = d.epoch
                        /\ Indexes(F[s].index, s) /\ F[s].lamport = d.lamport
           Lower(s) == \A x \in s : \A y \in D : y < x => y \in s
           T == {n \in Nat : \E s \in SUBSET D : Lower(s) /\ ~Right1(s) /\ Cardinality(s) = n}
<1>1. D \subseteq Event /\ Event \subseteq Nat /\ D \subseteq Nat /\ IsFiniteSet(D)
  <2>1. D \subseteq d.saved /\ d.saved \subseteq Event
    BY DEF InEpoch, Stores
  <2> HIDE DEF D
  <2>2. QED
    BY <2>1, Bodies, FS_Subset
<1>2. \A e \in D : /\ Valid(e) /\ Body[e].epoch = d.epoch /\ Body[e].lamport <= d.lamport
                   /\ \A p \in Body[e].parents : p \in D /\ p < e
  <2>1. \A e \in D : Valid(e) /\ Body[e].epoch = d.epoch /\ Body[e].parents \subseteq d.saved
    BY DEF Kept, Closed, InEpoch
  <2>2. \A e \in D : Body[e].lamport <= d.lamport
    BY DEF Kept, Height
  <2>3. \A e \in D : \A p \in Body[e].parents : p \in D /\ p < e
    BY <1>1, <2>1, Bodies DEF InEpoch
  <2>4. QED
    BY <2>1, <2>2, <2>3
<1>3. \A s \in SUBSET D : F[s] = Folded(d, F, s)
  <2>1. D = InEpoch(d.saved, d.epoch)
    OBVIOUS
  <2> HIDE DEF D
  <2>2. QED
    BY <1>1, <2>1, FoldDefined
<1> HIDE DEF D, F
<1>4. Right1({})
  <2>1. F[{}] = Base(d)
    BY <1>3 DEF Folded
  <2>2. F[{}].index = NoIndex(d.epoch) /\ F[{}].lamport = d.lamport
    BY <2>1 DEF Base
  <2>3. QED
    BY <2>2, NothingIndexed
<1>5. ASSUME NEW s \in SUBSET D, s # {}, Lower(s), NEW m, m = Max(s),
             Lower(s \ {m}) => Right1(s \ {m})
      PROVE  Right1(s)
  <2> DEFINE t == s \ {m}
  <2>1. m \in s /\ \A y \in s : m >= y
    BY <1>1, <1>5, MaxIs, FS_Subset
  <2>2. Lower(t)
    <3>1. SUFFICES ASSUME NEW x \in t, NEW y \in D, y < x
                   PROVE  y \in t
      OBVIOUS
    <3>2. y \in s
      BY <1>5, <3>1
    <3>3. x \in Nat /\ y \in Nat /\ m \in Nat /\ m >= x
      BY <1>1, <2>1
    <3>4. y # m
      BY <3>1, <3>3
    <3>5. QED
      BY <3>2, <3>4
  <2>3. Right1(t)
    BY <1>5, <2>2
  <2>4. Fits(t, m)
    <3>1. t \subseteq Event /\ m \in Event \ t /\ Valid(m)
      BY <1>1, <1>2, <2>1
    <3>2. \A x \in t : Body[x].parents \subseteq t
      BY <1>2, <2>2
    <3>3. Closed(t)
      BY <1>2, <3>2 DEF Closed
    <3>4. Body[m].parents \subseteq t
      <4>1. \A p \in Body[m].parents : p \in D /\ p < m
        BY <1>2, <2>1
      <4>2. ASSUME NEW p \in Body[m].parents
            PROVE  p \in s \ {m}
        <5>1. p \in D /\ p < m /\ m \in s /\ p \in Nat /\ m \in Nat
          BY <1>1, <2>1, <4>1
        <5>2. p \in s
          BY <1>5, <5>1
        <5>3. p # m
          BY <5>1
        <5>4. QED
          BY <5>2, <5>3
      <4>3. QED
        BY <4>2
    <3>5. QED
      BY <3>1, <3>3, <3>4 DEF Fits
  <2>5. F[s] = Indexed(F[t].lamport, F[t].index, m, d.epoch)
    <3>1. F[s] = Folded(d, F, s)
      BY <1>3
    <3>2. F[s] = Step(d, m, F[t])
      BY <1>5, <3>1, Zenon DEF Folded
    <3>3. QED
      BY <3>2 DEF Step
  <2>6. s = t \cup {m}
    BY <2>1
  <2> HIDE DEF t
  <2>7. /\ IsIndex(F[s].index) /\ F[s].index.epoch = d.epoch
        /\ Indexes(F[s].index, t \cup {m})
        /\ F[s].lamport = Reached(d.lamport, m, d.epoch)
    <3>1. F[s] = Indexed(d.lamport, F[t].index, m, d.epoch)
      BY <2>3, <2>5
    <3>2. IsIndex(F[t].index) /\ F[t].index.epoch = d.epoch /\ Indexes(F[t].index, t)
      BY <2>3
    <3> DEFINE i == F[t].index
               r == Indexed(d.lamport, i, m, d.epoch)
    <3> HIDE DEF i
    <3>3. /\ IsIndex(r.index) /\ r.index.epoch = i.epoch
          /\ Indexes(r.index, t \cup {m})
          /\ r.lamport = Reached(d.lamport, m, d.epoch)
      <4>1. IsIndex(i) /\ Indexes(i, t)
        BY <3>2 DEF i
      <4> HIDE DEF Right1, Lower, T
      <4>2. QED
        <5>1. Fits(t, m) /\ IsIndex(i) /\ Indexes(i, t)
          BY <2>4, <4>1
        <5> HIDE DEF t
        <5>2. IsIndex(r.index) /\ Indexes(r.index, t \cup {m})
          BY <5>1, IndexedIs
        <5>3. r.index = [epoch |-> i.epoch, heads |-> ProcessEventHeads(i.heads, m),
                         lasts |-> ProcessLastEvent(i.lasts, m)]
          BY <5>1, IndexedForm
        <5>4. r.lamport = Reached(d.lamport, m, d.epoch)
          <6> DEFINE h == d.lamport
                     n == d.epoch
          <6> HIDE DEF h, n
          <6>1. Indexed(h, i, m, n).lamport = Reached(h, m, n)
            BY <5>1, IndexedForm
          <6>2. QED
            BY <6>1 DEF h, n
        <5>5. QED
          BY <5>2, <5>3, <5>4
    <3> HIDE DEF r
    <3>4. F[s] = r /\ i.epoch = d.epoch
      BY <3>1, <3>2 DEF r, i
    <3>5. QED
      BY <3>3, <3>4
  <2>8. F[s].lamport = d.lamport
    <3>1. Body[m].epoch = d.epoch /\ Body[m].lamport <= d.lamport
      BY <1>2, <2>1
    <3>2. Body[m].lamport \in Nat /\ d.lamport \in Nat
      BY <1>1, <2>1, Bodies DEF Stores
    <3>3. QED
      BY <2>7, <3>1, <3>2 DEF Reached
  <2>9. QED
    BY <2>6, <2>7, <2>8
<1> HIDE DEF Right1, Lower
<1>6. T = {}
  <2>1. SUFFICES ASSUME T # {}
                 PROVE  FALSE
    OBVIOUS
  <2>2. PICK n \in T : \A k \in T : n <= k
    BY <2>1, LeastNat
  <2>3. PICK s \in SUBSET D : Lower(s) /\ ~Right1(s) /\ Cardinality(s) = n
    BY <2>2
  <2>4. s # {}
    BY <1>4, <2>3
  <2>5. IsFiniteSet(s) /\ Max(s) \in s
    BY <1>1, <2>4, MaxIs, FS_Subset
  <2>6. Cardinality(s \ {Max(s)}) = n - 1 /\ Cardinality(s \ {Max(s)}) \in Nat /\ n \in Nat
    BY <2>3, <2>5, FS_RemoveElement, FS_CardinalityType
  <2>7. Lower(s \ {Max(s)}) /\ ~Right1(s \ {Max(s)})
    BY <1>5, <2>3, <2>4, Zenon
  <2>8. n - 1 \in T
    BY <2>6, <2>7
  <2>9. QED
    BY <2>2, <2>6, <2>8
<1>7. Lower(D)
  BY DEF Lower
<1>8. Right1(D)
  <2>1. Cardinality(D) \in Nat
    BY <1>1, FS_CardinalityType
  <2>2. QED
    BY <1>6, <1>7, <2>1
<1>9. Reprocessed(d) = F[D]
  BY ReprocessedIs DEF F, D
<1>10. D = InEpoch(d.saved, d.epoch)
  BY DEF D
<1>11. QED
  BY <1>8, <1>9, <1>10 DEF Right1

----------------------------------------------------------------------------
(* The inserter and the queue *)

\* What is said of the store, the index and processEvent, which those who deliver leave alone
Dag == Settled /\ AtEngine /\ AtIndex /\ AtSwitch /\ OnDisk

\* What leaves the store, the index and processEvent alone
LEMMA Same ==
  ASSUME Dag, UNCHANGED <<store, disk, index, engine, ctx, job>>
  PROVE  Dag'
<1>1. /\ store' = store /\ disk' = disk /\ index' = index /\ engine' = engine /\ ctx' = ctx
      /\ job' = job
  OBVIOUS
<1>2. Settled' /\ AtEngine'
  BY <1>1 DEF Dag, Settled, AtEngine, Followed
<1>3. AtIndex' /\ AtSwitch'
  BY <1>1 DEF Dag, AtIndex, AtSwitch
<1>4. OnDisk'
  BY <1>1 DEF Dag, OnDisk
<1>5. QED
  BY <1>2, <1>3, <1>4 DEF Dag

\* Whoever is removed has sent an event with a fault, or the node waits for an upgrade.
LEMMA ReleaseIs ==
  ASSUME Blamed, dropped \subseteq Peer, NEW peer \in Peer, NEW err, Release(peer, err),
         err \in Errs \cup {"spilled", "paused"},
         err = "invalid" => peer \notin Honest, err = "paused" => store.upgrade,
         store'.upgrade = store.upgrade
  PROVE  dropped' \subseteq Peer /\ Blamed'
<1>1. CASE err \in {"invalid", "paused"}
  <2>1. dropped' \subseteq dropped \cup {peer}
    BY DEF Release
  <2>2. store.upgrade \/ peer \in Faulty
    BY <1>1 DEF Peer
  <2>3. QED
    BY <2>1, <2>2 DEF Blamed
<1>2. CASE err \notin {"invalid", "paused"}
  <2>1. ~IsBan(err)
    BY <1>2 DEF IsBan, Errs
  <2>2. dropped' = dropped
    BY <2>1 DEF Release
  <2>3. QED
    BY <2>2 DEF Blamed
<1>3. QED
  BY <1>1, <1>2

\* lightCheck calls invalid only what is.
LEMMA LightCheckIs ==
  ASSUME NEW e
  PROVE  /\ LightCheck(e) \in Errs
         /\ LightCheck(e) = "invalid" => ~Valid(e)
         /\ LightCheck(e) = "none" => Body[e].bad # "light"
BY DEF LightCheck, Errs, Valid

Entries == [event : Event, peer : Peer, err : Errs, heavy : BOOLEAN]

\* An event arrives: it is sound as its peer is.
LEMMA HandleEventsStep ==
  ASSUME IInv, NEW p \in Peer, NEW e \in Event, HandleEvents(p, e)
  PROVE  IInv'
<1> DEFINE x == [event |-> e, peer |-> p, err |-> LightCheck(e), heavy |-> LightCheck(e) = "none"]
<1>1. /\ UNCHANGED <<store, disk, index, engine, ctx, job>>
      /\ UNCHANGED <<buffer, task, clears, sent, dropped, crashes>>
      /\ queue' = Append(queue, x) /\ Len(queue) < QueueLimit /\ (Valid(e) <=> p \in Honest)
  BY DEF HandleEvents
<1>2. x \in Entries
  BY LightCheckIs DEF Entries
<1>3. queue \in Seq(Entries)
  BY DEF IInv, Types, Entries
<1>4. /\ queue' \in Seq(Entries) /\ Len(queue') = Len(queue) + 1
      /\ \A i \in 1 .. Len(queue) : queue'[i] = queue[i]
      /\ queue'[Len(queue) + 1] = x
      /\ DOMAIN queue = 1 .. Len(queue) /\ DOMAIN queue' = 1 .. Len(queue')
      /\ Len(queue) \in Nat
  <2> HIDE DEF x
  <2>1. QED
    BY <1>1, <1>2, <1>3
<1>5. Sound(x)
  BY <1>1, LightCheckIs DEF From, Sound
<1>6. Checked'
  <2>1. ASSUME NEW i \in DOMAIN queue'
        PROVE  Sound(queue'[i])
    <3>1. i \in 1 .. Len(queue) \/ i = Len(queue) + 1
      BY <1>4
    <3>2. CASE i \in 1 .. Len(queue)
      <4>1. queue'[i] = queue[i] /\ i \in DOMAIN queue
        BY <1>4, <3>2
      <4>2. QED
        BY <4>1 DEF IInv, Checked
    <3>3. CASE i = Len(queue) + 1
      <4>1. queue'[i] = x
        BY <1>4, <3>3
      <4> HIDE DEF x
      <4>2. QED
        BY <1>5, <4>1
    <3>4. QED
      BY <3>1, <3>2, <3>3
  <2>2. \A y \in buffer' : From(y) /\ Body[y.event].bad \notin {"light", "heavy"}
    BY <1>1 DEF IInv, Checked
  <2>3. task'.step = "process" =>
          /\ From(task'.x) /\ Body[task'.x.event].bad \in {"none", "engine"}
          /\ Body[task'.x.event].parents \subseteq store'.saved
    BY <1>1 DEF IInv, Checked, Complete
  <2>4. QED
    BY <2>1, <2>2, <2>3 DEF Checked, Complete
<1>7. Types'
  <2>1. queue' \in Seq(Entries) /\ Len(queue') <= QueueLimit
    BY <1>1, <1>4, Bodies
  <2>2. QED
    BY <1>1, <2>1 DEF IInv, Types, Entries
<1>8. Workers' /\ Blamed'
  BY <1>1 DEF IInv, Workers, Blamed
<1>9. Dag'
  BY <1>1, Same DEF IInv, Dag
<1>10. QED
  BY <1>6, <1>7, <1>8, <1>9 DEF IInv, Dag

\* The result of the heavy check takes the place of its event in the queue.
LEMMA HeavyCheckStep ==
  ASSUME IInv, NEW i \in DOMAIN queue, HeavyCheck(i)
  PROVE  IInv'
<1>1. /\ UNCHANGED <<store, disk, index, engine, ctx, job>>
      /\ UNCHANGED <<buffer, task, clears, sent, dropped, crashes>>
      /\ queue[i].heavy
      /\ queue' = [queue EXCEPT ![i] =
                     [queue[i] EXCEPT !.err = ValidateEvent(queue[i].event), !.heavy = FALSE]]
  BY DEF HeavyCheck
<1>2. /\ queue \in Seq(Entries) /\ queue[i] \in Entries /\ DOMAIN queue = 1 .. Len(queue)
      /\ Len(queue) <= QueueLimit /\ Len(queue) \in Nat
  <2>1. queue \in Seq(Entries) /\ Len(queue) <= QueueLimit
    BY DEF IInv, Types, Entries
  <2>2. QED
    BY <2>1
<1> DEFINE err == ValidateEvent(queue[i].event)
           x == [queue[i] EXCEPT !.err = err, !.heavy = FALSE]
<1>3. err \in Errs
  BY DEF ValidateEvent, Errs
<1>4. x \in Entries /\ x.event = queue[i].event /\ x.peer = queue[i].peer /\ x.err = err /\ ~x.heavy
  <2> HIDE DEF err
  <2>1. \A y \in Entries : /\ [y EXCEPT !.err = err, !.heavy = FALSE] \in Entries
                          /\ [y EXCEPT !.err = err, !.heavy = FALSE].event = y.event
                          /\ [y EXCEPT !.err = err, !.heavy = FALSE].peer = y.peer
                          /\ [y EXCEPT !.err = err, !.heavy = FALSE].err = err
                          /\ ~[y EXCEPT !.err = err, !.heavy = FALSE].heavy
    BY <1>3 DEF Entries
  <2>2. QED
    BY <1>2, <2>1
<1>5. queue' = [queue EXCEPT ![i] = x]
  BY <1>1
<1>6. /\ queue' \in Seq(Entries) /\ Len(queue') = Len(queue) /\ DOMAIN queue' = DOMAIN queue
      /\ queue'[i] = x /\ \A k \in DOMAIN queue \ {i} : queue'[k] = queue[k]
  <2> HIDE DEF x
  <2>1. QED
    BY <1>2, <1>4, <1>5
<1>7. Sound(x)
  <2>1. Sound(queue[i])
    BY DEF IInv, Checked
  <2>2. err = "invalid" => ~Valid(queue[i].event)
    BY DEF ValidateEvent, Valid
  <2>3. err = "none" => Body[queue[i].event].bad # "heavy"
    BY DEF ValidateEvent
  <2>4. Body[queue[i].event].bad # "light"
    BY <1>1, <2>1 DEF Sound
  <2> HIDE DEF x, err
  <2>5. QED
    BY <1>4, <2>1, <2>2, <2>3, <2>4 DEF Sound, From
<1>8. Checked'
  <2>1. ASSUME NEW k \in DOMAIN queue'
        PROVE  Sound(queue'[k])
    <3> HIDE DEF x
    <3>1. CASE k = i
      BY <1>6, <1>7, <3>1
    <3>2. CASE k # i
      <4>1. k \in DOMAIN queue /\ queue'[k] = queue[k]
        BY <1>6, <3>2
      <4>2. QED
        BY <4>1 DEF IInv, Checked
    <3>3. QED
      BY <3>1, <3>2
  <2>2. \A y \in buffer' : From(y) /\ Body[y.event].bad \notin {"light", "heavy"}
    BY <1>1 DEF IInv, Checked
  <2>3. task'.step = "process" =>
          /\ From(task'.x) /\ Body[task'.x.event].bad \in {"none", "engine"}
          /\ Body[task'.x.event].parents \subseteq store'.saved
    BY <1>1 DEF IInv, Checked, Complete
  <2>4. QED
    BY <2>1, <2>2, <2>3 DEF Checked, Complete
<1>9. Types'
  BY <1>1, <1>2, <1>6 DEF IInv, Types, Entries
<1>10. Workers' /\ Blamed'
  BY <1>1 DEF IInv, Workers, Blamed
<1>11. Dag'
  BY <1>1, Same DEF IInv, Dag
<1>12. QED
  BY <1>8, <1>9, <1>10, <1>11 DEF IInv, Dag

TaskStates ==
  {Idle} \cup [step : {"process"}, x : Tasks, done : SUBSET Event]
         \cup [step : {"children"}, done : SUBSET Event]

Waits(x) == From(x) /\ Body[x.event].bad \notin {"light", "heavy"}

\* What the inserter has in its hands
Held(t) ==
  /\ t \in TaskStates
  /\ t.step = "process" =>
       /\ From(t.x) /\ Body[t.x.event].bad \in {"none", "engine"}
       /\ Body[t.x.event].parents \subseteq store.saved

\* The task that the inserter has is sound.
LEMMA HeldNow ==
  ASSUME IInv
  PROVE  Held(task)
<1>1. task \in TaskStates
  BY DEF IInv, Types, TaskStates
<1>2. QED
  BY <1>1 DEF IInv, Checked, Complete, Held

\* What the inserter does with the queue and the buffer while it is not in processEvent
LEMMA Delivery ==
  ASSUME IInv, UNCHANGED <<store, disk, index, engine, ctx, job, sent, crashes>>,
         queue' \in Seq(Entries), Len(queue') <= QueueLimit,
         \A i \in DOMAIN queue' : Sound(queue'[i]),
         buffer' \subseteq Tasks, \A x \in buffer' : Waits(x),
         Held(task'), task.step = "process" => job = Idle,
         clears' \in Nat, dropped' \subseteq Peer, Blamed'
  PROVE  IInv'
<1>1. /\ store' = store /\ disk' = disk /\ index' = index /\ job' = job
      /\ sent' = sent /\ crashes' = crashes
  OBVIOUS
<1>2. Types'
  <2>1. task' \in TaskStates
    BY DEF Held
  <2>2. QED
    BY <1>1, <2>1 DEF IInv, Types, Entries, TaskStates
<1>3. Workers'
  <2>1. job # Idle => job.by = "emitter" /\ job.event \in Own
    <3>1. job # Idle => job.by \in {"inserter", "emitter"}
      BY DEF IInv, Types
    <3>2. QED
      BY <3>1 DEF IInv, Workers
  <2>2. QED
    BY <1>1, <2>1 DEF Workers
<1>4. Checked'
  <2>1. \A x \in buffer' : From(x) /\ Body[x.event].bad \notin {"light", "heavy"}
    BY DEF Waits
  <2>2. task'.step = "process" =>
          /\ From(task'.x) /\ Body[task'.x.event].bad \in {"none", "engine"}
          /\ Body[task'.x.event].parents \subseteq store'.saved
    BY <1>1 DEF Held
  <2>3. QED
    BY <2>1, <2>2 DEF Checked, Complete
<1>5. Dag'
  BY <1>1, Same DEF IInv, Dag
<1>6. QED
  BY <1>2, <1>3, <1>4, <1>5 DEF IInv, Dag

\* An event whose parents are there is checked against them, and goes on or is refused.
LEMMA PushIs ==
  ASSUME IInv, NEW x \in Tasks, Waits(x), Complete(x.event), NEW done \in SUBSET Event,
         Push(x, done), store' = store
  PROVE  Held(task') /\ dropped' \subseteq Peer /\ Blamed'
<1> DEFINE err == IF x.event \in store.saved THEN "connected" ELSE BufferedCheck(x.event)
<1>1. err \in {"connected", "invalid", "irrelevant", "none"}
  BY DEF BufferedCheck
<1>2. err = "invalid" => x.peer \notin Honest
  BY DEF BufferedCheck, Waits, From, Valid
<1>3. err = "none" => Body[x.event].bad \in {"none", "engine"}
  <2>1. Body[x.event].bad \in {"none", "light", "heavy", "parents", "engine"}
    BY Bodies DEF Tasks
  <2>2. QED
    BY <2>1 DEF BufferedCheck, Waits
<1>4. /\ Release(x.peer, err)
      /\ task' = IF err = "none" THEN [step |-> "process", x |-> x, done |-> done]
                 ELSE IF done = {} THEN Idle ELSE [step |-> "children", done |-> done]
  BY DEF Push
<1> HIDE DEF err
<1>5. dropped' \subseteq Peer /\ Blamed'
  <2>1. x.peer \in Peer /\ dropped \subseteq Peer /\ Blamed /\ store'.upgrade = store.upgrade
    BY DEF Tasks, IInv, Types
  <2>2. err \in Errs \cup {"spilled", "paused"} /\ err # "paused"
    BY <1>1 DEF Errs
  <2>3. QED
    BY <1>2, <1>4, <2>1, <2>2, ReleaseIs
<1>6. Held(task')
  <2>1. CASE err = "none"
    <3>1. task' = [step |-> "process", x |-> x, done |-> done]
      BY <1>4, <2>1
    <3>2. task' \in TaskStates
      BY <3>1 DEF TaskStates
    <3>3. task'.x = x
      BY <3>1
    <3>4. QED
      BY <1>3, <2>1, <3>2, <3>3 DEF Held, Waits, Complete
  <2>2. CASE err # "none"
    <3>1. task' \in TaskStates /\ task'.step # "process"
      BY <1>4, <2>2 DEF TaskStates, Idle
    <3>2. QED
      BY <3>1 DEF Held
  <2>3. QED
    BY <2>1, <2>2
<1>7. QED
  BY <1>5, <1>6

\* The inserter takes an event: released, pushed, or left in the buffer.
LEMMA InsertStep ==
  ASSUME IInv, Insert
  PROVE  IInv'
<1> DEFINE h == Head(queue)
           x == [event |-> h.event, peer |-> h.peer]
           err == CASE h.err # "none" -> h.err
                    [] Body[x.event].lamport > store.lamport + MaxLamportDiff -> "spilled"
                    [] \E y \in buffer : y.event = x.event -> "duplicate"
                    [] OTHER -> "none"
<1>1. /\ task = Idle /\ queue # <<>> /\ ~h.heavy /\ queue' = Tail(queue)
      /\ UNCHANGED <<store, disk, index, engine, ctx, job, clears, sent, crashes>>
  BY DEF Insert
<1>2. \/ err # "none" /\ Release(x.peer, err) /\ UNCHANGED <<buffer, task>>
      \/ err = "none" /\ Complete(x.event) /\ Push(x, {}) /\ UNCHANGED buffer
      \/ /\ err = "none" /\ ~Complete(x.event)
         /\ buffer' = buffer \cup {x}
         /\ UNCHANGED <<task, dropped>>
  BY Zenon DEF Insert
<1>3. queue \in Seq(Entries) /\ Len(queue) <= QueueLimit /\ \A i \in DOMAIN queue : Sound(queue[i])
  BY DEF IInv, Types, Entries, Checked
<1>4. /\ queue' \in Seq(Entries) /\ Len(queue') <= QueueLimit
      /\ \A i \in DOMAIN queue' : Sound(queue'[i])
      /\ h \in Entries /\ Sound(h)
  <2>1. /\ queue' \in Seq(Entries) /\ Len(queue') = Len(queue) - 1 /\ Len(queue) \in Nat
        /\ Len(queue) # 0
        /\ \A i \in 1 .. Len(queue') : queue'[i] = queue[i + 1] /\ i + 1 \in 1 .. Len(queue)
        /\ h = queue[1] /\ 1 \in 1 .. Len(queue)
        /\ DOMAIN queue = 1 .. Len(queue) /\ DOMAIN queue' = 1 .. Len(queue')
    BY <1>1, <1>3
  <2> HIDE DEF h
  <2>2. h \in Entries /\ Sound(h)
    BY <1>3, <2>1
  <2>3. Len(queue') <= QueueLimit
    BY <1>3, <2>1, Bodies
  <2>4. \A i \in DOMAIN queue' : Sound(queue'[i])
    BY <1>3, <2>1
  <2>5. QED
    BY <2>1, <2>2, <2>3, <2>4
<1>5. /\ err \in Errs \cup {"spilled"}
      /\ err = "invalid" => ~Valid(h.event)
      /\ err = "none" => h.err = "none"
  <2>1. h.err \in Errs
    BY <1>4 DEF Entries
  <2>2. h.err = "invalid" => ~Valid(h.event)
    BY <1>4 DEF Sound
  <2> HIDE DEF h
  <2>3. QED
    BY <2>1, <2>2 DEF Errs
<1>6. x \in Tasks /\ From(x) /\ x.peer = h.peer /\ x.event = h.event
  BY <1>4 DEF Entries, Tasks, Sound, From
<1> HIDE DEF err, x, h
<1>7. err = "none" => Waits(x)
  BY <1>1, <1>4, <1>5, <1>6 DEF Sound, Waits
<1>8. Held(task) /\ buffer \subseteq Tasks /\ \A y \in buffer : Waits(y)
  BY HeldNow DEF IInv, Types, Checked, Waits
<1>9. task.step # "process" /\ clears' \in Nat
  BY <1>1 DEF Idle, IInv, Types
<1>10. dropped \subseteq Peer /\ Blamed
  BY DEF IInv, Types
<1>11. CASE err # "none" /\ Release(x.peer, err) /\ UNCHANGED <<buffer, task>>
  <2>1. dropped' \subseteq Peer /\ Blamed'
    <3>1. x.peer \in Peer
      BY <1>6 DEF Tasks
    <3>2. err = "invalid" => x.peer \notin Honest
      BY <1>5, <1>6 DEF From
    <3>3. err \in Errs \cup {"spilled", "paused"} /\ err # "paused" /\ store'.upgrade = store.upgrade
      BY <1>1, <1>5 DEF Errs
    <3>4. QED
      BY <1>10, <1>11, <3>1, <3>2, <3>3, ReleaseIs
  <2>2. QED
    BY <1>1, <1>4, <1>8, <1>9, <1>11, <2>1, Delivery
<1>12. CASE err = "none" /\ Complete(x.event) /\ Push(x, {}) /\ UNCHANGED buffer
  <2>1. Held(task') /\ dropped' \subseteq Peer /\ Blamed'
    BY <1>1, <1>6, <1>7, <1>12, PushIs
  <2>2. QED
    BY <1>1, <1>4, <1>8, <1>9, <1>12, <2>1, Delivery
<1>13. CASE err = "none" /\ buffer' = buffer \cup {x} /\ UNCHANGED <<task, dropped>>
  <2>1. dropped' \subseteq Peer /\ Blamed'
    BY <1>1, <1>10, <1>13 DEF Blamed
  <2>2. buffer' \subseteq Tasks /\ \A y \in buffer' : Waits(y)
    BY <1>6, <1>7, <1>8, <1>13
  <2>3. QED
    BY <1>1, <1>4, <1>8, <1>9, <1>13, <2>1, <2>2, Delivery
<1>14. QED
  BY <1>2, <1>11, <1>12, <1>13

\* The buffer pushes an event that has waited.
LEMMA PushChildStep ==
  ASSUME IInv, PushChild
  PROVE  IInv'
<1>1. /\ task.step = "children"
      /\ UNCHANGED <<store, disk, index, engine, ctx, queue, job, clears, sent, crashes>>
  BY DEF PushChild
<1>2. /\ queue' \in Seq(Entries) /\ Len(queue') <= QueueLimit
      /\ \A i \in DOMAIN queue' : Sound(queue'[i])
  BY <1>1 DEF IInv, Types, Entries, Checked
<1>3. buffer \subseteq Tasks /\ \A y \in buffer : Waits(y)
  BY DEF IInv, Types, Checked, Waits
<1>4. dropped \subseteq Peer /\ Blamed /\ clears' \in Nat /\ task.step # "process"
  BY <1>1 DEF IInv, Types
<1>5. task.done \in SUBSET Event
  BY <1>1, HeldNow DEF Held, TaskStates, Idle
<1>6. CASE task' = Idle /\ UNCHANGED <<buffer, dropped>>
  <2>1. Held(task')
    BY <1>6 DEF Held, TaskStates, Idle
  <2>2. dropped' \subseteq Peer /\ Blamed'
    BY <1>1, <1>4, <1>6 DEF Blamed
  <2>3. QED
    BY <1>1, <1>2, <1>3, <1>4, <1>6, <2>1, <2>2, Delivery
<1>7. CASE \E x \in Children(task.done) : buffer' = buffer \ {x} /\ Push(x, task.done)
  <2>1. PICK x \in Children(task.done) : buffer' = buffer \ {x} /\ Push(x, task.done)
    BY <1>7
  <2>2. x \in Tasks /\ Waits(x) /\ Complete(x.event)
    BY <1>3, <2>1 DEF Children
  <2>3. Held(task') /\ dropped' \subseteq Peer /\ Blamed'
    BY <1>1, <1>5, <2>1, <2>2, PushIs
  <2>4. buffer' \subseteq Tasks /\ \A y \in buffer' : Waits(y)
    BY <1>3, <2>1
  <2>5. QED
    BY <1>1, <1>2, <1>4, <2>3, <2>4, Delivery
<1>8. QED
  BY <1>6, <1>7 DEF PushChild

\* The buffer is cleared, of events of the new epoch as well.
LEMMA ClearStep ==
  ASSUME IInv, Clear
  PROVE  IInv'
<1>1. /\ clears > 0 /\ task = Idle /\ clears' = clears - 1 /\ buffer' = {}
      /\ UNCHANGED <<store, disk, index, engine, ctx, queue, task, job, sent, dropped, crashes>>
  BY DEF Clear
<1>2. /\ queue' \in Seq(Entries) /\ Len(queue') <= QueueLimit
      /\ \A i \in DOMAIN queue' : Sound(queue'[i])
  BY <1>1 DEF IInv, Types, Entries, Checked
<1>3. clears' \in Nat /\ dropped' \subseteq Peer /\ Blamed'
  BY <1>1 DEF IInv, Types, Blamed
<1>4. Held(task') /\ task.step # "process"
  BY <1>1, HeldNow DEF Idle
<1>5. QED
  BY <1>1, <1>2, <1>3, <1>4, Delivery

----------------------------------------------------------------------------
(* processEvent *)

JobStates ==
  {Idle} \cup [step : {"engine", "index", "switch", "keys", "commit"}, event : Event,
               by : {"inserter", "emitter"}, old : Nat]

\* What a step of processEvent has to show
LEMMA Worked ==
  ASSUME IInv, UNCHANGED <<queue, buffer, crashes>>,
         store' \in Stores, IsFiniteSet(store'.saved), disk' \in Stores, IsFiniteSet(disk'.saved),
         IsIndex(index'), job' \in JobStates, Workers', task' \in TaskStates,
         (task' = task /\ store.saved \subseteq store'.saved) \/ task'.step # "process",
         clears' \in Nat, sent' \subseteq Own, dropped' \subseteq Peer, Blamed', Dag'
  PROVE  IInv'
<1>1. /\ queue' = queue /\ buffer' = buffer /\ crashes' = crashes
  OBVIOUS
<1>2. Types'
  BY <1>1 DEF IInv, Types, Entries, TaskStates, JobStates, IsIndex
<1>3. Checked'
  <2>1. task'.step = "process" =>
          /\ From(task'.x) /\ Body[task'.x.event].bad \in {"none", "engine"}
          /\ Body[task'.x.event].parents \subseteq store'.saved
    BY DEF IInv, Checked, Complete
  <2>2. QED
    BY <1>1, <2>1 DEF IInv, Checked, Complete
<1>4. QED
  BY <1>2, <1>3 DEF IInv, Dag

\* Parts of the invariant that every step of processEvent uses
LEMMA TypesNow ==
  ASSUME IInv
  PROVE  /\ store \in Stores /\ IsFiniteSet(store.saved) /\ disk \in Stores /\ IsFiniteSet(disk.saved)
         /\ IsIndex(index) /\ job \in JobStates /\ task \in TaskStates
         /\ clears \in Nat /\ sent \subseteq Own /\ dropped \subseteq Peer /\ Blamed /\ Workers /\ Dag
BY DEF IInv, Types, TaskStates, JobStates, IsIndex, Dag

\* An event that is let in is saved, and nothing else is done yet.
LEMMA EnterIs ==
  ASSUME IInv, job = Idle, NEW e \in Event, Refusal(e) = "none", Complete(e),
         Body[e].bad \in {"none", "engine"}, NEW by \in {"inserter", "emitter"},
         Enter(e, by), UNCHANGED <<disk, index, engine, ctx>>
  PROVE  /\ store' \in Stores /\ IsFiniteSet(store'.saved) /\ store.saved \subseteq store'.saved
         /\ store'.upgrade = store.upgrade
         /\ job' \in JobStates /\ job' # Idle /\ job'.event = e /\ job'.by = by
         /\ Dag'
<1>1. e \notin store.saved /\ Body[e].epoch = store.epoch
  BY DEF Refusal
<1>2. store \in Stores /\ IsFiniteSet(store.saved)
  BY TypesNow
<1>3. /\ store' \in Stores
      /\ store'.saved = store.saved \cup {e} /\ store'.epoch = store.epoch
      /\ store'.lamport = store.lamport /\ store'.upgrade = store.upgrade
  BY <1>2 DEF Enter, Stores
<1>4. IsFiniteSet(store'.saved)
  BY <1>2, <1>3, FS_AddElement
<1>5. /\ job' = [step |-> "engine", event |-> e, by |-> by, old |-> store.epoch]
      /\ disk' = disk /\ index' = index /\ engine' = engine /\ ctx' = ctx
  BY DEF Enter
<1>6. job' \in JobStates
  BY <1>2, <1>5 DEF JobStates, Stores
<1>7. /\ job'.step = "engine" /\ job'.event = e /\ job'.by = by /\ job'.old = store.epoch
      /\ job' # Idle
  BY <1>5 DEF Idle
<1>8. store'.saved \ {e} = store.saved
  BY <1>1, <1>3
<1>9. Kept(store.saved, store.epoch, store.lamport) /\ Followed(store.saved, store.epoch)
  BY DEF IInv, Settled, Idle
<1>10. AtEngine'
  <2>1. Body[e].parents \subseteq store.saved
    BY DEF Complete
  <2>2. /\ engine' = InEpoch(store.saved, store.epoch)
        /\ index'.epoch = store.epoch /\ ctx' = [gas |-> store.epoch, keys |-> store.epoch]
        /\ Indexes(index', InEpoch(store.saved, store.epoch))
    BY <1>5, <1>9 DEF Followed
  <2>3. QED
    BY <1>1, <1>3, <1>7, <1>8, <1>9, <2>1, <2>2 DEF AtEngine, Followed
<1>11. Settled' /\ AtIndex' /\ AtSwitch'
  BY <1>7 DEF Settled, AtIndex, AtSwitch
<1>12. OnDisk'
  <2>1. Kept(disk.saved, disk.epoch, disk.lamport) /\ disk.epoch = store.epoch
    BY DEF IInv, OnDisk
  <2>2. QED
    BY <1>3, <1>5, <1>7, <2>1 DEF OnDisk
<1>13. QED
  BY <1>3, <1>4, <1>6, <1>7, <1>10, <1>11, <1>12 DEF Dag

\* The inserter gets the mutex, and its event is let in, or not any more.
LEMMA ProcessStep ==
  ASSUME IInv, Process
  PROVE  IInv'
<1> DEFINE e == task.x.event
           err == Refusal(e)
<1>1. /\ task.step = "process" /\ job = Idle
      /\ UNCHANGED <<disk, index, engine, ctx, queue, buffer, clears, sent, crashes>>
  BY DEF Process
<1>2. /\ e \in Event /\ task.x \in Tasks /\ task.done \in SUBSET Event
      /\ From(task.x) /\ Body[e].bad \in {"none", "engine"} /\ Complete(e)
  BY <1>1, HeldNow DEF Held, TaskStates, Tasks, Idle, Complete
<1>3. CASE err = "none" /\ Enter(e, "inserter") /\ UNCHANGED <<task, dropped>>
  <2>1. /\ store' \in Stores /\ IsFiniteSet(store'.saved) /\ store.saved \subseteq store'.saved
        /\ store'.upgrade = store.upgrade
        /\ job' \in JobStates /\ job' # Idle /\ job'.event = e /\ job'.by = "inserter"
        /\ Dag'
    BY <1>1, <1>2, <1>3, EnterIs
  <2>2. Workers'
    BY <1>1, <1>3, <2>1 DEF Workers
  <2>3. Blamed' /\ dropped' \subseteq Peer
    BY <1>3, <2>1, TypesNow DEF Blamed
  <2>4. QED
    BY <1>1, <1>3, <2>1, <2>2, <2>3, TypesNow, Worked
<1>4. CASE /\ err # "none" /\ Release(task.x.peer, err)
           /\ task' = IF task.done = {} THEN Idle ELSE [step |-> "children", done |-> task.done]
           /\ UNCHANGED <<store, job>>
  <2>1. err \in {"paused", "connected", "irrelevant"} /\ (err = "paused" => store.upgrade)
    BY <1>4 DEF Refusal
  <2>2. dropped' \subseteq Peer /\ Blamed'
    <3>1. /\ task.x.peer \in Peer /\ dropped \subseteq Peer /\ Blamed
          /\ store'.upgrade = store.upgrade /\ err \in Errs \cup {"spilled", "paused"}
          /\ err # "invalid"
      BY <1>2, <1>4, <2>1, TypesNow DEF Tasks, Errs
    <3> HIDE DEF err
    <3>2. QED
      BY <1>4, <2>1, <3>1, ReleaseIs
  <2>3. task' \in TaskStates /\ task'.step # "process"
    BY <1>2, <1>4 DEF TaskStates, Idle
  <2>4. Dag' /\ Workers'
    BY <1>1, <1>4, TypesNow, Same DEF Workers
  <2>5. QED
    BY <1>1, <1>4, <2>2, <2>3, <2>4, TypesNow, Worked
<1>5. QED
  BY <1>3, <1>4 DEF Process

\* The emitter's event goes the same way as those of peers.
LEMMA EmitStep ==
  ASSUME IInv, NEW e \in Own, Emit(e)
  PROVE  IInv'
<1>1. /\ job = Idle /\ Complete(e) /\ Refusal(e) = "none" /\ Enter(e, "emitter")
      /\ UNCHANGED <<disk, index, engine, ctx, queue, buffer, task, clears, sent, dropped, crashes>>
  BY DEF Emit
<1>2. e \in Event /\ Body[e].bad = "none"
  BY Bodies DEF Valid
<1>3. /\ store' \in Stores /\ IsFiniteSet(store'.saved) /\ store.saved \subseteq store'.saved
      /\ store'.upgrade = store.upgrade
      /\ job' \in JobStates /\ job' # Idle /\ job'.event = e /\ job'.by = "emitter"
      /\ Dag'
  BY <1>1, <1>2, EnterIs
<1>4. Workers'
  BY <1>3 DEF Workers
<1>5. Blamed' /\ dropped' \subseteq Peer
  BY <1>1, <1>3, TypesNow DEF Blamed
<1>6. QED
  BY <1>1, <1>3, <1>4, <1>5, TypesNow, Worked

\* The engine refuses an event, which is taken out of the store again: it was the inserter's.
LEMMA ProcessSavedFailsStep ==
  ASSUME IInv, ProcessSavedFails
  PROVE  IInv'
<1> DEFINE e == job.event
<1>1. /\ job.step = "engine" /\ Body[e].bad = "engine" /\ job' = Idle
      /\ store' = [store EXCEPT !.saved = store.saved \ {e}]
      /\ Release(task.x.peer, "invalid")
      /\ task' = IF task.done = {} THEN Idle ELSE [step |-> "children", done |-> task.done]
      /\ UNCHANGED <<disk, index, engine, ctx, queue, buffer, clears, sent, crashes>>
  BY DEF ProcessSavedFails
<1>2. store \in Stores /\ IsFiniteSet(store.saved) /\ job \in JobStates
  BY TypesNow
<1>3. /\ store' \in Stores /\ store'.saved = store.saved \ {e} /\ store'.epoch = store.epoch
      /\ store'.lamport = store.lamport /\ store'.upgrade = store.upgrade
  BY <1>1, <1>2 DEF Stores
<1>4. IsFiniteSet(store'.saved)
  BY <1>2, <1>3, FS_RemoveElement
<1>5. job.by = "inserter" /\ job # Idle /\ job.by \in {"inserter", "emitter"}
  <2>1. job # Idle /\ job.by \in {"inserter", "emitter"}
    BY <1>1, <1>2 DEF JobStates, Idle
  <2>2. e \notin Own
    BY <1>1, Bodies DEF Valid
  <2>3. QED
    BY <2>1, <2>2, TypesNow DEF Workers
<1>6. task.step = "process" /\ task.x.event = e
  BY <1>5, TypesNow DEF Workers
<1>7. /\ task.x \in Tasks /\ task.done \in SUBSET Event /\ From(task.x)
  BY <1>6, HeldNow DEF Held, TaskStates, Idle
<1>8. dropped' \subseteq Peer /\ Blamed'
  <2>1. task.x.peer \notin Honest /\ task.x.peer \in Peer
    BY <1>1, <1>6, <1>7 DEF From, Valid, Tasks
  <2>2. "invalid" \in Errs
    BY DEF Errs
  <2>3. QED
    BY <1>1, <1>3, <2>1, <2>2, TypesNow, ReleaseIs
<1>9. task' \in TaskStates /\ task'.step # "process"
  BY <1>1, <1>7 DEF TaskStates, Idle
<1>10. Settled'
  <2>1. Kept(store.saved \ {e}, store.epoch, store.lamport) /\ Followed(store.saved \ {e}, store.epoch)
    BY <1>1 DEF IInv, AtEngine
  <2>2. QED
    BY <1>1, <1>3, <2>1 DEF Settled, Followed
<1>11. AtEngine' /\ AtIndex' /\ AtSwitch' /\ Workers'
  BY <1>1 DEF AtEngine, AtIndex, AtSwitch, Workers, Idle
<1>12. OnDisk'
  <2>1. store.epoch = job.old
    BY <1>1 DEF IInv, AtEngine
  <2>2. QED
    BY <1>1, <1>3, <1>5, <2>1 DEF IInv, OnDisk
<1>13. job' \in JobStates
  BY <1>1 DEF JobStates
<1>14. Dag'
  BY <1>10, <1>11, <1>12 DEF Dag
<1>15. /\ disk' = disk /\ index' = index /\ clears' = clears /\ sent' = sent
       /\ UNCHANGED <<queue, buffer, crashes>>
  BY <1>1
<1>16. QED
  BY <1>3, <1>4, <1>8, <1>9, <1>11, <1>13, <1>14, <1>15, TypesNow, Worked

\* Events of an epoch
LEMMA InEpochIs ==
  ASSUME NEW S, NEW n, NEW e
  PROVE  e \in InEpoch(S, n) <=> e \in S /\ Body[e].epoch = n
BY DEF InEpoch

\* The engine takes the event, and may seal the epoch with it.
LEMMA ProcessSavedEventStep ==
  ASSUME IInv, ProcessSavedEvent
  PROVE  IInv'
<1> DEFINE e == job.event
<1>1. /\ job.step = "engine" /\ Body[e].bad # "engine"
      /\ engine' = engine \cup {e}
      /\ store' = IF Seals(engine')
                  THEN [store EXCEPT !.epoch = store.epoch + 1,
                                     !.upgrade = store.upgrade \/ store.epoch + 1 = UpgradeEpoch]
                  ELSE store
      /\ job' = [job EXCEPT !.step = "index"]
      /\ UNCHANGED <<disk, index, ctx, queue, buffer, task, clears, sent, dropped, crashes>>
  BY DEF ProcessSavedEvent
<1>2. store \in Stores /\ IsFiniteSet(store.saved) /\ job \in JobStates /\ job # Idle
  BY <1>1, TypesNow DEF Idle
<1>3. /\ store' \in Stores /\ store'.saved = store.saved /\ store'.lamport = store.lamport
      /\ store.upgrade => store'.upgrade
      /\ store'.epoch \in {store.epoch, store.epoch + 1}
      /\ store'.epoch = store.epoch => ~Seals(engine')
  <2>1. store.epoch \in Nat /\ store.epoch + 1 \in Nat /\ store.epoch # store.epoch + 1
    BY <1>2 DEF Stores
  <2>2. CASE Seals(engine')
    <3> DEFINE up == store.upgrade \/ store.epoch + 1 = UpgradeEpoch
    <3>1. store' = [store EXCEPT !.epoch = store.epoch + 1, !.upgrade = up]
      BY <1>1, <2>2
    <3>2. up \in BOOLEAN /\ (store.upgrade => up)
      OBVIOUS
    <3> HIDE DEF up
    <3>3. QED
      BY <1>2, <2>1, <3>1, <3>2 DEF Stores
  <2>3. CASE ~Seals(engine')
    <3>1. store' = store
      BY <1>1, <2>3
    <3>2. QED
      BY <1>2, <2>3, <3>1
  <2>4. QED
    BY <2>2, <2>3
<1>4. /\ e \in store.saved /\ Body[e].epoch = store.epoch /\ Body[e].bad \in {"none", "engine"}
      /\ store.epoch = job.old /\ Body[e].parents \subseteq store.saved \ {e}
      /\ Kept(store.saved \ {e}, store.epoch, store.lamport)
      /\ Followed(store.saved \ {e}, store.epoch)
  BY <1>1 DEF IInv, AtEngine
<1>5. /\ job' \in JobStates /\ job' # Idle /\ job'.step = "index" /\ job'.event = e
      /\ job'.by = job.by /\ job'.old = job.old
  BY <1>1, <1>2 DEF JobStates, Idle
<1>6. Valid(e)
  BY <1>1, <1>4 DEF Valid
<1>7. Closed(store.saved) /\ Closed(store.saved \ {e})
  <2>1. Closed(store.saved \ {e})
    BY <1>4 DEF Kept
  <2>2. Closed(store.saved)
    BY <1>4, <1>6, <2>1 DEF Closed
  <2>3. QED
    BY <2>1, <2>2
<1>8. \A x \in store.saved : Body[x].epoch <= job.old
  <2>1. \A x \in store.saved \ {e} : Body[x].epoch <= job.old
    BY <1>4 DEF Kept
  <2>2. Body[e].epoch = job.old /\ job.old \in Nat
    BY <1>2, <1>4 DEF Stores
  <2>3. QED
    BY <2>1, <2>2
<1>9. /\ engine' = InEpoch(store.saved, job.old) /\ engine' \ {e} = InEpoch(store.saved \ {e}, job.old)
      /\ index.epoch = job.old /\ ctx = [gas |-> job.old, keys |-> job.old]
      /\ Indexes(index, InEpoch(store.saved \ {e}, job.old))
      /\ Height(store.lamport, InEpoch(store.saved \ {e}, job.old))
  <2>1. engine = InEpoch(store.saved \ {e}, job.old)
    BY <1>4 DEF Followed
  <2>2. engine' = InEpoch(store.saved, job.old)
    BY <1>1, <1>4, <2>1, InEpochIs
  <2>3. engine' \ {e} = InEpoch(store.saved \ {e}, job.old)
    BY <2>2, InEpochIs
  <2>4. QED
    BY <1>4, <2>2, <2>3 DEF Followed, Kept
<1>10. AtIndex'
  <2>1. store'.epoch = job.old => ~Seals(engine')
    BY <1>3, <1>4
  <2>2. /\ Indexes(index', engine' \ {job'.event}) /\ Height(store'.lamport, engine' \ {job'.event})
        /\ index' = index /\ ctx' = ctx
    BY <1>1, <1>3, <1>5, <1>9
  <2>3. QED
    BY <1>3, <1>4, <1>5, <1>7, <1>9, <2>1, <2>2 DEF AtIndex
<1>11. Settled' /\ AtEngine' /\ AtSwitch'
  BY <1>3, <1>5, <1>7, <1>8 DEF Settled, AtEngine, AtSwitch
<1>12. OnDisk'
  <2>1. disk' = disk /\ disk.epoch = job.old /\ Kept(disk.saved, disk.epoch, disk.lamport)
    BY <1>1, <1>2 DEF IInv, OnDisk
  <2>2. QED
    BY <1>3, <1>4, <1>5, <2>1 DEF OnDisk
<1>13. Workers'
  BY <1>1, <1>2, <1>5, TypesNow DEF Workers
<1>14. Blamed'
  BY <1>1, <1>3, TypesNow DEF Blamed
<1>15. Dag'
  BY <1>10, <1>11, <1>12 DEF Dag
<1>16. /\ disk' = disk /\ index' = index /\ clears' = clears /\ sent' = sent /\ task' = task
       /\ dropped' = dropped /\ UNCHANGED <<queue, buffer, crashes>>
  BY <1>1
<1>17. QED
  BY <1>2, <1>3, <1>5, <1>13, <1>14, <1>15, <1>16, TypesNow, Worked

\* The index gets the event, whichever epoch the store is in by now.
LEMMA ProcessEventEpochIndexStep ==
  ASSUME IInv, ProcessEventEpochIndex
  PROVE  IInv'
<1> DEFINE e == job.event
           r == Indexed(store.lamport, index, e, store.epoch)
           S == engine \ {e}
<1>1. /\ job.step = "index"
      /\ index' = r.index /\ store' = [store EXCEPT !.lamport = r.lamport]
      /\ job' = [job EXCEPT !.step = IF store.epoch # job.old THEN "switch" ELSE "commit"]
      /\ UNCHANGED <<disk, engine, ctx, queue, buffer, task, clears, sent, dropped, crashes>>
  BY DEF ProcessEventEpochIndex
<1>2. /\ store \in Stores /\ IsFiniteSet(store.saved) /\ IsIndex(index)
      /\ job \in JobStates /\ job # Idle
  BY <1>1, TypesNow DEF Idle
<1>3. /\ e \in store.saved /\ Body[e].epoch = job.old
      /\ Closed(store.saved) /\ Closed(store.saved \ {e})
      /\ engine = InEpoch(store.saved, job.old)
      /\ store.epoch = job.old => ~Seals(engine)
      /\ index.epoch = job.old /\ ctx = [gas |-> job.old, keys |-> job.old]
      /\ Indexes(index, S) /\ Height(store.lamport, S)
      /\ \A x \in store.saved : Body[x].epoch <= job.old
  BY <1>1 DEF IInv, AtIndex, AtSwitch
<1>4. store.saved \subseteq Event /\ store.lamport \in Nat /\ store.epoch \in Nat /\ job.old \in Nat
  BY <1>2 DEF Stores, JobStates, Idle
<1>5. Fits(S, e) /\ engine = S \cup {e} /\ S \subseteq Event
  <2>1. engine = S \cup {e} /\ S \subseteq Event /\ e \in Event \ S
    BY <1>3, <1>4, InEpochIs
  <2>2. \A x \in engine : /\ x \in Event /\ Valid(x) /\ Body[x].epoch = job.old
                          /\ Body[x].parents \subseteq store.saved
    BY <1>3, <1>4, InEpochIs DEF Closed
  <2>3. ASSUME NEW x \in engine, NEW p \in Body[x].parents
        PROVE  p \in engine
    <3>1. p \in store.saved /\ Body[p].epoch = job.old
      BY <2>2, Bodies
    <3>2. QED
      BY <1>3, <3>1, InEpochIs
  <2>4. \A x \in S : e \notin Body[x].parents
    BY <1>3, InEpochIs DEF Closed
  <2>5. e \notin Body[e].parents
    <3>1. \A p \in Body[e].parents : p < e
      BY <2>1, Bodies
    <3>2. e \in Nat
      BY <2>1, Bodies
    <3>3. QED
      BY <3>1, <3>2
  <2> HIDE DEF S
  <2>6. Closed(S)
    BY <2>1, <2>2, <2>3, <2>4 DEF Closed
  <2>7. QED
    BY <2>1, <2>2, <2>3, <2>5, <2>6 DEF Fits
<1>6. IsIndex(r.index) /\ Indexes(r.index, engine)
  <2> DEFINE h == store.lamport
             n == store.epoch
  <2> HIDE DEF h, n, S, e
  <2>1. /\ IsIndex(Indexed(h, index, e, n).index)
        /\ Indexes(Indexed(h, index, e, n).index, S \cup {e})
    BY <1>2, <1>3, <1>5, IndexedIs
  <2>2. QED
    BY <1>5, <2>1 DEF h, n
<1>7. r.index.epoch = job.old /\ r.lamport = Reached(store.lamport, e, store.epoch)
  <2> DEFINE h == store.lamport
             n == store.epoch
             i == index
  <2>1. IsIndex(i) /\ i.epoch = job.old
    BY <1>2, <1>3
  <2> HIDE DEF h, n, i
  <2>2. /\ Indexed(h, i, e, n).index =
             [epoch |-> i.epoch, heads |-> ProcessEventHeads(i.heads, e),
              lasts |-> ProcessLastEvent(i.lasts, e)]
        /\ Indexed(h, i, e, n).lamport = Reached(h, e, n)
    BY <2>1, IndexedForm
  <2>3. Indexed(h, i, e, n).index.epoch = job.old
    BY <2>1, <2>2
  <2>4. QED
    BY <2>2, <2>3 DEF h, n, i
<1> HIDE DEF r
<1>8. e \in Event /\ Body[e].lamport \in Nat
  BY <1>3, <1>4, Bodies
<1>9. r.lamport \in Nat
  BY <1>4, <1>7, <1>8 DEF Reached
<1>10. /\ store' \in Stores /\ store'.saved = store.saved /\ store'.epoch = store.epoch
       /\ store'.lamport = r.lamport /\ store'.upgrade = store.upgrade
  BY <1>1, <1>2, <1>9 DEF Stores
<1>11. /\ job' \in JobStates /\ job' # Idle /\ job'.event = e /\ job'.by = job.by
       /\ job'.old = job.old
       /\ job'.step = IF store.epoch # job.old THEN "switch" ELSE "commit"
  BY <1>1, <1>2 DEF JobStates, Idle
<1>12. /\ disk' = disk /\ engine' = engine /\ ctx' = ctx /\ index' = r.index /\ clears' = clears
       /\ sent' = sent /\ task' = task /\ dropped' = dropped /\ UNCHANGED <<queue, buffer, crashes>>
  BY <1>1
<1>13. Settled' /\ AtSwitch'
  <2>1. CASE store.epoch = job.old
    <3>1. job'.step = "commit"
      BY <1>11, <2>1
    <3>2. r.lamport = IF Body[e].lamport > store.lamport THEN Body[e].lamport ELSE store.lamport
      BY <1>3, <1>7, <2>1 DEF Reached
    <3>3. Height(r.lamport, engine)
      <4> DEFINE h == store.lamport
      <4>1. h \in Nat /\ Height(h, S) /\ S \in SUBSET Event
        BY <1>3, <1>4, <1>5
      <4> HIDE DEF h, S, e
      <4>2. Height(IF Body[e].lamport > h THEN Body[e].lamport ELSE h, S \cup {e})
        BY <1>8, <4>1, AddHeight
      <4>3. r.lamport = IF Body[e].lamport > h THEN Body[e].lamport ELSE h
        BY <3>2 DEF h
      <4>4. QED
        BY <1>5, <4>2, <4>3
    <3>4. Kept(store'.saved, store'.epoch, store'.lamport)
      BY <1>3, <1>10, <2>1, <3>3 DEF Kept
    <3>5. Followed(store.saved, store.epoch)'
      BY <1>3, <1>6, <1>7, <1>10, <1>12, <2>1 DEF Followed
    <3>6. QED
      BY <3>1, <3>4, <3>5 DEF Settled, AtSwitch
  <2>2. CASE store.epoch # job.old
    <3>1. job'.step = "switch"
      BY <1>11, <2>2
    <3>2. store.epoch = job.old + 1
      BY <1>2, <2>2 DEF IInv, OnDisk
    <3>3. engine \subseteq store.saved
      BY <1>3, InEpochIs
    <3>4. QED
      BY <1>3, <1>7, <1>10, <1>11, <1>12, <3>1, <3>2, <3>3 DEF Settled, AtSwitch
  <2>3. QED
    BY <2>1, <2>2
<1>14. AtEngine' /\ AtIndex'
  BY <1>11 DEF AtEngine, AtIndex
<1>15. OnDisk'
  BY <1>2, <1>10, <1>11, <1>12 DEF IInv, OnDisk
<1>16. Workers' /\ Blamed'
  BY <1>2, <1>10, <1>11, <1>12, TypesNow DEF Workers, Blamed
<1>17. Dag'
  BY <1>13, <1>14, <1>15 DEF Dag
<1>18. QED
  BY <1>2, <1>6, <1>10, <1>11, <1>12, <1>16, <1>17, TypesNow, Worked

\* The epoch's databases are exchanged.
LEMMA SwitchEpochToStep ==
  ASSUME IInv, SwitchEpochTo
  PROVE  IInv'
<1>1. /\ job.step = "switch"
      /\ store' = [store EXCEPT !.lamport = 0]
      /\ index' = NoIndex(store.epoch) /\ engine' = {}
      /\ ctx' = [ctx EXCEPT !.gas = store.epoch]
      /\ job' = [job EXCEPT !.step = "keys"]
      /\ UNCHANGED <<disk, queue, buffer, task, clears, sent, dropped, crashes>>
  BY DEF SwitchEpochTo
<1>2. store \in Stores /\ IsFiniteSet(store.saved) /\ job \in JobStates /\ job # Idle
  BY <1>1, TypesNow DEF Idle
<1>3. /\ store' \in Stores /\ store'.saved = store.saved /\ store'.epoch = store.epoch
      /\ store'.lamport = 0 /\ store'.upgrade = store.upgrade
  BY <1>1, <1>2 DEF Stores
<1>4. /\ job' \in JobStates /\ job' # Idle /\ job'.step = "keys" /\ job'.event = job.event
      /\ job'.by = job.by /\ job'.old = job.old
  BY <1>1, <1>2 DEF JobStates, Idle
<1>5. /\ Closed(store.saved) /\ \A e \in store.saved : Body[e].epoch <= job.old
      /\ store.epoch = job.old + 1 /\ ctx = [gas |-> job.old, keys |-> job.old]
  BY <1>1 DEF IInv, AtSwitch
<1>6. ctx' = [gas |-> store.epoch, keys |-> job.old]
  BY <1>1, <1>5
<1>7. AtSwitch'
  BY <1>1, <1>3, <1>4, <1>5, <1>6 DEF AtSwitch
<1>8. Settled' /\ AtEngine' /\ AtIndex'
  BY <1>4 DEF Settled, AtEngine, AtIndex
<1>9. /\ disk' = disk /\ clears' = clears /\ sent' = sent /\ task' = task /\ dropped' = dropped
      /\ UNCHANGED <<queue, buffer, crashes>>
  BY <1>1
<1>10. OnDisk'
  BY <1>2, <1>3, <1>4, <1>9 DEF IInv, OnDisk
<1>11. Workers' /\ Blamed'
  BY <1>2, <1>3, <1>4, <1>9, TypesNow DEF Workers, Blamed
<1>12. IsIndex(index')
  BY <1>1, NothingIndexed
<1>13. Dag'
  BY <1>7, <1>8, <1>10 DEF Dag
<1>14. QED
  BY <1>2, <1>3, <1>4, <1>9, <1>11, <1>12, <1>13, TypesNow, Worked

\* From here on the readers of the checks are in the new epoch, which has no events yet.
LEMMA NotifyStep ==
  ASSUME IInv, Notify
  PROVE  IInv'
<1>1. /\ job.step = "keys"
      /\ ctx' = [ctx EXCEPT !.keys = store.epoch]
      /\ clears' = clears + 1
      /\ job' = [job EXCEPT !.step = "commit"]
      /\ UNCHANGED <<store, disk, index, engine, queue, buffer, task, sent, dropped, crashes>>
  BY DEF Notify
<1>2. store \in Stores /\ IsFiniteSet(store.saved) /\ job \in JobStates /\ job # Idle
  BY <1>1, TypesNow DEF Idle
<1>3. /\ job' \in JobStates /\ job' # Idle /\ job'.step = "commit" /\ job'.event = job.event
      /\ job'.by = job.by /\ job'.old = job.old
  BY <1>1, <1>2 DEF JobStates, Idle
<1>4. /\ Closed(store.saved) /\ \A e \in store.saved : Body[e].epoch <= job.old
      /\ store.epoch = job.old + 1 /\ ctx = [gas |-> store.epoch, keys |-> job.old]
      /\ index = NoIndex(store.epoch) /\ engine = {} /\ store.lamport = 0
  BY <1>1 DEF IInv, AtSwitch
<1>5. /\ store' = store /\ disk' = disk /\ sent' = sent /\ task' = task /\ dropped' = dropped
      /\ index' = index /\ engine' = engine /\ UNCHANGED <<queue, buffer, crashes>>
  BY <1>1
<1>6. ctx' = [gas |-> store.epoch, keys |-> store.epoch]
  BY <1>1, <1>4
<1>7. InEpoch(store.saved, store.epoch) = {}
  <2>1. job.old \in Nat /\ store.saved \subseteq Event
    BY <1>2 DEF Stores, JobStates, Idle
  <2>2. \A e \in store.saved : Body[e].epoch # store.epoch
    BY <1>4, <2>1, Bodies
  <2>3. QED
    BY <2>2, InEpochIs
<1>8. Kept(store.saved, store.epoch, store.lamport)
  <2>1. \A e \in store.saved : Body[e].epoch <= store.epoch
    <3>1. job.old \in Nat /\ store.saved \subseteq Event
      BY <1>2 DEF Stores, JobStates, Idle
    <3>2. ASSUME NEW e \in store.saved
          PROVE  Body[e].epoch <= store.epoch
      <4>1. Body[e].epoch \in Nat /\ Body[e].epoch <= job.old /\ store.epoch = job.old + 1
        BY <1>4, <3>1, Bodies
      <4>2. QED
        BY <3>1, <4>1
    <3>3. QED
      BY <3>2
  <2>2. Height(0, {})
    BY DEF Height
  <2>3. ~Seals({})
    BY Bodies DEF Seals
  <2>4. QED
    BY <1>4, <1>7, <2>1, <2>2, <2>3 DEF Kept
<1>9. Settled'
  <2>1. index.epoch = store.epoch /\ Indexes(index, {})
    BY <1>4, NothingIndexed
  <2>2. Followed(store.saved, store.epoch)'
    BY <1>4, <1>5, <1>6, <1>7, <2>1 DEF Followed
  <2>3. QED
    BY <1>5, <1>8, <2>2 DEF Settled
<1>10. AtEngine' /\ AtIndex' /\ AtSwitch'
  BY <1>3 DEF AtEngine, AtIndex, AtSwitch
<1>11. OnDisk'
  BY <1>2, <1>3, <1>5 DEF IInv, OnDisk
<1>12. Workers' /\ Blamed'
  BY <1>2, <1>3, <1>5, TypesNow DEF Workers, Blamed
<1>13. Dag' /\ clears' \in Nat
  BY <1>1, <1>9, <1>10, <1>11, TypesNow DEF Dag
<1>14. QED
  BY <1>2, <1>3, <1>5, <1>12, <1>13, TypesNow, Worked

\* The end of processEvent commits, in any case if the epoch was sealed.
LEMMA EndEventStep ==
  ASSUME IInv, EndEvent
  PROVE  IInv'
<1>1. /\ job.step = "commit" /\ MayCommit(store.epoch # job.old) /\ job' = Idle
      /\ sent' = IF job.by = "emitter" THEN sent \cup {job.event} ELSE sent
      /\ task' = IF job.by = "emitter" THEN task
                 ELSE [step |-> "children", done |-> task.done \cup {job.event}]
      /\ UNCHANGED <<store, index, engine, ctx, queue, buffer, clears, dropped, crashes>>
  BY DEF EndEvent
<1>2. /\ store \in Stores /\ IsFiniteSet(store.saved) /\ disk \in Stores /\ IsFiniteSet(disk.saved)
      /\ job \in JobStates /\ job # Idle
  BY <1>1, TypesNow DEF Idle
<1>3. Kept(store.saved, store.epoch, store.lamport) /\ Followed(store.saved, store.epoch)
  BY <1>1 DEF IInv, Settled
<1>4. /\ store' = store /\ index' = index /\ engine' = engine /\ ctx' = ctx /\ clears' = clears
      /\ dropped' = dropped /\ UNCHANGED <<queue, buffer, crashes>>
  BY <1>1
<1>5. disk' = store \/ (store.epoch = job.old /\ disk' = disk)
  BY <1>1 DEF MayCommit
<1>6. OnDisk' /\ disk' \in Stores /\ IsFiniteSet(disk'.saved)
  <2>1. Kept(disk.saved, disk.epoch, disk.lamport) /\ disk.epoch = job.old
    BY <1>2 DEF IInv, OnDisk
  <2>2. CASE disk' = store
    BY <1>1, <1>2, <1>3, <1>4, <2>2 DEF OnDisk
  <2>3. CASE store.epoch = job.old /\ disk' = disk
    BY <1>1, <1>2, <1>4, <2>1, <2>3 DEF OnDisk
  <2>4. QED
    BY <1>5, <2>2, <2>3
<1>7. Settled' /\ AtEngine' /\ AtIndex' /\ AtSwitch' /\ Workers' /\ Blamed'
  <2>1. Settled'
    BY <1>3, <1>4 DEF Settled, Followed
  <2>2. QED
    BY <1>1, <1>4, <2>1, TypesNow DEF AtEngine, AtIndex, AtSwitch, Workers, Blamed, Idle
<1>8. job.event \in Event /\ job.by \in {"inserter", "emitter"}
  BY <1>2 DEF JobStates, Idle
<1>9. sent' \subseteq Own
  <2>1. job.by = "emitter" => job.event \in Own
    BY <1>2, TypesNow DEF Workers
  <2>2. QED
    BY <1>1, <2>1, TypesNow
<1>10. task' \in TaskStates /\ (task' = task \/ task'.step # "process")
  <2>1. CASE job.by = "emitter"
    <3>1. task' = task
      BY <1>1, <2>1
    <3>2. QED
      BY <3>1, TypesNow
  <2>2. CASE job.by # "emitter"
    <3>1. task.step = "process"
      BY <1>2, <1>8, <2>2, TypesNow DEF Workers
    <3>2. task.done \in SUBSET Event
      BY <3>1, HeldNow DEF Held, TaskStates, Idle
    <3>3. task' = [step |-> "children", done |-> task.done \cup {job.event}]
      BY <1>1, <2>2
    <3> DEFINE d == task.done \cup {job.event}
    <3>4. d \in SUBSET Event
      BY <1>8, <3>2
    <3> HIDE DEF d
    <3>5. task' = [step |-> "children", done |-> d]
      BY <3>3 DEF d
    <3>6. QED
      BY <3>4, <3>5 DEF TaskStates
  <2>3. QED
    BY <2>1, <2>2
<1>11. Dag' /\ job' \in JobStates
  BY <1>1, <1>6, <1>7 DEF Dag, JobStates
<1>12. QED
  BY <1>2, <1>4, <1>6, <1>7, <1>9, <1>10, <1>11, TypesNow, Worked

\* What is committed between two events is settled.
LEMMA CommitStep ==
  ASSUME IInv, Commit
  PROVE  IInv'
<1>1. /\ job = Idle /\ disk' = store
      /\ UNCHANGED <<store, index, engine, ctx, queue, buffer, task, job, clears, sent, dropped>>
      /\ crashes' = crashes
  BY DEF Commit
<1>2. store \in Stores /\ IsFiniteSet(store.saved)
  BY TypesNow
<1>3. Kept(store.saved, store.epoch, store.lamport) /\ Followed(store.saved, store.epoch)
  BY <1>1 DEF IInv, Settled, Idle
<1>4. Settled' /\ AtEngine' /\ AtIndex' /\ AtSwitch'
  BY <1>1, <1>3 DEF Settled, AtEngine, AtIndex, AtSwitch, Followed, Idle
<1>5. OnDisk'
  BY <1>1, <1>3 DEF OnDisk
<1>6. Workers' /\ Blamed' /\ Dag'
  BY <1>1, <1>4, <1>5, TypesNow DEF Workers, Blamed, Dag
<1>7. QED
  BY <1>1, <1>2, <1>6, TypesNow, Worked

\* A restart: what was committed, and the index made of it anew.
LEMMA CrashStep ==
  ASSUME IInv, Crash
  PROVE  IInv'
<1> DEFINE r == Reprocessed(disk)
<1>1. /\ crashes < MaxCrashes /\ crashes' = crashes + 1
      /\ index' = r.index /\ store' = [disk EXCEPT !.lamport = r.lamport]
      /\ engine' = InEpoch(disk.saved, disk.epoch)
      /\ ctx' = [gas |-> disk.epoch, keys |-> disk.epoch]
      /\ queue' = <<>> /\ buffer' = {} /\ task' = Idle /\ job' = Idle /\ clears' = 0
      /\ dropped' = {} /\ disk' = disk /\ sent' = sent
  BY DEF Crash
<1>2. disk \in Stores /\ IsFiniteSet(disk.saved) /\ Kept(disk.saved, disk.epoch, disk.lamport)
  BY TypesNow DEF IInv, OnDisk
<1>3. /\ IsIndex(r.index) /\ r.index.epoch = disk.epoch
      /\ Indexes(r.index, InEpoch(disk.saved, disk.epoch))
      /\ r.lamport = disk.lamport
  BY <1>2, ReprocessedRight
<1> HIDE DEF r
<1>4. /\ store' \in Stores /\ store'.saved = disk.saved /\ store'.epoch = disk.epoch
      /\ store'.lamport = disk.lamport /\ store'.upgrade = disk.upgrade
  BY <1>1, <1>2, <1>3 DEF Stores
<1>5. Types'
  <2>1. queue' \in Seq(Entries) /\ Len(queue') <= QueueLimit
    BY <1>1, Bodies
  <2>2. crashes' \in 0 .. MaxCrashes
    <3>1. crashes \in 0 .. MaxCrashes /\ MaxCrashes \in Nat
      BY Bodies DEF IInv, Types
    <3>2. QED
      BY <1>1, <3>1
  <2>3. index' = [epoch |-> index'.epoch, heads |-> index'.heads, lasts |-> index'.lasts]
    BY <1>1, <1>3 DEF IsIndex
  <2>4. sent' \subseteq Own
    BY <1>1, TypesNow
  <2>5. QED
    BY <1>1, <1>2, <1>4, <2>1, <2>2, <2>3, <2>4 DEF Types, Entries
<1>6. Workers' /\ Blamed'
  BY <1>1 DEF Workers, Blamed
<1>7. Checked'
  BY <1>1 DEF Checked, Idle
<1>8. Settled'
  <2>1. Followed(disk.saved, disk.epoch)'
    BY <1>1, <1>3 DEF Followed
  <2>2. QED
    BY <1>1, <1>2, <1>4, <2>1 DEF Settled, Followed
<1>9. AtEngine' /\ AtIndex' /\ AtSwitch'
  BY <1>1 DEF AtEngine, AtIndex, AtSwitch, Idle
<1>10. OnDisk'
  BY <1>1, <1>2, <1>4 DEF OnDisk
<1>11. QED
  BY <1>5, <1>6, <1>7, <1>8, <1>9, <1>10 DEF IInv

----------------------------------------------------------------------------
(* The theorems *)

\* It holds of the genesis.
LEMMA InitIInv == Init => IInv
<1> SUFFICES ASSUME Init
             PROVE  IInv
  OBVIOUS
<1>1. /\ store = Genesis /\ disk = Genesis /\ index = NoIndex(1) /\ engine = {}
      /\ ctx = [gas |-> 1, keys |-> 1] /\ queue = <<>> /\ buffer = {} /\ task = Idle /\ job = Idle
      /\ clears = 0 /\ sent = {} /\ dropped = {} /\ crashes = 0
  BY DEF Init
<1>2. /\ Genesis \in Stores /\ Genesis.saved = {} /\ Genesis.epoch = 1 /\ Genesis.lamport = 0
      /\ IsFiniteSet(Genesis.saved)
  BY FS_EmptySet DEF Genesis, Stores
<1>3. InEpoch({}, 1) = {}
  BY DEF InEpoch
<1>4. Kept({}, 1, 0)
  <2>1. ~Seals({})
    BY Bodies DEF Seals
  <2>2. QED
    BY <1>3, <2>1 DEF Kept, Closed, Height
<1>5. Followed({}, 1)
  BY <1>1, <1>3, NothingIndexed DEF Followed
<1>6. Types
  <2>1. index = [epoch |-> index.epoch, heads |-> index.heads, lasts |-> index.lasts]
    BY <1>1, NothingIndexed DEF IsIndex
  <2>2. queue \in Seq(Entries) /\ Len(queue) <= QueueLimit
    BY <1>1, Bodies
  <2>3. crashes \in 0 .. MaxCrashes
    BY <1>1, Bodies
  <2>4. QED
    BY <1>1, <1>2, <2>1, <2>2, <2>3 DEF Types, Entries
<1>7. Workers /\ Blamed /\ Checked
  BY <1>1 DEF Workers, Blamed, Checked, Idle
<1>8. Settled
  BY <1>1, <1>2, <1>4, <1>5 DEF Settled
<1>9. AtEngine /\ AtIndex /\ AtSwitch
  BY <1>1 DEF AtEngine, AtIndex, AtSwitch, Idle
<1>10. OnDisk
  BY <1>1, <1>2, <1>4 DEF OnDisk
<1>11. QED
  BY <1>6, <1>7, <1>8, <1>9, <1>10 DEF IInv

\* Steps of others
LEMMA StutterStep ==
  ASSUME IInv, UNCHANGED vars
  PROVE  IInv'
<1>1. UNCHANGED <<store, disk, index, engine, ctx, job>>
  BY DEF vars
<1>2. UNCHANGED <<queue, buffer, crashes, task, clears, sent, dropped>>
  BY DEF vars
<1>3. Dag' /\ Workers' /\ Blamed'
  BY <1>1, <1>2, TypesNow, Same DEF Workers, Blamed
<1>4. QED
  BY <1>1, <1>2, <1>3, TypesNow, Worked

\* Every action keeps it.
LEMMA NextIInv == IInv /\ [Next]_vars => IInv'
<1> SUFFICES ASSUME IInv, [Next]_vars
             PROVE  IInv'
  OBVIOUS
<1>1. CASE \E p \in Peer, e \in Event : HandleEvents(p, e)
  BY <1>1, HandleEventsStep
<1>2. CASE \E i \in DOMAIN queue : HeavyCheck(i)
  BY <1>2, HeavyCheckStep
<1>3. CASE Insert \/ PushChild \/ Clear \/ Process
  BY <1>3, InsertStep, PushChildStep, ClearStep, ProcessStep
<1>4. CASE \E e \in Own : Emit(e)
  BY <1>4, EmitStep
<1>5. CASE JobStep
  BY <1>5, ProcessSavedFailsStep, ProcessSavedEventStep, ProcessEventEpochIndexStep,
     SwitchEpochToStep, NotifyStep, EndEventStep DEF JobStep
<1>6. CASE Commit \/ Crash
  BY <1>6, CommitStep, CrashStep
<1>7. CASE UNCHANGED vars
  BY <1>7, StutterStep
<1>8. QED
  BY <1>1, <1>2, <1>3, <1>4, <1>5, <1>6, <1>7 DEF Next

\* What the store, the index and those who deliver say of each other fits together, before, during
\* and after the sealing of an epoch, and after a restart.
THEOREM Invariance == Spec => []IInv
BY InitIInv, NextIInv, PTL DEF Spec

----------------------------------------------------------------------------
(* What the runs check *)

\* Where processEvent is, in the sealing of an epoch, tells which epochs the store, the index and
\* the readers of the checks are in.
LEMMA Stages ==
  ASSUME IInv
  PROVE  /\ store.epoch \in Nat /\ disk.epoch \in Nat
         /\ store.epoch \in {disk.epoch, disk.epoch + 1}
         /\ index.epoch \in {store.epoch, store.epoch - 1}
         /\ ctx.keys \in Nat /\ ctx.gas \in Nat
         /\ ctx.keys <= ctx.gas /\ ctx.gas <= store.epoch
         /\ engine \subseteq store.saved
<1>1. store.epoch \in Nat /\ disk.epoch \in Nat
  BY TypesNow DEF Stores
<1>2. job = Idle \/ (job # Idle /\ job.step \in {"engine", "index", "switch", "keys", "commit"})
  BY TypesNow DEF JobStates
<1>3. CASE job = Idle
  <2>1. job.step = "idle" /\ disk.epoch = store.epoch
    BY <1>3 DEF Idle, IInv, OnDisk
  <2>2. Followed(store.saved, store.epoch)
    BY <2>1 DEF IInv, Settled
  <2>3. QED
    BY <1>1, <2>1, <2>2 DEF Followed, InEpoch
<1>4. CASE job # Idle
  <2>1. /\ job.old \in Nat /\ disk.epoch = job.old /\ store.epoch \in {job.old, job.old + 1}
        /\ job.step \in {"engine", "index", "switch", "keys", "commit"}
    BY <1>1, <1>2, <1>4 DEF IInv, OnDisk
  <2>2. CASE job.step = "engine"
    <3>1. Followed(store.saved \ {job.event}, store.epoch)
      BY <2>2 DEF IInv, AtEngine
    <3>2. QED
      BY <1>1, <2>1, <3>1 DEF Followed, InEpoch
  <2>3. CASE job.step = "index"
    <3>1. /\ engine = InEpoch(store.saved, job.old) /\ index.epoch = job.old
          /\ ctx = [gas |-> job.old, keys |-> job.old]
      BY <2>3 DEF IInv, AtIndex
    <3>2. QED
      BY <1>1, <2>1, <3>1 DEF InEpoch
  <2>4. CASE job.step = "switch"
    <3>1. /\ index.epoch = job.old /\ engine \subseteq store.saved
          /\ ctx = [gas |-> job.old, keys |-> job.old]
      BY <2>4 DEF IInv, AtSwitch
    <3>2. QED
      BY <1>1, <2>1, <3>1
  <2>5. CASE job.step = "keys"
    <3>1. /\ index = NoIndex(store.epoch) /\ engine = {}
          /\ ctx = [gas |-> store.epoch, keys |-> job.old]
      BY <2>5 DEF IInv, AtSwitch
    <3>2. QED
      BY <1>1, <2>1, <3>1, NothingIndexed
  <2>6. CASE job.step = "commit"
    <3>1. Followed(store.saved, store.epoch)
      BY <2>6 DEF IInv, Settled
    <3>2. QED
      BY <1>1, <2>1, <3>1 DEF Followed, InEpoch
  <2>7. QED
    BY <2>1, <2>2, <2>3, <2>4, <2>5, <2>6
<1>5. QED
  BY <1>3, <1>4

\* The types of what the processor, processEvent and the store keep; the epochs that the readers
\* of the checks, the index and the store are in follow each other, and so does what is on disk.
THEOREM Typing == Spec => []TypeOK
<1>1. IInv => TypeOK
  <2> SUFFICES ASSUME IInv
               PROVE  TypeOK
    OBVIOUS
  <2>1. store.saved \subseteq Event /\ disk.saved \subseteq Event /\ store.lamport \in Nat
    BY TypesNow DEF Stores
  <2>2. store.epoch - disk.epoch \in 0 .. 1
    BY Stages
  <2>3. \A x \in buffer : x.event \in Event /\ x.peer \in Peer
    BY DEF IInv, Types, Tasks
  <2>4. job # Idle /\ job.by = "inserter" => task.step = "process" /\ task.x.event = job.event
    BY DEF IInv, Workers
  <2>5. /\ Len(queue) <= QueueLimit
        /\ clears \in Nat /\ sent \subseteq Own /\ dropped \subseteq Peer /\ crashes \in 0 .. MaxCrashes
    BY DEF IInv, Types
  <2>6. QED
    BY <2>1, <2>2, <2>3, <2>4, <2>5, Stages DEF TypeOK
<1>2. QED
  BY <1>1, Invariance, PTL

\* Only peers that sent events with faults are removed, however the events of others meet the
\* sealing of an epoch, each other or those of the emitter.
THEOREM Blameless == Spec => []OnlyFaultyDropped
<1>1. IInv => OnlyFaultyDropped
  BY DEF IInv, Blamed, OnlyFaultyDropped
<1>2. QED
  BY <1>1, Invariance, PTL

\* The index of a set of events, in the words of IndexRight
LEMMA RightIs ==
  ASSUME NEW n, NEW S, S = InEpoch(store.saved, n), store.saved \subseteq Event,
         store.lamport \in Nat,
         Kept(store.saved, n, store.lamport), Followed(store.saved, n)
  PROVE  Right(n, S)
<1>1. S \subseteq Event /\ S \subseteq Nat /\ \A e \in S : Body[e].lamport \in Nat
  BY Bodies DEF InEpoch
<1>2. \A e \in S : Valid(e) /\ Body[e].parents \subseteq S
  <2>1. \A e \in S : Valid(e) /\ e \in store.saved /\ Body[e].epoch = n
                     /\ Body[e].parents \subseteq store.saved
    BY DEF InEpoch, Kept, Closed
  <2>2. \A e \in S : \A p \in Body[e].parents : Body[p].epoch = n
    BY <1>1, <2>1, Bodies
  <2>3. QED
    BY <2>1, <2>2 DEF InEpoch
<1>3. engine = S /\ index.epoch = n /\ ctx = [gas |-> n, keys |-> n] /\ Indexes(index, S)
  BY DEF Followed
<1>4. index.heads = {e \in S : \A f \in S : e \notin Body[f].parents}
  BY <1>3 DEF Indexes, Heads
<1>5. DOMAIN index.lasts = {Body[e].creator : e \in S}
  BY <1>3 DEF Indexes, Lasts
<1>6. ASSUME NEW c \in DOMAIN index.lasts, NEW of, of = {e \in S : Body[e].creator = c}
      PROVE  \/ index.lasts[c] = Max(of)
             \/ /\ index.lasts[c] \in of
                /\ \E e, f \in of : e # f /\ Body[e].parents \cap of = Body[f].parents \cap of
  <2>1. of = By(S, c)
    BY <1>6 DEF By
  <2>2. index.lasts[c] \in of /\ (Forked(of) \/ Chain(index.lasts[c], of))
    BY <1>3, <2>1 DEF Indexes, Lasts
  <2>3. CASE Forked(of)
    BY <2>2, <2>3 DEF Forked
  <2>4. CASE Chain(index.lasts[c], of)
    <3>1. \A e \in of : e <= index.lasts[c]
      BY <2>4 DEF Chain
    <3>2. of \in SUBSET Nat
      BY <1>1, <1>6
    <3>3. Max(of) = index.lasts[c]
      BY <2>2, <3>1, <3>2, MaxUnique
    <3>4. QED
      BY <3>3
  <2>5. QED
    BY <2>2, <2>3, <2>4
<1>7. store.lamport = Max({0} \cup {Body[e].lamport : e \in S})
  <2> DEFINE L == {0} \cup {Body[e].lamport : e \in S}
             h == store.lamport
  <2>1. Height(h, S)
    BY DEF Kept
  <2>2. L \in SUBSET Nat /\ h \in L /\ h \in Nat
    BY <1>1, <2>1 DEF Height
  <2>3. \A y \in L : y <= h
    BY <2>1, <2>2 DEF Height
  <2> HIDE DEF L, h
  <2>4. Max(L) = h
    BY <2>2, <2>3, MaxUnique
  <2>5. QED
    BY <2>4 DEF L, h
<1>8. QED
  BY <1>2, <1>3, <1>4, <1>5, <1>6, <1>7, Zenon DEF Right

\* Whenever nobody is in processEvent, and after a restart whatever it lost, heads, last events and
\* the highest Lamport time are those of the epoch's saved events, the engine has them all, and the
\* readers of the checks are in the epoch; what is on disk never has a sealed epoch unsealed.
THEOREM IndexAlwaysRight == Spec => []IndexRight
<1>1. IInv => IndexRight
  <2> SUFFICES ASSUME IInv
               PROVE  IndexRight
    OBVIOUS
  <2>1. ASSUME job = Idle
        PROVE  Right(store.epoch, InEpoch(store.saved, store.epoch))
    <3>1. job.step = "idle"
      BY <2>1 DEF Idle
    <3>2. Kept(store.saved, store.epoch, store.lamport) /\ Followed(store.saved, store.epoch)
      BY <3>1 DEF IInv, Settled
    <3>3. store.saved \subseteq Event /\ store.lamport \in Nat
      BY TypesNow DEF Stores
    <3> DEFINE n == store.epoch
               S == InEpoch(store.saved, n)
    <3> HIDE DEF n, S
    <3>4. Kept(store.saved, n, store.lamport) /\ Followed(store.saved, n)
          /\ S = InEpoch(store.saved, n)
      BY <3>2 DEF n, S
    <3>5. Right(n, S)
      BY <3>3, <3>4, RightIs
    <3>6. QED
      BY <3>5 DEF n, S
  <2>2. ~Seals(InEpoch(disk.saved, disk.epoch))
    BY DEF IInv, OnDisk, Kept
  <2>3. QED
    BY <2>1, <2>2 DEF IndexRight
<1>2. QED
  BY <1>1, Invariance, PTL
=============================================================================
