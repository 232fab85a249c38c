---------------------------- MODULE EmitterProofs ----------------------------
(***************************************************************************)
(* Proofs about the emission of events, module Emitter: the types, that a  *)
(* doublesign needs an event that left the node before its ID was in the   *)
(* file, and that no event or vote of the validator is forgotten.          *)
(***************************************************************************)
EXTENDS Emitter, SequenceTheorems, TLAPS

Front(c) == SubSeq(c, 1, Len(c) - 1)

Parent(e) == [e EXCEPT !.chain = Front(@)]

\* Peers had it before its ID was in the file; before both files were written.
Leaked(e) == \E s \in {"process", "event"} : <<s, e>> \in premature
LeakedVotes(e) == \E s \in {"process", "event", "votes"} : <<s, e>> \in premature

Busy == job # Resting

Database == [epoch : Epoch, own : SUBSET Event, last : Seq(Link), voted : Vote]

Types ==
  /\ db \in Database /\ disk \in Database
  /\ eventFile = {} \/ \E e \in Event : eventFile = {e}
  /\ votesFile \in Vote
  /\ job = Resting \/ job \in [step : {"process", "event", "votes", "send"}, event : db.own]
  /\ net \in SUBSET Event
  /\ premature \in SUBSET ({"process", "event", "votes", "send"} \X net)
  /\ life \in Life /\ locked \in BOOLEAN
  /\ \A e \in db.own \cup disk.own \cup net \cup eventFile : Len(e.chain) \in 1 .. MaxSeq

\* A store has the parents of what it has; the last event is one of it, nothing is built on
\* it yet, and no event votes beyond LastBVs.
Store(d) ==
  /\ \A e \in d.own : e.epoch <= d.epoch
  /\ \A e \in d.own : Len(e.chain) > 1 => Parent(e) \in d.own
  /\ d.last # <<>> => [epoch |-> d.epoch, chain |-> d.last] \in d.own
  /\ \A e \in d.own : ~(e.epoch = d.epoch /\ Front(e.chain) = d.last)
  /\ \A e \in d.own : VoteOf(e) <= d.voted

\* The commit never falls behind the epoch, and the file is not ahead of it.
Epochs ==
  /\ disk.epoch = db.epoch /\ disk.own \subseteq db.own
  /\ \A e \in eventFile : e.epoch <= disk.epoch

Under(e, f) == Len(e.chain) <= Len(f.chain) /\ Below(e, f)

\* What is being emitted is on top of the file until it is in the file, and its votes are
\* above those in the other file; a peer that has it already has it early.
Emitting ==
  Busy =>
    LET e == job.event
    IN /\ job.step \in {"process", "event"} => \A g \in eventFile : g.epoch < e.epoch \/ Under(g, e)
       /\ job.step \in {"votes", "send"} => eventFile = {e}
       /\ job.step # "send" => VoteOf(e) = 0 \/ VoteOf(e) > votesFile
       /\ job.step = "send" => VoteOf(e) <= votesFile
       /\ e \in net /\ job.step \in {"process", "event"} => Leaked(e)
       /\ e \in net /\ job.step # "send" => LeakedVotes(e)

\* Events in the store or with peers: every one is remembered, or is being emitted.
Known(e) ==
  \/ e \in disk.own
  \/ e.epoch < disk.epoch
  \/ \E f \in eventFile : Under(e, f)
  \/ Leaked(e)

VoteKnown(e) ==
  \/ e \in disk.own
  \/ VoteOf(e) <= votesFile
  \/ LeakedVotes(e)

Ever == net \cup db.own

Memory ==
  \A e \in Ever :
    /\ Known(e) \/ (Busy /\ job.event = e /\ job.step \in {"process", "event"})
    /\ VoteKnown(e) \/ (Busy /\ job.event = e /\ job.step # "send")

Forks == \A e, f \in Ever : Fork(e, f) => Leaked(e) \/ Leaked(f)

Votes ==
  \A e, f \in Ever :
    e # f /\ VoteOf(e) # 0 /\ VoteOf(e) = VoteOf(f) => LeakedVotes(e) \/ LeakedVotes(f)

IInv == Types /\ Store(db) /\ Store(disk) /\ Epochs /\ Emitting /\ Memory /\ Forks /\ Votes

----------------------------------------------------------------------------
(* Chains *)

\* What a chain is without its last link.
LEMMA FrontIs ==
  ASSUME NEW c \in Seq(Link), Len(c) > 0
  PROVE  /\ Front(c) \in Seq(Link) /\ Len(Front(c)) = Len(c) - 1
         /\ \A k \in 1 .. Len(c) - 1 : Front(c)[k] = c[k]
<1>1. Len(c) \in Nat /\ \A k \in 1 .. Len(c) : c[k] \in Link
  BY LenProperties, ElementOfSeq
<1> DEFINE n == Len(c) - 1
<1>2. n \in Nat /\ \A k \in 1 .. n : c[k] \in Link
  BY <1>1
<1>3. /\ SubSeq(c, 1, n) \in Seq(Link)
      /\ Len(SubSeq(c, 1, n)) = IF 1 <= n THEN n - 1 + 1 ELSE 0
      /\ \A k \in 1 .. n - 1 + 1 : SubSeq(c, 1, n)[k] = c[1 + k - 1]
  <2>1. 1 \in Int /\ n \in Int
    BY <1>2
  <2> HIDE DEF n
  <2>2. QED
    BY <1>2, <2>1, SubSeqProperties
<1>4. Len(SubSeq(c, 1, n)) = n /\ \A k \in 1 .. n : SubSeq(c, 1, n)[k] = c[k]
  <2> HIDE DEF n
  <2>1. n - 1 + 1 = n /\ \A k \in 1 .. n : 1 + k - 1 = k
    BY <1>2
  <2>2. QED
    BY <1>2, <1>3, <2>1
<1>5. QED
  BY <1>3, <1>4 DEF Front

\* A link that is appended is the last, and nothing else has changed.
LEMMA AppendIs ==
  ASSUME NEW c \in Seq(Link), NEW l \in Link
  PROVE  /\ Append(c, l) \in Seq(Link) /\ Len(Append(c, l)) = Len(c) + 1
         /\ Front(Append(c, l)) = c
         /\ Append(c, l)[Len(c) + 1] = l
         /\ \A k \in 1 .. Len(c) : Append(c, l)[k] = c[k]
<1> DEFINE d == Append(c, l)
<1>1. d \in Seq(Link) /\ Len(d) = Len(c) + 1 /\ d[Len(c) + 1] = l /\ \A k \in 1 .. Len(c) : d[k] = c[k]
  BY AppendProperties
<1>2. Len(c) \in Nat
  BY LenProperties
<1>3. Front(d) \in Seq(Link) /\ Len(Front(d)) = Len(c) /\ \A k \in 1 .. Len(c) : Front(d)[k] = c[k]
  <2> HIDE DEF d
  <2>1. Len(d) > 0 /\ Len(d) - 1 = Len(c)
    BY <1>1, <1>2
  <2>2. QED
    BY <1>1, <2>1, FrontIs
<1>4. Front(d) = c
  <2> HIDE DEF d
  <2>1. QED
    BY <1>3, SeqEqual
<1>5. QED
  BY <1>1, <1>4

\* To be below an event is to agree with its chain as far as one's own goes.
LEMMA UnderIs ==
  ASSUME NEW e \in Event, NEW f \in Event
  PROVE  Under(e, f) <=> /\ e.epoch = f.epoch /\ Len(e.chain) <= Len(f.chain)
                         /\ \A k \in 1 .. Len(e.chain) : f.chain[k] = e.chain[k]
<1>1. /\ e.chain \in Seq(Link) /\ Len(e.chain) \in Nat
      /\ f.chain \in Seq(Link) /\ Len(f.chain) \in Nat
      /\ \A k \in 1 .. Len(f.chain) : f.chain[k] \in Link
  BY LenProperties, ElementOfSeq DEF Event
<1>2. ASSUME Len(e.chain) <= Len(f.chain)
      PROVE  LET g == SubSeq(f.chain, 1, Len(e.chain))
             IN /\ g \in Seq(Link) /\ Len(g) = Len(e.chain)
                /\ \A k \in 1 .. Len(e.chain) : g[k] = f.chain[k]
  <2>1. \A k \in 1 .. Len(e.chain) : f.chain[k] \in Link
    BY <1>1, <1>2
  <2>2. 1 \in Int /\ Len(e.chain) \in Int
    BY <1>1
  <2>3. QED
    BY <1>1, <2>1, <2>2, SubSeqProperties
<1>3. QED
  BY <1>1, <1>2, SeqEqual DEF Under, Below

\* Below is a partial order.
LEMMA UnderTransitive ==
  ASSUME NEW e \in Event, NEW f \in Event, NEW g \in Event, Under(e, f), Under(f, g)
  PROVE  Under(e, g)
<1>1. Len(e.chain) \in Nat /\ Len(f.chain) \in Nat /\ Len(g.chain) \in Nat
  BY LenProperties DEF Event
<1>2. QED
  BY <1>1, UnderIs

LEMMA UnderReflexive ==
  ASSUME NEW e \in Event
  PROVE  Under(e, e)
<1>1. Len(e.chain) \in Nat
  BY LenProperties DEF Event
<1>2. QED
  BY <1>1, UnderIs

\* Forks share the chain below them.
LEMMA ForkIs ==
  \A e, f : Fork(e, f) <=>
    e # f /\ e.epoch = f.epoch /\ Len(e.chain) = Len(f.chain) /\ Front(e.chain) = Front(f.chain)
BY DEF Fork, Front

\* Votes are numbers.
LEMMA VoteOfIs ==
  ASSUME NEW e \in Event, Len(e.chain) > 0
  PROVE  VoteOf(e) \in Vote /\ VoteOf(e) \in Nat
<1>1. e.chain \in Seq(Link) /\ Len(e.chain) \in Nat
  BY LenProperties DEF Event
<1>2. e.chain[Len(e.chain)] \in Link
  BY <1>1, ElementOfSeq
<1>3. QED
  BY <1>2, EmitterAssumption DEF VoteOf, Link, Vote

LEMMA VotesAreNumbers == Vote \subseteq Nat
BY EmitterAssumption DEF Vote

----------------------------------------------------------------------------
(* The store *)

\* A store that gets an event which it has not, on top of one that it has or at the beginning, is
\* one again: nothing is built on the event, as what is built on it would be there with it.
LEMMA SavedIs ==
  ASSUME NEW d \in Database, Store(d), NEW e \in Event, Len(e.chain) > 0,
         \A f \in d.own : Len(f.chain) > 0,
         e \notin d.own, e.epoch = d.epoch,
         Len(e.chain) > 1 => Parent(e) \in d.own
  PROVE  /\ Saved(d, e) \in Database /\ Store(Saved(d, e))
         /\ Saved(d, e).epoch = d.epoch /\ Saved(d, e).own = d.own \cup {e}
<1> DEFINE s == Saved(d, e)
<1>1. VoteOf(e) \in Vote /\ d.voted \in Vote /\ VoteOf(e) \in Nat /\ d.voted \in Nat
  BY VoteOfIs, VotesAreNumbers DEF Database
<1>2. Larger(d.voted, VoteOf(e)) \in Vote
  BY <1>1 DEF Larger
<1>3. /\ s \in Database
      /\ s.epoch = d.epoch /\ s.own = d.own \cup {e} /\ s.last = e.chain
      /\ s.voted = Larger(d.voted, VoteOf(e))
  BY <1>2 DEF Saved, Database, Event
<1>4. \A f \in s.own : VoteOf(f) <= s.voted
  <2>1. ASSUME NEW f \in d.own
        PROVE  VoteOf(f) <= s.voted
    <3>1. VoteOf(f) \in Nat /\ VoteOf(f) <= d.voted
      BY VoteOfIs DEF Store, Database
    <3>2. QED
      BY <1>1, <1>3, <3>1 DEF Larger
  <2>2. VoteOf(e) <= s.voted
    BY <1>1, <1>3 DEF Larger
  <2>3. QED
    BY <1>3, <2>1, <2>2
<1>5. \A f \in s.own : ~(f.epoch = s.epoch /\ Front(f.chain) = s.last)
  <2>1. ASSUME NEW f \in s.own, f.epoch = s.epoch, Front(f.chain) = s.last
        PROVE  FALSE
    <3>1. f \in Event /\ f.chain \in Seq(Link) /\ Len(f.chain) \in Nat /\ Len(f.chain) > 0
      BY <1>3, LenProperties DEF Database, Event
    <3>2. Len(e.chain) = Len(f.chain) - 1
      BY <1>3, <2>1, <3>1, FrontIs
    <3>3. f # e
      BY <3>1, <3>2
    <3>4. Len(f.chain) > 1
      BY <3>1, <3>2
    <3>5. Parent(f) \in d.own
      BY <1>3, <3>3, <3>4 DEF Store
    <3>6. Parent(f) = e
      BY <1>3, <2>1, <3>1 DEF Parent, Event
    <3>7. QED
      BY <3>5, <3>6
  <2>2. QED
    BY <2>1
<1>6. \A f \in s.own : f.epoch <= s.epoch
  BY <1>3 DEF Store, Database, Event, Epoch
<1>7. \A f \in s.own : Len(f.chain) > 1 => Parent(f) \in s.own
  BY <1>3 DEF Store
<1>8. s.last # <<>> => [epoch |-> s.epoch, chain |-> s.last] \in s.own
  <2>1. e = [epoch |-> s.epoch, chain |-> s.last]
    BY <1>3 DEF Event
  <2>2. QED
    BY <1>3, <2>1
<1>9. Store(s)
  <2> HIDE DEF s
  <2>1. QED
    BY <1>4, <1>5, <1>6, <1>7, <1>8 DEF Store
<1>10. QED
  BY <1>3, <1>9

\* A store that begins the next epoch is one.
LEMMA SealedIs ==
  ASSUME NEW d \in Database, Store(d), d.epoch < MaxEpoch
  PROVE  /\ Sealed(d) \in Database /\ Store(Sealed(d))
         /\ Sealed(d).epoch = d.epoch + 1 /\ Sealed(d).own = d.own
<1>1. d.epoch \in Nat /\ d.epoch + 1 \in Epoch
  BY EmitterAssumption DEF Database, Epoch
<1>2. <<>> \in Seq(Link)
  BY EmptySeq
<1>3. Sealed(d) \in Database
  BY <1>1, <1>2 DEF Sealed, Database
<1>4. /\ Sealed(d).epoch = d.epoch + 1 /\ Sealed(d).own = d.own /\ Sealed(d).last = <<>>
      /\ Sealed(d).voted = d.voted
  BY DEF Sealed, Database
<1>5. \A f \in d.own : f.epoch <= d.epoch /\ f.epoch \in Nat
  BY DEF Store, Database, Event, Epoch
<1>6. Store(Sealed(d))
  BY <1>1, <1>4, <1>5 DEF Store
<1>7. QED
  BY <1>3, <1>4, <1>6

\* What the end of processEvent makes of the stores: the commit keeps up with the epoch.
LEMMA EndEventIs ==
  ASSUME NEW d \in Database, Store(d), disk \in Database, Store(disk),
         disk.epoch = d.epoch, disk.own \subseteq d.own, EndEvent(d)
  PROVE  /\ db' \in Database /\ disk' \in Database /\ Store(db)' /\ Store(disk)'
         /\ disk'.epoch = db'.epoch /\ d.epoch <= disk'.epoch
         /\ disk.own \subseteq disk'.own /\ disk'.own \subseteq db'.own /\ db'.own = d.own
<1>1. d.epoch \in Nat
  BY DEF Database, Epoch
<1>2. CASE db' = d /\ disk' \in {d, disk}
  BY <1>1, <1>2 DEF Store
<1>3. CASE d.epoch < MaxEpoch /\ db' = Sealed(d) /\ disk' = db'
  <2>1. /\ Sealed(d) \in Database /\ Store(Sealed(d))
        /\ Sealed(d).epoch = d.epoch + 1 /\ Sealed(d).own = d.own
    BY <1>3, SealedIs
  <2>2. Store(db)' /\ Store(disk)'
    BY <1>3, <2>1 DEF Store
  <2>3. QED
    BY <1>1, <1>3, <2>1, <2>2
<1>4. QED
  BY <1>2, <1>3 DEF EndEvent

----------------------------------------------------------------------------
(* What is remembered *)

\* Nothing is forgotten while the files stay, the commit goes on, and what has leaked has.
LEMMA KnownKept ==
  ASSUME Types, Types', UNCHANGED files, disk.own \subseteq disk'.own, disk.epoch <= disk'.epoch,
         premature \subseteq premature'
  PROVE  /\ \A e \in Event : Known(e) => Known(e)'
         /\ \A e \in Event : VoteKnown(e) => VoteKnown(e)'
<1>1. disk.epoch \in Nat /\ disk'.epoch \in Nat /\ \A e \in Event : e.epoch \in Nat
  BY DEF Types, Database, Event, Epoch
<1>2. \A e : (Leaked(e) => Leaked(e)') /\ (LeakedVotes(e) => LeakedVotes(e)')
  BY DEF Leaked, LeakedVotes
<1>3. \A e, f : Under(e, f) <=> Under(e, f)'
  BY DEF Under, Below
<1>4. \A e : VoteOf(e)' = VoteOf(e)
  BY DEF VoteOf
<1>5. QED
  BY <1>1, <1>2, <1>3, <1>4 DEF Known, VoteKnown, files

\* Nor is there a new pair of forks, or of the same votes, without a new event.
LEMMA PairsKept ==
  ASSUME Forks, Votes, Ever' \subseteq Ever, premature \subseteq premature'
  PROVE  Forks' /\ Votes'
<1>1. \A e : (Leaked(e) => Leaked(e)') /\ (LeakedVotes(e) => LeakedVotes(e)')
  BY DEF Leaked, LeakedVotes
<1>2. \A e, f : Fork(e, f)' <=> Fork(e, f)
  BY DEF Fork
<1>3. \A e : VoteOf(e)' = VoteOf(e)
  BY DEF VoteOf
<1>4. Forks'
  BY <1>1, <1>2 DEF Forks
<1>5. Votes'
  BY <1>1, <1>3 DEF Votes
<1>6. QED
  BY <1>4, <1>5

\* What createEvent makes when it neither waits nor gives up: it is on top of the file, not in
\* the store, and peers have nothing at its place, nor its votes, but what has leaked.
LEMMA NewEvent ==
  ASSUME IInv, job = Resting, ~Paused, ~Differs, Len(db.last) < MaxSeq,
         NEW v \in Vote, MayVote(v),
         NEW e, e = [epoch |-> db.epoch, chain |-> Append(db.last, [life |-> life, vote |-> v])]
  PROVE  /\ e \in Event /\ e.epoch = db.epoch /\ Front(e.chain) = db.last
         /\ Len(e.chain) = Len(db.last) + 1 /\ Len(e.chain) \in 1 .. MaxSeq /\ VoteOf(e) = v
         /\ \A g \in eventFile : g.epoch < e.epoch \/ Under(g, e)
         /\ e \notin db.own
         /\ \A f \in Ever : f.epoch = e.epoch /\ Front(f.chain) = db.last => Leaked(f)
         /\ \A f \in Ever : v # 0 /\ VoteOf(f) = v => LeakedVotes(f)
<1> USE DEF IInv
<1>1. db.last \in Seq(Link) /\ Len(db.last) \in Nat /\ db.epoch \in Epoch /\ db.epoch \in Nat
  BY LenProperties DEF Types, Database, Epoch
<1>2. [life |-> life, vote |-> v] \in Link
  BY DEF Types, Link
<1>3. /\ e.chain \in Seq(Link) /\ Len(e.chain) = Len(db.last) + 1 /\ Front(e.chain) = db.last
      /\ e.chain[Len(db.last) + 1] = [life |-> life, vote |-> v]
      /\ \A k \in 1 .. Len(db.last) : e.chain[k] = db.last[k]
  BY <1>1, <1>2, AppendIs
<1>4. /\ e \in Event /\ e.epoch = db.epoch /\ VoteOf(e) = v
      /\ Len(e.chain) \in 1 .. MaxSeq
  BY <1>1, <1>3, EmitterAssumption DEF Event, VoteOf
<1>5. ASSUME NEW g \in eventFile
      PROVE  g.epoch < e.epoch \/ (g = [epoch |-> db.epoch, chain |-> db.last] /\ Under(g, e))
  <2>1. g \in Event /\ g.epoch \in Nat /\ g.epoch <= db.epoch
    BY DEF Types, Event, Epoch, Epochs
  <2>2. g.epoch < db.epoch \/ g = [epoch |-> db.epoch, chain |-> db.last]
    BY <1>1, <2>1 DEF Differs
  <2>3. ASSUME g = [epoch |-> db.epoch, chain |-> db.last]
        PROVE  Under(g, e)
    <3>1. g.epoch = e.epoch /\ g.chain = db.last
      BY <1>4, <2>3
    <3>2. Len(g.chain) <= Len(e.chain) /\ \A k \in 1 .. Len(g.chain) : e.chain[k] = g.chain[k]
      BY <1>1, <1>3, <3>1
    <3>3. QED
      BY <1>4, <2>1, <3>1, <3>2, UnderIs
  <2>4. QED
    BY <1>4, <2>2, <2>3
<1>6. e \notin db.own
  BY <1>3, <1>4 DEF Store
<1>7. ASSUME NEW f \in Ever, f.epoch = e.epoch, Front(f.chain) = db.last
      PROVE  Leaked(f)
  <2>1. f \notin db.own /\ f \notin disk.own
    BY <1>4, <1>7 DEF Store, Epochs
  <2>2. Known(f)
    BY DEF Memory, Busy
  <2>3. ~(f.epoch < disk.epoch)
    BY <1>1, <1>4, <1>7 DEF Epochs
  <2>4. ASSUME NEW g \in eventFile, Under(f, g)
        PROVE  FALSE
    <3>1. f.epoch = g.epoch /\ Len(f.chain) <= Len(g.chain)
      BY <2>4 DEF Under, Below
    <3>2. g.chain = db.last
      BY <1>1, <1>4, <1>5, <1>7, <3>1
    <3>3. f \in Event /\ f.chain \in Seq(Link) /\ Len(f.chain) \in Nat /\ Len(f.chain) > 0
      BY LenProperties DEF Ever, Types, Database, Event
    <3>4. Len(db.last) = Len(f.chain) - 1
      BY <1>7, <3>3, FrontIs
    <3>5. QED
      BY <1>1, <3>1, <3>2, <3>3, <3>4
  <2>5. QED
    BY <2>1, <2>2, <2>3, <2>4 DEF Known
<1>8. ASSUME NEW f \in Ever, v # 0, VoteOf(f) = v
      PROVE  LeakedVotes(f)
  <2>1. v \in Nat /\ votesFile \in Nat /\ db.voted \in Nat
    BY VotesAreNumbers DEF Types, Database
  <2>2. v > db.voted /\ v > votesFile
    BY <1>8, <2>1 DEF MayVote, Larger
  <2>3. f \notin db.own /\ f \notin disk.own
    BY <1>8, <2>1, <2>2 DEF Store, Epochs
  <2>4. VoteKnown(f)
    BY DEF Memory, Busy
  <2>5. QED
    BY <1>8, <2>1, <2>2, <2>3, <2>4 DEF VoteKnown
<1>9. QED
  BY <1>3, <1>4, <1>5, <1>6, <1>7, <1>8

----------------------------------------------------------------------------
(* Steps *)

\* An event that is created is new to the store; what peers may have at its place has leaked.
LEMMA CreateStep ==
  ASSUME IInv, Create
  PROVE  IInv'
<1> USE DEF IInv
<1>0. PICK v \in Vote :
        /\ MayVote(v)
        /\ \E e \in {[epoch |-> db.epoch,
                     chain |-> Append(db.last, [life |-> life, vote |-> v])]} :
             db' = Saved(db, e) /\ job' = [step |-> "process", event |-> e]
  BY DEF Create
<1> DEFINE e == [epoch |-> db.epoch, chain |-> Append(db.last, [life |-> life, vote |-> v])]
<1>1. /\ MayVote(v)
      /\ e = [epoch |-> db.epoch, chain |-> Append(db.last, [life |-> life, vote |-> v])]
      /\ db' = Saved(db, e) /\ job' = [step |-> "process", event |-> e]
  BY <1>0
<1> HIDE DEF e
<1>2. /\ job = Resting /\ ~Paused /\ ~Differs /\ Len(db.last) < MaxSeq
      /\ UNCHANGED <<disk, files, peers, life, locked>>
  BY DEF Create
<1>3. /\ e \in Event /\ e.epoch = db.epoch /\ Front(e.chain) = db.last
      /\ Len(e.chain) = Len(db.last) + 1 /\ Len(e.chain) \in 1 .. MaxSeq /\ VoteOf(e) = v
      /\ \A g \in eventFile : g.epoch < e.epoch \/ Under(g, e)
      /\ e \notin db.own
      /\ \A f \in Ever : f.epoch = e.epoch /\ Front(f.chain) = db.last => Leaked(f)
      /\ \A f \in Ever : v # 0 /\ VoteOf(f) = v => LeakedVotes(f)
  BY <1>1, <1>2, NewEvent
<1>4. db \in Database /\ disk \in Database /\ \A f \in db.own : Len(f.chain) > 0
  BY DEF Types
<1>5. Len(e.chain) > 1 => Parent(e) \in db.own
  <2>1. Parent(e) = [epoch |-> db.epoch, chain |-> db.last]
    BY <1>3 DEF Parent, Event
  <2>2. ASSUME Len(e.chain) > 1
        PROVE  db.last # <<>>
    BY <1>3, <2>2, EmptySeq
  <2>3. QED
    BY <2>1, <2>2 DEF Store
<1>6. db' \in Database /\ Store(db)' /\ db'.epoch = db.epoch /\ db'.own = db.own \cup {e}
  <2>1. /\ Saved(db, e) \in Database /\ Store(Saved(db, e))
        /\ Saved(db, e).epoch = db.epoch /\ Saved(db, e).own = db.own \cup {e}
    BY <1>3, <1>4, <1>5, SavedIs
  <2>2. QED
    BY <1>1, <2>1 DEF Store
<1>7. Types'
  BY <1>1, <1>2, <1>3, <1>6 DEF Types, files, peers
<1>8. Store(disk)' /\ Epochs'
  BY <1>2, <1>6 DEF Store, Epochs, files
<1>9. /\ \A f \in Event : Known(f) => Known(f)'
      /\ \A f \in Event : VoteKnown(f) => VoteKnown(f)'
  BY <1>2, <1>7, disk.epoch \in Nat, KnownKept DEF peers, Types, Database, Epoch
<1>10. Memory'
  <2>1. \A f \in Ever : f \in Event /\ Known(f) /\ VoteKnown(f)
    BY <1>2 DEF Memory, Busy, Ever, Types, Database
  <2>2. Ever' = Ever \cup {e} /\ Busy'
    BY <1>1, <1>2, <1>6 DEF Ever, Busy, peers, Resting
  <2>3. QED
    BY <1>1, <1>9, <2>1, <2>2 DEF Memory
<1>11. Emitting'
  <2>1. e \in net => Leaked(e) /\ LeakedVotes(e)
    BY <1>3 DEF Ever, Leaked, LeakedVotes
  <2>2. v = 0 \/ v > votesFile
    BY <1>1, VotesAreNumbers DEF MayVote, Larger, Types, Database
  <2>3. QED
    BY <1>1, <1>2, <1>3, <2>1, <2>2 DEF Emitting, files, peers, Under, Below, Leaked, LeakedVotes, VoteOf
<1>12. Forks'
  <2>1. \A f \in Ever : Fork(e, f) \/ Fork(f, e) => Leaked(f)
    BY <1>3, ForkIs
  <2>2. ~Fork(e, e)
    BY DEF Fork
  <2>3. Ever' = Ever \cup {e}
    BY <1>2, <1>6 DEF Ever, peers
  <2>4. QED
    BY <1>2, <2>1, <2>2, <2>3 DEF Forks, Fork, Leaked, peers
<1>13. Votes'
  <2>1. \A f \in Ever : VoteOf(e) # 0 /\ VoteOf(f) = VoteOf(e) => LeakedVotes(f)
    BY <1>3
  <2>2. Ever' = Ever \cup {e}
    BY <1>2, <1>6 DEF Ever, peers
  <2>3. QED
    BY <1>2, <2>1, <2>2 DEF Votes, VoteOf, LeakedVotes, peers
<1>14. QED
  BY <1>6, <1>7, <1>8, <1>10, <1>11, <1>12, <1>13

\* The node does not emit, and what its stores get they have, or peers have it.
LEMMA QuietStep ==
  ASSUME IInv, job = Resting, UNCHANGED <<files, job, peers, life>>, locked' \in BOOLEAN,
         db' \in Database, disk' \in Database, Store(db)', Store(disk)',
         disk'.epoch = db'.epoch, disk.epoch <= disk'.epoch,
         disk.own \subseteq disk'.own, disk'.own \subseteq db'.own, db'.own \subseteq Ever
  PROVE  IInv'
<1> USE DEF IInv
<1>1. Types'
  BY DEF Types, files, peers, Ever
<1>2. Epochs'
  <2>1. disk.epoch \in Nat /\ disk'.epoch \in Nat /\ \A e \in eventFile : e.epoch \in Nat
    BY DEF Types, Database, Event, Epoch
  <2>2. QED
    BY <2>1 DEF Epochs, files
<1>3. Emitting'
  BY DEF Emitting, Busy
<1>4. Ever' \subseteq Ever /\ Ever \subseteq Event
  BY DEF Ever, peers, Types, Database
<1>5. Memory'
  <2>1. /\ \A f \in Event : Known(f) => Known(f)'
        /\ \A f \in Event : VoteKnown(f) => VoteKnown(f)'
    BY <1>1, KnownKept DEF peers
  <2>2. QED
    BY <1>4, <2>1 DEF Memory, Busy
<1>6. Forks' /\ Votes'
  BY <1>4, PairsKept DEF peers
<1>7. QED
  BY <1>1, <1>2, <1>3, <1>5, <1>6

\* An own event comes back from a peer.
LEMMA ReceiveStep ==
  ASSUME IInv, NEW e \in net, Receive(e)
  PROVE  IInv'
<1> USE DEF IInv
<1>1. e \in Event /\ Len(e.chain) > 0 /\ db \in Database /\ disk \in Database
      /\ \A f \in db.own : Len(f.chain) > 0
  BY DEF Types
<1>2. Len(e.chain) > 1 => Parent(e) \in db.own
  <2> DEFINE n == Len(e.chain)
  <2>1. n = 1 \/ Parent(e) \in db.own
    BY Zenon DEF Receive, Parent, Front
  <2>2. n \in Nat
    BY <1>1, LenProperties DEF Event
  <2> HIDE DEF n
  <2>3. n > 1 => Parent(e) \in db.own
    BY <2>1, <2>2
  <2>4. QED
    BY <2>3 DEF n
<1>3. /\ Saved(db, e) \in Database /\ Store(Saved(db, e))
      /\ Saved(db, e).epoch = db.epoch /\ Saved(db, e).own = db.own \cup {e}
  BY <1>1, <1>2, SavedIs DEF Receive
<1>4. /\ db' \in Database /\ disk' \in Database /\ Store(db)' /\ Store(disk)'
      /\ disk'.epoch = db'.epoch /\ db.epoch <= disk'.epoch
      /\ disk.own \subseteq disk'.own /\ disk'.own \subseteq db'.own /\ db'.own = db.own \cup {e}
  <2>1. disk.epoch = db.epoch /\ disk.own \subseteq db.own \cup {e} /\ EndEvent(Saved(db, e))
    BY DEF Epochs, Receive
  <2> DEFINE d == Saved(db, e)
  <2>2. d \in Database /\ Store(d) /\ d.epoch = db.epoch /\ d.own = db.own \cup {e} /\ EndEvent(d)
    BY <1>3, <2>1
  <2> HIDE DEF d
  <2>3. QED
    BY <1>1, <2>1, <2>2, EndEventIs
<1>5. db'.own \subseteq Ever /\ disk.epoch <= disk'.epoch
  BY <1>4 DEF Ever, Epochs
<1>6. job = Resting /\ UNCHANGED <<files, job, peers, life>> /\ locked' \in BOOLEAN
  BY DEF Receive, Types
<1>7. QED
  BY <1>4, <1>5, <1>6, QuietStep

\* Other events are processed, and the epoch is sealed.
LEMMA SealStep ==
  ASSUME IInv, Seal
  PROVE  IInv'
<1> USE DEF IInv
<1>1. /\ db' \in Database /\ disk' \in Database /\ Store(db)' /\ Store(disk)'
      /\ disk'.epoch = db'.epoch /\ db.epoch <= disk'.epoch
      /\ disk.own \subseteq disk'.own /\ disk'.own \subseteq db'.own /\ db'.own = db.own
  <2>1. /\ db \in Database /\ disk \in Database /\ disk.epoch = db.epoch
        /\ disk.own \subseteq db.own /\ EndEvent(db)
    BY DEF Types, Epochs, Seal
  <2>2. QED
    BY <2>1, EndEventIs
<1>2. db'.own \subseteq Ever /\ disk.epoch <= disk'.epoch
  BY <1>1 DEF Ever, Epochs
<1>3. job = Resting /\ UNCHANGED <<files, job, peers, life>> /\ locked' \in BOOLEAN
  BY DEF Seal, Types
<1>4. QED
  BY <1>1, <1>2, <1>3, QuietStep

\* The store is committed.
LEMMA CommitStep ==
  ASSUME IInv, Commit
  PROVE  IInv'
<1> USE DEF IInv
<1>1. db' = db /\ disk' = db /\ db \in Database /\ db.epoch \in Nat
  BY DEF Commit, Types, Database, Epoch
<1>2. Store(db)' /\ Store(disk)'
  BY <1>1 DEF Store
<1>3. /\ disk'.epoch = db'.epoch /\ disk.epoch <= disk'.epoch
      /\ disk.own \subseteq disk'.own /\ disk'.own \subseteq db'.own /\ db'.own \subseteq Ever
  BY <1>1 DEF Epochs, Ever
<1>4. job = Resting /\ UNCHANGED <<files, job, peers, life>> /\ locked' \in BOOLEAN
  BY DEF Commit, Types
<1>5. QED
  BY <1>1, <1>2, <1>3, <1>4, QuietStep

\* createEvent gives up.
LEMMA LockStep ==
  ASSUME IInv, Lock
  PROVE  IInv'
<1> USE DEF IInv
<1>1. db' = db /\ disk' = disk /\ db \in Database /\ disk \in Database /\ disk.epoch \in Nat
  BY DEF Lock, Types, Database, Epoch
<1>2. Store(db)' /\ Store(disk)'
  BY <1>1 DEF Store
<1>3. /\ disk'.epoch = db'.epoch /\ disk.epoch <= disk'.epoch
      /\ disk.own \subseteq disk'.own /\ disk'.own \subseteq db'.own /\ db'.own \subseteq Ever
  BY <1>1 DEF Epochs, Ever
<1>4. job = Resting /\ UNCHANGED <<files, job, peers, life>> /\ locked' \in BOOLEAN
  BY DEF Lock
<1>5. QED
  BY <1>1, <1>2, <1>3, <1>4, QuietStep

\* The rest of processEvent: the event stays the one that is being emitted.
LEMMA ProcessStep ==
  ASSUME IInv, Process
  PROVE  IInv'
<1> USE DEF IInv
<1>1. /\ db' \in Database /\ disk' \in Database /\ Store(db)' /\ Store(disk)'
      /\ disk'.epoch = db'.epoch /\ db.epoch <= disk'.epoch
      /\ disk.own \subseteq disk'.own /\ disk'.own \subseteq db'.own /\ db'.own = db.own
  <2>1. /\ db \in Database /\ disk \in Database /\ disk.epoch = db.epoch
        /\ disk.own \subseteq db.own /\ EndEvent(db)
    BY DEF Types, Epochs, Process
  <2>2. QED
    BY <2>1, EndEventIs
<1>2. /\ job.step = "process" /\ job' = [job EXCEPT !.step = "event"]
      /\ UNCHANGED <<files, peers, life, locked>>
  BY DEF Process
<1>3. Busy /\ job \in [step : {"process", "event", "votes", "send"}, event : db.own]
  <2>1. job # Resting
    BY <1>2 DEF Resting
  <2>2. QED
    BY <2>1 DEF Busy, Types
<1>4. Busy' /\ job'.step = "event" /\ job'.event = job.event
      /\ job' \in [step : {"process", "event", "votes", "send"}, event : db.own]
  BY <1>2, <1>3 DEF Busy, Resting
<1>5. Types'
  BY <1>1, <1>2, <1>4 DEF Types, files, peers
<1>6. Epochs'
  <2>1. disk.epoch = db.epoch /\ \A e \in eventFile : e.epoch <= db.epoch
    BY DEF Epochs
  <2>2. db.epoch \in Nat /\ disk'.epoch \in Nat /\ \A e \in eventFile : e.epoch \in Nat
    BY <1>1 DEF Types, Database, Event, Epoch
  <2>3. QED
    BY <1>1, <1>2, <2>1, <2>2 DEF Epochs, files
<1>7. Emitting'
  <2>1. /\ \A g \in eventFile : g.epoch < job.event.epoch \/ Under(g, job.event)
        /\ VoteOf(job.event) = 0 \/ VoteOf(job.event) > votesFile
        /\ job.event \in net => Leaked(job.event) /\ LeakedVotes(job.event)
    BY <1>2, <1>3 DEF Emitting
  <2>2. QED
    BY <1>2, <1>4, <2>1 DEF Emitting, files, peers, Under, Below, VoteOf, Leaked, LeakedVotes
<1>8. Ever' = Ever /\ Ever \subseteq Event
  BY <1>1, <1>2 DEF Ever, peers, Types, Database
<1>9. Memory'
  <2>1. /\ \A f \in Event : Known(f) => Known(f)'
        /\ \A f \in Event : VoteKnown(f) => VoteKnown(f)'
    BY <1>1, <1>2, <1>5, KnownKept DEF peers, Epochs
  <2>2. QED
    BY <1>2, <1>4, <1>8, <2>1 DEF Memory
<1>10. Forks' /\ Votes'
  BY <1>2, <1>8, PairsKept DEF peers
<1>11. QED
  BY <1>1, <1>5, <1>6, <1>7, <1>9, <1>10

\* The event is written over the one that it is on top of: what was below that is below it.
LEMMA WriteEventStep ==
  ASSUME IInv, WriteEvent
  PROVE  IInv'
<1> USE DEF IInv
<1> DEFINE e == job.event
<1>1. /\ job.step = "event" /\ job' = [job EXCEPT !.step = "votes"] /\ eventFile' = {e}
      /\ UNCHANGED <<db, disk, votesFile, peers, life, locked>>
  BY DEF WriteEvent
<1>2. Busy /\ job \in [step : {"process", "event", "votes", "send"}, event : db.own]
  <2>1. job # Resting
    BY <1>1 DEF Resting
  <2>2. QED
    BY <2>1 DEF Busy, Types
<1>3. Busy' /\ job'.step = "votes" /\ job'.event = e
      /\ job' \in [step : {"process", "event", "votes", "send"}, event : db.own]
  BY <1>1, <1>2 DEF Busy, Resting
<1>4. e \in Event /\ e \in db.own /\ e.epoch <= db.epoch /\ Len(e.chain) \in 1 .. MaxSeq
  BY <1>2 DEF Types, Database, Store
<1>5. Types'
  BY <1>1, <1>3, <1>4 DEF Types, peers
<1>6. Store(db)' /\ Store(disk)' /\ Epochs'
  BY <1>1, <1>4 DEF Store, Epochs
<1>7. Emitting'
  <2>1. /\ VoteOf(e) = 0 \/ VoteOf(e) > votesFile
        /\ e \in net => LeakedVotes(e)
    BY <1>1, <1>2 DEF Emitting
  <2>2. QED
    BY <1>1, <1>3, <2>1 DEF Emitting, peers, VoteOf, LeakedVotes
<1>8. Ever' = Ever /\ Ever \subseteq Event
  BY <1>1 DEF Ever, peers, Types, Database
<1>9. ASSUME NEW f \in Ever
      PROVE  Known(f)'
  <2>1. f \in Event /\ f.epoch \in Nat /\ disk.epoch = db.epoch /\ db.epoch \in Nat /\ e.epoch \in Nat
    BY <1>4, <1>8 DEF Event, Epoch, Epochs, Types, Database
  <2>2. CASE f = e
    <3>1. Under(e, e)
      BY <1>4, UnderReflexive
    <3>2. QED
      BY <1>1, <2>2, <3>1 DEF Known, Under, Below
  <2>3. CASE Known(f)
    <3>1. CASE f \in disk.own \/ f.epoch < disk.epoch \/ Leaked(f)
      BY <1>1, <3>1 DEF Known, Leaked, peers
    <3>2. CASE \E g \in eventFile : Under(f, g)
      <4>1. PICK g \in eventFile : Under(f, g)
        BY <3>2
      <4>2. g \in Event /\ g.epoch = f.epoch
        BY <4>1 DEF Types, Under, Below
      <4>3. g.epoch < e.epoch \/ Under(g, e)
        BY <1>1, <1>2 DEF Emitting
      <4>4. CASE g.epoch < e.epoch
        BY <1>1, <1>4, <2>1, <4>2, <4>4 DEF Known
      <4>5. CASE Under(g, e)
        <5>1. Under(f, e)
          BY <1>4, <2>1, <4>1, <4>2, <4>5, UnderTransitive
        <5>2. QED
          BY <1>1, <5>1 DEF Known, Under, Below
      <4>6. QED
        BY <4>3, <4>4, <4>5
    <3>3. QED
      BY <2>3, <3>1, <3>2 DEF Known
  <2>4. QED
    BY <2>2, <2>3 DEF Memory
<1>10. Memory'
  <2>1. \A f \in Ever : VoteKnown(f)' \/ f = e
    BY <1>1 DEF Memory, VoteKnown, VoteOf, LeakedVotes, peers
  <2>2. QED
    BY <1>3, <1>8, <1>9, <2>1 DEF Memory
<1>11. Forks' /\ Votes'
  BY <1>1, <1>8, PairsKept DEF peers
<1>12. QED
  BY <1>5, <1>6, <1>7, <1>10, <1>11

\* The file of the votes only goes up.
LEMMA WriteVotesStep ==
  ASSUME IInv, WriteVotes
  PROVE  IInv'
<1> USE DEF IInv
<1> DEFINE e == job.event
<1>1. /\ job.step = "votes" /\ job' = [job EXCEPT !.step = "send"]
      /\ votesFile' = IF VoteOf(e) # 0 THEN VoteOf(e) ELSE votesFile
      /\ UNCHANGED <<db, disk, eventFile, peers, life, locked>>
  BY DEF WriteVotes
<1>2. Busy /\ job \in [step : {"process", "event", "votes", "send"}, event : db.own]
  <2>1. job # Resting
    BY <1>1 DEF Resting
  <2>2. QED
    BY <2>1 DEF Busy, Types
<1>3. Busy' /\ job'.step = "send" /\ job'.event = e
      /\ job' \in [step : {"process", "event", "votes", "send"}, event : db.own]
  BY <1>1, <1>2 DEF Busy, Resting
<1>4. e \in Event /\ e \in db.own /\ VoteOf(e) \in Vote /\ VoteOf(e) \in Nat
  BY <1>2, VoteOfIs DEF Types, Database
<1>5. votesFile \in Nat /\ votesFile' \in Vote /\ votesFile' \in Nat
      /\ votesFile <= votesFile' /\ VoteOf(e) <= votesFile'
  <2>1. VoteOf(e) = 0 \/ VoteOf(e) > votesFile
    BY <1>1, <1>2 DEF Emitting
  <2>2. votesFile \in Vote /\ votesFile \in Nat
    BY VotesAreNumbers DEF Types
  <2>3. QED
    BY <1>1, <1>4, <2>1, <2>2
<1>6. Types'
  BY <1>1, <1>3, <1>5 DEF Types, peers
<1>7. Store(db)' /\ Store(disk)' /\ Epochs'
  BY <1>1 DEF Store, Epochs
<1>8. Emitting'
  <2>1. eventFile = {e}
    BY <1>1, <1>2 DEF Emitting
  <2>2. QED
    BY <1>1, <1>3, <1>5, <2>1 DEF Emitting, VoteOf
<1>9. Ever' = Ever /\ Ever \subseteq Event
  BY <1>1 DEF Ever, peers, Types, Database
<1>10. Memory'
  <2>1. ASSUME NEW f \in Ever
        PROVE  Known(f)'
    BY <1>1, <2>1 DEF Memory, Known, Leaked, Under, Below, peers
  <2>2. ASSUME NEW f \in Ever
        PROVE  VoteKnown(f)'
    <3>1. CASE f = e
      BY <1>5, <3>1 DEF VoteKnown, VoteOf
    <3>2. CASE VoteKnown(f)
      <4>1. VoteOf(f) \in Nat
        BY <1>9, VoteOfIs DEF Ever, Types
      <4>2. QED
        BY <1>1, <1>5, <3>2, <4>1 DEF VoteKnown, VoteOf, LeakedVotes, peers
    <3>3. QED
      BY <3>1, <3>2 DEF Memory
  <2>3. QED
    BY <1>9, <2>1, <2>2 DEF Memory
<1>11. Forks' /\ Votes'
  BY <1>1, <1>9, PairsKept DEF peers
<1>12. QED
  BY <1>6, <1>7, <1>8, <1>10, <1>11

\* The event, which both files tell of by now, goes to the peers.
LEMMA BroadcastStep ==
  ASSUME IInv, Broadcast
  PROVE  IInv'
<1> USE DEF IInv
<1> DEFINE e == job.event
<1>1. /\ job.step = "send" /\ job' = Resting /\ net' = net \cup {e}
      /\ UNCHANGED <<db, disk, files, premature, life, locked>>
  BY DEF Broadcast
<1>2. Busy /\ job \in [step : {"process", "event", "votes", "send"}, event : db.own]
  <2>1. job # Resting
    BY <1>1 DEF Resting
  <2>2. QED
    BY <2>1 DEF Busy, Types
<1>3. e \in Event /\ e \in db.own /\ Len(e.chain) \in 1 .. MaxSeq
  BY <1>2 DEF Types, Database
<1>4. Types'
  BY <1>1, <1>3 DEF Types, files
<1>5. Store(db)' /\ Store(disk)' /\ Epochs' /\ Emitting'
  BY <1>1 DEF Store, Epochs, Emitting, Busy, files
<1>6. Ever' = Ever /\ Ever \subseteq Event
  BY <1>1, <1>3 DEF Ever, Types, Database
<1>7. Memory'
  <2>1. \A f \in Ever : Known(f) /\ VoteKnown(f)
    BY <1>1 DEF Memory
  <2>2. /\ \A f \in Event : Known(f) => Known(f)'
        /\ \A f \in Event : VoteKnown(f) => VoteKnown(f)'
    BY <1>1, <1>4, disk.epoch \in Nat, KnownKept DEF Types, Database, Epoch
  <2>3. QED
    BY <1>6, <2>1, <2>2 DEF Memory
<1>8. Forks' /\ Votes'
  BY <1>1, <1>6, PairsKept
<1>9. QED
  BY <1>4, <1>5, <1>7, <1>8

\* A peer fetches an event: if it is the one that is being emitted, it is noted when.
LEMMA ServeStep ==
  ASSUME IInv, NEW e \in db.own, Serve(e)
  PROVE  IInv'
<1> USE DEF IInv
<1>1. /\ net' = net \cup {e} /\ e \notin net
      /\ premature' = IF Busy /\ job.event = e THEN premature \cup {<<job.step, e>>} ELSE premature
      /\ UNCHANGED <<db, disk, files, job, life, locked>>
  BY DEF Serve, Busy
<1>2. e \in Event /\ Len(e.chain) \in 1 .. MaxSeq
  BY DEF Types, Database
<1>3. Types'
  <2>1. Busy => job.step \in {"process", "event", "votes", "send"}
    BY DEF Types, Busy
  <2>2. premature' \in SUBSET ({"process", "event", "votes", "send"} \X net')
    BY <1>1, <2>1 DEF Types
  <2>3. QED
    BY <1>1, <1>2, <2>2 DEF Types, files
<1>4. Store(db)' /\ Store(disk)' /\ Epochs'
  BY <1>1 DEF Store, Epochs, files
<1>5. premature \subseteq premature'
  BY <1>1
<1>6. Emitting'
  <2>1. ASSUME Busy
        PROVE  /\ job.event \in net' /\ job.step \in {"process", "event"} => Leaked(job.event)'
               /\ job.event \in net' /\ job.step # "send" => LeakedVotes(job.event)'
    <3>1. job.step \in {"process", "event", "votes", "send"}
      BY <2>1 DEF Types, Busy
    <3>2. CASE job.event = e
      BY <1>1, <2>1, <3>1, <3>2 DEF Leaked, LeakedVotes
    <3>3. CASE job.event # e
      BY <1>1, <2>1, <3>3 DEF Emitting, Leaked, LeakedVotes
    <3>4. QED
      BY <3>2, <3>3
  <2>2. QED
    BY <1>1, <2>1 DEF Emitting, Busy, files, Under, Below, VoteOf
<1>7. Ever' = Ever /\ Ever \subseteq Event
  BY <1>1 DEF Ever, Types, Database
<1>8. Memory'
  <2>1. /\ \A f \in Event : Known(f) => Known(f)'
        /\ \A f \in Event : VoteKnown(f) => VoteKnown(f)'
    BY <1>1, <1>3, <1>5, disk.epoch \in Nat, KnownKept DEF Types, Database, Epoch
  <2>2. QED
    BY <1>1, <1>7, <2>1 DEF Memory, Busy
<1>9. Forks' /\ Votes'
  BY <1>5, <1>7, PairsKept
<1>10. QED
  BY <1>3, <1>4, <1>6, <1>8, <1>9

\* A crash takes from the store what has not been committed. What peers have, the files tell of,
\* or it has leaked.
LEMMA CrashStep ==
  ASSUME IInv, Crash
  PROVE  IInv'
<1> USE DEF IInv
<1>1. /\ db' = disk /\ job' = Resting /\ life' = life + 1 /\ life < MaxCrashes
      /\ UNCHANGED <<disk, files, peers, locked>>
  BY DEF Crash
<1>2. Types'
  BY <1>1, EmitterAssumption DEF Types, files, peers, Life
<1>3. Store(db)' /\ Store(disk)' /\ Epochs' /\ Emitting'
  BY <1>1 DEF Store, Epochs, Emitting, Busy, files
<1>4. Ever' \subseteq Ever /\ Ever \subseteq Event
  BY <1>1 DEF Ever, peers, Types, Database, Epochs
<1>5. Memory'
  <2>1. ASSUME NEW f \in Ever'
        PROVE  Known(f) /\ VoteKnown(f)
    <3>1. CASE f \in disk.own
      BY <3>1 DEF Known, VoteKnown
    <3>2. CASE f \in net
      BY <1>4, <3>2 DEF Memory, Emitting, Known, VoteKnown
    <3>3. QED
      BY <1>1, <3>1, <3>2 DEF Ever, peers
  <2>2. /\ \A f \in Event : Known(f) => Known(f)'
        /\ \A f \in Event : VoteKnown(f) => VoteKnown(f)'
    BY <1>1, <1>2, disk.epoch \in Nat, KnownKept DEF peers, Types, Database, Epoch
  <2>3. QED
    BY <1>4, <2>1, <2>2 DEF Memory
<1>6. Forks' /\ Votes'
  BY <1>1, <1>4, PairsKept DEF peers
<1>7. QED
  BY <1>2, <1>3, <1>5, <1>6

----------------------------------------------------------------------------
(* Theorems *)

\* A validator that has emitted nothing has nothing to forget.
LEMMA InitIInv == Init => IInv
<1> SUFFICES ASSUME Init
             PROVE  IInv
  OBVIOUS
<1> USE EmitterAssumption DEF Init
<1>1. Fresh \in Database
  <2>1. <<>> \in Seq(Link)
    BY EmptySeq
  <2>2. QED
    BY <2>1 DEF Fresh, Database, Epoch, Vote
<1>2. Types
  <2>1. db \in Database /\ disk \in Database
    BY <1>1
  <2>2. votesFile \in Vote /\ life \in Life
    BY DEF Vote, Life
  <2>3. db.own \cup disk.own \cup net \cup eventFile = {}
    BY DEF Fresh
  <2>4. QED
    BY <2>1, <2>2, <2>3 DEF Types
<1>3. Store(db) /\ Store(disk) /\ Epochs
  BY DEF Store, Epochs, Fresh
<1>4. Emitting /\ Memory /\ Forks /\ Votes
  BY DEF Emitting, Busy, Memory, Forks, Votes, Ever, Fresh
<1>5. QED
  BY <1>2, <1>3, <1>4 DEF IInv

\* Every step preserves the invariant.
LEMMA NextIInv == IInv /\ [Next]_vars => IInv'
<1> SUFFICES ASSUME IInv, [Next]_vars
             PROVE  IInv'
  OBVIOUS
<1>1. CASE EmitEvent
  BY <1>1, CreateStep, LockStep, ProcessStep, WriteEventStep, WriteVotesStep, BroadcastStep
     DEF EmitEvent
<1>2. CASE Around
  BY <1>2, ServeStep, ReceiveStep, SealStep, CommitStep DEF Around
<1>3. CASE Crash
  BY <1>3, CrashStep
<1>4. CASE UNCHANGED vars
  <2>1. UNCHANGED <<db, disk, eventFile, votesFile, job, net, premature, life, locked>>
    BY <1>4 DEF vars
  <2>2. Types' /\ Store(db)' /\ Store(disk)' /\ Epochs' /\ Emitting'
    BY <2>1 DEF IInv, Types, Store, Epochs, Emitting, Busy, Under, Below, VoteOf, Leaked, LeakedVotes
  <2>3. Memory'
    BY <2>1 DEF IInv, Memory, Known, VoteKnown, Busy, Under, Below, VoteOf, Leaked, LeakedVotes, Ever
  <2>4. Forks' /\ Votes'
    BY <2>1, PairsKept DEF IInv, Ever
  <2>5. QED
    BY <2>2, <2>3, <2>4 DEF IInv
<1>5. QED
  BY <1>1, <1>2, <1>3, <1>4 DEF Next

\* The inductive invariant holds in every state.
THEOREM Invariance == Spec => []IInv
BY InitIInv, NextIInv, PTL DEF Spec

\* Types; and the store that is committed is never an epoch behind, so that the file is never ahead
\* of the epoch to which a crash takes the store back.
THEOREM Typing == Spec => []TypeOK
<1>1. IInv => TypeOK
  <2> SUFFICES ASSUME IInv
               PROVE  TypeOK
    OBVIOUS
  <2> USE DEF IInv
  <2>1. \A e \in db.own \cup disk.own \cup net \cup eventFile : IsEvent(e)
    BY DEF Types, Database, IsEvent
  <2>2. ASSUME NEW d, d \in Database, Store(d), \A e \in d.own : IsEvent(e)
        PROVE  StoreOK(d)
    BY <2>2 DEF StoreOK, Store, Database
  <2>3. StoreOK(db) /\ StoreOK(disk)
    BY <2>1, <2>2 DEF Types
  <2>4. \A e \in eventFile : IsEvent(e) /\ e.epoch <= disk.epoch /\ eventFile = {e}
    BY <2>1 DEF Types, Epochs
  <2>5. job = Resting \/ (job.step \in {"process", "event", "votes", "send"} /\ job.event \in db.own)
    BY DEF Types
  <2>6. \A s \in premature : s[1] \in {"process", "event", "votes", "send"} /\ s[2] \in net
    BY DEF Types
  <2>7. QED
    BY <2>1, <2>3, <2>4, <2>5, <2>6 DEF TypeOK, Types, Epochs
<1>2. QED
  BY <1>1, Invariance, PTL

\* Peers never have two events of the validator with one self-parent, over any crashes and epochs,
\* unless one of them was fetched from the store before its ID was in the file.
THEOREM Doublesign == Spec => []DoublesignNeedsLeak
<1>1. IInv => DoublesignNeedsLeak
  BY DEF IInv, Forks, Ever, Leaked, DoublesignNeedsLeak
<1>2. QED
  BY <1>1, Invariance, PTL

\* While nothing is being emitted, what peers have is remembered; and so it is meanwhile, as what is
\* being emitted either has been written or leaks. Votes reach them once.
THEOREM Memorable == Spec => []NothingForgotten
<1>1. IInv => NothingForgotten
  <2> SUFFICES ASSUME IInv
               PROVE  NothingForgotten
    OBVIOUS
  <2>1. ASSUME NEW e \in net
        PROVE  Known(e)
    BY DEF IInv, Memory, Emitting, Known, Ever
  <2>2. Remembered
    BY <2>1 DEF Known, Remembered, Under, Leaked
  <2>3. VotesOnce
    BY DEF IInv, Votes, Ever, LeakedVotes, VotesOnce
  <2>4. QED
    BY <2>2, <2>3 DEF NothingForgotten
<1>2. QED
  BY <1>1, Invariance, PTL
=============================================================================
